-------------------------------- MODULE Args --------------------------------
(***************************************************************************)
(* The boot arguments of the kernel: merge_args of common/params.c adds to *)
(* one text the parameters of another that it does not have.               *)
(*                                                                         *)
(* A text is [words, blanks]: its parameters, and the blanks it has beside *)
(* one between two parameters.  A word is [name, val, nr, quotes]: its     *)
(* name, its value or None, the characters of both with the '=', and those *)
(* of the quotes around it, which next_arg takes away.                     *)
(***************************************************************************)
EXTENDS Integers, Sequences

CONSTANT MaxPv         \* max_pv, 200: parameters looked at in each text

None == "no value"

ASSUME ArgsAssumption == MaxPv \in Nat

Texts == [words : Seq([name : STRING, val : STRING, nr : Nat, quotes : Nat]), blanks : Nat]

\* strlen
Length(text) ==
  LET upTo[n \in 0 .. Len(text.words)] ==
        IF n = 0 THEN text.blanks
        ELSE upTo[n - 1] + text.words[n].nr + text.words[n].quotes
  IN upTo[Len(text.words)] + (IF text.words = <<>> THEN 0 ELSE Len(text.words) - 1)

\* parse_args: what lies beyond the table is not seen.
ParseArgs(text) == SubSeq(text.words, 1, IF Len(text.words) < MaxPv THEN Len(text.words) ELSE MaxPv)

\* find_param_val: equal or in conflict, both of which keep the word out.
FindParam(pv, w) == \E i \in DOMAIN pv : pv[i].name = w.name

\* Mutation: only one of the two ends of text is counted.
SizeOneEnd(args, merge) == Length(args) + Length(merge) + 1

\* nr_args + nr_args_merge, the size of cmdline with its zero
BufferSize(args, merge) == (Length(args) + 1) + (Length(merge) + 1)

\* One round of the loop.  The blank in front is left out as long as cmdline
\* is empty.
Merged(cmdline, args, w) ==
  IF FindParam(ParseArgs(args), w) THEN cmdline
  ELSE [words |-> Append(cmdline.words, w),
        nr    |-> cmdline.nr + w.nr + (IF cmdline.nr = 0 THEN 0 ELSE 1)]

\* merge_args
MergeArgs(args, merge) ==
  LET pv == ParseArgs(merge)
      cmdline[n \in 0 .. Len(pv)] ==
        IF n = 0 THEN [words |-> args.words, nr |-> Length(args)]
        ELSE Merged(cmdline[n - 1], args, pv[n])
  IN cmdline[Len(pv)]

-----------------------------------------------------------------------------
(* Properties *)

Names(words) == {words[i].name : i \in DOMAIN words}
Distinct(words) == \A i, j \in DOMAIN words : words[i].name = words[j].name => i = j

\* The merged text, with the zero behind it, fits into its buffer: at worst it
\* fills it to the last byte.
MergeFits(args, merge) == MergeArgs(args, merge).nr + 1 <= BufferSize(args, merge)

\* While no text has more parameters than the table, none is lost, the first
\* text keeps its values, and what was there once is there once.
MergeOnce(args, merge) ==
  LET words == MergeArgs(args, merge).words IN
  Len(args.words) <= MaxPv /\ Len(merge.words) <= MaxPv =>
    /\ Names(words) = Names(args.words) \cup Names(merge.words)
    /\ \A i \in DOMAIN words : words[i].name \in Names(args.words) =>
         \E j \in DOMAIN args.words : words[i] = args.words[j]
    /\ Distinct(args.words) /\ Distinct(merge.words) => Distinct(words)
=============================================================================
