------------------------------- MODULE Parts -------------------------------
(***************************************************************************)
(* Where a partition lies: devpart_duplicate of drivers/flash/parts.c and  *)
(* find_flash_part of drivers/flash/find_parts.c, which read it from a     *)
(* boot argument such as                                                   *)
(*    blkdevparts=mmcblk0:2M(boot),40M(kernel),-(rest);hinand:8M(data)     *)
(*                                                                         *)
(* A text is the sequence of its parts: boot arguments are words [key,     *)
(* value], split at the '=' in front of the value; the value is a sequence *)
(* of devices [media, parts]; a part is [size, name, closed].  A name      *)
(* without its bracket reaches up to the next one, so that only the last   *)
(* part of a text can be open.                                             *)
(***************************************************************************)
EXTENDS Integers, Sequences, SequencesExt

FillUp == -1           \* '-', (uint64)(-1)

CONSTANTS
  MinPart,             \* 8192
  Occurs(_, _)         \* where a name occurs first in a key: at its "end",
                       \* in front of the '=', or "inside"; or it does "not"

ASSUME PartsAssumption == MinPart \in Nat

\* The boot arguments as they are written.
PartTables == Seq([size : Nat \cup {FillUp}, name : STRING, closed : BOOLEAN])
Devices == Seq([media : STRING, parts : PartTables])
BootArgs == Seq([key : STRING, value : Devices])

Mentions(w, devpartname) == Occurs(w.key, devpartname) # "not"

\* devpart_duplicate: strstr finds the first word the name occurs in.  If a '='
\* follows the name, its value is taken, also when the key only ends with the
\* name; if not, there is nothing to find, whatever words come after.
DevPart(bootargs, devpartname) ==
  LET first == SelectInSeq(bootargs, LAMBDA w : Mentions(w, devpartname)) IN
  IF first # 0 /\ Occurs(bootargs[first].key, devpartname) = "end"
  THEN bootargs[first].value ELSE <<>>

\* Mutation: the length is added before it is looked at whether more follow.
StartOfNext(acc, part) == acc.start + part.size

\* (*start) += (*length)
StartOf(acc, part) == acc.start + acc.length

\* find_part for the part at i; ret is 1 - find, 0 - not find, -1 - error.
\* A size that is too small, a name without its bracket and anything behind a
\* fill-up partition are errors, also when the name has been found.
OnePart(parts, name, acc, i) ==
  LET part == parts[i] IN
  [ret    |-> IF \/ part.size # FillUp /\ part.size < MinPart
                 \/ ~part.closed
                 \/ part.size = FillUp /\ i < Len(parts)
              THEN -1 ELSE IF part.name = name THEN 1 ELSE 0,
   start  |-> StartOf(acc, part),
   length |-> part.size]

NotFound == [ret |-> 0, start |-> 0, length |-> 0]

FindPart(parts, name) ==
  LET found[i \in 0 .. Len(parts)] ==
        IF i = 0 THEN NotFound
        ELSE IF found[i - 1].ret # 0 THEN found[i - 1]
        ELSE OnePart(parts, name, found[i - 1], i)
  IN found[Len(parts)]

\* A later table of the same device is read only if the name is not in the
\* earlier one, and begins again at 0.
FindFlashPart(devices, media, name) ==
  LET found[d \in 0 .. Len(devices)] ==
        IF d = 0 THEN NotFound
        ELSE IF found[d - 1].ret # 0 \/ devices[d].media # media THEN found[d - 1]
        ELSE FindPart(devices[d].parts, name)
  IN found[Len(devices)]

FlashFindPart(bootargs, devpartname, media, name) ==
  FindFlashPart(DevPart(bootargs, devpartname), media, name)

-----------------------------------------------------------------------------
(* Properties *)

Valid(parts) ==
  \A i \in DOMAIN parts :
    /\ parts[i].closed
    /\ IF parts[i].size = FillUp THEN i = Len(parts) ELSE parts[i].size >= MinPart

\* The partitions of a device that is described once, without errors, are
\* found: they begin at 0, leave no hole, are as long as the text says, and do
\* not overlap.  The text is that of the first word the name occurs in, when a
\* '=' follows it there.
PartsTile(bootargs, devpartname, media) ==
  \A w \in DOMAIN bootargs : \A d \in DOMAIN bootargs[w].value :
    LET devices == bootargs[w].value
        parts == devices[d].parts
        Of(i) == FlashFindPart(bootargs, devpartname, media, parts[i].name)
        Once(i) == \A j \in DOMAIN parts : j < i => parts[j].name # parts[i].name
    IN /\ \A v \in DOMAIN bootargs : v < w => ~Mentions(bootargs[v], devpartname)
       /\ Occurs(bootargs[w].key, devpartname) = "end"
       /\ {e \in DOMAIN devices : devices[e].media = media} = {d}
       /\ Valid(parts)
       => \A i \in DOMAIN parts : Once(i) =>
            /\ Of(i).ret = 1 /\ Of(i).length = parts[i].size
            /\ i = 1 => Of(i).start = 0
            /\ \A j \in DOMAIN parts :
                 j = i + 1 /\ Once(j) => Of(j).start = Of(i).start + Of(i).length
=============================================================================
