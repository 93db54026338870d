---------------------------- MODULE MCAlgorithms ----------------------------
(***************************************************************************)
(* Small inputs for the small algorithms.                                  *)
(***************************************************************************)
EXTENDS Algorithms

\* Tables of up to two symbols, also behind empty ones, and longer ones.
MCSymbolTables ==
  LET S == [entry : 0 .. 4, size : 0 .. 2]
      Sy(e, s) == [entry |-> e, size |-> s]
      long == <<Sy(1, 1), Sy(2, 2), Sy(4, 1), Sy(6, 1), Sy(7, 1)>>
  IN {t \in UNION {[1 .. n -> S] : n \in 0 .. 2} : IsTable(t)}
     \cup {SubSeq(long, 1, n) : n \in 3 .. 5}
     \cup {long \o <<Sy(9, 1)>>, long \o <<Sy(9, 1), Sy(0, 0)>>}

\* "devparts" is looked for: "olddevparts" ends with it, "devparts2" does not.
MCOccurs(key, devpartname) ==
  CASE key \in {devpartname, "old" \o devpartname} -> "end"
    [] key = devpartname \o "2" -> "inside"
    [] OTHER -> "not"

PartTexts ==
  LET PartSize == {1, 2, 3, FillUp}
      Pt(s, n) == [size |-> s, name |-> n, closed |-> TRUE]
      Some == {Pt(s, n) : s \in PartSize, n \in {"boot", "kernel"}}
  IN UNION {[1 .. n -> Some] : n \in 1 .. 3}

MCPartInputs ==
  LET Word(k, v) == [key |-> k, value |-> v]
      Dev(m, p) == [media |-> m, parts |-> p]
      Opened(p) == [p EXCEPT ![Len(p)].closed = FALSE]
      data == <<[size |-> 4, name |-> "boot", closed |-> TRUE]>>
      Values(p) == {<<Dev("mmc", p)>>, <<Dev("nand", data), Dev("mmc", p)>>,
                    <<Dev("mmc", p), Dev("mmc", data)>>, <<Dev("mmc", Opened(p))>>}
      other == <<Dev("mmc", data)>>
  IN UNION {UNION {{<<Word("mem", <<>>), Word("devparts", v)>>,
                    <<Word("olddevparts", v), Word("devparts", other)>>,
                    <<Word("devparts", v), Word("devparts2", other)>>,
                    <<Word("devparts2", other), Word("devparts", v)>>}
                   : v \in Values(p)} : p \in PartTexts}

MCMergeInputs ==
  LET W == {[name |-> "a", val |-> None, nr |-> 1, quotes |-> 0],
            [name |-> "a", val |-> "x", nr |-> 3, quotes |-> 0],
            [name |-> "b", val |-> "x", nr |-> 3, quotes |-> 2],
            [name |-> "c", val |-> "y", nr |-> 4, quotes |-> 0]}
      T(n, b) == {[words |-> t, blanks |-> k] : t \in UNION {[1 .. m -> W] : m \in 0 .. n},
                                                 k \in 0 .. b}
  IN {[args |-> x, merge |-> y] : x \in T(2, 1), y \in T(3, 1)}
=============================================================================
