----------------------------- MODULE MCPlatform -----------------------------
(***************************************************************************)
(* Small instances for the parts of the platform.                          *)
(***************************************************************************)
EXTENDS Platform

\* Two timers share a line of which one is a clock source; another one has a
\* line for itself, and one a line the table has no room for.
CONSTANTS t2, t3, t4, t5
MCTimers == {t2, t3, t4, t5}
MCIrqNr == [t \in MCTimers |-> CASE t = t4 -> 2 [] t = t5 -> 3 [] OTHER -> 1]
MCSources == {t2, t4, t5}
MCShared == 0 .. 3

CONSTANTS p1, p2, p3, p4
MCPtrs == {p1, p2, p3, p4}
MCHushIndex == [p \in MCPtrs |-> IF p = p4 THEN 2 ELSE 0]

\* Programs that end before, at and behind a mebibyte; memories of the boards
\* that exist, and smaller ones.
MCLayoutInputs ==
  LET text == 12 * MiB IN
  [prog : {[text |-> text, textEnd |-> text + e, bssEnd |-> text + e + b, odd |-> o]
             : e \in {1, 40}, b \in {1, 88, 88 + MiB}, o \in SUBSET {"textEnd", "bssEnd"}},
   ddr : {m * MiB : m \in {16, 64, 128, 192, 256, 512, 768, 1024, 1536, 2048, 3072, 4096}}]

\* Two slots and six bytes: the third parameter is one too many; two lengths
\* run over the first slot, a long one over both.
MCCalls ==
  LET Call(n, l, k, v, x) ==
        [name |-> n, long |-> l, length |-> k, value |-> v, alike |-> x]
      Some == {Call("a", FALSE, 1, 1, TRUE), Call("a", FALSE, 3, 2, FALSE),
               Call("b", FALSE, 2, 3, FALSE), Call("b", FALSE, 4, 4, TRUE),
               Call("c", FALSE, 17, 5, FALSE), Call("toolong_", TRUE, 2, 6, FALSE)}
  IN UNION {[1 .. n -> Some] : n \in 0 .. 3}

MCTagInputs == [calls : MCCalls, args : 0 .. 4, sdk : 20 .. 21]
=============================================================================
