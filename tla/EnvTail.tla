------------------------------ MODULE EnvTail ------------------------------
(***************************************************************************)
(* find_env_tail of common/env_set.c: the binary search for the end of the *)
(* items in a buffer read from the flash.  The midpoint is computed from   *)
(* halved addresses, (ptr0 >> 1) + (ptr1 >> 1), which is one too low when  *)
(* both are odd, so the search depends on the address of the buffer.       *)
(*                                                                         *)
(* A buffer is abstracted to the bytes that are not zero.                  *)
(***************************************************************************)
EXTENDS Integers

CONSTANTS
  Size,      \* sz_str
  Base       \* the address of the buffer

ASSUME TailAssumption == Size \in Nat /\ Size >= 2 /\ Base \in Nat

VARIABLES
  text,      \* for each byte of the buffer, whether it is not zero
  ptr0, ptr1, ptr,   \* the pointers of the search, as offsets in the buffer
  tailPc, tail

tailVars == <<text, ptr0, ptr1, ptr, tailPc, tail>>

Pos == 0 .. Size - 1

\* !(ptr[0] | ptr[1])
Pair(p) == ~text[p] /\ ~text[p + 1]

\* What env_set and env_clear leave: no item is empty, so that two zeros in a
\* row, or one in front, are followed by zeros only.
Packed ==
  /\ \A p \in 0 .. Size - 2, i \in Pos : Pair(p) /\ i >= p => ~text[i]
  /\ ~text[0] => \A i \in Pos : ~text[i]

TailInit ==
  /\ text \in [Pos -> BOOLEAN]
  /\ Packed
  /\ ptr0 = 0 /\ ptr1 = Size - 1 /\ ptr = 0
  /\ tailPc = "ends" /\ tail = 0

\* The two early returns.
Ends ==
  /\ tailPc = "ends"
  /\ \/ /\ Pair(0)
        /\ tail' = ptr0 /\ tailPc' = "done"
     \/ /\ ~Pair(0)
        /\ text[Size - 1] \/ text[Size - 2]
        /\ tail' = ptr1 + 1 /\ tailPc' = "done"
     \/ /\ ~Pair(0) /\ Pair(Size - 2)
        /\ tailPc' = "halve" /\ UNCHANGED tail
  /\ UNCHANGED <<text, ptr0, ptr1, ptr>>

Mid == (Base + ptr0) \div 2 + (Base + ptr1) \div 2 - Base

\* while (ptr1 > (ptr0 + 2))
Wide == ptr1 > ptr0 + 2

Halve ==
  /\ tailPc = "halve" /\ Wide
  /\ \/ Pair(Mid)  /\ ptr1' = Mid /\ UNCHANGED ptr0
     \/ ~Pair(Mid) /\ ptr0' = Mid /\ UNCHANGED ptr1
  /\ UNCHANGED <<text, ptr, tailPc, tail>>

StartScan ==
  /\ tailPc = "halve" /\ ~Wide
  /\ tailPc' = "scan" /\ ptr' = ptr0
  /\ UNCHANGED <<text, ptr0, ptr1, tail>>

\* Mutation: the first zero of the pair is returned, not the second.
ScanOffByOne ==
  /\ tailPc = "scan"
  /\ \/ ptr < ptr1 /\ Pair(ptr)  /\ tailPc' = "done" /\ tail' = ptr /\ UNCHANGED ptr
     \/ ptr < ptr1 /\ ~Pair(ptr) /\ ptr' = ptr + 1 /\ UNCHANGED <<tailPc, tail>>
     \/ ptr >= ptr1 /\ tailPc' = "done" /\ tail' = ptr1 + 1 /\ UNCHANGED ptr
  /\ UNCHANGED <<text, ptr0, ptr1>>

Scan ==
  /\ tailPc = "scan"
  /\ \/ ptr < ptr1 /\ Pair(ptr)  /\ tailPc' = "done" /\ tail' = ptr + 1 /\ UNCHANGED ptr
     \/ ptr < ptr1 /\ ~Pair(ptr) /\ ptr' = ptr + 1 /\ UNCHANGED <<tailPc, tail>>
     \/ ptr >= ptr1 /\ tailPc' = "done" /\ tail' = ptr1 + 1 /\ UNCHANGED ptr
  /\ UNCHANGED <<text, ptr0, ptr1>>

TailNext == Ends \/ Halve \/ StartScan \/ Scan

TailSpec == TailInit /\ [][TailNext]_tailVars /\ WF_tailVars(TailNext)

-----------------------------------------------------------------------------
(* Properties *)

\* The pointers stay where both bytes the search reads are in the buffer.
TailTypeOK ==
  /\ text \in [Pos -> BOOLEAN]
  /\ ptr0 \in 0 .. Size - 2 /\ ptr1 \in 1 .. Size - 1 /\ ptr0 < ptr1
  /\ ptr \in ptr0 .. ptr1 \cup {0}
  /\ tailPc \in {"ends", "halve", "scan", "done"}
  /\ tail \in 0 .. Size

\* t is the tail env_set would have kept: past the zero that ends the last
\* item, or the end of a buffer whose last two bytes are not both zero.
IsTail(t) ==
  /\ \A i \in Pos : i >= t => ~text[i]
  /\ t = 1 => FALSE
  /\ t \in 2 .. Size - 1 => ~text[t - 1] /\ text[t - 2]
  /\ t = Size => text[Size - 1] \/ text[Size - 2]

\* The search returns that tail, for every packed buffer and address.
FindsTail == tailPc = "done" => IsTail(tail)

\* The search ends: the interval shrinks in every round although the midpoint
\* of two odd addresses is rounded down twice.
SearchEnds == <>(tailPc = "done")
=============================================================================
