-------------------------- MODULE AlgorithmProofs --------------------------
(***************************************************************************)
(* The searches for a symbol and for the tail of the environment find what *)
(* they look for, in tables and buffers of any size, and a delay is long   *)
(* enough whatever the counter shows when it begins.  Partitions lie where *)
(* the text puts them and merged boot arguments fit into their buffer, for *)
(* all texts.                                                              *)
(***************************************************************************)
EXTENDS Algorithms, SequenceTheorems, FiniteSetTheorems, WellFoundedInduction, TLAPS

-----------------------------------------------------------------------------
(* Symbols *)

\* The symbols counted so far are those in front of the empty ones.
Counted ==
  /\ nrSyms \in 0 .. Len(table)
  /\ \A i \in 0 .. nrSyms - 1 : Entry(i) # 0 /\ table[i + 1].size # 0

\* The address is inside symbol i.
Inside(i) == i \in 1 .. nrSyms - 2 /\ addr \in Entry(i) .. End(i) - 1

\* While it searches, what it looks for is strictly between the bounds.
Between ==
  /\ x0 \in 0 .. x1 /\ x1 \in 0 .. nrSyms - 1
  /\ \A i \in 1 .. nrSyms - 2 : Inside(i) => x0 < i /\ i < x1

SymInv ==
  /\ table \in SymbolTables /\ addr \in 0 .. MaxAddr
  /\ Counted
  /\ symPc \in {"count", "range", "search", "done"}
  /\ x0 \in Nat /\ x1 \in -1 .. Len(table) - 1 /\ sym \in -1 .. Len(table) - 1
  /\ symPc # "done" => sym = -1
  /\ symPc \in {"count", "range"} => x0 = 0
  /\ symPc = "range" => x1 = nrSyms - 1
  /\ symPc = "search" => Between
  /\ FindsInner

\* The fields of a counted symbol are positive numbers.
LEMMA Fields ==
  ASSUME table \in SymbolTables, Counted, NEW i \in 0 .. nrSyms - 1
  PROVE  /\ Entry(i) \in Nat \ {0}
         /\ End(i) \in Nat
         /\ Entry(i) < End(i)
<1>1. /\ table \in Seq([entry : Nat, size : Nat])
      /\ nrSyms \in 0 .. Len(table)
      /\ Entry(i) # 0 /\ table[i + 1].size # 0
  BY SymbolAssumption DEF IsTable, Counted
<1>2. i + 1 \in 1 .. Len(table)
  BY <1>1
<1>3. table[i + 1] \in [entry : Nat, size : Nat]
  BY <1>1, <1>2, ElementOfSeq
<1> QED BY <1>1, <1>3 DEF Entry, End

\* A counted symbol ends before a later one begins.
LEMMA Sorted ==
  ASSUME table \in SymbolTables, Counted,
         NEW i \in 0 .. nrSyms - 1, NEW j \in 0 .. nrSyms - 1, i < j
  PROVE  End(i) <= Entry(j)
<1>1. /\ \A k, l \in 1 .. Len(table) :
           k < l /\ table[l].entry # 0 /\ table[l].size # 0 =>
             /\ table[k].entry # 0 /\ table[k].size # 0
             /\ table[k].entry + table[k].size <= table[l].entry
      /\ table \in Seq([entry : Nat, size : Nat])
  BY SymbolAssumption DEF IsTable
<1>2. /\ nrSyms \in 0 .. Len(table)
      /\ Entry(j) # 0 /\ table[j + 1].size # 0
  BY DEF Counted
<1>3. i + 1 \in 1 .. Len(table) /\ j + 1 \in 1 .. Len(table) /\ i + 1 < j + 1
  BY <1>1, <1>2
<1> QED BY <1>1, <1>2, <1>3 DEF Entry, End

\* The midpoint is strictly between the bounds, unless they are neighbours.
LEMMA MiddleBetween ==
  ASSUME NEW a \in Nat, NEW b \in Nat, a <= b
  PROVE  LET m == (b + a) \div 2 IN
         /\ m \in Nat
         /\ m # a => a < m /\ m < b
         /\ m = a => b <= a + 1
OBVIOUS

\* The invariant holds at the start.
LEMMA SymInitInv == SymInit => SymInv
<1> SUFFICES ASSUME SymInit PROVE SymInv
  OBVIOUS
<1>1. table \in Seq([entry : Nat, size : Nat])
  BY SymbolAssumption DEF SymInit, IsTable
<1>2. Len(table) \in Nat
  BY <1>1
<1> QED BY <1>2 DEF SymInit, SymInv, Counted, FindsInner

\* Counting keeps it: a symbol that is counted is not empty.
LEMMA CountInv == ASSUME SymInv, CountSymbol PROVE SymInv'
<1>1. table \in Seq([entry : Nat, size : Nat]) /\ Len(table) \in Nat
  BY SymbolAssumption DEF SymInv, IsTable
<1>2. CASE symPc' = "count"
  <2>1. /\ nrSyms' = nrSyms + 1 /\ nrSyms < Len(table)
        /\ Entry(nrSyms) # 0 /\ table[nrSyms + 1].size # 0
    BY <1>2 DEF CountSymbol
  <2>2. nrSyms \in Nat /\ table' = table
    BY <1>1 DEF SymInv, Counted, CountSymbol
  <2>3. nrSyms' \in 0 .. Len(table')
    BY <1>1, <2>1, <2>2
  <2>4. \A i \in 0 .. nrSyms - 1 : table[i + 1].entry # 0 /\ table[i + 1].size # 0
    BY DEF SymInv, Counted, Entry
  <2>5. ASSUME NEW i \in 0 .. nrSyms' - 1
        PROVE  table[i + 1].entry # 0 /\ table[i + 1].size # 0
    <3>1. i \in 0 .. nrSyms - 1 \/ i = nrSyms
      BY <2>1, <2>2
    <3>2. CASE i \in 0 .. nrSyms - 1
      BY <2>4, <3>2
    <3>3. CASE i = nrSyms
      BY <2>1, <3>3 DEF Entry
    <3> QED BY <3>1, <3>2, <3>3
  <2>6. Counted'
    BY <2>2, <2>3, <2>5 DEF Counted, Entry
  <2> QED BY <1>1, <1>2, <2>1, <2>6 DEF SymInv, CountSymbol, FindsInner
<1>3. CASE symPc' = "range"
  <2>1. nrSyms' = nrSyms /\ x1' = nrSyms - 1
    BY <1>3 DEF CountSymbol
  <2>2. Counted'
    BY <2>1 DEF SymInv, Counted, CountSymbol, Entry
  <2> QED BY <1>1, <1>3, <2>1, <2>2 DEF SymInv, Counted, CountSymbol, FindsInner
<1> QED BY <1>2, <1>3 DEF CountSymbol, SymInv

\* An address in an inner symbol is in the table, and between the bounds.
LEMMA TableInv == ASSUME SymInv, InTable PROVE SymInv'
<1>1. /\ UNCHANGED <<table, nrSyms, addr, x0, x1, sym>>
      /\ symPc = "range" /\ x0 = 0 /\ x1 = nrSyms - 1 /\ sym = -1
  BY DEF InTable, SymInv
<1>2. Counted' /\ nrSyms \in Nat /\ addr \in Nat
  BY <1>1, SymbolAssumption DEF SymInv, Counted, Entry
<1>3. ASSUME NEW i \in 1 .. nrSyms - 2, Inside(i)
      PROVE  nrSyms # 0 /\ addr >= Entry(0) /\ addr < End(nrSyms - 1)
  <2>1. /\ 0 \in 0 .. nrSyms - 1 /\ i \in 0 .. nrSyms - 1
        /\ nrSyms - 1 \in 0 .. nrSyms - 1
        /\ 0 < i /\ i < nrSyms - 1
    BY <1>2, <1>3
  <2>2. End(0) <= Entry(i) /\ End(i) <= Entry(nrSyms - 1)
    BY <2>1, Sorted DEF SymInv
  <2>3. /\ Entry(0) < End(0) /\ Entry(0) \in Nat /\ End(0) \in Nat
        /\ Entry(i) \in Nat /\ End(i) \in Nat
        /\ Entry(nrSyms - 1) < End(nrSyms - 1)
        /\ Entry(nrSyms - 1) \in Nat /\ End(nrSyms - 1) \in Nat
    BY <2>1, Fields DEF SymInv
  <2> QED BY <1>2, <1>3, <2>1, <2>2, <2>3 DEF Inside
<1>4. CASE symPc' = "search"
  <2>1. nrSyms # 0
    BY <1>4 DEF InTable
  <2>2. Between'
    BY <1>1, <1>2, <2>1 DEF Between, Inside, Entry, End
  <2> QED BY <1>1, <1>2, <1>4, <2>2 DEF SymInv, FindsInner
<1>5. CASE symPc' = "done"
  <2>1. nrSyms = 0 \/ addr < Entry(0) \/ addr >= End(nrSyms - 1)
    BY <1>1, <1>5 DEF InTable
  <2>2. \A i \in 1 .. nrSyms - 2 : ~ Inside(i)
    <3>1. SUFFICES ASSUME NEW i \in 1 .. nrSyms - 2, Inside(i) PROVE FALSE
      OBVIOUS
    <3>2. nrSyms # 0 /\ addr >= Entry(0) /\ addr < End(nrSyms - 1)
      BY <1>3, <3>1
    <3>3. /\ 0 \in 0 .. nrSyms - 1 /\ nrSyms - 1 \in 0 .. nrSyms - 1
      BY <1>2, <3>2
    <3>4. Entry(0) \in Nat /\ End(nrSyms - 1) \in Nat
      BY <3>3, Fields DEF SymInv
    <3> QED BY <1>2, <2>1, <3>2, <3>4
  <2>3. FindsInner'
    BY <1>1, <2>2 DEF FindsInner, Inside, Entry, End
  <2> QED BY <1>1, <1>2, <1>5, <2>3 DEF SymInv
<1> QED BY <1>4, <1>5 DEF InTable

\* A round keeps it: what is looked for is below a midpoint that begins behind
\* the address and above one that ends in front of it.
LEMMA SearchInv == ASSUME SymInv, Search PROVE SymInv'
<1>1. /\ UNCHANGED <<table, nrSyms, addr>>
      /\ symPc = "search" /\ Between /\ Counted /\ sym = -1
      /\ table \in SymbolTables /\ addr \in 0 .. MaxAddr
  BY DEF Search, SymInv
<1>2. /\ Counted' /\ nrSyms \in Nat /\ nrSyms <= Len(table) /\ Len(table) \in Nat
      /\ addr \in Nat /\ x0 \in Nat /\ x1 \in Nat
      /\ x0 <= x1 /\ x1 <= nrSyms - 1
  <2>1. table \in Seq([entry : Nat, size : Nat])
    BY <1>1, SymbolAssumption DEF IsTable
  <2>2. Len(table) \in Nat
    BY <2>1
  <2> QED BY <1>1, <2>2, SymbolAssumption DEF Counted, Entry, Between
<1>3. /\ Middle \in Nat
      /\ Middle # x0 => x0 < Middle /\ Middle < x1
      /\ Middle = x0 => x1 <= x0 + 1
  BY <1>2, MiddleBetween DEF Middle
<1>4. \A i \in 1 .. nrSyms - 2 :
        Inside(i) => /\ x0 < i /\ i < x1
                     /\ i \in 0 .. nrSyms - 1
                     /\ Entry(i) \in Nat /\ End(i) \in Nat
                     /\ Entry(i) <= addr /\ addr < End(i)
  <2>1. SUFFICES ASSUME NEW i \in 1 .. nrSyms - 2, Inside(i)
                 PROVE  /\ x0 < i /\ i < x1
                        /\ i \in 0 .. nrSyms - 1
                        /\ Entry(i) \in Nat /\ End(i) \in Nat
                        /\ Entry(i) <= addr /\ addr < End(i)
    OBVIOUS
  <2>2. i \in 0 .. nrSyms - 1
    BY <1>2
  <2>3. Entry(i) \in Nat /\ End(i) \in Nat
    BY <1>1, <2>2, Fields
  <2> QED BY <1>1, <1>2, <2>1, <2>2, <2>3 DEF Between, Inside
<1>5. CASE Middle # x0
  <2>1. Middle \in 0 .. nrSyms - 1 /\ Middle \in 1 .. nrSyms - 2
    BY <1>2, <1>3, <1>5
  <2>2. Entry(Middle) \in Nat /\ End(Middle) \in Nat /\ Entry(Middle) < End(Middle)
    BY <1>1, <2>1, Fields
  <2>3. \A i \in 1 .. nrSyms - 2 :
          Inside(i) => /\ i < Middle => End(i) <= Entry(Middle)
                       /\ Middle < i => End(Middle) <= Entry(i)
    BY <1>1, <1>4, <2>1, Sorted
  <2>4. CASE addr < Entry(Middle) /\ x1' = Middle /\ UNCHANGED <<x0, sym, symPc>>
    <3>1. \A i \in 1 .. nrSyms - 2 : Inside(i) => x0 < i /\ i < Middle
      BY <1>2, <1>3, <1>4, <2>2, <2>3, <2>4
    <3>2. Between'
      BY <1>1, <1>2, <1>3, <1>5, <2>1, <2>4, <3>1 DEF Between, Inside, Entry, End
    <3> QED BY <1>1, <1>2, <1>3, <2>1, <2>4, <3>2 DEF SymInv, FindsInner
  <2>5. CASE addr > End(Middle) /\ x0' = Middle /\ UNCHANGED <<x1, sym, symPc>>
    <3>1. \A i \in 1 .. nrSyms - 2 : Inside(i) => Middle < i /\ i < x1
      BY <1>2, <1>3, <1>4, <2>2, <2>3, <2>5
    <3>2. Between'
      BY <1>1, <1>2, <1>3, <1>5, <2>1, <2>5, <3>1 DEF Between, Inside, Entry, End
    <3> QED BY <1>1, <1>2, <1>3, <2>1, <2>5, <3>2 DEF SymInv, FindsInner
  <2>6. CASE /\ addr \in Entry(Middle) .. End(Middle)
             /\ sym' = Middle /\ symPc' = "done" /\ UNCHANGED <<x0, x1>>
    <3>1. ASSUME NEW i \in 1 .. nrSyms - 2, Inside(i)
          PROVE  Middle = i \/ (addr = End(i - 1) /\ Middle = i - 1)
      <4>1. ~ (i < Middle)
        BY <1>2, <1>4, <2>2, <2>3, <2>6, <3>1
      <4>2. CASE Middle < i
        <5>1. addr = End(Middle) /\ addr = Entry(i)
          BY <1>2, <1>4, <2>2, <2>3, <2>6, <3>1, <4>2
        <5>2. CASE Middle + 1 < i
          <6>1. Middle + 1 \in 0 .. nrSyms - 1 /\ i \in 0 .. nrSyms - 1
            BY <1>2, <1>3, <5>2
          <6>2. End(Middle) <= Entry(Middle + 1) /\ End(Middle + 1) <= Entry(i)
            BY <1>1, <1>3, <2>1, <5>2, <6>1, Sorted
          <6>3. /\ Entry(Middle + 1) < End(Middle + 1)
                /\ Entry(Middle + 1) \in Nat /\ End(Middle + 1) \in Nat
            BY <1>1, <6>1, Fields
          <6>4. Entry(i) \in Nat
            BY <1>4, <3>1
          <6> QED BY <1>2, <2>2, <5>1, <6>2, <6>3, <6>4
        <5>3. CASE Middle = i - 1
          BY <5>1, <5>3
        <5> QED BY <1>3, <4>2, <5>2, <5>3
      <4> QED BY <1>3, <4>1, <4>2
    <3>2. FindsInner'
      BY <1>1, <2>1, <2>6, <3>1 DEF FindsInner, Inside, Entry, End
    <3> QED BY <1>1, <1>2, <2>1, <2>6, <3>2 DEF SymInv
  <2> QED BY <1>5, <2>4, <2>5, <2>6 DEF Search
<1>6. CASE Middle = x0
  <2>1. symPc' = "done" /\ UNCHANGED <<x0, x1, sym>>
    BY <1>6 DEF Search
  <2>2. \A i \in 1 .. nrSyms - 2 : ~ Inside(i)
    BY <1>2, <1>3, <1>4, <1>6
  <2>3. FindsInner'
    BY <1>1, <2>1, <2>2 DEF FindsInner, Inside, Entry, End
  <2> QED BY <1>1, <1>2, <2>1, <2>3 DEF SymInv
<1> QED BY <1>5, <1>6

\* The invariant of the search.
LEMMA SymStepInv == SymInv /\ [SymNext]_symVars => SymInv'
<1> SUFFICES ASSUME SymInv, [SymNext]_symVars PROVE SymInv'
  OBVIOUS
<1>1. CASE CountSymbol
  BY <1>1, CountInv
<1>2. CASE InTable
  BY <1>2, TableInv
<1>3. CASE Search
  BY <1>3, SearchInv
<1>4. CASE UNCHANGED symVars
  BY <1>4 DEF symVars, SymInv, Counted, Between, Inside, FindsInner, Entry, End
<1> QED BY <1>1, <1>2, <1>3, <1>4 DEF SymNext

LEMMA SymInvHolds == SymSpec => []SymInv
BY SymInitInv, SymStepInv, PTL DEF SymSpec

\* Whatever the length of the table, find_entry returns a symbol that contains
\* the address, and finds each but the first and the last.
THEOREM InnerFound == SymSpec => []FindsInner
<1>1. SymInv => FindsInner
  BY DEF SymInv
<1> QED BY <1>1, SymInvHolds, PTL

LEMMA SymTypes == SymInv => SymTypeOK
BY DEF SymInv, Counted, Between, SymTypeOK

\* The indices find_entry reads stay in the table.
THEOREM SearchInTable == SymSpec => []SymTypeOK
BY SymTypes, SymInvHolds, PTL

-----------------------------------------------------------------------------
(* EnvTail *)

(***************************************************************************)
(* The loop invariant: the left pointer is never on a pair of zeros, the   *)
(* right one is on a pair or on the last byte, and the scan has passed no  *)
(* pair.                                                                   *)
(***************************************************************************)
LoopInv ==
  /\ Packed
  /\ tailPc = "ends" => ptr0 = 0 /\ ptr1 = Size - 1
  /\ tailPc \in {"ends", "halve"} => ptr = 0
  /\ tailPc \in {"halve", "scan"} =>
       /\ ~Pair(ptr0) /\ Pair(Size - 2)
       /\ ptr1 = Size - 1 \/ Pair(ptr1)
  /\ tailPc = "scan" =>
       /\ ptr \in ptr0 .. ptr1
       /\ \A p \in ptr0 .. ptr - 1 : ~Pair(p)

TailInv == TailTypeOK /\ LoopInv /\ FindsTail

\* The midpoint of two addresses more than two apart lies strictly between
\* them, whatever their parities: each round of the loop makes progress.
LEMMA MidBetween ==
  ASSUME ptr0 \in Nat, ptr1 \in Nat, Wide
  PROVE  Mid \in ptr0 + 1 .. ptr1 - 1
<1> DEFINE x == Base + ptr0
           y == Base + ptr1
<1>1. x \in Nat /\ y \in Nat /\ y > x + 2
  BY TailAssumption DEF Wide
<1>2. \A n \in Nat : n \div 2 \in Nat /\ (n = 2 * (n \div 2) \/ n = 2 * (n \div 2) + 1)
  OBVIOUS
<1>3. x \div 2 + y \div 2 > x /\ x \div 2 + y \div 2 < y /\ x \div 2 \in Nat /\ y \div 2 \in Nat
  <2> HIDE DEF x, y
  <2> QED BY <1>1, <1>2
<1>4. QED BY <1>3, TailAssumption DEF Mid

LEMMA TailInitInv == TailInit => TailInv
BY TailAssumption DEF TailInit, TailInv, TailTypeOK, LoopInv, FindsTail, Pos

\* From a packed buffer the pairs are upward closed.
LEMMA PairsUp ==
  ASSUME TailTypeOK, Packed, NEW p \in 0 .. Size - 2, Pair(p),
         NEW q \in p .. Size - 2
  PROVE  Pair(q)
BY TailAssumption DEF TailTypeOK, Packed, Pair, Pos

\* The first pair of the buffer is where the last item ends.
LEMMA FirstPairIsTail ==
  ASSUME TailTypeOK, Packed, NEW p \in 1 .. Size - 2, Pair(p), ~Pair(p - 1)
  PROVE  IsTail(p + 1)
<1>1. \A i \in Pos : i >= p => ~text[i]
  BY TailAssumption DEF Packed
<1>2. ~text[p] /\ text[p - 1]
  BY TailAssumption, <1>1 DEF Pair, Pos
<1>3. QED
  BY <1>1, <1>2, TailAssumption DEF IsTail, Pos

LEMMA TailStepInv == TailInv /\ [TailNext]_tailVars => TailInv'
<1> SUFFICES ASSUME TailInv, [TailNext]_tailVars
             PROVE  TailInv'
  OBVIOUS
<1> USE TailAssumption
<1>1. CASE Ends
  <2>1. CASE Pair(0) /\ tail' = ptr0 /\ tailPc' = "done"
    <3>1. \A i \in Pos : ~text[i]
      BY <2>1 DEF TailInv, LoopInv, Packed, Pos
    <3>2. ptr0 = 0
      BY <1>1 DEF Ends, TailInv, LoopInv
    <3>3. IsTail(0)
      BY <3>1 DEF IsTail, Pos
    <3>4. FindsTail'
      BY <1>1, <2>1, <3>2, <3>3 DEF FindsTail, IsTail, Ends
    <3>5. QED
      BY <1>1, <2>1, <3>2, <3>4 DEF TailInv, TailTypeOK, LoopInv, Packed, Pair, Ends
  <2>2. CASE /\ ~Pair(0)
             /\ text[Size - 1] \/ text[Size - 2]
             /\ tail' = ptr1 + 1 /\ tailPc' = "done"
    <3>1. tail' = Size /\ IsTail(Size)
      BY <1>1, <2>2 DEF Ends, TailInv, LoopInv, IsTail, Pos
    <3>2. FindsTail'
      BY <1>1, <2>2, <3>1 DEF FindsTail, IsTail, Ends
    <3>3. QED
      BY <1>1, <2>2, <3>1, <3>2 DEF TailInv, TailTypeOK, LoopInv, Packed, Pair, Ends
  <2>3. CASE ~Pair(0) /\ Pair(Size - 2) /\ tailPc' = "halve" /\ UNCHANGED tail
    BY <1>1, <2>3 DEF TailInv, TailTypeOK, LoopInv, FindsTail, Packed, Pair, Ends
  <2>4. QED
    BY <1>1, <2>1, <2>2, <2>3 DEF Ends
<1>2. CASE Halve
  <2>1. Mid \in ptr0 + 1 .. ptr1 - 1
    BY <1>2, MidBetween DEF Halve, TailInv, TailTypeOK
  <2>2. TailTypeOK'
    BY <1>2, <2>1 DEF TailInv, TailTypeOK, Halve, LoopInv
  <2>3. LoopInv'
    BY <1>2, <2>1 DEF TailInv, TailTypeOK, LoopInv, Halve, Packed, Pair
  <2>4. QED
    BY <1>2, <2>2, <2>3 DEF TailInv, Halve, FindsTail
<1>3. CASE StartScan
  BY <1>3 DEF TailInv, TailTypeOK, LoopInv, FindsTail, StartScan, Packed, Pair
<1>4. CASE Scan
  <2>1. CASE ptr < ptr1 /\ Pair(ptr) /\ tailPc' = "done" /\ tail' = ptr + 1 /\ UNCHANGED ptr
    <3>1. ptr \in 1 .. Size - 2 /\ ~Pair(ptr - 1)
      BY <1>4, <2>1 DEF TailInv, TailTypeOK, LoopInv, Scan
    <3>2. IsTail(ptr + 1)
      BY <3>1, <2>1, FirstPairIsTail DEF TailInv, LoopInv
    <3>3. FindsTail'
      BY <1>4, <2>1, <3>2 DEF FindsTail, IsTail, Scan
    <3>4. QED
      BY <1>4, <2>1, <3>1, <3>3 DEF TailInv, TailTypeOK, LoopInv, Packed, Pair, Scan
  <2>2. CASE ptr < ptr1 /\ ~Pair(ptr) /\ ptr' = ptr + 1 /\ UNCHANGED <<tailPc, tail>>
    BY <1>4, <2>2 DEF TailInv, TailTypeOK, LoopInv, FindsTail, Packed, Pair, Scan
  <2>3. CASE ptr >= ptr1 /\ tailPc' = "done" /\ tail' = ptr1 + 1 /\ UNCHANGED ptr
    <3>1. ~Pair(ptr1 - 1)
      BY <1>4, <2>3 DEF TailInv, TailTypeOK, LoopInv, Scan
    <3>2. ptr1 # Size - 1
      BY <1>4, <3>1 DEF TailInv, TailTypeOK, LoopInv, Scan
    <3>3. ptr1 \in 1 .. Size - 2 /\ Pair(ptr1)
      BY <1>4, <3>2 DEF TailInv, TailTypeOK, LoopInv, Scan
    <3>4. IsTail(ptr1 + 1)
      BY <3>1, <3>3, FirstPairIsTail DEF TailInv, LoopInv
    <3>5. FindsTail'
      BY <1>4, <2>3, <3>4 DEF FindsTail, IsTail, Scan
    <3>6. QED
      BY <1>4, <2>3, <3>3, <3>5 DEF TailInv, TailTypeOK, LoopInv, Packed, Pair, Scan
  <2>4. QED
    BY <1>4, <2>1, <2>2, <2>3 DEF Scan
<1>5. CASE UNCHANGED tailVars
  BY <1>5 DEF TailInv, TailTypeOK, LoopInv, FindsTail, IsTail, Packed, Pair, tailVars
<1>6. QED
  BY <1>1, <1>2, <1>3, <1>4, <1>5 DEF TailNext

\* The search never leaves the buffer (TailTypeOK of EnvTail) and returns the tail
\* env_set had kept (FindsTail): common/env_set.c, find_env_tail.
THEOREM TailFound == TailSpec => [](TailTypeOK /\ FindsTail)
<1>1. TailInv => TailTypeOK /\ FindsTail
  BY DEF TailInv
<1>2. QED
  BY <1>1, TailInitInv, TailStepInv, PTL DEF TailSpec
-----------------------------------------------------------------------------
(* Delay *)

\* What a piece may cost beyond what was asked for.
Extra == 2 * MaxGap + Hz

\* The microseconds that are waited for.
Finished == asked - left

\* The two sides of DelayHolds, after s counts with n pieces and w wraps.
Enough(s, n, w) == s + n * (Hz - 1) >= (Finished - w * Piece) * Hz
NotMuch(s, n) == s <= Finished * Hz + n * Extra

\* The piece waited for began at count cs, when sp counts and ws wraps were
\* over.  It sees one wrap at most, and at the last read it had not ended.
Waiting(cs, sp, ws) ==
  /\ cs \in 0 .. Wrap - 1 /\ start = cs \div Hz /\ end = start + piece
  /\ sp \in 0 .. spent /\ ws \in Nat
  /\ \/ wraps = ws /\ count = cs + (spent - sp)
     \/ wraps = ws + 1 /\ count + Wrap = cs + (spent - sp)
  /\ spent - sp < gap + piece * Hz
  /\ Enough(sp, pieces - 1, ws)
  /\ NotMuch(sp - MaxGap, pieces - 1)

\* Between the pieces what was waited for is right, and all pieces but the last
\* are whole.
Rested ==
  /\ Enough(spent, pieces, wraps) /\ NotMuch(spent - gap, pieces)
  /\ left > 0 => Finished = pieces * Piece
  /\ pieces * Piece < asked + Piece

Polling ==
  /\ left > 0 /\ piece = Cut /\ pieces > 0
  /\ Finished = (pieces - 1) * Piece
  /\ \E cs, sp, ws \in Nat : Waiting(cs, sp, ws)

DelayInv ==
  /\ DelayTypeOK
  /\ delayPc = "done" => left = 0
  /\ delayPc = "poll" => Polling
  /\ delayPc # "poll" => Rested

\* A quotient by the counts of a microsecond.
LEMMA QuotientIs ==
  ASSUME NEW n \in Nat, NEW h \in Nat \ {0}
  PROVE  n \div h \in Nat /\ (n \div h) * h <= n /\ n < (n \div h) * h + h
OBVIOUS

\* Products grow with their first factor.
LEMMA ProductGrows ==
  ASSUME NEW a \in Int, NEW b \in Int, NEW c \in Nat, a <= b
  PROVE  a * c <= b * c /\ a * c \in Int /\ b * c \in Int
OBVIOUS

LEMMA Spread ==
  ASSUME NEW a \in Int, NEW b \in Int, NEW c \in Int
  PROVE  (a + b) * c = a * c + b * c /\ (a - b) * c = a * c - b * c
OBVIOUS

LEMMA SpreadMore ==
  ASSUME NEW a \in Int, NEW b \in Int, NEW c \in Int, NEW d \in Int
  PROVE  (a + b - c) * d = a * d + b * d - c * d
OBVIOUS

\* The constants, as numbers.
LEMMA Numbers ==
  /\ Wrap \in Nat /\ Hz \in Nat /\ Hz > 1 /\ Piece \in Nat /\ Piece > 0
  /\ MaxGap \in Nat /\ MaxGap > 0 /\ MaxSpent \in Nat /\ Asked \subseteq Nat
  /\ Extra \in Nat /\ Extra = 2 * MaxGap + Hz
BY DelayAssumption DEF Extra

\* A piece and the gap of a read pass within half a period.
LEMMA PieceIsShort ==
  ASSUME NEW p \in 0 .. Piece
  PROVE  /\ p * Hz \in Nat
         /\ 2 * (p * Hz + 2 * Hz + MaxGap) < Wrap
<1>1. p * Hz <= Piece * Hz /\ p * Hz \in Nat /\ Piece * Hz \in Nat
  <2>1. 0 * Hz <= p * Hz
    BY Numbers, ProductGrows
  <2> QED BY <2>1, Numbers, ProductGrows
<1>2. Hz * (Piece + 2) = Piece * Hz + 2 * Hz
  BY Numbers
<1>3. 2 * (Hz * (Piece + 2) + MaxGap) < Wrap
  BY DelayAssumption
<1> QED BY <1>1, <1>2, <1>3, Numbers

\* The end of a piece is a number of 32 bits.
LEMMA EndFits ==
  ASSUME count \in 0 .. Wrap - 1, NEW p \in 0 .. Piece
  PROVE  /\ Ticks \in 0 .. Wrap - 1
         /\ (Ticks + p) % Wrap = Ticks + p
         /\ Ticks + p \in 0 .. Wrap - 1
<1> DEFINE t == Ticks
<1>1. t \in Nat /\ t * Hz <= count
  BY Numbers, QuotientIs DEF Ticks
<1>2. 2 * t <= t * Hz
  BY <1>1, Numbers, ProductGrows
<1>3. 2 * p <= p * Hz
  BY Numbers, ProductGrows
<1>4. p * Hz \in Nat /\ 2 * (p * Hz + 2 * Hz + MaxGap) < Wrap
  BY PieceIsShort
<1>5. t + p < Wrap
  <2> DEFINE a == t * Hz
             b == p * Hz
  <2>1. a <= count /\ 2 * t <= a /\ 2 * p <= b /\ b \in Nat /\ 2 * (b + 2 * Hz + MaxGap) < Wrap
    BY <1>1, <1>2, <1>3, <1>4
  <2>2. a \in Int
    BY <1>1, Numbers
  <2> HIDE DEF a, b, t
  <2> QED BY <1>1, <2>1, <2>2, Numbers
<1>6. t + p \in Nat /\ t \in 0 .. Wrap - 1
  BY <1>1, <1>5, Numbers
<1>7. (t + p) % Wrap = t + p
  <2> HIDE DEF t
  <2> QED BY <1>5, <1>6, Numbers
<1> QED BY <1>5, <1>6, <1>7, Numbers

\* Until the bound of the history nothing is lost: a delay within what
\* DelayHolds allows is below it.
LEMMA RoomToCount ==
  ASSUME DelayTypeOK, spent <= asked * Hz + pieces * Extra + MaxGap,
         pieces * Piece < asked + Piece
  PROVE  spent < MaxSpent
<1> DEFINE q == asked \div Piece
<1>1. asked \in Nat /\ spent \in Nat /\ pieces \in Nat
  BY Numbers DEF DelayTypeOK
<1>2. q \in Nat /\ asked < q * Piece + Piece
  BY <1>1, Numbers, QuotientIs
<1>3. pieces <= q + 1
  <2> SUFFICES ASSUME pieces > q + 1 PROVE FALSE
    BY <1>1, <1>2
  <2>1. (q + 2) * Piece <= pieces * Piece
    BY <1>1, <1>2, Numbers, ProductGrows
  <2>2. (q + 2) * Piece = q * Piece + 2 * Piece
    BY <1>2, Numbers, Spread
  <2> QED BY <1>1, <1>2, <2>1, <2>2, Numbers
<1>4. pieces * Extra <= (q + 1) * Extra /\ pieces * Extra \in Int /\ (q + 1) * Extra \in Int
  BY <1>1, <1>2, <1>3, Numbers, ProductGrows
<1>5. asked * Hz + (q + 1) * Extra + MaxGap < MaxSpent
  BY DelayAssumption DEF DelayTypeOK, Extra
<1>6. asked * Hz \in Int
  BY <1>1, Numbers
<1> QED BY <1>1, <1>4, <1>5, <1>6, Numbers

\* What a read of the ticks tells: the piece is still running, or it is over and
\* less than a tick too short, or it has seen the wrap.
LEMMA ReadTells ==
  ASSUME DelayTypeOK,
         NEW cs \in Nat, NEW sp \in Nat, NEW ws \in Nat, Waiting(cs, sp, ws)
  PROVE  /\ Now < end => spent - sp < piece * Hz
         /\ ~(Now < end) => wraps = ws + 1 \/ spent - sp + (Hz - 1) >= piece * Hz
<1> DEFINE t == Ticks
           a == t * Hz
           b == start * Hz
           d == piece * Hz
           n == spent - sp
<1>1. /\ count \in 0 .. Wrap - 1 /\ start \in Nat /\ end \in 0 .. Wrap - 1
      /\ piece \in 0 .. Piece /\ gap \in 0 .. MaxGap /\ spent \in Nat
      /\ end = start + piece /\ cs < Wrap /\ sp <= spent
      /\ n < gap + d
      /\ (wraps = ws /\ count = cs + n) \/ (wraps = ws + 1 /\ count + Wrap = cs + n)
  BY Numbers DEF DelayTypeOK, Waiting
<1>2. t \in Nat /\ a \in Nat /\ a <= count /\ count < a + Hz
  <2>1. count \in Nat
    BY <1>1, Numbers
  <2> QED BY <2>1, Numbers, QuotientIs DEF Ticks
<1>3. b \in Nat /\ b <= cs /\ cs < b + Hz
  BY <1>1, Numbers, QuotientIs DEF Waiting
<1>4. d \in Nat /\ 2 * (d + 2 * Hz + MaxGap) < Wrap
  BY <1>1, PieceIsShort
<1>5. n \in Nat
  BY <1>1
<1>6. /\ t < start => a + Hz <= b
      /\ t >= start => b <= a
      /\ t < start + piece => a + Hz <= b + d
      /\ t >= start + piece => b + d <= a
  <2>1. (t + 1) * Hz = a + Hz /\ (start + piece) * Hz = b + d
    BY <1>1, <1>2, Numbers, Spread
  <2>2. t + 1 \in Int /\ t \in Int /\ start \in Int /\ start + piece \in Int
    BY <1>1, <1>2
  <2>3. /\ t + 1 <= start => (t + 1) * Hz <= b
        /\ start <= t => b <= a
        /\ t + 1 <= start + piece => (t + 1) * Hz <= (start + piece) * Hz
        /\ start + piece <= t => (start + piece) * Hz <= a
    <3> HIDE DEF t
    <3> QED BY <2>2, Numbers, ProductGrows
  <2> HIDE DEF t, a, b, d
  <2> QED BY <1>1, <1>2, <2>1, <2>2, <2>3
<1>7. Now = IF t < start THEN t + Wrap - 1 ELSE t
  BY DEF Now
<1> HIDE DEF t, a, b, d, n
<1>8. CASE wraps = ws /\ count = cs + n
  <2>1. t >= start /\ Now = t
    BY <1>1, <1>2, <1>3, <1>5, <1>6, <1>7, <1>8, Numbers
  <2>2. t < end => n < d
    BY <1>1, <1>2, <1>3, <1>4, <1>5, <1>6, <1>8, Numbers
  <2>3. t >= end => n + (Hz - 1) >= d
    BY <1>1, <1>2, <1>3, <1>4, <1>5, <1>6, <1>8, Numbers
  <2>4. /\ Now < end => n < d
        /\ ~(Now < end) => n + (Hz - 1) >= d
    BY <1>1, <1>2, <2>1, <2>2, <2>3
  <2> QED BY <2>4 DEF n, d
<1>9. CASE wraps = ws + 1 /\ count + Wrap = cs + n
  <2>1. t < start
    BY <1>1, <1>2, <1>3, <1>4, <1>5, <1>6, <1>9, Numbers
  <2>2. ~(Now < end)
    BY <1>1, <1>2, <1>7, <2>1, Numbers
  <2> QED BY <1>9, <2>2
<1> QED BY <1>1, <1>8, <1>9

\* A delay begins.
LEMMA DelayInitInv == DelayInit => DelayInv
<1> SUFFICES ASSUME DelayInit PROVE DelayInv
  OBVIOUS
<1>1. asked \in Nat /\ left = asked
  BY Numbers DEF DelayInit
<1>2. DelayTypeOK
  BY <1>1, Numbers DEF DelayInit, DelayTypeOK
<1>3. Rested
  <2>1. Finished = 0
    BY <1>1 DEF Finished
  <2>2. /\ 0 * (Hz - 1) = 0 /\ (0 - 0 * Piece) * Hz = 0 /\ 0 * Hz = 0 /\ 0 * Extra = 0
        /\ 0 * Piece = 0
    BY Numbers
  <2>3. spent = 0 /\ pieces = 0 /\ wraps = 0 /\ gap = 0
    BY DEF DelayInit
  <2>4. Enough(spent, pieces, wraps)
    BY <2>1, <2>2, <2>3 DEF Enough
  <2>5. NotMuch(spent - gap, pieces)
    BY <2>1, <2>2, <2>3 DEF NotMuch
  <2> QED BY <1>1, <2>1, <2>2, <2>3, <2>4, <2>5, Numbers DEF Rested
<1> QED BY <1>2, <1>3 DEF DelayInit, DelayInv

\* A delay that is not over is within the bound of its history.
LEMMA NeverSaturated == ASSUME DelayInv PROVE spent < MaxSpent
<1>1. /\ DelayTypeOK /\ asked \in Nat /\ left \in 0 .. asked /\ gap \in 0 .. MaxGap
      /\ spent \in Nat /\ pieces \in Nat /\ Finished \in 0 .. asked
  BY Numbers DEF DelayInv, DelayTypeOK, Finished
<1>2. asked * Hz \in Int /\ Finished * Hz \in Int /\ Finished * Hz <= asked * Hz
  BY <1>1, Numbers, ProductGrows
<1>3. pieces * Extra \in Int
  BY <1>1, Numbers
<1>4. CASE delayPc # "poll"
  <2>1. spent - gap <= Finished * Hz + pieces * Extra /\ pieces * Piece < asked + Piece
    BY <1>4 DEF DelayInv, Rested, NotMuch
  <2>2. spent <= asked * Hz + pieces * Extra + MaxGap
    BY <1>1, <1>2, <1>3, <2>1, Numbers
  <2> QED BY <1>1, <2>1, <2>2, RoomToCount
<1>5. CASE delayPc = "poll"
  <2>1. left > 0 /\ piece = Cut /\ pieces > 0 /\ Finished = (pieces - 1) * Piece
    BY <1>5 DEF DelayInv, Polling
  <2>2. PICK cs \in Nat, sp \in Nat, ws \in Nat : Waiting(cs, sp, ws)
    BY <1>5 DEF DelayInv, Polling
  <2>3. /\ sp - MaxGap <= Finished * Hz + (pieces - 1) * Extra
        /\ spent - sp < gap + piece * Hz
    BY <2>2 DEF Waiting, NotMuch
  <2>4. /\ (pieces - 1) * Extra = pieces * Extra - Extra
        /\ pieces * Piece = Finished + Piece
    <3>1. 1 * Extra = Extra /\ 1 * Piece = Piece
      BY Numbers
    <3> QED BY <1>1, <2>1, <3>1, Numbers, Spread
  <2>5. piece \in 0 .. left /\ Finished < asked
    BY <1>1, <2>1, Numbers DEF Cut, Finished
  <2>6. Finished * Hz + piece * Hz <= asked * Hz /\ piece * Hz \in Int
    <3>1. (Finished + piece) * Hz = Finished * Hz + piece * Hz
      BY <1>1, <2>5, Numbers, Spread
    <3>2. Finished + piece <= asked
      BY <1>1, <2>5 DEF Finished
    <3>3. (Finished + piece) * Hz <= asked * Hz
      BY <1>1, <2>5, <3>2, Numbers, ProductGrows
    <3> QED BY <1>1, <2>5, <3>1, <3>3, Numbers
  <2>7. spent <= asked * Hz + pieces * Extra + MaxGap
    <3> DEFINE a == Finished * Hz
               b == piece * Hz
               c == asked * Hz
               d == pieces * Extra
               m == (pieces - 1) * Extra
    <3>1. /\ sp - MaxGap <= a + m /\ spent - sp < gap + b /\ m = d - Extra
          /\ a + b <= c /\ a \in Int /\ b \in Int /\ c \in Int /\ d \in Int
      BY <1>2, <1>3, <2>3, <2>4, <2>6
    <3> HIDE DEF a, b, c, d, m
    <3>2. spent <= c + d + MaxGap
      BY <1>1, <3>1, Numbers
    <3> QED BY <3>2 DEF c, d
  <2>8. pieces * Piece < asked + Piece
    BY <1>1, <2>4, <2>5, Numbers
  <2> QED BY <1>1, <2>7, <2>8, RoomToCount
<1> QED BY <1>4, <1>5

\* Time passes: a wrap only lowers what has to be waited for.
LEMMA TickKeeps == ASSUME DelayInv, Tick PROVE DelayInv'
<1>1. /\ delayPc # "done" /\ gap < MaxGap /\ gap' = gap + 1
      /\ count' = (count + 1) % Wrap
      /\ spent' = spent + 1 /\ wraps' = IF count' = 0 THEN wraps + 1 ELSE wraps
      /\ UNCHANGED <<asked, left, piece, start, end, delayPc, pieces>>
  BY NeverSaturated DEF Tick
<1>2. /\ count \in 0 .. Wrap - 1 /\ asked \in Nat /\ left \in 0 .. asked
      /\ gap \in 0 .. MaxGap /\ spent \in Nat /\ wraps \in Nat /\ pieces \in Nat
      /\ piece \in 0 .. Piece
  BY Numbers DEF DelayInv, DelayTypeOK
<1>3. \/ count' = count + 1 /\ count < Wrap - 1 /\ wraps' = wraps
      \/ count' = 0 /\ count = Wrap - 1 /\ wraps' = wraps + 1
  BY <1>1, <1>2, Numbers
<1>4. DelayTypeOK'
  <2>1. count' \in 0 .. Wrap - 1 /\ wraps' \in Nat
    BY <1>2, <1>3, Numbers
  <2>2. spent' \in 0 .. MaxSpent
    BY <1>1, <1>2, NeverSaturated, Numbers
  <2>3. gap' \in 0 .. MaxGap
    BY <1>1, <1>2, Numbers
  <2> QED BY <1>1, <1>2, <2>1, <2>2, <2>3 DEF DelayInv, DelayTypeOK
<1>5. Finished' = Finished /\ Finished \in Int /\ Cut' = Cut
  BY <1>1, <1>2 DEF Finished, Cut
<1>6. CASE delayPc = "piece"
  <2>1. /\ Enough(spent, pieces, wraps) /\ NotMuch(spent - gap, pieces)
        /\ (left > 0 => Finished = pieces * Piece)
        /\ pieces * Piece < asked + Piece
    BY <1>6 DEF DelayInv, Rested
  <2>2. Enough(spent, pieces, wraps)'
    <3> DEFINE a == pieces * (Hz - 1)
               b == (Finished - wraps * Piece) * Hz
               c == (Finished - wraps' * Piece) * Hz
    <3>1. spent + a >= b
      BY <2>1 DEF Enough
    <3>2. c <= b /\ b \in Int /\ c \in Int /\ a \in Int
      <4>1. wraps * Piece <= wraps' * Piece /\ wraps * Piece \in Int /\ wraps' * Piece \in Int
        BY <1>2, <1>3, Numbers, ProductGrows
      <4>2. Finished - wraps' * Piece <= Finished - wraps * Piece
        BY <1>5, <4>1
      <4>3. a \in Int
        BY <1>2, Numbers
      <4> QED BY <1>5, <4>1, <4>2, <4>3, Numbers, ProductGrows
    <3>3. spent' + a >= c
      <4> HIDE DEF a, b, c
      <4> QED BY <1>1, <1>2, <3>1, <3>2
    <3> QED BY <1>1, <1>5, <3>3 DEF Enough
  <2>3. NotMuch(spent - gap, pieces)'
    <3>1. spent' - gap' = spent - gap
      BY <1>1, <1>2
    <3> QED BY <1>1, <1>5, <2>1, <3>1 DEF NotMuch, Extra
  <2>4. Rested'
    BY <1>1, <1>5, <2>1, <2>2, <2>3 DEF Rested
  <2> QED BY <1>1, <1>4, <1>6, <2>4 DEF DelayInv
<1>7. CASE delayPc = "poll"
  <2>1. left > 0 /\ piece = Cut /\ pieces > 0 /\ Finished = (pieces - 1) * Piece
    BY <1>7 DEF DelayInv, Polling
  <2>2. PICK cs \in Nat, sp \in Nat, ws \in Nat : Waiting(cs, sp, ws)
    BY <1>7 DEF DelayInv, Polling
  <2>3. 2 * (piece * Hz + 2 * Hz + MaxGap) < Wrap /\ piece * Hz \in Nat
    BY <1>2, PieceIsShort
  <2>4. /\ cs \in 0 .. Wrap - 1 /\ sp \in 0 .. spent
        /\ \/ wraps = ws /\ count = cs + (spent - sp)
           \/ wraps = ws + 1 /\ count + Wrap = cs + (spent - sp)
        /\ spent - sp < gap + piece * Hz
    BY <2>2 DEF Waiting
  <2>5. \/ wraps' = ws /\ count' = cs + (spent' - sp)
        \/ wraps' = ws + 1 /\ count' + Wrap = cs + (spent' - sp)
    <3> DEFINE d == piece * Hz
    <3>1. d \in Nat /\ 2 * (d + 2 * Hz + MaxGap) < Wrap /\ spent - sp < gap + d
      BY <2>3, <2>4
    <3> HIDE DEF d
    <3>2. spent' = spent + 1
      BY <1>1
    <3>3. CASE wraps = ws /\ count = cs + (spent - sp)
      BY <1>2, <1>3, <2>4, <3>1, <3>2, <3>3, Numbers
    <3>4. CASE wraps = ws + 1 /\ count + Wrap = cs + (spent - sp)
      BY <1>2, <1>3, <2>4, <3>1, <3>2, <3>4, Numbers
    <3> QED BY <2>4, <3>3, <3>4
  <2>6. spent' - sp < gap' + piece * Hz /\ sp \in 0 .. spent'
    BY <1>1, <1>2, <2>3, <2>4
  <2>7. Waiting(cs, sp, ws)'
    BY <1>1, <1>5, <2>2, <2>5, <2>6 DEF Waiting, Enough, NotMuch, Extra
  <2>8. Polling'
    BY <1>1, <1>5, <2>1, <2>7 DEF Polling
  <2> QED BY <1>1, <1>4, <1>7, <2>8 DEF DelayInv
<1> QED BY <1>1, <1>6, <1>7 DEF DelayInv, DelayTypeOK

\* A piece begins, and is whole unless it is the last.
LEMMA NextPieceKeeps == ASSUME DelayInv, NextPiece PROVE DelayInv'
<1>1. /\ count \in 0 .. Wrap - 1 /\ asked \in Nat /\ left \in 0 .. asked
      /\ gap \in 0 .. MaxGap /\ spent \in Nat /\ wraps \in Nat /\ pieces \in Nat
      /\ delayPc = "piece" /\ UNCHANGED <<count, asked, left, spent, wraps>>
  BY Numbers DEF DelayInv, DelayTypeOK, NextPiece
<1>2. Finished' = Finished /\ Finished \in Int
  BY <1>1 DEF Finished
<1>3. /\ Enough(spent, pieces, wraps) /\ NotMuch(spent - gap, pieces)
      /\ (left > 0 => Finished = pieces * Piece)
      /\ pieces * Piece < asked + Piece
  BY <1>1 DEF DelayInv, Rested
<1>4. CASE left = 0
  <2>1. UNCHANGED <<piece, start, end, gap, pieces>> /\ delayPc' = "done"
    BY <1>1, <1>4 DEF NextPiece
  <2>2. Rested'
    BY <1>1, <1>2, <1>3, <2>1 DEF Rested, Enough, NotMuch, Extra
  <2> QED BY <1>1, <1>4, <2>1, <2>2 DEF DelayInv, DelayTypeOK
<1>5. CASE left > 0
  <2>1. /\ delayPc' = "poll" /\ piece' = Cut /\ start' = Ticks
        /\ end' = (Ticks + piece') % Wrap /\ gap' = 0 /\ pieces' = pieces + 1
    BY <1>1, <1>5 DEF NextPiece
  <2>2. Cut \in 0 .. Piece /\ Cut > 0 /\ Cut' = Cut
    BY <1>1, <1>5, Numbers DEF Cut
  <2>3. /\ start' \in 0 .. Wrap - 1 /\ end' = start' + piece' /\ end' \in 0 .. Wrap - 1
    BY <1>1, <2>1, <2>2, EndFits
  <2>4. DelayTypeOK'
    BY <1>1, <2>1, <2>2, <2>3, Numbers DEF DelayInv, DelayTypeOK
  <2>5. Waiting(count, spent, wraps)'
    <3>1. spent' - spent' = 0 /\ pieces' - 1 = pieces /\ start' = count' \div Hz
      BY <1>1, <2>1 DEF Ticks
    <3>2. 0 < gap' + piece' * Hz
      <4>1. 1 * Hz <= piece' * Hz /\ piece' * Hz \in Int
        BY <2>1, <2>2, Numbers, ProductGrows
      <4> QED BY <2>1, <4>1, Numbers
    <3>3. Enough(spent, pieces, wraps)' <=> spent' + pieces' * (Hz - 1) >= (Finished - wraps * Piece) * Hz
      BY <1>1, <1>2 DEF Enough
    <3>4. Enough(spent, pieces - 1, wraps)'
      BY <1>1, <1>2, <1>3, <3>1 DEF Enough
    <3>5. NotMuch(spent - MaxGap, pieces - 1)'
      <4> DEFINE a == Finished * Hz + pieces * Extra
      <4>1. spent - gap <= a /\ a \in Int
        BY <1>1, <1>2, <1>3, Numbers DEF NotMuch
      <4>2. spent - MaxGap <= a
        <5> HIDE DEF a
        <5> QED BY <1>1, <4>1, Numbers
      <4> QED BY <1>1, <1>2, <3>1, <4>2 DEF NotMuch, Extra
    <3> QED BY <1>1, <2>3, <3>1, <3>2, <3>4, <3>5 DEF Waiting
  <2>6. \E cs, sp, ws \in Nat : Waiting(cs, sp, ws)'
    <3>1. count' \in Nat /\ spent' \in Nat /\ wraps' \in Nat
      BY <1>1, Numbers
    <3> QED BY <1>1, <2>5, <3>1 DEF Waiting, Enough, NotMuch, Extra
  <2>7. Polling'
    BY <1>1, <1>2, <1>3, <1>5, <2>1, <2>2, <2>6 DEF Polling
  <2> QED BY <1>5, <2>1, <2>4, <2>7 DEF DelayInv
<1> QED BY <1>1, <1>4, <1>5

\* A read ends the piece or finds it running.
LEMMA PollKeeps == ASSUME DelayInv, Poll PROVE DelayInv'
<1>1. /\ count \in 0 .. Wrap - 1 /\ asked \in Nat /\ left \in 0 .. asked
      /\ gap \in 0 .. MaxGap /\ spent \in Nat /\ wraps \in Nat /\ pieces \in Nat
      /\ delayPc = "poll" /\ gap' = 0 /\ piece \in 0 .. Piece
      /\ UNCHANGED <<count, asked, piece, start, end, spent, wraps, pieces>>
  BY Numbers DEF DelayInv, DelayTypeOK, Poll
<1>2. left > 0 /\ piece = Cut /\ pieces > 0 /\ Finished = (pieces - 1) * Piece
  BY <1>1 DEF DelayInv, Polling
<1>3. PICK cs \in Nat, sp \in Nat, ws \in Nat : Waiting(cs, sp, ws)
  BY <1>1 DEF DelayInv, Polling
<1>4. /\ Now < end => spent - sp < piece * Hz
      /\ ~(Now < end) => wraps = ws + 1 \/ spent - sp + (Hz - 1) >= piece * Hz
  BY <1>3, ReadTells DEF DelayInv
<1>5. piece \in 1 .. left /\ Finished \in Int
  BY <1>1, <1>2, Numbers DEF Cut, Finished
<1>6. CASE Now < end
  <2>1. UNCHANGED <<left, delayPc>>
    BY <1>6 DEF Poll
  <2>2. DelayTypeOK'
    BY <1>1, <2>1, Numbers DEF DelayInv, DelayTypeOK
  <2>3. Waiting(cs, sp, ws)'
    <3>1. Finished' = Finished
      BY <1>1, <2>1 DEF Finished
    <3>2. piece * Hz \in Nat
      BY <1>1, PieceIsShort
    <3>3. spent' - sp < gap' + piece' * Hz
      BY <1>1, <1>3, <1>4, <1>6, <3>2 DEF Waiting
    <3> QED BY <1>1, <1>3, <3>1, <3>3 DEF Waiting, Enough, NotMuch, Extra
  <2>4. Polling'
    BY <1>1, <1>2, <2>1, <2>3 DEF Polling, Finished, Cut
  <2> QED BY <1>1, <2>1, <2>2, <2>4 DEF DelayInv
<1>7. CASE ~(Now < end)
  <2>1. left' = left - piece /\ delayPc' = "piece"
    BY <1>7 DEF Poll
  <2>2. DelayTypeOK'
    BY <1>1, <1>5, <2>1, Numbers DEF DelayInv, DelayTypeOK
  <2>3. Finished' = Finished + piece
    BY <1>1, <2>1, <1>5 DEF Finished
  <2> DEFINE f == Finished * Hz
             d == piece * Hz
             e == Piece * Hz
             w == (ws * Piece) * Hz
             k == pieces * Extra
             h == pieces * (Hz - 1)
  <2>4. /\ f \in Int /\ d \in Int /\ e \in Int /\ w \in Int /\ k \in Int /\ h \in Int
        /\ d <= e
    <3>1. ws * Piece \in Int
      BY Numbers
    <3>2. w \in Int
      BY <3>1, Numbers
    <3>3. k \in Int /\ h \in Int
      BY <1>1, Numbers
    <3>4. d <= e /\ d \in Int /\ e \in Int
      BY <1>1, Numbers, ProductGrows
    <3> QED BY <1>5, <3>2, <3>3, <3>4, Numbers
  <2>5. /\ sp + h - (Hz - 1) >= f - w
        /\ sp - MaxGap <= f + k - Extra
        /\ spent - sp < gap + d /\ sp \in 0 .. spent
        /\ wraps = ws \/ wraps = ws + 1
    <3>1. (pieces - 1) * (Hz - 1) = h - (Hz - 1) /\ (pieces - 1) * Extra = k - Extra
      <4>1. 1 * Extra = Extra /\ 1 * (Hz - 1) = Hz - 1
        BY Numbers
      <4> QED BY <1>1, <4>1, Numbers, Spread
    <3>2. (Finished - ws * Piece) * Hz = f - w
      <4>1. ws * Piece \in Int
        BY Numbers
      <4> QED BY <1>5, <4>1, Numbers, Spread
    <3>3. /\ sp + (pieces - 1) * (Hz - 1) >= (Finished - ws * Piece) * Hz
          /\ sp - MaxGap <= Finished * Hz + (pieces - 1) * Extra
          /\ spent - sp < gap + d /\ sp \in 0 .. spent
          /\ wraps = ws \/ wraps = ws + 1
      BY <1>3 DEF Waiting, Enough, NotMuch
    <3>4. sp + (h - (Hz - 1)) >= f - w /\ sp - MaxGap <= f + (k - Extra)
      BY <3>1, <3>2, <3>3
    <3> HIDE DEF f, d, w, k, h
    <3> QED BY <2>4, <3>3, <3>4, Numbers
  <2>6. Enough(spent, pieces, wraps)'
    <3>1. (Finished + piece - ws * Piece) * Hz = f + d - w
      <4>1. ws * Piece \in Int
        BY Numbers
      <4> QED BY <1>5, <4>1, Numbers, SpreadMore
    <3>2. (Finished + piece - (ws + 1) * Piece) * Hz = f + d - w - e
      <4>1. ws * Piece \in Int /\ (ws + 1) * Piece = ws * Piece + Piece
        BY Numbers
      <4>2. Finished + piece - (ws + 1) * Piece = (Finished + piece - ws * Piece) - Piece
        BY <1>5, <4>1, Numbers
      <4>3. Finished + piece - ws * Piece \in Int
        BY <1>5, <4>1
      <4>4. ((Finished + piece - ws * Piece) - Piece) * Hz
              = (Finished + piece - ws * Piece) * Hz - e
        <5> DEFINE x == Finished + piece - ws * Piece
        <5>1. x \in Int
          BY <4>3
        <5> HIDE DEF x
        <5>2. (x - Piece) * Hz = x * Hz - Piece * Hz
          BY <5>1, Numbers, Spread
        <5> QED BY <5>2 DEF x
      <4>5. (Finished + piece - (ws + 1) * Piece) * Hz = (f + d - w) - e
        BY <3>1, <4>2, <4>4
      <4> HIDE DEF f, d, e, w
      <4> QED BY <2>4, <4>5
    <3>3. Finished + piece - wraps * Piece = Finished' - wraps' * Piece
      BY <1>1, <1>5, <2>3, Numbers
    <3>4. CASE wraps = ws + 1
      <4>1. spent + h >= f + d - w - e
        <5> HIDE DEF f, d, e, w, k, h
        <5> QED BY <1>1, <2>4, <2>5, Numbers
      <4> QED BY <1>1, <3>2, <3>3, <3>4, <4>1 DEF Enough
    <3>5. CASE wraps = ws
      <4>1. spent - sp + (Hz - 1) >= d
        BY <1>4, <1>7, <3>5
      <4>2. spent + h >= f + d - w
        <5> HIDE DEF f, d, e, w, k, h
        <5> QED BY <1>1, <2>4, <2>5, <4>1, Numbers
      <4> QED BY <1>1, <3>1, <3>3, <3>5, <4>2 DEF Enough
    <3> QED BY <2>5, <3>4, <3>5
  <2>7. NotMuch(spent - gap, pieces)'
    <3>1. spent <= f + d + k
      <4> HIDE DEF f, d, e, w, k, h
      <4> QED BY <1>1, <2>4, <2>5, Numbers
    <3>2. (Finished + piece) * Hz = f + d
      BY <1>5, Numbers, Spread
    <3>3. spent' - gap' = spent
      BY <1>1
    <3> QED BY <1>1, <2>3, <3>1, <3>2, <3>3 DEF NotMuch, Extra
  <2>8. (left > 0 => Finished = pieces * Piece)' /\ (pieces * Piece < asked + Piece)'
    <3>1. pieces * Piece = Finished + Piece
      <4>1. 1 * Piece = Piece
        BY Numbers
      <4> QED BY <1>1, <1>2, <4>1, Numbers, Spread
    <3>2. (left < Piece /\ piece = left) \/ (left >= Piece /\ piece = Piece)
      <4>1. piece = Cut /\ left \in Nat
        BY <1>1, <1>2
      <4> QED BY <4>1, Numbers DEF Cut
    <3>3. Finished = asked - left
      BY DEF Finished
    <3> QED BY <1>1, <1>2, <1>5, <2>1, <2>3, <3>1, <3>2, <3>3, Numbers
  <2>9. Rested'
    BY <2>6, <2>7, <2>8 DEF Rested
  <2> QED BY <2>1, <2>2, <2>9 DEF DelayInv
<1> QED BY <1>6, <1>7

\* When a delay is over, nothing is left of what was asked for.
LEMMA LongEnoughInv == DelayInv => DelayHolds
<1> SUFFICES ASSUME DelayInv, delayPc = "done"
    PROVE  /\ spent + pieces * (Hz - 1) >= (asked - wraps * Piece) * Hz
           /\ spent <= asked * Hz + pieces * (2 * MaxGap + Hz) + MaxGap
  BY DEF DelayHolds
<1>1. /\ asked \in Nat /\ left = 0 /\ gap \in 0 .. MaxGap /\ spent \in Nat
      /\ pieces \in Nat
  BY Numbers DEF DelayInv, DelayTypeOK
<1>2. Finished = asked
  BY <1>1 DEF Finished
<1>3. /\ spent + pieces * (Hz - 1) >= (asked - wraps * Piece) * Hz
      /\ spent - gap <= asked * Hz + pieces * Extra
  BY <1>2 DEF DelayInv, Rested, Enough, NotMuch
<1>4. asked * Hz \in Int /\ pieces * Extra \in Int
  BY <1>1, Numbers
<1>5. spent <= asked * Hz + pieces * Extra + MaxGap
  BY <1>1, <1>3, <1>4, Numbers
<1> QED BY <1>3, <1>5 DEF Extra

\* The invariant of a delay.
LEMMA DelayStepInv == DelayInv /\ [DelayNext]_delayVars => DelayInv'
<1> SUFFICES ASSUME DelayInv, [DelayNext]_delayVars PROVE DelayInv'
  OBVIOUS
<1>1. CASE UNCHANGED delayVars
  BY <1>1 DEF delayVars, DelayInv, DelayTypeOK, Rested, Polling, Waiting, Enough,
              NotMuch, Finished, Extra, Cut
<1> QED BY <1>1, TickKeeps, NextPieceKeeps, PollKeeps DEF DelayNext

LEMMA DelayInvHolds == DelaySpec => []DelayInv
BY DelayInitInv, DelayStepInv, PTL DEF DelaySpec

\* The locals of __udelay stay in their ranges: no piece is longer than a second,
\* and the history of a delay is counted to its end.
THEOREM PiecesShort == DelaySpec => []DelayTypeOK
<1>1. DelayInv => DelayTypeOK
  BY DEF DelayInv
<1> QED BY <1>1, DelayInvHolds, PTL

\* Wherever the counter stands and whatever the clock and the delay, udelay takes
\* what was asked for, but for a tick per piece and a piece per wrap, and not
\* much more.
THEOREM LongEnough == DelaySpec => []DelayHolds
BY LongEnoughInv, DelayInvHolds, PTL

-----------------------------------------------------------------------------
(* Counting up *)

FiniteSetsOf(U, F) == F \subseteq SUBSET U /\ F # {} /\ \A s \in F : IsFiniteSet(s)

\* A set of finite sets has a smallest one.
LEMMA SmallestSet ==
  ASSUME NEW U, NEW F, FiniteSetsOf(U, F)
  PROVE  \E s \in F : \A t \in F : t \subseteq s => t = s
<1> DEFINE R == StrictSubsetOrdering(U)
           D == FiniteSubsetsOf(U)
<1>1. IsWellFoundedOn(R, D)
  BY FS_StrictSubsetOrderingWellFounded
<1>2. F \subseteq D /\ F # {}
  BY DEF FiniteSubsetsOf, FiniteSetsOf
<1>3. PICK s \in F : \A t \in F : ~(<<t, s>> \in R)
  <2> HIDE DEF R, D
  <2> QED  BY <1>1, <1>2, WFMin
<1>4. ASSUME NEW t \in F, t \subseteq s, t # s PROVE FALSE
  <2>1. <<t, s>> \in R
    BY <1>4 DEF StrictSubsetOrdering, FiniteSetsOf
  <2> QED  BY <2>1, <1>3
<1> QED  BY <1>4

\* What holds at 0, and at each number up to N if it holds at the one before,
\* holds up to N: the first at which it did not would have one before it.
LEMMA CountUp ==
  ASSUME NEW N \in Nat, NEW T, 0 \in T, \A n \in 1 .. N : n - 1 \in T => n \in T
  PROVE  \A n \in 0 .. N : n \in T
<1> SUFFICES ASSUME NEW m \in 0 .. N, m \notin T PROVE FALSE
  OBVIOUS
<1> DEFINE F == {0 .. n : n \in {k \in 0 .. N : k \notin T}}
<1>1. FiniteSetsOf(Nat, F)
  <2>1. \A n \in 0 .. N : 0 .. n \subseteq Nat
    OBVIOUS
  <2>2. 0 .. m \in F
    OBVIOUS
  <2>3. ASSUME NEW s \in F PROVE IsFiniteSet(s)
    <3>1. PICK n \in 0 .. N : s = 0 .. n
      OBVIOUS
    <3> QED  BY <3>1, FS_Interval
  <2>4. F \subseteq SUBSET Nat
    BY <2>1
  <2> HIDE DEF F
  <2> QED  BY <2>2, <2>3, <2>4 DEF FiniteSetsOf
<1>2. PICK s \in F : \A t \in F : t \subseteq s => t = s
  <2> HIDE DEF F
  <2> QED  BY <1>1, SmallestSet
<1>3. PICK n \in 0 .. N : n \notin T /\ s = 0 .. n
  OBVIOUS
<1>4. n - 1 \in 0 .. N /\ n \in 1 .. N /\ n - 1 \notin T
  BY <1>3
<1>5. 0 .. n - 1 \in F /\ 0 .. n - 1 \subseteq 0 .. n
  BY <1>4
<1>6. 0 .. n - 1 = 0 .. n
  BY <1>2, <1>3, <1>5
<1> QED  BY <1>3, <1>6

\* How each of N rounds changes a value of S.
Rounds(N, S) == [1 .. N -> [S -> S]]

\* A function that is defined from the value before exists.
LEMMA Iterates ==
  ASSUME NEW S, NEW N \in Nat, NEW a \in S, NEW G \in Rounds(N, S)
  PROVE  \E f \in [0 .. N -> S] : f[0] = a /\ \A i \in 1 .. N : f[i] = G[i][f[i - 1]]
<1> DEFINE Is(f, n) == f[0] = a /\ \A i \in 1 .. n : f[i] = G[i][f[i - 1]]
           T == {n \in 0 .. N : \E f \in [0 .. n -> S] : Is(f, n)}
<1> USE DEF Rounds
<1>1. 0 \in T
  <2> DEFINE f == [i \in 0 .. 0 |-> a]
  <2>1. f \in [0 .. 0 -> S] /\ f[0] = a
    OBVIOUS
  <2>2. 1 .. 0 = {}
    OBVIOUS
  <2> HIDE DEF f
  <2> QED  BY <2>1, <2>2
<1>2. ASSUME NEW n \in 1 .. N, n - 1 \in T PROVE n \in T
  <2>1. PICK f \in [0 .. n - 1 -> S] : Is(f, n - 1)
    BY <1>2
  <2> DEFINE g == [i \in 0 .. n |-> IF i = n THEN G[n][f[n - 1]] ELSE f[i]]
  <2>2. G[n][f[n - 1]] \in S
    OBVIOUS
  <2>3. g \in [0 .. n -> S]
    BY <2>2
  <2>4. ASSUME NEW i \in 1 .. n PROVE g[i] = G[i][g[i - 1]]
    <3>1. i - 1 \in 0 .. n /\ i - 1 # n /\ g[i - 1] = f[i - 1]
      OBVIOUS
    <3>2. CASE i = n
      BY <3>1, <3>2
    <3>3. CASE i # n
      <4>1. i \in 1 .. n - 1 /\ g[i] = f[i]
        BY <3>3
      <4> QED  BY <2>1, <3>1, <4>1
    <3> QED  BY <3>2, <3>3
  <2>5. g[0] = a
    BY <2>1
  <2> HIDE DEF g
  <2> QED  BY <2>3, <2>4, <2>5, SMTT(30)
<1>3. N \in T
  <2>1. N \in 0 .. N
    OBVIOUS
  <2> HIDE DEF T
  <2> QED  BY <1>1, <1>2, <2>1, CountUp
<1> QED  BY <1>3

-----------------------------------------------------------------------------
(* Parts *)

\* What find_part has found behind each part.
PartsFound(f, parts, name) ==
  f = [i \in 0 .. Len(parts) |->
         IF i = 0 THEN NotFound
         ELSE IF f[i - 1].ret # 0 THEN f[i - 1]
         ELSE OnePart(parts, name, f[i - 1], i)]

\* What find_flash_part has found behind each table.
TablesFound(f, devices, media, name) ==
  f = [d \in 0 .. Len(devices) |->
         IF d = 0 THEN NotFound
         ELSE IF f[d - 1].ret # 0 \/ devices[d].media # media THEN f[d - 1]
         ELSE FindPart(devices[d].parts, name)]

Answers == [ret : {-1, 0, 1}, start : Int, length : Int]

LEMMA NotFoundType == NotFound \in Answers
BY DEF NotFound, Answers

LEMMA OnePartType ==
  ASSUME NEW parts \in PartTables, NEW name, NEW acc \in Answers, NEW i \in 1 .. Len(parts)
  PROVE  OnePart(parts, name, acc, i) \in Answers
<1>1. parts[i] \in [size : Nat \cup {FillUp}, name : STRING, closed : BOOLEAN]
  BY ElementOfSeq DEF PartTables
<1>2. parts[i].size \in Int
  BY <1>1 DEF FillUp
<1>3. StartOf(acc, parts[i]) \in Int
  BY DEF StartOf, Answers
<1> QED  BY <1>2, <1>3 DEF OnePart, Answers

\* FindPart is the last of these answers.
LEMMA FindPartIs ==
  ASSUME NEW parts \in PartTables, NEW name
  PROVE  \E f : /\ PartsFound(f, parts, name)
                /\ FindPart(parts, name) = f[Len(parts)]
<1> DEFINE L == Len(parts)
           Step(v, i) == IF v.ret # 0 THEN v ELSE OnePart(parts, name, v, i)
           G == [i \in 1 .. L |-> [v \in Answers |-> Step(v, i)]]
<1>1. L \in Nat
  BY DEF PartTables
<1>2. G \in Rounds(L, Answers)
  BY OnePartType DEF Rounds
<1>3. PICK f \in [0 .. L -> Answers] : f[0] = NotFound /\ \A i \in 1 .. L : f[i] = G[i][f[i - 1]]
  <2> HIDE DEF G, L
  <2> QED  BY <1>1, <1>2, NotFoundType, Iterates
<1>4. ASSUME NEW i \in 0 .. L
      PROVE  f[i] = IF i = 0 THEN NotFound
                    ELSE IF f[i - 1].ret # 0 THEN f[i - 1]
                    ELSE OnePart(parts, name, f[i - 1], i)
  <2>1. CASE i = 0
    BY <2>1, <1>3
  <2>2. CASE i # 0
    <3>1. i \in 1 .. L /\ i - 1 \in 0 .. L /\ f[i - 1] \in Answers
      BY <2>2, <1>1
    <3>2. f[i] = Step(f[i - 1], i)
      BY <3>1, <1>3
    <3> QED  BY <2>2, <3>2
  <2> QED  BY <2>1, <2>2
<1>5. PartsFound(f, parts, name)
  <2>1. f = [i \in 0 .. L |-> f[i]]
    OBVIOUS
  <2> QED  BY <1>4, <2>1 DEF PartsFound
<1>6. PartsFound(CHOOSE g : PartsFound(g, parts, name), parts, name)
  BY <1>5
<1>7. FindPart(parts, name) = (CHOOSE g : PartsFound(g, parts, name))[L]
  BY DEF FindPart, PartsFound
<1> QED  BY <1>6, <1>7

\* Two names that are not among the parts before i have the same answers there.
LEMMA AnswersAgree ==
  ASSUME NEW parts \in PartTables, Valid(parts), NEW i \in 1 .. Len(parts),
         NEW a, NEW b, \A k \in 1 .. i - 1 : parts[k].name # a /\ parts[k].name # b,
         NEW f, NEW g, PartsFound(f, parts, a), PartsFound(g, parts, b)
  PROVE  f[i - 1] = g[i - 1] /\ f[i - 1].ret = 0
<1> DEFINE L == Len(parts)
           T == {k \in 0 .. i - 1 : f[k] = g[k] /\ f[k].ret = 0}
<1>1. L \in Nat /\ i - 1 \in Nat
  BY DEF PartTables
<1>2. 0 \in T
  BY <1>1 DEF PartsFound, NotFound
<1>3. ASSUME NEW k \in 1 .. i - 1, k - 1 \in T PROVE k \in T
  <2>1. k \in 0 .. L /\ k \in 1 .. L /\ k # 0 /\ k < L
    BY <1>1
  <2>2. /\ f[k] = OnePart(parts, a, f[k - 1], k)
        /\ g[k] = OnePart(parts, b, g[k - 1], k)
    BY <1>3, <2>1 DEF PartsFound
  <2>3. parts[k].closed /\ parts[k].size # FillUp /\ parts[k].size >= MinPart
    BY <2>1 DEF Valid
  <2>4. parts[k].size \in Int
    <3>1. parts[k] \in [size : Nat \cup {FillUp}, name : STRING, closed : BOOLEAN]
      BY <2>1, ElementOfSeq DEF PartTables
    <3> QED  BY <3>1 DEF FillUp
  <2>5. ~(parts[k].size < MinPart)
    BY <2>3, <2>4, PartsAssumption
  <2> QED  BY <1>3, <2>2, <2>3, <2>5 DEF OnePart
<1>4. i - 1 \in T
  <2>1. i - 1 \in 0 .. i - 1
    BY <1>1
  <2> HIDE DEF T
  <2> QED  BY <1>1, <1>2, <1>3, <2>1, CountUp
<1> QED  BY <1>4

\* The first part of a name is what is found of it.
LEMMA FirstIsFound ==
  ASSUME NEW parts \in PartTables, Valid(parts), NEW i \in 1 .. Len(parts),
         \A k \in 1 .. i - 1 : parts[k].name # parts[i].name,
         NEW f, PartsFound(f, parts, parts[i].name)
  PROVE  /\ f[i].ret = 1 /\ f[i].length = parts[i].size
         /\ f[i].start = f[i - 1].start + f[i - 1].length
         /\ f[Len(parts)] = f[i]
<1> DEFINE L == Len(parts)
           name == parts[i].name
<1>1. L \in Nat /\ i \in 0 .. L /\ i # 0
  BY DEF PartTables
<1>2. f[i - 1].ret = 0
  BY AnswersAgree
<1>3. f[i] = OnePart(parts, name, f[i - 1], i)
  BY <1>1, <1>2 DEF PartsFound
<1>4. /\ parts[i].closed
      /\ parts[i].size = FillUp => i = L
      /\ ~(parts[i].size # FillUp /\ parts[i].size < MinPart)
  <2>1. parts[i] \in [size : Nat \cup {FillUp}, name : STRING, closed : BOOLEAN]
    BY ElementOfSeq DEF PartTables
  <2>2. parts[i].size \in Int
    BY <2>1 DEF FillUp
  <2>3. i \in DOMAIN parts
    BY DEF PartTables
  <2> QED  BY <2>2, <2>3, PartsAssumption DEF Valid
<1>5. /\ f[i].ret = 1 /\ f[i].length = parts[i].size
      /\ f[i].start = f[i - 1].start + f[i - 1].length
  BY <1>1, <1>3, <1>4 DEF OnePart, StartOf
<1> DEFINE T == {k \in 0 .. L : k < i \/ f[k] = f[i]}
<1>6. 0 \in T
  BY <1>1
<1>7. ASSUME NEW k \in 1 .. L, k - 1 \in T PROVE k \in T
  <2>1. CASE k <= i
    BY <2>1
  <2>2. CASE k > i
    <3>1. f[k - 1] = f[i] /\ k \in 0 .. L /\ k # 0
      BY <2>2, <1>7
    <3>2. f[k - 1].ret # 0
      BY <3>1, <1>5
    <3>3. f[k] = f[k - 1]
      BY <3>1, <3>2 DEF PartsFound
    <3> QED  BY <3>1, <3>3
  <2> QED  BY <2>1, <2>2
<1>8. L \in T
  <2>1. L \in 0 .. L
    BY <1>1
  <2> HIDE DEF T, L
  <2> QED  BY <1>1, <1>6, <1>7, <2>1, CountUp
<1> QED  BY <1>1, <1>5, <1>8

\* FindFlashPart is the last of the answers behind the tables.
LEMMA FindFlashPartIs ==
  ASSUME NEW devices \in Devices, NEW media, NEW name
  PROVE  \E f : /\ TablesFound(f, devices, media, name)
                /\ FindFlashPart(devices, media, name) = f[Len(devices)]
<1> DEFINE L == Len(devices)
           S == {NotFound} \cup {FindPart(devices[d].parts, name) : d \in 1 .. L}
           Step(v, d) == IF v.ret # 0 \/ devices[d].media # media THEN v
                         ELSE FindPart(devices[d].parts, name)
           G == [d \in 1 .. L |-> [v \in S |-> Step(v, d)]]
<1>1. L \in Nat
  BY DEF Devices
<1>2. G \in Rounds(L, S) /\ NotFound \in S
  BY DEF Rounds
<1>3. PICK f \in [0 .. L -> S] : f[0] = NotFound /\ \A d \in 1 .. L : f[d] = G[d][f[d - 1]]
  <2> HIDE DEF G, L, S
  <2> QED  BY <1>1, <1>2, Iterates
<1>4. ASSUME NEW d \in 0 .. L
      PROVE  f[d] = IF d = 0 THEN NotFound
                    ELSE IF f[d - 1].ret # 0 \/ devices[d].media # media THEN f[d - 1]
                    ELSE FindPart(devices[d].parts, name)
  <2>1. CASE d = 0
    BY <2>1, <1>3
  <2>2. CASE d # 0
    <3>1. d \in 1 .. L /\ f[d - 1] \in S
      <4>1. d \in 1 .. L /\ d - 1 \in 0 .. L
        BY <2>2, <1>1
      <4> HIDE DEF S
      <4> QED  BY <4>1
    <3>2. f[d] = Step(f[d - 1], d)
      <4>1. f[d] = [v \in S |-> Step(v, d)][f[d - 1]]
        BY <3>1, <1>3
      <4> HIDE DEF S
      <4> QED  BY <3>1, <4>1
    <3> QED  BY <2>2, <3>2
  <2> QED  BY <2>1, <2>2
<1>5. TablesFound(f, devices, media, name)
  <2>1. f = [d \in 0 .. L |-> f[d]]
    <3> HIDE DEF S
    <3> QED  OBVIOUS
  <2> QED  BY <1>4, <2>1 DEF TablesFound
<1>6. TablesFound(CHOOSE g : TablesFound(g, devices, media, name), devices, media, name)
  BY <1>5
<1>7. FindFlashPart(devices, media, name) = (CHOOSE g : TablesFound(g, devices, media, name))[L]
  BY DEF FindFlashPart, TablesFound
<1> QED  BY <1>6, <1>7

\* If one table is that of the media, what is found is found in it.
LEMMA OnlyTable ==
  ASSUME NEW devices \in Devices, NEW media, NEW name, NEW d \in 1 .. Len(devices),
         {e \in DOMAIN devices : devices[e].media = media} = {d}
  PROVE  FindFlashPart(devices, media, name) = FindPart(devices[d].parts, name)
<1> DEFINE L == Len(devices)
           found == FindPart(devices[d].parts, name)
<1>1. L \in Nat /\ DOMAIN devices = 1 .. L
  BY DEF Devices
<1>2. \A e \in 1 .. L : devices[e].media = media <=> e = d
  BY <1>1
<1>3. PICK f : TablesFound(f, devices, media, name)
               /\ FindFlashPart(devices, media, name) = f[L]
  BY FindFlashPartIs
<1>4. /\ f[0] = NotFound
      /\ \A e \in 1 .. L : f[e] = IF f[e - 1].ret # 0 \/ e # d THEN f[e - 1] ELSE found
  BY <1>1, <1>2, <1>3 DEF TablesFound
<1> DEFINE T == {e \in 0 .. L : f[e] = IF e < d THEN NotFound ELSE found}
<1>5. 0 \in T
  BY <1>1, <1>4
<1>6. ASSUME NEW e \in 1 .. L, e - 1 \in T PROVE e \in T
  <2>1. CASE e # d
    BY <2>1, <1>4, <1>6
  <2>2. CASE e = d
    <3>1. f[e - 1] = NotFound
      BY <2>2, <1>6
    <3>2. f[e] = found
      BY <2>2, <3>1, <1>4 DEF NotFound
    <3> QED  BY <2>2, <3>2
  <2> QED  BY <2>1, <2>2
<1>7. L \in T
  <2>1. L \in 0 .. L
    BY <1>1
  <2> HIDE DEF T, L
  <2> QED  BY <1>1, <1>5, <1>6, <2>1, CountUp
<1> QED  BY <1>1, <1>3, <1>7

\* The value of the first word the name occurs in, when it ends the key there.
LEMMA ValueTaken ==
  ASSUME NEW bootargs \in BootArgs, NEW devpartname, NEW w \in 1 .. Len(bootargs),
         \A v \in DOMAIN bootargs : v < w => ~Mentions(bootargs[v], devpartname),
         Occurs(bootargs[w].key, devpartname) = "end"
  PROVE  DevPart(bootargs, devpartname) = bootargs[w].value
<1>1. DOMAIN bootargs = 1 .. Len(bootargs) /\ Len(bootargs) \in Nat
  BY DEF BootArgs
<1> DEFINE I == {v \in 1 .. Len(bootargs) : Mentions(bootargs[v], devpartname)}
<1>2. w \in I /\ \A v \in I : w <= v
  <2>1. Mentions(bootargs[w], devpartname)
    BY DEF Mentions
  <2>2. ASSUME NEW v \in 1 .. Len(bootargs), Mentions(bootargs[v], devpartname)
        PROVE  w <= v
    BY <1>1, <2>2
  <2> QED  BY <2>1, <2>2
<1>3. I # {} /\ Min(I) = w
  <2>1. \A v \in I : v \in Int
    BY <1>1
  <2> HIDE DEF I
  <2>2. \A x \in I : (\A v \in I : x <= v) => x = w
    BY <1>2, <2>1
  <2> QED  BY <1>2, <2>2 DEF Min
<1>4. SelectInSeq(bootargs, LAMBDA v : Mentions(v, devpartname)) = w
  BY <1>3 DEF SelectInSeq
<1>5. w # 0
  BY <1>1
<1> QED  BY <1>4, <1>5 DEF DevPart

\* What is found in one table.
Place(parts, k) == FindPart(parts, parts[k].name)
FirstOfName(parts, k) == \A j \in DOMAIN parts : j < k => parts[j].name # parts[k].name

LEMMA PlacesFollow ==
  ASSUME NEW parts \in PartTables, Valid(parts), NEW i \in DOMAIN parts, FirstOfName(parts, i)
  PROVE  /\ Place(parts, i).ret = 1 /\ Place(parts, i).length = parts[i].size
         /\ i = 1 => Place(parts, i).start = 0
         /\ \A j \in DOMAIN parts :
              j = i + 1 /\ FirstOfName(parts, j) =>
                Place(parts, j).start = Place(parts, i).start + Place(parts, i).length
<1> DEFINE L == Len(parts)
<1>1. L \in Nat /\ DOMAIN parts = 1 .. L
  BY DEF PartTables
<1>2. PICK f : PartsFound(f, parts, parts[i].name) /\ Place(parts, i) = f[L]
  BY FindPartIs DEF Place
<1>3. \A k \in 1 .. i - 1 : parts[k].name # parts[i].name
  BY <1>1 DEF FirstOfName
<1>4. /\ f[i].ret = 1 /\ f[i].length = parts[i].size
      /\ f[i].start = f[i - 1].start + f[i - 1].length
      /\ f[L] = f[i]
  BY <1>1, <1>2, <1>3, FirstIsFound
<1>5. i = 1 => f[i].start = 0
  <2>1. f[0] = NotFound
    BY <1>1, <1>2 DEF PartsFound
  <2> QED  BY <1>4, <2>1 DEF NotFound
<1>6. ASSUME NEW j \in DOMAIN parts, j = i + 1, FirstOfName(parts, j)
      PROVE  Place(parts, j).start = f[i].start + f[i].length
  <2>1. PICK g : PartsFound(g, parts, parts[j].name) /\ Place(parts, j) = g[L]
    BY FindPartIs DEF Place
  <2>2. \A k \in 1 .. j - 1 : parts[k].name # parts[j].name
    BY <1>1, <1>6 DEF FirstOfName
  <2>3. /\ g[j].start = g[j - 1].start + g[j - 1].length
        /\ g[L] = g[j]
    BY <1>1, <2>1, <2>2, FirstIsFound
  <2>4. f[i - 1] = g[i - 1] /\ f[i - 1].ret = 0 /\ g[i - 1].ret = 0
    <3>1. \A k \in 1 .. i - 1 : parts[k].name # parts[i].name /\ parts[k].name # parts[j].name
      BY <1>1, <1>3, <1>6, <2>2
    <3>2. PartsFound(f, parts, parts[i].name) /\ PartsFound(g, parts, parts[j].name)
      BY <1>2, <2>1
    <3>3. f[i - 1] = g[i - 1] /\ f[i - 1].ret = 0
      BY <1>1, <3>1, <3>2, AnswersAgree
    <3> QED  BY <3>3
  <2>5. /\ f[i] = OnePart(parts, parts[i].name, f[i - 1], i)
        /\ g[i] = OnePart(parts, parts[j].name, g[i - 1], i)
    <3>1. i \in 0 .. L /\ i # 0
      BY <1>1
    <3>2. f[i] = OnePart(parts, parts[i].name, f[i - 1], i)
      BY <1>2, <2>4, <3>1 DEF PartsFound
    <3>3. g[i] = OnePart(parts, parts[j].name, g[i - 1], i)
      BY <2>1, <2>4, <3>1, SMTT(30) DEF PartsFound
    <3> QED  BY <3>2, <3>3
  <2>6. g[i].start = f[i].start /\ g[i].length = f[i].length
    BY <2>4, <2>5 DEF OnePart
  <2>7. j - 1 = i
    BY <1>1, <1>6
  <2> QED  BY <2>1, <2>3, <2>6, <2>7
<1> QED  BY <1>2, <1>4, <1>5, <1>6

\* Every partition of a device that is described once, without errors, is found
\* where the text puts it: the first at 0, each at the end of the one before.
\* The text is the value of the first word the name occurs in (parts.c:41-48).
THEOREM PartsFollow ==
  ASSUME NEW bootargs \in BootArgs, NEW devpartname, NEW media
  PROVE  PartsTile(bootargs, devpartname, media)
<1> SUFFICES
      ASSUME NEW w \in DOMAIN bootargs, NEW d \in DOMAIN bootargs[w].value,
             \A v \in DOMAIN bootargs : v < w => ~Mentions(bootargs[v], devpartname),
             Occurs(bootargs[w].key, devpartname) = "end",
             {e \in DOMAIN bootargs[w].value : bootargs[w].value[e].media = media} = {d},
             Valid(bootargs[w].value[d].parts)
      PROVE  LET parts == bootargs[w].value[d].parts
                 Of(i) == FlashFindPart(bootargs, devpartname, media, parts[i].name)
                 Once(i) == \A j \in DOMAIN parts : j < i => parts[j].name # parts[i].name
             IN \A i \in DOMAIN parts : Once(i) =>
                  /\ Of(i).ret = 1 /\ Of(i).length = parts[i].size
                  /\ i = 1 => Of(i).start = 0
                  /\ \A j \in DOMAIN parts :
                       j = i + 1 /\ Once(j) => Of(j).start = Of(i).start + Of(i).length
  BY DEF PartsTile
<1> DEFINE devices == bootargs[w].value
           parts == devices[d].parts
           Of(i) == FlashFindPart(bootargs, devpartname, media, parts[i].name)
<1>1. w \in 1 .. Len(bootargs) /\ devices \in Devices
  <2>1. w \in 1 .. Len(bootargs)
    BY DEF BootArgs
  <2>2. bootargs[w] \in [key : STRING, value : Devices]
    BY <2>1, ElementOfSeq DEF BootArgs
  <2> QED  BY <2>1, <2>2
<1>2. d \in 1 .. Len(devices) /\ parts \in PartTables
  <2>1. d \in 1 .. Len(devices)
    BY <1>1 DEF Devices
  <2>2. devices[d] \in [media : STRING, parts : PartTables]
    BY <1>1, <2>1, ElementOfSeq DEF Devices
  <2> QED  BY <2>1, <2>2
<1>3. DevPart(bootargs, devpartname) = devices
  BY <1>1, ValueTaken
<1>4. ASSUME NEW i PROVE Of(i) = Place(parts, i)
  <2>1. {e \in DOMAIN devices : devices[e].media = media} = {d}
    OBVIOUS
  <2>2. Of(i) = FindFlashPart(devices, media, parts[i].name)
    BY <1>3 DEF FlashFindPart
  <2> HIDE DEF devices, Of
  <2> QED  BY <1>1, <1>2, <2>1, <2>2, OnlyTable DEF Place
<1> HIDE DEF devices, Of
<1>5. ASSUME NEW i \in DOMAIN parts, FirstOfName(parts, i)
      PROVE  /\ Of(i).ret = 1 /\ Of(i).length = parts[i].size
             /\ i = 1 => Of(i).start = 0
             /\ \A j \in DOMAIN parts :
                  j = i + 1 /\ FirstOfName(parts, j) => Of(j).start = Of(i).start + Of(i).length
  BY <1>2, <1>4, <1>5, PlacesFollow DEF devices
<1> QED  BY <1>5, SMTT(30) DEF FirstOfName, devices, Of

-----------------------------------------------------------------------------
(* Args *)

AWord == [name : STRING, val : STRING, nr : Nat, quotes : Nat]
Words == Seq(AWord)

\* The characters of the first words and the blanks beside.
Summed(f, t) ==
  f = [n \in 0 .. Len(t.words) |->
         IF n = 0 THEN t.blanks
         ELSE f[n - 1] + t.words[n].nr + t.words[n].quotes]

\* What they do from word to word.
Sums(f, t) ==
  /\ f \in [0 .. Len(t.words) -> Nat]
  /\ \A n \in 1 .. Len(t.words) :
       f[n] = f[n - 1] + t.words[n].nr + t.words[n].quotes

WordOf(words, i) == words[i].nr \in Nat /\ words[i].quotes \in Nat

LEMMA WordsAre ==
  ASSUME NEW t \in Texts
  PROVE  /\ t.words \in Words /\ t.blanks \in Nat /\ Len(t.words) \in Nat
         /\ \A i \in 1 .. Len(t.words) : WordOf(t.words, i)
<1>1. t.words \in Words /\ t.blanks \in Nat
  BY DEF Texts, Words, AWord
<1>2. ASSUME NEW i \in 1 .. Len(t.words) PROVE WordOf(t.words, i)
  <2>1. t.words[i] \in AWord
    BY <1>1, ElementOfSeq DEF Words
  <2> QED  BY <2>1 DEF WordOf, AWord
<1> QED  BY <1>1, <1>2 DEF Words

\* The length of a text is the last of these sums, with a blank between words;
\* the sums do not fall.
LEMMA LengthIs ==
  ASSUME NEW t \in Texts
  PROVE  \E f :
           /\ Sums(f, t)
           /\ Length(t) = f[Len(t.words)]
                             + (IF t.words = <<>> THEN 0 ELSE Len(t.words) - 1)
<1> DEFINE L == Len(t.words)
           Step(v, n) == v + t.words[n].nr + t.words[n].quotes
           S == Nat
           G == [n \in 1 .. L |-> [v \in S |-> Step(v, n)]]
<1>1. L \in Nat /\ t.blanks \in Nat /\ \A n \in 1 .. L : WordOf(t.words, n)
  BY WordsAre
<1>2. G \in Rounds(L, S) /\ t.blanks \in S
  BY <1>1 DEF Rounds, WordOf
<1>3. PICK f \in [0 .. L -> Nat] : f[0] = t.blanks /\ \A n \in 1 .. L : f[n] = G[n][f[n - 1]]
  <2>1. \E f \in [0 .. L -> S] : f[0] = t.blanks /\ \A n \in 1 .. L : f[n] = G[n][f[n - 1]]
    <3> HIDE DEF G, L, S
    <3> QED  BY <1>1, <1>2, Iterates
  <2> QED  BY <2>1
<1>4. ASSUME NEW n \in 0 .. L
      PROVE  f[n] = IF n = 0 THEN t.blanks ELSE Step(f[n - 1], n)
  <2>1. CASE n = 0
    BY <2>1, <1>3
  <2>2. CASE n # 0
    <3>1. n \in 1 .. L /\ n - 1 \in 0 .. L /\ f[n - 1] \in Nat
      BY <2>2, <1>1
    <3> QED  BY <2>2, <3>1, <1>3
  <2> QED  BY <2>1, <2>2
<1>5. Summed(f, t)
  <2>1. f = [n \in 0 .. L |-> f[n]]
    OBVIOUS
  <2> QED  BY <1>4, <2>1 DEF Summed
<1> DEFINE u == CHOOSE g : Summed(g, t)
<1>6. Summed(u, t)
  BY <1>5
<1>7. Length(t) = u[L] + (IF t.words = <<>> THEN 0 ELSE L - 1)
  BY DEF Length, Summed
<1> HIDE DEF u
<1>8. /\ u[0] = t.blanks
      /\ \A n \in 1 .. L : u[n] = Step(u[n - 1], n)
  BY <1>1, <1>6, SMTT(30) DEF Summed
<1> DEFINE T == {n \in 0 .. L : u[n] \in Nat}
<1>9. \A n \in 0 .. L : n \in T
  <2>1. 0 \in T
    BY <1>1, <1>8
  <2>2. ASSUME NEW n \in 1 .. L, n - 1 \in T PROVE n \in T
    <3>1. u[n - 1] \in Nat /\ t.words[n].nr \in Nat /\ t.words[n].quotes \in Nat
      BY <1>1, <2>2 DEF WordOf
    <3>2. u[n] = u[n - 1] + t.words[n].nr + t.words[n].quotes
      BY <1>8
    <3>3. u[n] \in Nat
      BY <3>1, <3>2
    <3> QED  BY <3>3, <1>1
  <2> HIDE DEF T, L
  <2> QED  BY <1>1, <2>1, <2>2, CountUp
<1>10. u \in [0 .. L -> Nat]
  <2>1. u = [n \in 0 .. L |-> u[n]]
    BY <1>6 DEF Summed
  <2> QED  BY <1>9, <2>1
<1> QED  BY <1>7, <1>8, <1>10 DEF Sums

LEMMA SumsRise ==
  ASSUME NEW t \in Texts, NEW f, Sums(f, t), NEW m \in 0 .. Len(t.words)
  PROVE  f[m] <= f[Len(t.words)]
<1> DEFINE L == Len(t.words)
           T == {n \in 0 .. L : n < m \/ f[m] <= f[n]}
<1>1. L \in Nat /\ \A n \in 1 .. L : WordOf(t.words, n)
  BY WordsAre
<1>2. 0 \in T
  BY <1>1 DEF Sums
<1>3. ASSUME NEW n \in 1 .. L, n - 1 \in T PROVE n \in T
  <2>1. /\ n - 1 \in 0 .. L /\ n \in 0 .. L /\ n \in 1 .. L
        /\ f[n] = f[n - 1] + t.words[n].nr + t.words[n].quotes
    BY <1>1 DEF Sums
  <2>2. f[n - 1] \in Nat /\ f[n] \in Nat /\ f[m] \in Nat
    BY <2>1 DEF Sums
  <2>3. f[n - 1] <= f[n]
    BY <1>1, <2>1, <2>2, SMTT(30) DEF WordOf
  <2> QED  BY <1>3, <2>1, <2>2, <2>3
<1>4. L \in T
  <2>1. L \in 0 .. L
    BY <1>1
  <2> HIDE DEF T, L
  <2> QED  BY <1>1, <1>2, <1>3, <2>1, CountUp
<1> QED  BY <1>1, <1>4

\* The words parse_args sees.
LEMMA Parsed ==
  ASSUME NEW t \in Texts
  PROVE  /\ ParseArgs(t) \in Words
         /\ Len(ParseArgs(t)) \in 0 .. Len(t.words)
         /\ \A i \in 1 .. Len(ParseArgs(t)) : ParseArgs(t)[i] = t.words[i]
         /\ Len(t.words) <= MaxPv => ParseArgs(t) = t.words
<1> DEFINE s == t.words
           n == IF Len(s) < MaxPv THEN Len(s) ELSE MaxPv
<1>1. s \in Words /\ Len(s) \in Nat /\ n \in 0 .. Len(s)
  BY WordsAre, ArgsAssumption
<1>2. /\ SubSeq(s, 1, n) \in Words
      /\ Len(SubSeq(s, 1, n)) = n
      /\ \A i \in 1 .. n : SubSeq(s, 1, n)[i] = s[i]
  <2>1. \A i \in 1 .. n : s[i] \in AWord
    BY <1>1, ElementOfSeq DEF Words
  <2> HIDE DEF s, n
  <2>2. n \in Nat
    BY <1>1
  <2>3. /\ SubSeq(s, 1, n) \in Seq(AWord)
        /\ Len(SubSeq(s, 1, n)) = IF 1 <= n THEN n - 1 + 1 ELSE 0
        /\ \A i \in 1 .. n - 1 + 1 : SubSeq(s, 1, n)[i] = s[1 + i - 1]
    BY <2>1, <2>2, SubSeqProperties
  <2>4. \A i \in 1 .. n : i \in 1 .. n - 1 + 1 /\ 1 + i - 1 = i
    BY <2>2
  <2> QED  BY <2>2, <2>3, <2>4 DEF Words
<1>3. Len(s) <= MaxPv => n = Len(s)
  BY <1>1, ArgsAssumption
<1>4. SubSeq(s, 1, Len(s)) = s
  <2> HIDE DEF s
  <2> QED  BY <1>1 DEF Words
<1> HIDE DEF s, n
<1> QED  BY <1>1, <1>2, <1>3, <1>4 DEF ParseArgs, s, n

\* What merge_args has behind each parameter of the second text.
MergedUpTo(f, args, merge) ==
  f = [n \in 0 .. Len(ParseArgs(merge)) |->
         IF n = 0 THEN [words |-> args.words, nr |-> Length(args)]
         ELSE Merged(f[n - 1], args, ParseArgs(merge)[n])]

Cmdlines == [words : Words, nr : Nat]

LEMMA LengthType ==
  ASSUME NEW t \in Texts
  PROVE  Length(t) \in Nat
<1>1. PICK f :
        /\ Sums(f, t)
        /\ Length(t) = f[Len(t.words)]
                          + (IF t.words = <<>> THEN 0 ELSE Len(t.words) - 1)
  BY LengthIs
<1>2. Len(t.words) \in Nat /\ t.words \in Words
  BY WordsAre
<1>3. t.words # <<>> => Len(t.words) # 0
  <2> DEFINE s == t.words
  <2> HIDE DEF s
  <2> QED  BY <1>2 DEF Words, s
<1>4. f[Len(t.words)] \in Nat
  BY <1>1, <1>2 DEF Sums
<1> QED  BY <1>1, <1>2, <1>3, <1>4

LEMMA MergedType ==
  ASSUME NEW args \in Texts, NEW c \in Cmdlines, NEW w \in AWord
  PROVE  Merged(c, args, w) \in Cmdlines
<1>1. Append(c.words, w) \in Words
  <2>1. c.words \in Seq(AWord)
    BY DEF Cmdlines, Words
  <2> QED  BY <2>1, AppendProperties DEF Words
<1>2. c.nr + w.nr + (IF c.nr = 0 THEN 0 ELSE 1) \in Nat
  BY DEF Cmdlines, AWord
<1> QED  BY <1>1, <1>2 DEF Merged, Cmdlines

\* The merged text is the last of these.
LEMMA MergeArgsIs ==
  ASSUME NEW args \in Texts, NEW merge \in Texts
  PROVE  \E f \in [0 .. Len(ParseArgs(merge)) -> Cmdlines] :
           /\ f[0] = [words |-> args.words, nr |-> Length(args)]
           /\ \A n \in 1 .. Len(ParseArgs(merge)) :
                f[n] = Merged(f[n - 1], args, ParseArgs(merge)[n])
           /\ MergeArgs(args, merge) = f[Len(ParseArgs(merge))]
<1> DEFINE pv == ParseArgs(merge)
           L == Len(pv)
           first == [words |-> args.words, nr |-> Length(args)]
           G == [n \in 1 .. L |-> [c \in Cmdlines |-> Merged(c, args, pv[n])]]
<1>1. L \in Nat /\ \A n \in 1 .. L : pv[n] \in AWord
  <2>1. pv \in Seq(AWord)
    BY Parsed DEF Words
  <2> HIDE DEF pv
  <2> QED  BY <2>1, ElementOfSeq
<1>2. first \in Cmdlines
  BY WordsAre, LengthType DEF Cmdlines
<1> HIDE DEF pv
<1>3. G \in Rounds(L, Cmdlines)
  BY <1>1, MergedType DEF Rounds
<1>4. PICK f \in [0 .. L -> Cmdlines] : f[0] = first /\ \A n \in 1 .. L : f[n] = G[n][f[n - 1]]
  <2> HIDE DEF G, L, first
  <2> QED  BY <1>1, <1>2, <1>3, Iterates
<1>5. ASSUME NEW n \in 0 .. L
      PROVE  f[n] = IF n = 0 THEN first ELSE Merged(f[n - 1], args, pv[n])
  <2>1. CASE n = 0
    BY <2>1, <1>4
  <2>2. CASE n # 0
    <3>1. n \in 1 .. L /\ n - 1 \in 0 .. L /\ f[n - 1] \in Cmdlines
      BY <2>2, <1>1
    <3> QED  BY <2>2, <3>1, <1>4
  <2> QED  BY <2>1, <2>2
<1>6. MergedUpTo(f, args, merge)
  <2>1. f = [n \in 0 .. L |-> f[n]]
    OBVIOUS
  <2> QED  BY <1>5, <2>1 DEF MergedUpTo, pv
<1> DEFINE u == CHOOSE g : MergedUpTo(g, args, merge)
<1>7. MergedUpTo(u, args, merge)
  BY <1>6
<1>8. MergeArgs(args, merge) = u[L]
  BY DEF MergeArgs, MergedUpTo, pv
<1> HIDE DEF u
<1>9. /\ u[0] = first
      /\ \A n \in 1 .. L : u[n] = Merged(u[n - 1], args, pv[n])
  BY <1>1, <1>7 DEF MergedUpTo, pv
<1> DEFINE T == {n \in 0 .. L : u[n] \in Cmdlines}
<1>10. \A n \in 0 .. L : n \in T
  <2>1. 0 \in T
    BY <1>1, <1>2, <1>9
  <2>2. ASSUME NEW n \in 1 .. L, n - 1 \in T PROVE n \in T
    <3>1. u[n - 1] \in Cmdlines /\ pv[n] \in AWord
      BY <1>1, <2>2
    <3>2. u[n] \in Cmdlines
      BY <1>9, <3>1, MergedType
    <3> QED  BY <1>1, <3>2
  <2> HIDE DEF T, L
  <2> QED  BY <1>1, <2>1, <2>2, CountUp
<1>11. u \in [0 .. L -> Cmdlines]
  <2>1. u = [n \in 0 .. L |-> u[n]]
    BY <1>7 DEF MergedUpTo, pv
  <2> QED  BY <1>10, <2>1
<1> QED  BY <1>8, <1>9, <1>11 DEF pv

\* The merged text, with the zero behind it, fits into the buffer: each parameter
\* costs what it has in its text and the blank in front.
LEMMA Fits ==
  ASSUME NEW args \in Texts, NEW merge \in Texts
  PROVE  MergeFits(args, merge)
<1> DEFINE pv == ParseArgs(merge)
           N == Len(pv)
           L == Len(merge.words)
           La == Length(args)
<1>1. PICK f \in [0 .. N -> Cmdlines] :
        /\ f[0] = [words |-> args.words, nr |-> La]
        /\ \A n \in 1 .. N : f[n] = Merged(f[n - 1], args, pv[n])
        /\ MergeArgs(args, merge) = f[N]
  BY MergeArgsIs
<1>2. PICK u :
        /\ Sums(u, merge)
        /\ Length(merge) = u[L] + (IF merge.words = <<>> THEN 0 ELSE L - 1)
  BY LengthIs
<1>3. /\ L \in Nat /\ N \in 0 .. L /\ N \in Nat /\ La \in Nat
      /\ \A n \in 1 .. N : pv[n] = merge.words[n]
      /\ \A n \in 1 .. L : WordOf(merge.words, n)
  BY Parsed, WordsAre, LengthType
<1>4. L = 0 <=> merge.words = <<>>
  <2> DEFINE s == merge.words
  <2>1. s \in Seq(AWord)
    BY WordsAre DEF Words
  <2> HIDE DEF s
  <2>2. Len(s) = 0 <=> s = <<>>
    BY <2>1
  <2> QED  BY <2>2 DEF s
<1> HIDE DEF pv, La
<1>5. \A n \in 0 .. N : f[n].nr \in Nat
  BY DEF Cmdlines
<1>6. /\ \A n \in 0 .. L : u[n] \in Nat
      /\ u[N] <= u[L]
  <2>1. u[N] <= u[L]
    BY <1>2, <1>3, SumsRise
  <2> QED  BY <1>2, <2>1 DEF Sums
<1> DEFINE T == {n \in 0 .. N : f[n].nr <= La + u[n] + n}
<1>7. 0 \in T
  <2>1. 0 \in 0 .. N /\ 0 \in 0 .. L
    BY <1>3
  <2>2. u[0] \in Nat /\ f[0].nr = La
    BY <1>1, <1>6, <2>1
  <2> QED  BY <1>3, <2>1, <2>2
<1>8. ASSUME NEW n \in 1 .. N, n - 1 \in T PROVE n \in T
  <2>1. /\ n \in 1 .. L /\ n \in 0 .. N /\ n - 1 \in 0 .. N /\ n - 1 \in 0 .. L
        /\ n \in 0 .. L
    BY <1>3
  <2>2. /\ f[n - 1].nr \in Nat /\ f[n].nr \in Nat /\ u[n] \in Nat /\ u[n - 1] \in Nat
        /\ merge.words[n].nr \in Nat /\ merge.words[n].quotes \in Nat
        /\ pv[n] = merge.words[n]
    BY <1>3, <1>5, <1>6, <2>1 DEF WordOf
  <2>3. u[n] = u[n - 1] + merge.words[n].nr + merge.words[n].quotes
    BY <1>2, <2>1 DEF Sums
  <2>4. f[n].nr <= f[n - 1].nr + merge.words[n].nr + 1
    <3>1. f[n] = Merged(f[n - 1], args, pv[n])
      BY <1>1
    <3>2. CASE FindParam(ParseArgs(args), pv[n])
      BY <2>2, <3>1, <3>2 DEF Merged
    <3>3. CASE ~FindParam(ParseArgs(args), pv[n])
      <4>1. f[n].nr = f[n - 1].nr + merge.words[n].nr + (IF f[n - 1].nr = 0 THEN 0 ELSE 1)
        BY <2>2, <3>1, <3>3 DEF Merged
      <4> QED  BY <2>2, <4>1
    <3> QED  BY <3>2, <3>3
  <2>5. f[n - 1].nr <= La + u[n - 1] + (n - 1)
    BY <1>8
  <2>6. f[n].nr <= La + u[n] + n
    <3> DEFINE new == f[n].nr
               old == f[n - 1].nr
               w == merge.words[n].nr
               q == merge.words[n].quotes
               v == u[n - 1]
    <3>1. /\ La \in Nat /\ n \in Nat /\ new \in Nat /\ old \in Nat
          /\ w \in Nat /\ q \in Nat /\ v \in Nat
      BY <1>3, <2>2
    <3>2. new <= old + w + 1 /\ old <= La + v + (n - 1) /\ u[n] = v + w + q
      BY <2>3, <2>4, <2>5
    <3> HIDE DEF new, old, w, q, v
    <3>3. new <= La + (v + w + q) + n
      BY <3>1, <3>2
    <3> QED  BY <3>2, <3>3 DEF new
  <2> QED  BY <2>1, <2>6
<1>9. f[N].nr <= La + u[N] + N
  <2>1. N \in 0 .. N
    BY <1>3
  <2>2. N \in T
    <3> HIDE DEF T, N
    <3> QED  BY <1>3, <1>7, <1>8, <2>1, CountUp
  <2> QED  BY <2>2
<1>10. La + u[N] + N + 1 <= (La + 1) + (Length(merge) + 1)
  <2>1. u[N] \in Nat /\ u[L] \in Nat
    BY <1>3, <1>6
  <2>2. La \in Nat /\ L \in Nat /\ N \in Nat /\ N <= L
    BY <1>3
  <2>3. CASE L = 0
    <3>1. Length(merge) = u[L]
      BY <1>2, <1>4, <2>1, <2>3
    <3> QED  BY <1>6, <2>1, <2>2, <2>3, <3>1
  <2>4. CASE L # 0
    <3>1. Length(merge) = u[L] + (L - 1)
      BY <1>2, <1>4, <2>4
    <3>2. u[N] + N <= u[L] + L
      BY <1>6, <2>1, <2>2
    <3> DEFINE a == u[N]
               b == u[L]
               c == Length(merge)
    <3>3. a \in Nat /\ b \in Nat /\ c = b + (L - 1) /\ a + N <= b + L
      BY <2>1, <3>1, <3>2
    <3> HIDE DEF L, N, a, b, c
    <3>4. La + a + N + 1 <= (La + 1) + (c + 1)
      BY <2>2, <3>3
    <3> QED  BY <3>4 DEF a, c
  <2> QED  BY <2>3, <2>4
<1>11. f[N].nr + 1 <= (La + 1) + (Length(merge) + 1)
  <2>1. f[N].nr \in Nat
    BY <1>3, <1>5
  <2>2. Length(merge) \in Nat
    BY LengthType
  <2> QED  BY <1>3, <1>6, <1>9, <1>10, <2>1, <2>2
<1> QED  BY <1>1, <1>11 DEF MergeFits, BufferSize, La

\* What one more word does to the names, and to where they are once.
LEMMA OneMore ==
  ASSUME NEW words \in Words, NEW w \in AWord
  PROVE  /\ Names(Append(words, w)) = Names(words) \cup {w.name}
         /\ \A i \in DOMAIN Append(words, w) :
              \/ i \in DOMAIN words /\ Append(words, w)[i] = words[i]
              \/ i = Len(words) + 1 /\ Append(words, w)[i] = w
         /\ Distinct(words) /\ w.name \notin Names(words) => Distinct(Append(words, w))
<1> DEFINE more == Append(words, w)
           n == Len(words)
<1>1. /\ n \in Nat /\ DOMAIN words = 1 .. n /\ DOMAIN more = 1 .. n + 1
      /\ more[n + 1] = w /\ \A i \in 1 .. n : more[i] = words[i]
  BY AppendProperties DEF Words
<1> HIDE DEF more, n
<1>2. \A i \in DOMAIN more : (i \in DOMAIN words /\ more[i] = words[i]) \/ (i = n + 1 /\ more[i] = w)
  BY <1>1
<1>3. Names(more) = Names(words) \cup {w.name}
  <2>1. ASSUME NEW x \in Names(more) PROVE x \in Names(words) \cup {w.name}
    <3>1. PICK i \in DOMAIN more : x = more[i].name
      BY DEF Names
    <3> QED  BY <1>2, <3>1 DEF Names
  <2>2. ASSUME NEW x \in Names(words) PROVE x \in Names(more)
    <3>1. PICK i \in DOMAIN words : x = words[i].name
      BY DEF Names
    <3>2. i \in DOMAIN more /\ more[i] = words[i]
      BY <1>1
    <3> QED  BY <3>1, <3>2 DEF Names
  <2>3. w.name \in Names(more)
    <3>1. n + 1 \in DOMAIN more /\ more[n + 1] = w
      BY <1>1
    <3> QED  BY <3>1 DEF Names
  <2> QED  BY <2>1, <2>2, <2>3
<1>4. ASSUME Distinct(words), w.name \notin Names(words) PROVE Distinct(more)
  <2> SUFFICES ASSUME NEW i \in DOMAIN more, NEW j \in DOMAIN more, more[i].name = more[j].name
               PROVE  i = j
    BY DEF Distinct
  <2>1. \A k \in DOMAIN words : words[k].name # w.name
    BY <1>4 DEF Names
  <2> QED  BY <1>2, <1>4, <2>1 DEF Distinct
<1> QED  BY <1>2, <1>3, <1>4 DEF more, n

\* Nothing is lost, and nothing is there twice.
LEMMA MergedOnce ==
  ASSUME NEW args \in Texts, NEW merge \in Texts
  PROVE  MergeOnce(args, merge)
<1> DEFINE pv == merge.words
           N == Len(pv)
           A == args.words
<1> SUFFICES ASSUME Len(A) <= MaxPv, N <= MaxPv
             PROVE  LET words == MergeArgs(args, merge).words IN
                    /\ Names(words) = Names(A) \cup Names(pv)
                    /\ \A i \in DOMAIN words : words[i].name \in Names(A) =>
                         \E j \in DOMAIN A : words[i] = A[j]
                    /\ Distinct(A) /\ Distinct(pv) => Distinct(words)
  BY DEF MergeOnce
<1>1. /\ ParseArgs(args) = A /\ ParseArgs(merge) = pv
      /\ pv \in Words /\ A \in Words /\ N \in Nat /\ DOMAIN pv = 1 .. N
      /\ \A n \in 1 .. N : pv[n] \in AWord
  <2>1. pv \in Words /\ A \in Words /\ N \in Nat
    BY WordsAre
  <2>2. DOMAIN pv = 1 .. N /\ \A n \in 1 .. N : pv[n] \in AWord
    <3> HIDE DEF pv
    <3> QED  BY <2>1, ElementOfSeq DEF Words
  <2> QED  BY <2>1, <2>2, Parsed
<1>2. PICK f \in [0 .. N -> Cmdlines] :
        /\ f[0] = [words |-> A, nr |-> Length(args)]
        /\ \A n \in 1 .. N : f[n] = Merged(f[n - 1], args, pv[n])
        /\ MergeArgs(args, merge) = f[N]
  BY <1>1, MergeArgsIs
<1> HIDE DEF pv, A
<1> DEFINE Seen(n) == {pv[k].name : k \in 1 .. n}
           Good(words, n) ==
             /\ Names(words) = Names(A) \cup Seen(n)
             /\ \A i \in DOMAIN words : words[i].name \in Names(A) =>
                  \E j \in DOMAIN A : words[i] = A[j]
             /\ Distinct(A) /\ Distinct(pv) => Distinct(words)
           T == {n \in 0 .. N : Good(f[n].words, n)}
<1>3. 0 \in T
  <2>1. f[0].words = A /\ Seen(0) = {}
    BY <1>2
  <2>2. Good(A, 0)
    BY <2>1
  <2> QED  BY <1>1, <2>1, <2>2
<1>4. ASSUME NEW n \in 1 .. N, n - 1 \in T PROVE n \in T
  <2> DEFINE before == f[n - 1].words
             w == pv[n]
  <2>1. n \in 0 .. N /\ n - 1 \in 0 .. N /\ before \in Words /\ w \in AWord
    BY <1>1 DEF Cmdlines
  <2>2. Good(before, n - 1)
    BY <1>4
  <2>3. Seen(n) = Seen(n - 1) \cup {w.name}
    <3>1. \A k \in 1 .. n : k \in 1 .. n - 1 \/ k = n
      OBVIOUS
    <3>2. \A k \in 1 .. n - 1 : k \in 1 .. n
      OBVIOUS
    <3> QED  BY <3>1, <3>2
  <2>4. FindParam(ParseArgs(args), w) <=> w.name \in Names(A)
    BY <1>1 DEF FindParam, Names
  <2>5. f[n] = Merged(f[n - 1], args, w)
    BY <1>2
  <2>6. CASE w.name \in Names(A)
    <3>1. f[n].words = before
      BY <2>4, <2>5, <2>6 DEF Merged
    <3>2. Good(before, n)
      BY <2>2, <2>3, <2>6
    <3> QED  BY <2>1, <3>1, <3>2
  <2>7. CASE w.name \notin Names(A)
    <3>1. f[n].words = Append(before, w)
      BY <2>4, <2>5, <2>7 DEF Merged
    <3> DEFINE after == Append(before, w)
    <3> HIDE DEF before, w, Seen
    <3>2. Names(after) = Names(A) \cup Seen(n)
      BY <2>1, <2>2, <2>3, OneMore
    <3>3. ASSUME NEW i \in DOMAIN after, after[i].name \in Names(A)
          PROVE  \E j \in DOMAIN A : after[i] = A[j]
      <4>1. (i \in DOMAIN before /\ after[i] = before[i]) \/ after[i] = w
        BY <2>1, OneMore
      <4> QED  BY <2>2, <2>7, <3>3, <4>1
    <3>4. ASSUME Distinct(A), Distinct(pv) PROVE Distinct(after)
      <4>1. w.name \notin Seen(n - 1)
        BY <1>1, <3>4 DEF Distinct, w, Seen
      <4>2. w.name \notin Names(before) /\ Distinct(before)
        BY <2>2, <2>7, <3>4, <4>1
      <4> QED  BY <2>1, <4>2, OneMore
    <3>5. Good(after, n)
      BY <3>2, <3>3, <3>4
    <3> QED  BY <2>1, <3>1, <3>5
  <2> QED  BY <2>6, <2>7
<1>5. Good(f[N].words, N)
  <2>1. N \in 0 .. N
    BY <1>1
  <2>2. N \in T
    <3> HIDE DEF T, N
    <3> QED  BY <1>1, <1>3, <1>4, <2>1, CountUp
  <2> QED  BY <2>2
<1>6. Seen(N) = Names(pv)
  BY <1>1 DEF Names
<1> QED  BY <1>2, <1>5, <1>6 DEF pv, A

\* Whatever the two texts are, merge_args stays in its buffer; while neither has
\* more parameters than the table, it loses none, keeps the values of the first
\* and makes no duplicates.
THEOREM MergeFollows ==
  ASSUME NEW args \in Texts, NEW merge \in Texts
  PROVE  MergeFits(args, merge) /\ MergeOnce(args, merge)
BY Fits, MergedOnce

-----------------------------------------------------------------------------
(* The algorithms side by side *)

\* Each algorithm keeps its invariant when it has its turn, and otherwise stays
\* where it has ended; the inputs are those of the instance.
AlgorithmsInv ==
  /\ job \in {"symbol", "delay", "tail", "part", "merge"}
  /\ IF job = "symbol" THEN SymInv ELSE SymParked
  /\ IF job = "delay" THEN DelayInv ELSE DelayParked
  /\ TailInv
  /\ job = "part" => input \in PartInputs
  /\ job = "merge" => input \in MergeInputs

\* A search that does not begin has found the tail of an empty buffer.
LEMMA TailParkedInv == TailParked => TailInv
<1> SUFFICES ASSUME TailParked PROVE TailInv
  OBVIOUS
<1>1. \A p \in Pos : text[p] = FALSE
  BY DEF TailParked
<1>2. Packed
  BY <1>1 DEF Packed
<1>3. IsTail(tail)
  BY <1>1, TailAssumption DEF TailParked, IsTail
<1>4. TailTypeOK
  BY TailAssumption DEF TailParked, TailTypeOK
<1> QED
  BY <1>2, <1>3, <1>4 DEF TailParked, TailInv, LoopInv, FindsTail

LEMMA AlgorithmsInitInv == Init => AlgorithmsInv
BY SymInitInv, DelayInitInv, TailInitInv, TailParkedInv DEF Init, AlgorithmsInv

\* What is parked takes no step.
LEMMA Parked ==
  /\ ~(SymParked /\ SymNext)
  /\ ~(DelayParked /\ DelayNext)
BY DEF SymParked, SymNext, CountSymbol, InTable, Search,
       DelayParked, DelayNext, Tick, NextPiece, Poll

LEMMA AlgorithmsStepInv == AlgorithmsInv /\ [Next]_vars => AlgorithmsInv'
<1> SUFFICES ASSUME AlgorithmsInv, [Next]_vars PROVE AlgorithmsInv'
  OBVIOUS
<1>1. ASSUME UNCHANGED symVars PROVE (SymInv => SymInv') /\ (SymParked => SymParked')
  BY <1>1, SymStepInv DEF symVars, SymParked
<1>2. ASSUME UNCHANGED delayVars PROVE (DelayInv => DelayInv') /\ (DelayParked => DelayParked')
  BY <1>2, DelayStepInv DEF delayVars, DelayParked
<1>3. ASSUME UNCHANGED tailVars PROVE TailInv'
  BY <1>3, TailStepInv DEF AlgorithmsInv
<1>4. CASE SymbolStep
  <2>1. job = "symbol" /\ SymInv'
    BY <1>4, Parked, SymStepInv DEF AlgorithmsInv, SymbolStep
  <2> QED  BY <1>4, <2>1, <1>2, <1>3 DEF AlgorithmsInv, SymbolStep
<1>5. CASE DelayStep
  <2>1. job = "delay" /\ DelayInv'
    BY <1>5, Parked, DelayStepInv DEF AlgorithmsInv, DelayStep
  <2> QED  BY <1>5, <2>1, <1>1, <1>3 DEF AlgorithmsInv, DelayStep
<1>6. CASE TailStep
  <2>1. TailInv'
    BY <1>6, TailStepInv DEF AlgorithmsInv, TailStep
  <2> QED  BY <1>6, <2>1, <1>1, <1>2 DEF AlgorithmsInv, TailStep
<1>7. CASE UNCHANGED vars
  <2>1. UNCHANGED symVars /\ UNCHANGED delayVars /\ UNCHANGED tailVars /\ UNCHANGED <<job, input>>
    BY <1>7 DEF vars
  <2> QED  BY <2>1, <1>1, <1>2, <1>3 DEF AlgorithmsInv
<1> QED  BY <1>4, <1>5, <1>6, <1>7 DEF Next

LEMMA AlgorithmsInvHolds == Spec => []AlgorithmsInv
BY AlgorithmsInitInv, AlgorithmsStepInv, PTL DEF Spec

\* The variables keep their ranges side by side: the searches stay in their table
\* and buffer, and no piece of a delay is longer than a second.
THEOREM AlgorithmsTypes == Spec => []TypeOK
<1>1. AlgorithmsInv => TypeOK
  BY SymTypes DEF AlgorithmsInv, TypeOK, DelayInv, TailInv
<1> QED  BY <1>1, AlgorithmsInvHolds, PTL

\* What each of them promises alone it keeps side by side with the others, also
\* while it is parked.
THEOREM AlgorithmsSafe == Spec => [](FindsInner /\ FindsTail /\ DelayHolds)
<1>1. SymParked => FindsInner
  BY DEF SymParked, FindsInner
<1>2. DelayParked => DelayHolds
  <2> SUFFICES ASSUME DelayParked PROVE DelayHolds
    OBVIOUS
  <2>1. 0 * (Hz - 1) = 0 /\ (0 - 0 * Piece) * Hz = 0 /\ 0 * Hz = 0 /\ 0 * Extra = 0
    BY Numbers
  <2> QED  BY <2>1, Numbers DEF DelayParked, DelayHolds, Extra
<1>3. AlgorithmsInv => FindsInner /\ FindsTail /\ DelayHolds
  BY <1>1, <1>2, LongEnoughInv DEF AlgorithmsInv, SymInv, TailInv
<1> QED  BY <1>3, AlgorithmsInvHolds, PTL

\* A described partition is found where the text puts it: PartsFollow for the boot
\* arguments of the instance.
THEOREM PartsAlwaysRight == Spec => []PartsRight
<1>1. AlgorithmsInv => PartsRight
  BY AlgorithmsAssumption, PartsFollow DEF AlgorithmsInv, PartsRight
<1> QED  BY <1>1, AlgorithmsInvHolds, PTL

\* Merged boot arguments fit and are complete: MergeFollows for the texts of the
\* instance.
THEOREM MergeAlwaysRight == Spec => []MergeRight
<1>1. AlgorithmsInv => MergeRight
  BY AlgorithmsAssumption, MergeFollows DEF AlgorithmsInv, MergeRight
<1> QED  BY <1>1, AlgorithmsInvHolds, PTL
=============================================================================
