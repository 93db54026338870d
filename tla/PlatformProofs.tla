--------------------------- MODULE PlatformProofs ---------------------------
(***************************************************************************)
(* Proofs about the interrupts, for all timers, lines and tables (a line   *)
(* is acknowledged only when its handler is in the table), and about the   *)
(* record of the reserved memory, for all addresses, sizes and depths of   *)
(* the table (the lists, the counters and the dump agree with what is in   *)
(* use), about the tags for the kernel, for all sequences of parameters,   *)
(* and about the layout of the memory, for all programs that are linked    *)
(* and memories made of 16M.  Nothing is needed of the constants but what  *)
(* IrqAssumption, MemDbgAssumption, TagsAssumption and LayoutAssumption    *)
(* say, and PlatformAssumption of the inputs of the four side by side.     *)
(***************************************************************************)
EXTENDS Platform, SequenceTheorems, FiniteSetTheorems, WellFoundedInduction, TLAPS

-----------------------------------------------------------------------------
(* The interrupts *)

\* A line is served: it has a slot in the table, with a handler in it.
Served(l) == l \in 0 .. MaxIrq - 1 /\ handle[l] # NoTimer

\* What irq_connect keeps in its steps: the line has been found free before its
\* handler is filled in, and has its handler before it is enabled.
Connecting ==
  /\ main \in {"connect", "fill", "enable"} => timer \in Timers
  /\ main = "fill" => IrqNr[timer] < MaxIrq
  /\ main = "enable" => Served(IrqNr[timer])

\* Every line that is let through is served, once gic_dist_init has disabled
\* what the boot ROM had left enabled; until then no interrupt is taken.
LinesServed ==
  /\ main = "reset" => irqOff = TRUE /\ cpu = "main"
  /\ main # "reset" => \A l \in enabled : Served(l)

\* The types that the steps rely on, and the line that is being handled.
IrqInv ==
  /\ handle \in [0 .. MaxIrq - 1 -> Timers \cup {NoTimer}]
  /\ enabled \subseteq Shared
  /\ cpu # "main" => irqOff = TRUE
  /\ cpu = "handle" => irqnr \in enabled /\ main # "reset"
  /\ Connecting
  /\ LinesServed

-----------------------------------------------------------------------------

LEMMA IrqInitInv == IrqInit => IrqInv
  BY DEF IrqInit, IrqInv, Connecting, LinesServed

\* A handler that is in the table stays there: only Fill writes to it, and
\* puts a timer into a slot.
LEMMA IrqStepInv == IrqInv /\ [IrqNext]_irqVars => IrqInv'
<1> SUFFICES ASSUME IrqInv, [IrqNext]_irqVars PROVE IrqInv'
  OBVIOUS
<1> USE IrqAssumption
<1>1. CASE GicInit
  BY <1>1 DEF GicInit, Program, IrqInv, Connecting, LinesServed
<1>2. ASSUME NEW t \in Timers, ClockSource(t) PROVE IrqInv'
  BY <1>2 DEF ClockSource, Program, IrqInv, Connecting, LinesServed, Served
<1>3. CASE Connect
  BY <1>3 DEF Connect, Free, Program, IrqInv, Connecting, LinesServed, Served
<1>4. CASE Fill
  <2>0. main = "fill" /\ timer \in Timers /\ IrqNr[timer] < MaxIrq
    BY <1>4 DEF Fill, IrqInv, Connecting
  <2>1. timer # NoTimer /\ IrqNr[timer] \in Nat /\ MaxIrq \in Nat
    BY <2>0, IrqAssumption DEF IrqAssumption
  <2>2. IrqNr[timer] \in 0 .. MaxIrq - 1
    BY <2>0, <2>1
  <2>3. /\ handle' \in [0 .. MaxIrq - 1 -> Timers \cup {NoTimer}]
        /\ \A l \in 0 .. MaxIrq - 1 : Served(l) => Served(l)'
        /\ Served(IrqNr[timer])'
    BY <1>4, <2>0, <2>1, <2>2 DEF Fill, IrqInv, Served
  <2> QED BY <1>4, <2>0, <2>2, <2>3 DEF Fill, Program, IrqInv, Connecting, LinesServed, Served
<1>5. CASE Enable
  <2>1. Served(IrqNr[timer]) /\ main # "reset"
    BY <1>5 DEF Enable, IrqInv, Connecting
  <2>2. enabled' \subseteq Shared /\ enabled' \subseteq enabled \cup {IrqNr[timer]}
    BY <1>5, ZenonT(60) DEF Enable, IrqInv
  <2> QED BY <1>5, <2>1, <2>2 DEF Enable, Program, IrqInv, Connecting, LinesServed, Served
<1>6. CASE Restore
  BY <1>6 DEF Restore, Program, IrqInv, Connecting, LinesServed, Served
<1>7. CASE Printf
  BY <1>7 DEF Printf, Program, IrqInv, Connecting, LinesServed, Served
<1>8. CASE EnableIrq
  BY <1>8 DEF EnableIrq, Program, IrqInv, Connecting, LinesServed, Served
<1>9. CASE Interrupt
  BY <1>9 DEF Interrupt, IrqInv, Connecting, LinesServed, Served
<1>10. CASE Ack
  BY <1>10 DEF Ack, Pending, IrqInv, Connecting, LinesServed, Served
<1>11. CASE Handle
  BY <1>11 DEF Handle, IrqInv, Connecting, LinesServed, Served
<1>12. CASE Leave
  BY <1>12 DEF Leave, IrqInv, Connecting, LinesServed, Served
<1>13. ASSUME NEW t \in Timers, Fire(t) PROVE IrqInv'
  BY <1>13 DEF Fire, IrqInv, Connecting, LinesServed, Served
<1>14. CASE UNCHANGED irqVars
  BY <1>14 DEF irqVars, IrqInv, Connecting, LinesServed, Served
<1> QED
  BY <1>1, <1>2, <1>3, <1>4, <1>5, <1>6, <1>7, <1>8, <1>9, <1>10, <1>11, <1>12,
     <1>13, <1>14 DEF IrqNext, MainStep, Dispatch

\* The line that is handled is enabled, and so served.
LEMMA InPlace == IrqInv => HandlerInPlace
<1> SUFFICES ASSUME IrqInv, cpu = "handle"
             PROVE  irqnr < MaxIrq /\ handle[irqnr] # NoTimer
  BY DEF HandlerInPlace
<1>1. irqnr \in enabled /\ main # "reset"
  BY DEF IrqInv
<1>2. Served(irqnr)
  BY <1>1 DEF IrqInv, LinesServed
<1> QED BY <1>2, IrqAssumption DEF Served

\* An interrupt is acknowledged only when its handler is in the table, for
\* every set of timers, assignment of lines and size of the table: irq_connect
\* fills the slot before it enables the line, and gic_dist_init has disabled
\* all others.
THEOREM HandlersConnected == IrqSpec => []HandlerInPlace
<1> QED
  BY IrqInitInv, IrqStepInv, InPlace, PTL DEF IrqSpec

-----------------------------------------------------------------------------
(* The record of the reserved memory: sums over sets of records *)

Rec == [ptr : Ptrs, bytes : SizesOf]

\* g gives the bytes of every set within S, whatever the order of adding.
Adds(g, S) ==
  /\ g \in [SUBSET S -> Nat] /\ g[{}] = 0
  /\ \A s \in SUBSET S : \A x \in S \ s : g[s \cup {x}] = g[s] + x.bytes

FiniteSetsOf(U, F) == F \subseteq SUBSET U /\ F # {} /\ \A s \in F : IsFiniteSet(s)

\* A set of finite sets has a smallest one.
LEMMA SmallestSet ==
  ASSUME NEW U, NEW F, FiniteSetsOf(U, F)
  PROVE  \E s \in F : \A t \in F : t \subseteq s => t = s
<1> DEFINE R == StrictSubsetOrdering(U)
           D == FiniteSubsetsOf(U)
<1>1. IsWellFoundedOn(R, D)  BY FS_StrictSubsetOrderingWellFounded
<1>2. F \subseteq D /\ F # {}  BY DEF FiniteSubsetsOf, FiniteSetsOf
<1>3. PICK s \in F : \A t \in F : ~(<<t, s>> \in R)
  <2> HIDE DEF R, D
  <2> QED  BY <1>1, <1>2, WFMin
<1>4. ASSUME NEW t \in F, t \subseteq s, t # s PROVE FALSE
  <2>1. <<t, s>> \in R  BY <1>4 DEF StrictSubsetOrdering, FiniteSetsOf
  <2> QED  BY <2>1, <1>3
<1> QED  BY <1>4

\* A set of numbers has a smallest one.
LEMMA LeastNumber ==
  ASSUME NEW T, T \subseteq Nat, T # {}
  PROVE  \E x \in T : \A y \in T : x <= y
<1> DEFINE U == Nat
           I == {0 .. x : x \in T}
<1>1. I \subseteq SUBSET U /\ I # {}
  <2>1. \A x \in T : 0 .. x \subseteq Nat  OBVIOUS
  <2> QED  BY <2>1
<1>2. \A a \in I : IsFiniteSet(a)  BY FS_Interval
<1>3. PICK a \in I : \A b \in I : b \subseteq a => b = a
  <2>1. FiniteSetsOf(U, I)  BY <1>1, <1>2 DEF FiniteSetsOf
  <2> HIDE DEF I, U
  <2> QED  BY <2>1, SmallestSet
<1>4. PICK x \in T : a = 0 .. x  OBVIOUS
<1>5. ASSUME NEW y \in T, y < x PROVE FALSE
  <2>1. 0 .. y \subseteq 0 .. x /\ x \in 0 .. x /\ x \notin 0 .. y  BY <1>5
  <2>2. 0 .. y = 0 .. x  BY <1>3, <1>4, <2>1
  <2> QED  BY <2>1, <2>2
<1> QED  BY <1>4, <1>5

\* Such a sum exists: the smallest set without one is a smaller set and an
\* element, and a sum of the smaller one extends to it.
LEMMA SumExists ==
  ASSUME NEW S, S \subseteq Rec, IsFiniteSet(S)
  PROVE  \E g : Adds(g, S)
<1>1. SUFFICES ASSUME ~ \E g : Adds(g, S) PROVE FALSE
  OBVIOUS
<1> DEFINE F == {s \in SUBSET S : ~ \E g : Adds(g, s)}
<1>2. \A s \in F : IsFiniteSet(s)  BY FS_Subset
<1>3. S \in F  BY <1>1
<1>4. PICK s \in F : \A t \in F : t \subseteq s => t = s
  <2>1. F \subseteq SUBSET S /\ F # {}  BY <1>3
  <2>2. FiniteSetsOf(S, F)  BY <1>2, <2>1 DEF FiniteSetsOf
  <2> HIDE DEF F
  <2> QED  BY <2>2, SmallestSet
<1>5. s # {}
  <2>1. ASSUME s = {} PROVE FALSE
    <3>1. Adds([t \in SUBSET s |-> 0], s)  BY <2>1 DEF Adds
    <3> QED  BY <3>1
  <2> QED  BY <2>1
<1>6. PICK a \in s : TRUE  BY <1>5
<1>7. PICK g : Adds(g, s \ {a})
  <2>1. s \ {a} \subseteq s /\ s \ {a} # s /\ s \ {a} \in SUBSET S  BY <1>6
  <2> QED  BY <2>1, <1>4
<1> DEFINE h == [t \in SUBSET s |-> IF a \in t THEN g[t \ {a}] + a.bytes ELSE g[t]]
<1>8. a.bytes \in Nat /\ \A x \in s : x.bytes \in Nat
  BY MemDbgAssumption, <1>6 DEF Rec
<1>9. Adds(h, s)
  <2>1. \A t \in SUBSET s : t \ {a} \in SUBSET (s \ {a}) /\ (a \notin t => t \in SUBSET (s \ {a}))
    OBVIOUS
  <2>2. h \in [SUBSET s -> Nat] /\ h[{}] = 0  BY <2>1, <1>7, <1>8 DEF Adds
  <2>3. ASSUME NEW t \in SUBSET s, NEW x \in s \ t PROVE h[t \cup {x}] = h[t] + x.bytes
    <3>1. CASE x = a
      <4>1. (t \cup {x}) \ {a} = t /\ a \notin t  BY <3>1
      <4> QED  BY <3>1, <4>1
    <3>2. CASE x # a /\ a \in t
      <4>1. (t \cup {x}) \ {a} = (t \ {a}) \cup {x}  BY <3>2
      <4>2. t \ {a} \in SUBSET (s \ {a}) /\ x \in (s \ {a}) \ (t \ {a})  BY <3>2
      <4>3. g[(t \ {a}) \cup {x}] = g[t \ {a}] + x.bytes /\ g[t \ {a}] \in Nat
        BY <4>2, <1>7 DEF Adds
      <4>4. h[t \cup {x}] = g[(t \ {a}) \cup {x}] + a.bytes /\ h[t] = g[t \ {a}] + a.bytes
        BY <3>2, <4>1
      <4> QED  BY <4>3, <4>4, <1>8
    <3>3. CASE x # a /\ a \notin t
      <4>1. t \in SUBSET (s \ {a}) /\ x \in (s \ {a}) \ t /\ a \notin t \cup {x}  BY <3>3
      <4>2. g[t \cup {x}] = g[t] + x.bytes  BY <4>1, <1>7 DEF Adds
      <4> QED  BY <4>1, <4>2, <3>3
    <3> QED  BY <3>1, <3>2, <3>3
  <2> HIDE DEF h
  <2> QED  BY <2>2, <2>3 DEF Adds
<1> QED  BY <1>9, <1>4

\* Bytes is that sum: it takes one element away at a time, and no set is the
\* smallest on which the two differ.
LEMMA BytesIs ==
  ASSUME NEW S, S \subseteq Rec, IsFiniteSet(S), NEW g, Adds(g, S)
  PROVE  Bytes(S) = g[S]
<1> DEFINE one(s) == CHOOSE x \in s : TRUE
           Fold(f) == f = [s \in SUBSET S |-> IF s = {} THEN 0 ELSE f[s \ {one(s)}] + one(s).bytes]
           iter == CHOOSE f : Fold(f)
<1>1. Bytes(S) = iter[S]
  BY DEF Bytes, FoldSet, MapThenFoldSet
<1>2. ASSUME NEW s \in SUBSET S, s # {}
      PROVE  /\ one(s) \in s /\ s \ {one(s)} \in SUBSET S /\ s \ {one(s)} # s
             /\ g[s] = g[s \ {one(s)}] + one(s).bytes
             /\ g[s \ {one(s)}] \in Nat /\ one(s).bytes \in Nat
  <2>1. one(s) \in s  BY <1>2
  <2> HIDE DEF one
  <2>2. (s \ {one(s)}) \cup {one(s)} = s /\ s \ {one(s)} \in SUBSET S /\ one(s) \in S \ (s \ {one(s)})
    BY <2>1
  <2>3. one(s).bytes \in Nat  BY <2>1, MemDbgAssumption DEF Rec
  <2> QED  BY <2>1, <2>2, <2>3 DEF Adds
<1>3. Fold(g)
  <2>1. g = [s \in SUBSET S |-> g[s]]  BY DEF Adds
  <2>2. \A s \in SUBSET S : g[s] = IF s = {} THEN 0 ELSE g[s \ {one(s)}] + one(s).bytes
    <3>1. g[{}] = 0  BY DEF Adds
    <3> HIDE DEF one
    <3> QED  BY <1>2, <3>1
  <2> HIDE DEF one
  <2> QED  BY <2>1, <2>2
<1>4. Fold(iter)
  <2> HIDE DEF Fold
  <2> QED  BY <1>3
<1>5. iter[S] = g[S]
  <2>1. SUFFICES ASSUME iter[S] # g[S] PROVE FALSE
    OBVIOUS
  <2> DEFINE F == {s \in SUBSET S : iter[s] # g[s]}
  <2> HIDE DEF iter
  <2>2. \A s \in F : IsFiniteSet(s)  BY FS_Subset
  <2>3. F \subseteq SUBSET S /\ F # {}  BY <2>1
  <2>4. PICK s \in F : \A t \in F : t \subseteq s => t = s
    <3>1. FiniteSetsOf(S, F)  BY <2>2, <2>3 DEF FiniteSetsOf
    <3> HIDE DEF F
    <3> QED  BY <3>1, SmallestSet
  <2>5. s # {}
    <3>1. iter[{}] = 0  BY <1>4
    <3> QED  BY <3>1 DEF Adds
  <2>6. iter[s] = iter[s \ {one(s)}] + one(s).bytes
    <3> HIDE DEF one
    <3> QED  BY <1>4, <2>5
  <2>7. iter[s \ {one(s)}] = g[s \ {one(s)}]
    <3> HIDE DEF one
    <3> QED  BY <1>2, <2>4, <2>5
  <2> HIDE DEF one
  <2> QED  BY <1>2, <2>4, <2>5, <2>6, <2>7
<1> QED  BY <1>1, <1>5

\* A set and one more record.
LEMMA BytesAdd ==
  ASSUME NEW S, S \subseteq Rec, IsFiniteSet(S), NEW x \in Rec, x \notin S
  PROVE  Bytes(S \cup {x}) = Bytes(S) + x.bytes /\ Bytes(S) \in Nat
<1> DEFINE T == S \cup {x}
<1>1. T \subseteq Rec /\ IsFiniteSet(T)  BY FS_AddElement
<1>2. PICK g : Adds(g, T)
  <2> HIDE DEF T
  <2> QED  BY <1>1, SumExists
<1> DEFINE f == [s \in SUBSET S |-> g[s]]
<1>3. Adds(f, S)  BY <1>2 DEF Adds
<1>4. f[S] = g[S] /\ g[S] \in Nat /\ g[T] = g[S] + x.bytes  BY <1>2 DEF Adds
<1>5. Bytes(T) = g[T]
  <2> HIDE DEF T
  <2> QED  BY <1>1, <1>2, BytesIs
<1>6. Bytes(S) = f[S]
  <2> HIDE DEF f
  <2> QED  BY <1>3, BytesIs
<1> QED  BY <1>4, <1>5, <1>6

LEMMA BytesEmpty == Bytes({}) = 0
<1>1. {} \subseteq Rec /\ IsFiniteSet({})  BY FS_EmptySet
<1>2. PICK g : Adds(g, {})  BY <1>1, SumExists
<1>3. Bytes({}) = g[{}]  BY <1>1, <1>2, BytesIs
<1> QED  BY <1>2, <1>3 DEF Adds

\* ... and one record less.
LEMMA BytesRemove ==
  ASSUME NEW S, S \subseteq Rec, IsFiniteSet(S), NEW x \in S
  PROVE  Bytes(S) = Bytes(S \ {x}) + x.bytes /\ Bytes(S \ {x}) \in Nat
<1>1. S \ {x} \subseteq Rec /\ x \in Rec /\ x \notin S \ {x} /\ (S \ {x}) \cup {x} = S
  OBVIOUS
<1>2. IsFiniteSet(S \ {x})  BY FS_RemoveElement
<1> QED  BY <1>1, <1>2, BytesAdd

-----------------------------------------------------------------------------
(* The record of the reserved memory: the invariant *)

Elems(s) == {s[n] : n \in 1 .. Len(s)}

\* No address twice.
Distinct(s) == \A m, n \in 1 .. Len(s) : m # n => s[m].ptr # s[n].ptr

Lists == 0 .. Depth - 1

\* Each list has the records whose address belongs there.
TableInv ==
  /\ list \in [Lists -> Seq(Rec)]
  /\ \A i \in Lists : Distinct(list[i]) /\ \A x \in Elems(list[i]) : HushIndex[x.ptr] = i

\* The records are of allocations in use.
UseInv ==
  /\ DOMAIN live \subseteq Ptrs /\ \A p \in DOMAIN live : live[p] \in SizesOf
  /\ \A x \in Records : x.ptr \in DOMAIN live /\ live[x.ptr] = x.bytes

CountInv ==
  /\ dbg \in [nrMalloc : Nat, nrFree : Nat, szMalloc : Nat, szFree : Nat]
  /\ IsFiniteSet(Records) /\ nrItem = Cardinality(Records)
  /\ nrItem = dbg.nrMalloc - dbg.nrFree
  /\ dbg.szMalloc - dbg.szFree = Bytes(Records)

\* The records of the lists from k on.
From(k) == {x \in Records : HushIndex[x.ptr] >= k}

\* What a dump has still to show: the rest of a list, from a cursor q in it,
\* and the lists behind.
Left(q, at) == Elems(q) \cup From(IF q = <<>> THEN at ELSE at + 1)

\* What a dump has shown and what it has left are the records, each once.
CursorInv ==
  /\ pos \in 0 .. Depth /\ dumping \in {"idle", "dumping", "done"}
  /\ prev \in Seq(Rec) /\ shown \in Seq(Rec)
  /\ IsFiniteSet(Elems(shown)) /\ Cardinality(Elems(shown)) = Len(shown)
  /\ dumping = "dumping" =>
       /\ prev # <<>> => pos < Depth
       /\ Distinct(prev) /\ \A x \in Elems(prev) : HushIndex[x.ptr] = pos
       /\ Elems(shown) \cap Left(prev, pos) = {}
       /\ Elems(shown) \cup Left(prev, pos) = Records
  /\ dumping = "done" => Elems(shown) = Records

MemInv == TableInv /\ UseInv /\ CountInv /\ CursorInv

-----------------------------------------------------------------------------
(* The lists *)

LEMMA RecordsAre ==
  ASSUME TableInv
  PROVE  /\ Records \subseteq Rec
         /\ \A x : x \in Records <=> \E i \in Lists : x \in Elems(list[i])
         /\ \A i \in Lists : Elems(list[i]) = {x \in Records : HushIndex[x.ptr] = i}
<1>1. \A x : x \in Records <=> \E i \in Lists : x \in Elems(list[i])
  BY DEF Records, Lists, Elems
<1>2. \A i \in Lists : Elems(list[i]) \subseteq Rec  BY DEF TableInv, Elems
<1>3. \A i \in Lists : \A x \in Elems(list[i]) : HushIndex[x.ptr] = i  BY DEF TableInv
<1> QED  BY <1>1, <1>2, <1>3

LEMMA ListAddIs ==
  ASSUME NEW l \in Seq(Rec), NEW x \in Rec, Distinct(l), \A y \in Elems(l) : y.ptr # x.ptr
  PROVE  /\ ListAdd(l, x) \in Seq(Rec) /\ Distinct(ListAdd(l, x))
         /\ Elems(ListAdd(l, x)) = Elems(l) \cup {x}
<1>1. CASE l = <<>>
  <2>1. ListAdd(l, x) = <<x>> /\ Len(<<x>>) = 1 /\ <<x>>[1] = x /\ Len(l) = 0
    BY <1>1 DEF ListAdd
  <2> QED  BY <2>1 DEF Distinct, Elems
<1>2. CASE l # <<>>
  <2> DEFINE r == ListAdd(l, x)
  <2>1. Len(l) \in Nat /\ Len(l) >= 1 /\ Head(l) = l[1] /\ Tail(l) \in Seq(Rec)
        /\ Len(Tail(l)) = Len(l) - 1
        /\ \A n \in 1 .. Len(l) - 1 : Tail(l)[n] = l[n + 1]
    BY <1>2, HeadTailProperties
  <2>2. Head(l) \in Rec /\ <<Head(l), x>> \in Seq(Rec) /\ Len(<<Head(l), x>>) = 2
        /\ <<Head(l), x>>[1] = l[1] /\ <<Head(l), x>>[2] = x
    BY <2>1
  <2>3. r = <<Head(l), x>> \o Tail(l)  BY <1>2 DEF ListAdd
  <2>4. r \in Seq(Rec) /\ Len(r) = Len(l) + 1
    BY <2>1, <2>2, <2>3, ConcatProperties
  <2>5. \A n \in 1 .. Len(l) + 1 : r[n] = IF n <= 2 THEN <<Head(l), x>>[n] ELSE Tail(l)[n - 2]
    BY <2>1, <2>2, <2>3, ConcatProperties
  <2>6. \A n \in 1 .. Len(l) + 1 : r[n] = IF n = 1 THEN l[1] ELSE IF n = 2 THEN x ELSE l[n - 1]
    BY <2>1, <2>2, <2>5
  <2> HIDE DEF r
  <2>7. Elems(r) = Elems(l) \cup {x}
    <3>1. \A n \in 1 .. Len(r) : r[n] \in Elems(l) \cup {x}  BY <2>1, <2>4, <2>6 DEF Elems
    <3>2. x = r[2] /\ 2 \in 1 .. Len(r)  BY <2>1, <2>4, <2>6
    <3>3. \A n \in 1 .. Len(l) : l[n] = IF n = 1 THEN r[1] ELSE r[n + 1]  BY <2>1, <2>4, <2>6
    <3>4. \A n \in 1 .. Len(l) : 1 \in 1 .. Len(r) /\ n + 1 \in 1 .. Len(r)  BY <2>1, <2>4
    <3>5. \A n \in 1 .. Len(l) : l[n] \in Elems(r)
      <4> TAKE n \in 1 .. Len(l)
      <4>1. CASE n = 1  BY <4>1, <3>3, <3>4 DEF Elems
      <4>2. CASE n # 1  BY <4>2, <3>3, <3>4 DEF Elems
      <4> QED  BY <4>1, <4>2
    <3>6. x \in Elems(r)  BY <3>2 DEF Elems
    <3> QED  BY <3>1, <3>5, <3>6 DEF Elems
  <2>8. Distinct(r)
    <3> SUFFICES ASSUME NEW m \in 1 .. Len(r), NEW n \in 1 .. Len(r), m # n
                 PROVE  r[m].ptr # r[n].ptr
      BY DEF Distinct
    <3> DEFINE at(k) == IF k = 1 THEN 1 ELSE k - 1
    <3>1. \A k \in 1 .. Len(r) : k # 2 => r[k] = l[at(k)] /\ at(k) \in 1 .. Len(l)
      BY <2>1, <2>4, <2>6
    <3>2. m # 2 /\ n # 2 => at(m) # at(n)  BY <2>4
    <3>3. r[2] = x  BY <2>1, <2>4, <2>6
    <3> HIDE DEF at
    <3> QED  BY <3>1, <3>2, <3>3, SMTT(60) DEF Distinct, Elems
  <2> QED  BY <2>4, <2>7, <2>8 DEF r
<1> QED  BY <1>1, <1>2

LEMMA ListRemoveIs ==
  ASSUME NEW l \in Seq(Rec), NEW p, Distinct(l), Has(l, p)
  PROVE  /\ ListRemove(l, p) \in Seq(Rec) /\ Distinct(ListRemove(l, p))
         /\ Elems(ListRemove(l, p)) = {x \in Elems(l) : x.ptr # p}
<1> DEFINE i == CHOOSE n \in 1 .. Len(l) : l[n].ptr = p /\ \A m \in 1 .. n - 1 : l[m].ptr # p
           r == ListRemove(l, p)
<1>1. PICK k \in 1 .. Len(l) : l[k].ptr = p  BY DEF Has
<1>2. \A m \in 1 .. Len(l) : m # k => l[m].ptr # p  BY <1>1 DEF Distinct
<1>3. i = k
  <2>1. \A m \in 1 .. k - 1 : l[m].ptr # p  BY <1>2
  <2>2. i \in 1 .. Len(l) /\ l[i].ptr = p  BY <1>1, <2>1
  <2> HIDE DEF i
  <2> QED  BY <2>2, <1>2
<1>4. r = SubSeq(l, 1, k - 1) \o SubSeq(l, k + 1, Len(l))
  <2>1. r = SubSeq(l, 1, i - 1) \o SubSeq(l, i + 1, Len(l))  BY DEF ListRemove
  <2> HIDE DEF i, r
  <2> QED  BY <2>1, <1>3
<1> HIDE DEF i, r
<1> DEFINE N == Len(l)
           a == SubSeq(l, 1, k - 1)
           b == SubSeq(l, k + 1, N)
<1>5. N \in Nat /\ k \in Nat /\ 1 <= k /\ k <= N  OBVIOUS
<1>6. /\ a \in Seq(Rec) /\ Len(a) = k - 1 /\ \A n \in 1 .. k - 1 : a[n] = l[n]
  <2>1. \A n \in 1 .. k - 1 : l[n] \in Rec  BY <1>5
  <2> QED  BY <1>5, <2>1, SubSeqProperties
<1>7. /\ b \in Seq(Rec) /\ Len(b) = N - k /\ \A n \in 1 .. N - k : b[n] = l[k + n]
  <2>1. \A n \in k + 1 .. N : l[n] \in Rec  BY <1>5
  <2> QED  BY <1>5, <2>1, SubSeqProperties
<1>8. r \in Seq(Rec) /\ Len(r) = N - 1
      /\ \A n \in 1 .. N - 1 : r[n] = IF n < k THEN l[n] ELSE l[n + 1]
  <2> HIDE DEF a, b, N
  <2>1. r = a \o b  BY <1>4 DEF a, b, N
  <2>2. a \o b \in Seq(Rec) /\ Len(a \o b) = Len(a) + Len(b)
        /\ \A n \in 1 .. Len(a) + Len(b) : (a \o b)[n] = IF n <= Len(a) THEN a[n] ELSE b[n - Len(a)]
    BY <1>6, <1>7, ConcatProperties
  <2>3. Len(a) + Len(b) = N - 1  BY <1>5, <1>6, <1>7
  <2>4. \A n \in 1 .. N - 1 : r[n] = IF n < k THEN l[n] ELSE l[n + 1]
    <3> TAKE n \in 1 .. N - 1
    <3>1. CASE n < k
      <4>1. n \in 1 .. k - 1 /\ n <= k - 1  BY <3>1, <1>5
      <4> QED  BY <4>1, <3>1, <1>6, <2>1, <2>2, <2>3
    <3>2. CASE ~(n < k)
      <4>1. n - (k - 1) \in 1 .. N - k /\ ~(n <= k - 1) /\ k + (n - (k - 1)) = n + 1
        BY <3>2, <1>5
      <4>2. r[n] = b[n - (k - 1)]  BY <4>1, <1>6, <2>1, <2>2, <2>3
      <4>3. b[n - (k - 1)] = l[k + (n - (k - 1))]  BY <4>1, <1>7
      <4> QED  BY <4>1, <4>2, <4>3, <3>2
    <3> QED  BY <3>1, <3>2
  <2> QED  BY <2>1, <2>2, <2>3, <2>4
<1> DEFINE at(n) == IF n < k THEN n ELSE n + 1
<1>9. \A n \in 1 .. Len(r) : r[n] = l[at(n)] /\ at(n) \in 1 .. Len(l) /\ at(n) # k
  BY <1>5, <1>8
<1>10. \A m, n \in 1 .. Len(r) : m # n => at(m) # at(n)  BY <1>5, <1>8
<1>11. \A m \in 1 .. Len(l) : m # k => \E n \in 1 .. Len(r) : at(n) = m
  <2> TAKE m \in 1 .. Len(l)
  <2>1. CASE m < k
    <3>1. m \in 1 .. Len(r) /\ at(m) = m  BY <1>5, <1>8, <2>1
    <3> QED  BY <3>1
  <2>2. CASE m > k
    <3>1. m - 1 \in 1 .. Len(r) /\ at(m - 1) = m  BY <1>5, <1>8, <2>2
    <3> QED  BY <3>1
  <2> QED  BY <2>1, <2>2, <1>5
<1> HIDE DEF at, N, a, b
<1>12. Distinct(r)
  <2> SUFFICES ASSUME NEW m \in 1 .. Len(r), NEW n \in 1 .. Len(r), m # n
               PROVE  r[m].ptr # r[n].ptr
    BY DEF Distinct
  <2>1. at(m) # at(n) /\ at(m) \in 1 .. Len(l) /\ at(n) \in 1 .. Len(l)  BY <1>9, <1>10
  <2>2. l[at(m)].ptr # l[at(n)].ptr  BY <2>1 DEF Distinct
  <2> QED  BY <2>2, <1>9
<1>13. Elems(r) = {x \in Elems(l) : x.ptr # p}
  <2>1. \A n \in 1 .. Len(r) : r[n] \in Elems(l) /\ r[n].ptr # p  BY <1>9, <1>2 DEF Elems
  <2>2. ASSUME NEW x \in Elems(l), x.ptr # p PROVE x \in Elems(r)
    <3>1. PICK m \in 1 .. Len(l) : x = l[m]  BY DEF Elems
    <3>2. m # k  BY <3>1, <2>2, <1>1
    <3>3. PICK n \in 1 .. Len(r) : at(n) = m  BY <3>2, <1>11
    <3> QED  BY <3>1, <3>3, <1>9 DEF Elems
  <2> QED  BY <2>1, <2>2 DEF Elems
<1> QED  BY <1>8, <1>12, <1>13 DEF r

\* The first record of a list and the others.
LEMMA HeadIs ==
  ASSUME NEW l \in Seq(Rec), l # <<>>, Distinct(l)
  PROVE  /\ Head(l) \in Rec /\ Tail(l) \in Seq(Rec) /\ Distinct(Tail(l))
         /\ Elems(l) = Elems(Tail(l)) \cup {Head(l)} /\ Head(l) \notin Elems(Tail(l))
<1>1. Len(l) \in Nat /\ Len(l) >= 1 /\ Head(l) = l[1] /\ Tail(l) \in Seq(Rec)
      /\ Len(Tail(l)) = Len(l) - 1
      /\ \A n \in 1 .. Len(l) - 1 : Tail(l)[n] = l[n + 1]
  BY HeadTailProperties
<1> DEFINE t == Tail(l)
<1>2. \A n \in 1 .. Len(t) : t[n] = l[n + 1] /\ n + 1 \in 1 .. Len(l) /\ n + 1 # 1
  BY <1>1
<1>3. \A n \in 1 .. Len(l) : n # 1 => n - 1 \in 1 .. Len(t) /\ t[n - 1] = l[n]
  BY <1>1
<1>4. 1 \in 1 .. Len(l)  BY <1>1
<1> HIDE DEF t
<1>5. Distinct(t)  BY <1>2 DEF Distinct
<1>6. Elems(l) = Elems(t) \cup {l[1]}  BY <1>2, <1>3, <1>4, SMTT(60) DEF Elems
<1>7. l[1] \notin Elems(t)
  <2>1. \A n \in 1 .. Len(t) : t[n].ptr # l[1].ptr  BY <1>2, <1>4 DEF Distinct
  <2> QED  BY <2>1 DEF Elems
<1> QED  BY <1>1, <1>4, <1>5, <1>6, <1>7 DEF t

LEMMA AppendIs ==
  ASSUME NEW s \in Seq(Rec), NEW x \in Rec
  PROVE  /\ Append(s, x) \in Seq(Rec) /\ Len(Append(s, x)) = Len(s) + 1
         /\ Elems(Append(s, x)) = Elems(s) \cup {x}
<1> DEFINE r == Append(s, x)
<1>1. r \in Seq(Rec) /\ Len(r) = Len(s) + 1 /\ Len(s) \in Nat
      /\ \A n \in 1 .. Len(s) + 1 : r[n] = IF n = Len(s) + 1 THEN x ELSE s[n]
  BY AppendProperties
<1>2. Len(s) + 1 \in 1 .. Len(r) /\ \A n \in 1 .. Len(s) : n \in 1 .. Len(r) /\ r[n] = s[n]
  BY <1>1
<1>3. \A n \in 1 .. Len(r) : n # Len(s) + 1 => n \in 1 .. Len(s)  BY <1>1
<1> HIDE DEF r
<1>4. Elems(r) = Elems(s) \cup {x}  BY <1>1, <1>2, <1>3 DEF Elems
<1> QED  BY <1>1, <1>4 DEF r

-----------------------------------------------------------------------------
(* The steps *)

LEMMA MemInitInv == MemInit => MemInv
<1> SUFFICES ASSUME MemInit PROVE MemInv
  OBVIOUS
<1>1. list = [i \in Lists |-> <<>>]  BY DEF MemInit, Lists
<1>2. TableInv
  <2>1. \A i \in Lists : list[i] = <<>>  BY <1>1
  <2>2. <<>> \in Seq(Rec) /\ Len(<<>>) = 0  OBVIOUS
  <2> QED  BY <1>1, <2>1, <2>2 DEF TableInv, Elems, Distinct
<1>3. Records = {}
  <2>1. \A i \in Lists : Len(list[i]) = 0  BY <1>1
  <2> QED  BY <2>1 DEF Records, Lists
<1>4. UseInv  BY <1>3 DEF UseInv, MemInit
<1>5. CountInv
  BY <1>3, FS_EmptySet, BytesEmpty DEF CountInv, MemInit
<1>6. CursorInv
  <2>1. Len(shown) = 0 /\ Elems(shown) = {}  BY DEF MemInit, Elems
  <2>2. prev \in Seq(Rec) /\ shown \in Seq(Rec)  BY DEF MemInit
  <2>3. pos \in 0 .. Depth  BY MemDbgAssumption DEF MemInit
  <2>4. dumping = "idle"  BY DEF MemInit
  <2>5. IsFiniteSet(Elems(shown)) /\ Cardinality(Elems(shown)) = Len(shown)
    BY <2>1, FS_EmptySet
  <2> QED  BY <2>2, <2>3, <2>4, <2>5 DEF CursorInv
<1> QED  BY <1>2, <1>4, <1>5, <1>6 DEF MemInv

\* An allocation with a record: the record joins the list of its address, and
\* the counters count it.
LEMMA InsertKeeps ==
  ASSUME MemInv, NEW p \in Ptrs, NEW n \in SizesOf, p \notin DOMAIN live,
         list' = [list EXCEPT ![HushIndex[p]] = ListAdd(@, [ptr |-> p, bytes |-> n])],
         nrItem' = nrItem + 1,
         dbg' = [dbg EXCEPT !.nrMalloc = @ + 1, !.szMalloc = @ + n],
         live' = [q \in DOMAIN live \cup {p} |-> IF q = p THEN n ELSE live[q]]
  PROVE  TableInv' /\ UseInv' /\ CountInv'
<1> DEFINE x == [ptr |-> p, bytes |-> n]
           h == HushIndex[p]
<1>1. h \in Lists /\ n \in Nat  BY MemDbgAssumption DEF Lists
<1>2. x \in Rec /\ x.ptr = p /\ x.bytes = n  BY DEF Rec
<1> HIDE DEF x
<1>3. x \notin Records /\ \A y \in Records : y.ptr # p  BY <1>2 DEF MemInv, UseInv
<1>4. \A i \in Lists : list[i] \in Seq(Rec) /\ Distinct(list[i])
  BY DEF MemInv, TableInv
<1>5. \A y \in Elems(list[h]) : y.ptr # x.ptr
  BY <1>1, <1>2, <1>3, RecordsAre DEF MemInv
<1>6. /\ ListAdd(list[h], x) \in Seq(Rec) /\ Distinct(ListAdd(list[h], x))
      /\ Elems(ListAdd(list[h], x)) = Elems(list[h]) \cup {x}
  <2> HIDE DEF h
  <2> QED  BY <1>1, <1>2, <1>4, <1>5, ListAddIs
<1>7. /\ list' \in [Lists -> Seq(Rec)] /\ list'[h] = ListAdd(list[h], x)
      /\ \A i \in Lists : i # h => list'[i] = list[i]
  BY <1>1, <1>6 DEF MemInv, TableInv, x
<1> HIDE DEF h
<1>8. TableInv'
  <2>1. \A i \in Lists : Distinct(list'[i]) /\ \A y \in Elems(list'[i]) : HushIndex[y.ptr] = i
    <3> TAKE i \in Lists
    <3>1. CASE i = h
      BY <3>1, <1>2, <1>6, <1>7 DEF MemInv, TableInv, h
    <3>2. CASE i # h
      BY <3>2, <1>7 DEF MemInv, TableInv
    <3> QED  BY <3>1, <3>2
  <2> QED  BY <2>1, <1>7 DEF TableInv, Distinct, Elems, Lists
<1>9. Records' = Records \cup {x}
  <2>1. \A y : y \in Records' <=> \E i \in Lists : y \in Elems(list'[i])
    BY DEF Records, Lists, Elems
  <2>2. \A y : y \in Records <=> \E i \in Lists : y \in Elems(list[i])
    BY DEF Records, Lists, Elems
  <2>3. \A y : (\E i \in Lists : y \in Elems(list'[i]))
                <=> y = x \/ \E i \in Lists : y \in Elems(list[i])
    BY <1>1, <1>6, <1>7
  <2> QED  BY <2>1, <2>2, <2>3
<1>10. UseInv'
  <2>1. /\ DOMAIN live' = DOMAIN live \cup {p} /\ live'[p] = n
        /\ \A q \in DOMAIN live : q # p => live'[q] = live[q]
    OBVIOUS
  <2>2. \A y \in Records : y.ptr \in DOMAIN live /\ live[y.ptr] = y.bytes /\ y.ptr # p
    BY <1>3 DEF MemInv, UseInv
  <2> QED  BY <2>1, <2>2, <1>2, <1>9 DEF MemInv, UseInv
<1>11. CountInv'
  <2>1. Records \subseteq Rec /\ IsFiniteSet(Records)
    BY RecordsAre DEF MemInv, CountInv
  <2>2. IsFiniteSet(Records') /\ Cardinality(Records') = Cardinality(Records) + 1
    BY <2>1, <1>3, <1>9, FS_AddElement
  <2>3. Bytes(Records') = Bytes(Records) + n /\ Bytes(Records) \in Nat
    BY <2>1, <1>2, <1>3, <1>9, BytesAdd
  <2>4. /\ dbg' \in [nrMalloc : Nat, nrFree : Nat, szMalloc : Nat, szFree : Nat]
        /\ dbg'.nrMalloc = dbg.nrMalloc + 1 /\ dbg'.nrFree = dbg.nrFree
        /\ dbg'.szMalloc = dbg.szMalloc + n /\ dbg'.szFree = dbg.szFree
        /\ dbg.nrMalloc \in Nat /\ dbg.nrFree \in Nat
        /\ dbg.szMalloc \in Nat /\ dbg.szFree \in Nat
    <3>1. dbg \in [nrMalloc : Nat, nrFree : Nat, szMalloc : Nat, szFree : Nat]
      BY DEF MemInv, CountInv
    <3>2. dbg' = [dbg EXCEPT !.nrMalloc = dbg.nrMalloc + 1, !.szMalloc = dbg.szMalloc + n]
      OBVIOUS
    <3>3. dbg' = [nrMalloc |-> dbg.nrMalloc + 1, nrFree |-> dbg.nrFree,
                 szMalloc |-> dbg.szMalloc + n, szFree |-> dbg.szFree]
      BY <3>1, <3>2
    <3>4. /\ dbg.nrMalloc \in Nat /\ dbg.nrFree \in Nat
          /\ dbg.szMalloc \in Nat /\ dbg.szFree \in Nat
      BY <3>1
    <3> QED  BY <3>3, <3>4, <1>1
  <2>5. Cardinality(Records) \in Nat  BY <2>1, FS_CardinalityType
  <2>6. /\ nrItem = Cardinality(Records) /\ nrItem = dbg.nrMalloc - dbg.nrFree
        /\ dbg.szMalloc - dbg.szFree = Bytes(Records)
    BY DEF MemInv, CountInv
  <2>7. /\ nrItem' = Cardinality(Records') /\ nrItem' = dbg'.nrMalloc - dbg'.nrFree
        /\ dbg'.szMalloc - dbg'.szFree = Bytes(Records')
    BY <2>2, <2>3, <2>4, <2>5, <2>6, <1>1
  <2>8. (Bytes(Records))' = Bytes(Records')  BY DEF Bytes, FoldSet, MapThenFoldSet
  <2> QED  BY <2>2, <2>4, <2>7, <2>8 DEF CountInv
<1> QED  BY <1>8, <1>10, <1>11

\* What ResFree does when there is a record.
Removed(p) ==
  LET l == list[HushIndex[p]]
      gone == CHOOSE x \in {l[n] : n \in 1 .. Len(l)} : x.ptr = p IN
    /\ list' = [list EXCEPT ![HushIndex[p]] = ListRemove(@, p)]
    /\ nrItem' = nrItem - 1
    /\ dbg' = [dbg EXCEPT !.nrFree = @ + 1, !.szFree = @ + gone.bytes]

\* A record whose address is freed leaves its list and the counters.
LEMMA RemoveKeeps ==
  ASSUME MemInv, NEW p \in DOMAIN live,
         Has(list[HushIndex[p]], p),
         Removed(p),
         live' = [q \in DOMAIN live \ {p} |-> live[q]]
  PROVE  TableInv' /\ UseInv' /\ CountInv'
<1> DEFINE h == HushIndex[p]
           gone == CHOOSE x \in Elems(list[h]) : x.ptr = p
<1>1. h \in Lists  BY MemDbgAssumption DEF MemInv, UseInv, Lists
<1>2. list' = [list EXCEPT ![h] = ListRemove(@, p)] /\ nrItem' = nrItem - 1
      /\ dbg' = [dbg EXCEPT !.nrFree = @ + 1, !.szFree = @ + gone.bytes]
  BY DEF Removed, Elems
<1>3. gone \in Elems(list[h]) /\ gone.ptr = p
  <2>1. \E x \in Elems(list[h]) : x.ptr = p  BY DEF Has, Elems
  <2> QED  BY <2>1
<1> HIDE DEF gone
<1>4. \A i \in Lists : list[i] \in Seq(Rec) /\ Distinct(list[i])
  BY DEF MemInv, TableInv
<1>5. /\ ListRemove(list[h], p) \in Seq(Rec) /\ Distinct(ListRemove(list[h], p))
      /\ Elems(ListRemove(list[h], p)) = {x \in Elems(list[h]) : x.ptr # p}
  <2>1. Has(list[h], p)  OBVIOUS
  <2> HIDE DEF h
  <2> QED  BY <1>1, <1>4, <2>1, ListRemoveIs
<1>6. /\ list' \in [Lists -> Seq(Rec)] /\ list'[h] = ListRemove(list[h], p)
      /\ \A i \in Lists : i # h => list'[i] = list[i]
  <2> DEFINE r == ListRemove(list[h], p)
  <2> HIDE DEF h
  <2>1. list' = [list EXCEPT ![h] = r]  BY <1>2
  <2>2. r \in Seq(Rec)  BY <1>5
  <2>3. list \in [Lists -> Seq(Rec)]  BY DEF MemInv, TableInv
  <2> HIDE DEF r
  <2>4. list' \in [Lists -> Seq(Rec)] /\ list'[h] = r /\ \A i \in Lists : i # h => list'[i] = list[i]
    BY <1>1, <2>1, <2>2, <2>3
  <2> QED  BY <2>4 DEF r
<1>7. TableInv'
  <2>1. \A i \in Lists : Distinct(list'[i]) /\ \A y \in Elems(list'[i]) : HushIndex[y.ptr] = i
    <3> HIDE DEF h
    <3> TAKE i \in Lists
    <3>1. CASE i = h
      BY <3>1, <1>5, <1>6 DEF MemInv, TableInv
    <3>2. CASE i # h
      BY <3>2, <1>6 DEF MemInv, TableInv
    <3> QED  BY <3>1, <3>2
  <2> QED  BY <2>1, <1>6 DEF TableInv, Distinct, Elems, Lists
<1>8. gone \in Records /\ Records \subseteq Rec
  <2> HIDE DEF h
  <2> QED  BY <1>1, <1>3, RecordsAre DEF MemInv
<1>9. \A y \in Records : y.ptr = p => y = gone
  BY <1>3, <1>8 DEF MemInv, UseInv, Rec
<1>10. Records' = Records \ {gone}
  <2>1. \A y : y \in Records' <=> \E i \in Lists : y \in Elems(list'[i])
    BY DEF Records, Lists, Elems
  <2>2. /\ \A y : y \in Records <=> \E i \in Lists : y \in Elems(list[i])
        /\ \A i \in Lists : Elems(list[i]) = {x \in Records : HushIndex[x.ptr] = i}
    BY RecordsAre DEF MemInv
  <2>3. \A i \in Lists : Elems(list'[i]) = {x \in Elems(list[i]) : x.ptr # p}
    <3> TAKE i \in Lists
    <3>1. CASE i = h
      <4> HIDE DEF h
      <4> QED  BY <3>1, <1>5, <1>6
    <3>2. CASE i # h
      BY <3>2, <1>6, <2>2
    <3> QED  BY <3>1, <3>2
  <2>4. \A y : y \in Records' <=> y \in Records /\ y.ptr # p  BY <2>1, <2>2, <2>3
  <2> QED  BY <2>4, <1>3, <1>9
<1>11. UseInv'
  <2>1. /\ DOMAIN live' = DOMAIN live \ {p}
        /\ \A q \in DOMAIN live' : live'[q] = live[q]
    OBVIOUS
  <2>2. \A y \in Records' : y.ptr \in DOMAIN live /\ live[y.ptr] = y.bytes /\ y.ptr # p
    BY <1>9, <1>10 DEF MemInv, UseInv
  <2> QED  BY <2>1, <2>2 DEF MemInv, UseInv
<1>12. CountInv'
  <2>1. IsFiniteSet(Records)  BY DEF MemInv, CountInv
  <2>2. IsFiniteSet(Records') /\ Cardinality(Records') = Cardinality(Records) - 1
    BY <2>1, <1>8, <1>10, FS_RemoveElement
  <2>3. Bytes(Records) = Bytes(Records') + gone.bytes /\ Bytes(Records') \in Nat
    BY <2>1, <1>8, <1>10, BytesRemove
  <2>4. gone.bytes \in Nat  BY <1>8, MemDbgAssumption DEF Rec
  <2>5. /\ dbg' \in [nrMalloc : Nat, nrFree : Nat, szMalloc : Nat, szFree : Nat]
        /\ dbg'.nrMalloc = dbg.nrMalloc /\ dbg'.nrFree = dbg.nrFree + 1
        /\ dbg'.szMalloc = dbg.szMalloc /\ dbg'.szFree = dbg.szFree + gone.bytes
        /\ dbg.nrMalloc \in Nat /\ dbg.nrFree \in Nat
        /\ dbg.szMalloc \in Nat /\ dbg.szFree \in Nat
    <3>1. dbg \in [nrMalloc : Nat, nrFree : Nat, szMalloc : Nat, szFree : Nat]
      BY DEF MemInv, CountInv
    <3>2. dbg' = [dbg EXCEPT !.nrFree = dbg.nrFree + 1, !.szFree = dbg.szFree + gone.bytes]
      BY <1>2
    <3> HIDE DEF gone
    <3>3. dbg' = [nrMalloc |-> dbg.nrMalloc, nrFree |-> dbg.nrFree + 1,
                 szMalloc |-> dbg.szMalloc, szFree |-> dbg.szFree + gone.bytes]
      BY <3>1, <3>2
    <3>4. /\ dbg.nrMalloc \in Nat /\ dbg.nrFree \in Nat
          /\ dbg.szMalloc \in Nat /\ dbg.szFree \in Nat
      BY <3>1
    <3>5. dbg.nrFree + 1 \in Nat /\ dbg.szFree + gone.bytes \in Nat  BY <3>4, <2>4
    <3>6. /\ dbg'.nrMalloc = dbg.nrMalloc /\ dbg'.nrFree = dbg.nrFree + 1
          /\ dbg'.szMalloc = dbg.szMalloc /\ dbg'.szFree = dbg.szFree + gone.bytes
      BY <3>3
    <3>7. dbg' \in [nrMalloc : Nat, nrFree : Nat, szMalloc : Nat, szFree : Nat]
      BY <3>3, <3>4, <3>5
    <3> QED  BY <3>4, <3>6, <3>7
  <2>6. Cardinality(Records) \in Nat  BY <2>1, FS_CardinalityType
  <2>7. /\ nrItem = Cardinality(Records) /\ nrItem = dbg.nrMalloc - dbg.nrFree
        /\ dbg.szMalloc - dbg.szFree = Bytes(Records)
    BY DEF MemInv, CountInv
  <2>8. /\ nrItem' = Cardinality(Records') /\ nrItem' = dbg'.nrMalloc - dbg'.nrFree
        /\ dbg'.szMalloc - dbg'.szFree = Bytes(Records')
    <3> DEFINE B == Bytes(Records)
               C == Bytes(Records')
               g == gone.bytes
    <3>1. B = C + g /\ C \in Nat /\ g \in Nat /\ dbg.szMalloc - dbg.szFree = B
      BY <2>3, <2>4, <2>7
    <3>2. dbg'.szMalloc = dbg.szMalloc /\ dbg'.szFree = dbg.szFree + g
          /\ dbg.szMalloc \in Nat /\ dbg.szFree \in Nat
      BY <2>5
    <3>3. nrItem' = Cardinality(Records') /\ nrItem' = dbg'.nrMalloc - dbg'.nrFree
      BY <1>2, <2>2, <2>5, <2>6, <2>7
    <3> HIDE DEF B, C, g
    <3>4. dbg'.szMalloc - dbg'.szFree = C  BY <3>1, <3>2
    <3> QED  BY <3>3, <3>4 DEF C
  <2>9. (Bytes(Records))' = Bytes(Records')  BY DEF Bytes, FoldSet, MapThenFoldSet
  <2> QED  BY <2>2, <2>5, <2>8, <2>9 DEF CountInv
<1> QED  BY <1>7, <1>11, <1>12

\* A dump shows the next record of its list or the first of the next list that
\* has one, and moves its cursor behind it: one record goes from what is left
\* to what has been shown.  It ends when nothing is left.
LEMMA DumpNextKeeps ==
  ASSUME MemInv, DumpNext
  PROVE  CursorInv'
<1>1. /\ pos \in 0 .. Depth /\ Depth \in Nat /\ dumping = "dumping"
      /\ prev \in Seq(Rec) /\ shown \in Seq(Rec) /\ (prev # <<>> => pos < Depth)
      /\ IsFiniteSet(Elems(shown)) /\ Cardinality(Elems(shown)) = Len(shown)
      /\ Distinct(prev) /\ \A x \in Elems(prev) : HushIndex[x.ptr] = pos
      /\ Elems(shown) \cap Left(prev, pos) = {}
      /\ Elems(shown) \cup Left(prev, pos) = Records
  BY MemDbgAssumption DEF MemInv, CursorInv, DumpNext
<1>2. Records' = Records  BY DEF DumpNext, Records
<1>3. /\ Records \subseteq Rec
      /\ \A i \in Lists : Elems(list[i]) = {x \in Records : HushIndex[x.ptr] = i}
      /\ \A i \in Lists : list[i] \in Seq(Rec) /\ Distinct(list[i])
  BY RecordsAre DEF MemInv, TableInv
<1>4. \A x \in Records : HushIndex[x.ptr] \in 0 .. Depth - 1
  BY <1>3, MemDbgAssumption DEF Rec
<1>5. Elems(<<>>) = {}  BY DEF Elems
\* the cursor's list
<1>6. /\ NextList \in pos .. Depth
      /\ prev # <<>> => NextList = pos
      /\ prev = <<>> => /\ NextList < Depth => list[NextList] # <<>>
                       /\ \A i \in pos .. Depth - 1 : i < NextList => list[i] = <<>>
  <2>1. CASE prev # <<>>  BY <2>1, <1>1 DEF NextList
  <2>2. CASE prev = <<>>
    <3> DEFINE C == {i \in pos .. Depth - 1 : list[i] # <<>>} \cup {Depth}
    <3>1. C \subseteq Nat /\ C # {}  BY <1>1
    <3>2. PICK i \in C : \A j \in C : i <= j
      <4> HIDE DEF C
      <4> QED  BY <3>1, LeastNumber
    <3>3. Min(C) = i
      <4> HIDE DEF C
      <4>1. ASSUME NEW j \in C, \A k \in C : j <= k PROVE j = i
        <5>1. j <= i /\ i <= j /\ i \in Nat /\ j \in Nat  BY <3>1, <3>2, <4>1
        <5> QED  BY <5>1
      <4> QED  BY <3>2, <4>1 DEF Min
    <3>4. NextList = i  BY <2>2, <3>3 DEF NextList
    <3>5. i <= Depth /\ i \in pos .. Depth  BY <3>2, <1>1
    <3>6. \A j \in pos .. Depth - 1 : j < i => list[j] = <<>>  BY <3>2, <3>5, <1>1
    <3>7. i < Depth => list[i] # <<>>  BY <3>5
    <3> HIDE DEF C
    <3> QED  BY <2>2, <3>4, <3>5, <3>6, <3>7
  <2> QED  BY <2>1, <2>2
<1> DEFINE N == NextList
<1>7. ASSUME N < Depth
      PROVE  /\ N \in Lists /\ Rest \in Seq(Rec) /\ Rest # <<>> /\ Distinct(Rest)
             /\ \A x \in Elems(Rest) : HushIndex[x.ptr] = N
             /\ Left(prev, pos) = Elems(Rest) \cup From(N + 1)
  <2>1. N \in Lists  BY <1>1, <1>6, <1>7 DEF Lists
  <2>2. CASE prev # <<>>
    <3>1. N = pos /\ Rest = prev  BY <2>2, <1>6 DEF Rest
    <3> QED  BY <2>1, <2>2, <3>1, <1>1 DEF Left
  <2>3. CASE prev = <<>>
    <3>1. Rest = list[N] /\ list[N] # <<>>  BY <2>3, <1>6, <1>7 DEF Rest
    <3>2. Elems(list[N]) = {x \in Records : HushIndex[x.ptr] = N}  BY <2>1, <1>3
    <3>3. ASSUME NEW x \in Records, HushIndex[x.ptr] >= pos PROVE HushIndex[x.ptr] >= N
      <4> DEFINE j == HushIndex[x.ptr]
      <4>1. j \in Lists /\ x \in Elems(list[j])  BY <3>3, <1>3, <1>4 DEF Lists
      <4>2. list[j] # <<>>  BY <4>1, <1>5
      <4>3. j \in pos .. Depth - 1  BY <4>1, <3>3, <1>1 DEF Lists
      <4>4. ~(j < N)  BY <4>2, <4>3, <2>3, <1>6
      <4> HIDE DEF j
      <4> QED  BY <4>3, <4>4, <1>1, <1>6 DEF j
    <3>4. From(pos) = Elems(list[N]) \cup From(N + 1)
      <4>1. \A x \in Records : HushIndex[x.ptr] >= pos
                 <=> HushIndex[x.ptr] = N \/ HushIndex[x.ptr] >= N + 1
        BY <3>3, <1>1, <1>4, <1>6
      <4> QED  BY <4>1, <3>2 DEF From
    <3> QED  BY <2>1, <2>3, <3>1, <3>2, <3>4, <1>3, <1>5 DEF Left
  <2> QED  BY <2>2, <2>3
<1>8. CASE NextList = Depth
  <2>1. prev = <<>>  BY <1>1, <1>6, <1>8
  <2>2. From(pos) = {}
    <3>1. ASSUME NEW x \in Records, HushIndex[x.ptr] >= pos PROVE FALSE
      <4>1. HushIndex[x.ptr] \in pos .. Depth - 1 /\ HushIndex[x.ptr] < NextList
        BY <3>1, <1>1, <1>4, <1>8
      <4>2. HushIndex[x.ptr] \in Lists /\ x \in Elems(list[HushIndex[x.ptr]])
        BY <4>1, <1>3, <1>4 DEF Lists
      <4>3. list[HushIndex[x.ptr]] = <<>>  BY <4>1, <2>1, <1>6
      <4> QED  BY <4>2, <4>3, <1>5
    <3> QED  BY <3>1 DEF From
  <2>3. Elems(shown) = Records  BY <2>1, <2>2, <1>1, <1>5 DEF Left
  <2>4. pos' = Depth /\ dumping' = "done" /\ prev' = prev /\ shown' = shown
    BY <1>8, <1>1 DEF DumpNext
  <2>5. (Elems(shown))' = Records /\ Len(shown') = Len(shown)
    BY <2>3, <2>4 DEF Elems
  <2>6. IsFiniteSet((Elems(shown))') /\ Cardinality((Elems(shown))') = Len(shown')
    BY <2>3, <2>5, <1>1
  <2>7. pos' \in 0 .. Depth /\ prev' \in Seq(Rec) /\ shown' \in Seq(Rec)
    BY <2>4, <1>1
  <2> QED  BY <2>4, <2>5, <2>6, <2>7, <1>2 DEF CursorInv
<1>9. CASE NextList < Depth
  <2> DEFINE x == Head(Rest)
             t == Tail(Rest)
  <2>1. /\ N \in Lists /\ Rest \in Seq(Rec) /\ Rest # <<>> /\ Distinct(Rest)
        /\ \A y \in Elems(Rest) : HushIndex[y.ptr] = N
        /\ Left(prev, pos) = Elems(Rest) \cup From(N + 1)
    BY <1>7, <1>9
  <2>2. /\ x \in Rec /\ t \in Seq(Rec) /\ Distinct(t)
        /\ Elems(Rest) = Elems(t) \cup {x} /\ x \notin Elems(t)
    BY <2>1, HeadIs
  <2>3. /\ shown' = Append(shown, x) /\ prev' = t /\ dumping' = "dumping"
        /\ pos' = IF t = <<>> THEN N + 1 ELSE N
    BY <1>1, <1>9 DEF DumpNext
  <2> HIDE DEF x, t
  <2>4. /\ shown' \in Seq(Rec) /\ Len(shown') = Len(shown) + 1
        /\ Elems(shown') = Elems(shown) \cup {x}
    BY <2>2, <2>3, <1>1, AppendIs
  <2>5. x \notin Elems(shown)  BY <2>1, <2>2, <1>1
  <2>6. IsFiniteSet(Elems(shown')) /\ Cardinality(Elems(shown')) = Len(shown')
    BY <2>4, <2>5, <1>1, FS_AddElement
  <2>7. N \in Nat /\ N < Depth /\ pos' \in 0 .. Depth /\ (prev' # <<>> => pos' = N)
    BY <2>1, <2>3, <1>1, <1>9, SMTT(60) DEF Lists
  <2>8. \A y \in Elems(prev') : HushIndex[y.ptr] = pos'
    BY <2>1, <2>2, <2>3, <2>7, <1>5
  <2>9. Left(prev', pos') = Elems(t) \cup From(N + 1)
    BY <2>3, <2>7 DEF Left
  <2>10. x \notin From(N + 1)
    <3>1. HushIndex[x.ptr] = N  BY <2>1, <2>2
    <3> QED  BY <3>1, <2>7 DEF From
  <2>11. /\ Elems(shown') \cap Left(prev', pos') = {}
         /\ Elems(shown') \cup Left(prev', pos') = Records
    BY <2>1, <2>2, <2>4, <2>5, <2>9, <2>10, <1>1
  <2>12. /\ (Left(prev, pos))' = Left(prev', pos')
         /\ (Elems(shown))' = Elems(shown')
    BY <1>2 DEF Left, From, Elems
  <2> QED
    BY <2>2, <2>3, <2>4, <2>6, <2>7, <2>8, <2>11, <2>12, <1>2 DEF CursorInv, Distinct, Elems
<1> QED  BY <1>8, <1>9 DEF DumpNext

\* A dump begins with nothing shown and every record left.
LEMMA DumpStartKeeps ==
  ASSUME MemInv, DumpStart
  PROVE  CursorInv'
<1>1. Records' = Records /\ Depth \in Nat  BY MemDbgAssumption DEF DumpStart, Records
<1>2. pos' = 0 /\ prev' = <<>> /\ shown' = <<>> /\ dumping' = "dumping"
  BY DEF DumpStart
<1>3. Elems(<<>>) = {} /\ Len(<<>>) = 0 /\ Distinct(<<>>) /\ <<>> \in Seq(Rec)
  BY DEF Elems, Distinct
<1>4. \A x \in Records : HushIndex[x.ptr] >= 0
  BY RecordsAre, MemDbgAssumption DEF MemInv, Rec
<1>5. Left(<<>>, 0) = Records  BY <1>3, <1>4 DEF Left, From
<1>6. (Left(prev, pos))' = Left(<<>>, 0)  BY <1>1, <1>2 DEF Left, From, Elems
<1>7. (Elems(shown))' = {} /\ (Elems(prev))' = {}  BY <1>2, <1>3 DEF Elems
<1>8. (Distinct(prev))'  BY <1>2, <1>3 DEF Distinct
<1> QED
  BY <1>1, <1>2, <1>3, <1>5, <1>6, <1>7, <1>8, FS_EmptySet DEF CursorInv

LEMMA MemStepInv == MemInv /\ [MemNext]_memVars => MemInv'
<1> SUFFICES ASSUME MemInv, [MemNext]_memVars PROVE MemInv'
  OBVIOUS
\* an operation that is not a dump ends what a dump has shown
<1>1. ASSUME dumping' = "idle", UNCHANGED <<pos, prev, shown>> PROVE CursorInv'
  BY <1>1 DEF MemInv, CursorInv, Elems
<1>2. ASSUME UNCHANGED <<list, nrItem, dbg>> PROVE TableInv' /\ CountInv' /\ Records' = Records
  <2>1. Records' = Records  BY <1>2 DEF Records
  <2>2. (Bytes(Records))' = Bytes(Records)
    BY <2>1 DEF Bytes, FoldSet, MapThenFoldSet
  <2>3. TableInv'  BY <1>2 DEF MemInv, TableInv, Distinct, Elems, Lists
  <2>4. CountInv'  BY <1>2, <2>1, <2>2 DEF MemInv, CountInv
  <2> QED  BY <2>1, <2>3, <2>4
<1>3. ASSUME NEW p \in Ptrs, NEW n \in SizesOf, ResMalloc(p, n) PROVE MemInv'
  <2>1. CursorInv'  BY <1>1, <1>3 DEF ResMalloc
  <2>2. p \notin DOMAIN live
        /\ live' = [q \in DOMAIN live \cup {p} |-> IF q = p THEN n ELSE live[q]]
    BY <1>3 DEF ResMalloc
  <2>3. CASE UNCHANGED <<list, nrItem, dbg>>
    <3>1. TableInv' /\ CountInv' /\ Records' = Records  BY <1>2, <2>3
    <3>2. /\ DOMAIN live' = DOMAIN live \cup {p} /\ live'[p] = n
          /\ \A q \in DOMAIN live : q # p => live'[q] = live[q]
      BY <2>2
    <3>3. UseInv'  BY <3>1, <3>2, <2>2 DEF MemInv, UseInv
    <3> QED  BY <2>1, <3>1, <3>3 DEF MemInv
  <2>4. CASE ~ UNCHANGED <<list, nrItem, dbg>>
    <3>1. /\ list' = [list EXCEPT ![HushIndex[p]] = ListAdd(@, [ptr |-> p, bytes |-> n])]
          /\ nrItem' = nrItem + 1
          /\ dbg' = [dbg EXCEPT !.nrMalloc = @ + 1, !.szMalloc = @ + n]
      BY <1>3, <2>4 DEF ResMalloc, Insert
    <3>2. TableInv' /\ UseInv' /\ CountInv'  BY <2>2, <3>1, InsertKeeps
    <3> QED  BY <2>1, <3>2 DEF MemInv
  <2> QED  BY <2>3, <2>4
<1>4. ASSUME NEW p \in Ptrs, ResFree(p) PROVE MemInv'
  <2>1. CursorInv'  BY <1>1, <1>4 DEF ResFree
  <2>2. p \in DOMAIN live /\ live' = [q \in DOMAIN live \ {p} |-> live[q]]
    BY <1>4 DEF ResFree
  <2>3. CASE Has(list[HushIndex[p]], p)
    <3>1. TableInv' /\ UseInv' /\ CountInv'
      BY <1>4, <2>2, <2>3, RemoveKeeps DEF ResFree, Removed
    <3> QED  BY <2>1, <3>1, ZenonT(60) DEF MemInv
  <2>4. CASE ~ Has(list[HushIndex[p]], p)
    <3>1. UNCHANGED <<list, nrItem, dbg>>  BY <1>4, <2>4 DEF ResFree
    <3>2. TableInv' /\ CountInv' /\ Records' = Records  BY <1>2, <3>1
    <3>3. \A x \in Records : x.ptr # p
      <4> SUFFICES ASSUME NEW x \in Records, x.ptr = p PROVE FALSE
        OBVIOUS
      <4>1. PICK i \in Lists : x \in Elems(list[i])  BY RecordsAre DEF MemInv
      <4>2. i = HushIndex[p]  BY <4>1 DEF MemInv, TableInv
      <4> QED  BY <4>1, <4>2, <2>4 DEF Has, Elems
    <3>4. /\ DOMAIN live' = DOMAIN live \ {p}
          /\ \A q \in DOMAIN live' : live'[q] = live[q]
      BY <2>2
    <3>5. UseInv'  BY <3>2, <3>3, <3>4 DEF MemInv, UseInv
    <3> QED  BY <2>1, <3>2, <3>5 DEF MemInv
  <2> QED  BY <2>3, <2>4
<1>5. CASE DumpStart
  <2>1. UNCHANGED <<list, nrItem, dbg>> /\ live' = live  BY <1>5 DEF DumpStart
  <2>2. TableInv' /\ CountInv' /\ Records' = Records  BY <1>2, <2>1
  <2> QED  BY <1>5, <2>1, <2>2, DumpStartKeeps DEF MemInv, UseInv
<1>6. CASE DumpNext
  <2>1. UNCHANGED <<list, nrItem, dbg>> /\ live' = live  BY <1>6 DEF DumpNext
  <2>2. TableInv' /\ CountInv' /\ Records' = Records  BY <1>2, <2>1
  <2> QED  BY <1>6, <2>1, <2>2, DumpNextKeeps DEF MemInv, UseInv
<1>7. CASE UNCHANGED memVars
  <2>1. UNCHANGED <<list, nrItem, dbg>> /\ live' = live
        /\ UNCHANGED <<pos, prev, shown, dumping>>
    BY <1>7 DEF memVars
  <2>2. TableInv' /\ CountInv' /\ Records' = Records  BY <1>2, <2>1
  <2>3. CursorInv'
    <3>1. /\ (Elems(shown))' = Elems(shown) /\ (Elems(prev))' = Elems(prev)
          /\ (Distinct(prev))' = Distinct(prev)
      BY <2>1 DEF Elems, Distinct
    <3>2. (Left(prev, pos))' = Left(prev, pos)  BY <2>1, <2>2 DEF Left, From, Elems
    <3> QED  BY <2>1, <2>2, <3>1, <3>2 DEF MemInv, CursorInv
  <2> QED  BY <2>1, <2>2, <2>3 DEF MemInv, UseInv
<1> QED  BY <1>3, <1>4, <1>5, <1>6, <1>7, ZenonT(60) DEF MemNext

-----------------------------------------------------------------------------
(* The theorems *)

\* No more records than addresses: no address has two.
LEMMA MemTypes == MemInv => MemTypeOK
<1> SUFFICES ASSUME MemInv PROVE MemTypeOK
  OBVIOUS
<1> DEFINE f == [x \in Records |-> x.ptr]
<1>1. \A x \in Records : x \in Rec /\ x.ptr \in Ptrs /\ live[x.ptr] = x.bytes
  BY RecordsAre DEF MemInv, UseInv, Rec
<1>2. f \in Injection(Records, Ptrs)
  <2>1. \A x, y \in Records : x.ptr = y.ptr => x = y  BY <1>1 DEF Rec
  <2>2. f \in [Records -> Ptrs]  BY <1>1
  <2> QED  BY <2>1, <2>2 DEF Injection, IsInjective
<1>3. Cardinality(Records) <= Cardinality(Ptrs)
  <2> HIDE DEF f
  <2> QED  BY <1>2, FS_Injection, MemDbgAssumption
<1>4. Cardinality(Records) \in Nat /\ Cardinality(Ptrs) \in Nat
  BY FS_CardinalityType, MemDbgAssumption DEF MemInv, CountInv
<1>5. nrItem \in 0 .. Cardinality(Ptrs)  BY <1>3, <1>4 DEF MemInv, CountInv
<1> QED  BY <1>5 DEF MemInv, TableInv, UseInv, CursorInv, MemTypeOK, Rec, Lists

\* The table and its cursor keep their types and bounds for every set of
\* addresses, sizes and depth: no more records than addresses, and no cursor
\* beyond the last list.
THEOREM MemTypeCorrect == MemSpec => []MemTypeOK
<1> QED
  BY MemInitInv, MemStepInv, MemTypes, PTL DEF MemSpec

LEMMA RecordsAgree == MemInv => RecordsTrue
<1> SUFFICES ASSUME MemInv PROVE RecordsTrue
  OBVIOUS
<1>1. \A i \in Lists : \A n \in 1 .. Len(list[i]) : HushIndex[list[i][n].ptr] = i
  BY DEF MemInv, TableInv, Elems
<1>2. dumping = "done" => Elems(shown) = Records /\ Len(shown) = nrItem
  BY DEF MemInv, CursorInv, CountInv
<1> QED  BY <1>1, <1>2 DEF MemInv, UseInv, CountInv, RecordsTrue, Lists, Elems

\* The record of the reserved memory is true, for every set of addresses,
\* sizes and depth of the table: its records are allocations in use, each in
\* the list of its address, the counters of memdbg agree with them, and a dump
\* that has ended has shown each record once.
THEOREM RecordsTrueAlways == MemSpec => []RecordsTrue
<1> QED
  BY MemInitInv, MemStepInv, RecordsAgree, PTL DEF MemSpec

-----------------------------------------------------------------------------
(* The parameters for the kernel *)

Calls(Names, Values) ==
  Seq([name : Names, long : BOOLEAN, length : Nat, value : Values, alike : BOOLEAN])

Cells == 0 .. TableLen - 1
IsTable(c) ==
  /\ c = [nr |-> c.nr, sz |-> c.sz, mem |-> c.mem]
  /\ c.nr \in Nat /\ c.sz \in Nat /\ DOMAIN c.mem = Cells

\* Cells that a call which leads from table c to table d may not touch: values
\* in the buffer, and slots the values have not come to.
Kept(c, d, o) ==
  \/ o < c.sz /\ o < ParamsSize
  \/ d.sz <= o /\ o < SlotAt(c.nr)

\* As long as the buffer has not overrun, the slots hold items of calls so far.
GivenItem(cell, calls, n) ==
  \E m \in 1 .. n, k \in 1 .. ItemLen, offset, length \in Nat :
    cell = [item |-> [name |-> calls[m].name, offset |-> offset, length |-> length],
            nth |-> k]
Named(c, calls, n) ==
  c.sz <= ParamsSize =>
    \A o \in Cells : ParamsSize <= o => c.mem[o] = Zero \/ GivenItem(c.mem[o], calls, n)

FirstCall(calls, n) ==
  ~calls[n].long /\ \A m \in 1 .. n - 1 : calls[m].name # calls[n].name

LEMMA Slots ==
  /\ TableLen \in Nat
  /\ \A k \in Nat :
       /\ SlotAt(k) \in Nat /\ ParamsSize <= SlotAt(k)
       /\ \A j \in Nat : j < k => SlotAt(j) + ItemLen <= SlotAt(k)
       /\ k < ParamsCount => SlotAt(k) + ItemLen <= TableLen
  /\ ParamsSize \in Nat /\ ItemLen = 12
<1>1. ParamsSize \in Nat /\ ParamsCount \in Nat
  BY TagsAssumption DEF TagsAssumption
<1> QED  BY <1>1 DEF TableLen, SlotAt, ItemLen

LEMMA SlotIs ==
  ASSUME NEW k \in Nat
  PROVE  /\ SlotAt(k) \in Nat /\ ParamsSize <= SlotAt(k) /\ SlotAt(k + 1) = SlotAt(k) + ItemLen
         /\ k < ParamsCount => SlotAt(k) + ItemLen <= TableLen /\ SlotAt(k) \in Cells
         /\ ParamsSize \in Nat /\ ParamsCount \in Nat /\ TableLen \in Nat /\ ItemLen = 12
<1>1. ParamsSize \in Nat /\ ParamsCount \in Nat
  BY TagsAssumption DEF TagsAssumption
<1> QED  BY <1>1 DEF TableLen, SlotAt, ItemLen, Cells

LEMMA SlotsApart ==
  ASSUME NEW k \in Nat, NEW j \in Nat, j < k
  PROVE  SlotAt(j) < SlotAt(k)
<1>1. ParamsSize \in Nat
  BY TagsAssumption DEF TagsAssumption
<1> QED  BY <1>1 DEF SlotAt, ItemLen

LEMMA BytesAre ==
  ASSUME NEW call, call.length \in Nat, NEW item
  PROVE  /\ Len(ValueBytes(call)) = call.length
         /\ \A k \in 1 .. call.length : ValueBytes(call)[k] = [value |-> call.value, nth |-> k]
         /\ Len(ItemBytes(item)) = ItemLen
         /\ \A k \in 1 .. ItemLen : ItemBytes(item)[k] = [item |-> item, nth |-> k]
BY DEF ValueBytes, ItemBytes, ItemLen

\* What storing s changes.
LEMMA StoreIs ==
  ASSUME NEW mem, NEW at, NEW s, DOMAIN mem = Cells
  PROVE  /\ DOMAIN Store(mem, at, s) = Cells
         /\ \A o \in Cells :
              Store(mem, at, s)[o] =
                IF o \in at .. at + Len(s) - 1 THEN s[o - at + 1] ELSE mem[o]
BY DEF Store

\* What a new parameter changes.
LEMMA StoredIs ==
  ASSUME NEW c, IsTable(c), NEW call, call.length \in Nat
  PROVE  /\ IsTable(Stored(c, call))
         /\ Stored(c, call).nr = c.nr + 1 /\ Stored(c, call).sz = c.sz + call.length
         /\ \A o \in Cells :
              Stored(c, call).mem[o] =
                IF o \in c.sz .. c.sz + call.length - 1
                THEN [value |-> call.value, nth |-> o - c.sz + 1]
                ELSE IF o \in SlotAt(c.nr) .. SlotAt(c.nr) + ItemLen - 1
                THEN [item |-> ItemOf(c, call), nth |-> o - SlotAt(c.nr) + 1]
                ELSE c.mem[o]
<1> DEFINE item == ItemOf(c, call)
           inner == Store(c.mem, SlotAt(c.nr), ItemBytes(item))
           outer == Store(inner, c.sz, ValueBytes(call))
           slot == SlotAt(c.nr)
           sz == c.sz
           len == call.length
           I == ItemBytes(item)
           V == ValueBytes(call)
<1>1. Stored(c, call) = [nr |-> c.nr + 1, sz |-> c.sz + call.length, mem |-> outer]
  BY DEF Stored
<1>2. /\ Len(V) = len /\ \A k \in 1 .. len : V[k] = [value |-> call.value, nth |-> k]
      /\ Len(I) = ItemLen /\ \A k \in 1 .. ItemLen : I[k] = [item |-> item, nth |-> k]
  BY BytesAre
<1>3. c.nr \in Nat /\ sz \in Nat /\ slot \in Nat /\ len \in Nat /\ ItemLen = 12
      /\ DOMAIN c.mem = Cells
  BY Slots DEF IsTable
<1>4. /\ DOMAIN inner = Cells
      /\ \A o \in Cells : inner[o] = IF o \in slot .. slot + Len(I) - 1
                                     THEN I[o - slot + 1] ELSE c.mem[o]
  <2> HIDE DEF I, slot
  <2> QED  BY <1>3, StoreIs DEF I, slot
<1> HIDE DEF inner
<1>5. /\ DOMAIN outer = Cells
      /\ \A o \in Cells : outer[o] = IF o \in sz .. sz + Len(V) - 1
                                     THEN V[o - sz + 1] ELSE inner[o]
  <2> HIDE DEF V, sz
  <2> QED  BY <1>4, StoreIs DEF V, sz
<1> HIDE DEF outer, I, V, item
<1>6. ASSUME NEW o \in Cells
      PROVE  outer[o] = IF o \in sz .. sz + len - 1 THEN [value |-> call.value, nth |-> o - sz + 1]
                        ELSE IF o \in slot .. slot + ItemLen - 1
                             THEN [item |-> item, nth |-> o - slot + 1] ELSE c.mem[o]
  <2> HIDE DEF sz, len, slot
  <2>1. o \in Nat  BY Slots DEF Cells
  <2>2. o \in sz .. sz + len - 1 => o - sz + 1 \in 1 .. len
    BY <2>1, <1>3
  <2>3. o \in slot .. slot + ItemLen - 1 => o - slot + 1 \in 1 .. ItemLen
    BY <2>1, <1>3
  <2>4. outer[o] = IF o \in sz .. sz + len - 1 THEN V[o - sz + 1] ELSE inner[o]
    BY <1>2, <1>5
  <2>5. inner[o] = IF o \in slot .. slot + ItemLen - 1 THEN I[o - slot + 1] ELSE c.mem[o]
    BY <1>2, <1>4
  <2> QED  BY <2>2, <2>3, <2>4, <2>5, <1>2
<1>7. IsTable(Stored(c, call))
  BY <1>1, <1>3, <1>5 DEF IsTable
<1> QED  BY <1>1, <1>6, <1>7 DEF item

\* One call of set_param_data.
LEMMA SetParamStep ==
  ASSUME NEW c, IsTable(c), NEW call, call.length \in Nat
  PROVE  /\ IsTable(SetParamData(c, call))
         /\ c.nr <= SetParamData(c, call).nr /\ SetParamData(c, call).nr <= c.nr + 1
         /\ c.sz <= SetParamData(c, call).sz /\ SetParamData(c, call).sz <= c.sz + call.length
         /\ \A o \in Cells : Kept(c, SetParamData(c, call), o) =>
                               SetParamData(c, call).mem[o] = c.mem[o]
<1> DEFINE d == SetParamData(c, call)
<1>1. c.nr \in Nat /\ c.sz \in Nat /\ DOMAIN c.mem = Cells
  BY DEF IsTable
<1>2. CASE d = c
  BY <1>1, <1>2
<1>3. CASE d = [c EXCEPT !.nr = @ + 1]
  <2>1. d = [nr |-> c.nr + 1, sz |-> c.sz, mem |-> c.mem]
    BY <1>3 DEF IsTable
  <2> HIDE DEF d
  <2>2. d.nr = c.nr + 1 /\ d.sz = c.sz /\ d.mem = c.mem
    BY <2>1
  <2>3. IsTable(d)
    BY <2>1, <1>1 DEF IsTable
  <2> QED  BY <2>2, <2>3, <1>1 DEF d
<1>4. CASE d = Stored(c, call)
  <2> HIDE DEF d
  <2>1. d.nr = c.nr + 1 /\ d.sz = c.sz + call.length /\ IsTable(d)
    BY <1>4, StoredIs
  <2>2. ASSUME NEW o \in Cells, Kept(c, d, o) PROVE d.mem[o] = c.mem[o]
    <3>1. o \in Nat /\ SlotAt(c.nr) \in Nat /\ ParamsSize \in Nat /\ ParamsSize <= SlotAt(c.nr)
      BY <1>1, Slots DEF Cells
    <3>2. o \notin SlotAt(c.nr) .. SlotAt(c.nr) + ItemLen - 1
      BY <3>1, <2>2 DEF Kept
    <3>3. o \notin c.sz .. c.sz + call.length - 1
      BY <3>1, <2>1, <2>2, <1>1 DEF Kept
    <3>4. Stored(c, call).mem[o] =
            IF o \in c.sz .. c.sz + call.length - 1
            THEN [value |-> call.value, nth |-> o - c.sz + 1]
            ELSE IF o \in SlotAt(c.nr) .. SlotAt(c.nr) + ItemLen - 1
            THEN [item |-> ItemOf(c, call), nth |-> o - SlotAt(c.nr) + 1]
            ELSE c.mem[o]
      BY <1>1, StoredIs
    <3> QED  BY <3>2, <3>3, <3>4, <1>4
  <2> QED  BY <2>1, <2>2, <1>1 DEF d
<1> QED  BY <1>2, <1>3, <1>4 DEF SetParamData

\* What the slots hold stays an item that was given.
LEMMA SetParamNamed ==
  ASSUME NEW calls, NEW n \in Nat \ {0}, calls[n].length \in Nat,
         NEW c, IsTable(c), Named(c, calls, n - 1)
  PROVE  Named(SetParamData(c, calls[n]), calls, n)
<1> DEFINE call == calls[n]
           d == SetParamData(c, call)
<1>1. c.nr \in Nat /\ c.sz \in Nat /\ DOMAIN c.mem = Cells /\ call.length \in Nat
  BY DEF IsTable
<1>2. c.sz <= d.sz /\ d.sz \in Nat
  BY SetParamStep DEF IsTable
<1> SUFFICES ASSUME d.sz <= ParamsSize, NEW o \in Cells, ParamsSize <= o
             PROVE  d.mem[o] = Zero \/ GivenItem(d.mem[o], calls, n)
  BY DEF Named
<1>3. o \in Nat /\ ParamsSize \in Nat /\ SlotAt(c.nr) \in Nat /\ ItemLen = 12
  <2> HIDE DEF d
  <2>1. TableLen \in Nat /\ ParamsSize \in Nat /\ SlotAt(c.nr) \in Nat /\ ItemLen = 12
    BY <1>1, SlotIs
  <2>2. o \in Nat  BY <2>1 DEF Cells
  <2> QED  BY <2>1, <2>2
<1>4. c.mem[o] = Zero \/ GivenItem(c.mem[o], calls, n)
  <2>1. c.sz <= ParamsSize  BY <1>1, <1>2, <1>3
  <2>2. c.mem[o] = Zero \/ GivenItem(c.mem[o], calls, n - 1)  BY <2>1 DEF Named
  <2>3. \A m \in 1 .. n - 1 : m \in 1 .. n  OBVIOUS
  <2> QED  BY <2>2, <2>3 DEF GivenItem
<1>5. CASE d = c
  BY <1>4, <1>5
<1>6. CASE d = [c EXCEPT !.nr = @ + 1]
  <2>1. d.mem = c.mem
    BY <1>6 DEF IsTable
  <2> QED  BY <2>1, <1>4
<1>7. CASE d = Stored(c, call)
  <2> HIDE DEF d
  <2>1. d.sz = c.sz + call.length
    BY <1>1, <1>7, StoredIs
  <2>2. o \notin c.sz .. c.sz + call.length - 1
    BY <2>1, <1>1, <1>3
  <2>3. d.mem[o] = IF o \in SlotAt(c.nr) .. SlotAt(c.nr) + ItemLen - 1
                   THEN [item |-> ItemOf(c, call), nth |-> o - SlotAt(c.nr) + 1] ELSE c.mem[o]
    <3> HIDE DEF call
    <3>1. IsTable(c) /\ call.length \in Nat  BY <1>1
    <3>2. \A q \in Cells :
            Stored(c, call).mem[q] =
              IF q \in c.sz .. c.sz + call.length - 1
              THEN [value |-> call.value, nth |-> q - c.sz + 1]
              ELSE IF q \in SlotAt(c.nr) .. SlotAt(c.nr) + ItemLen - 1
              THEN [item |-> ItemOf(c, call), nth |-> q - SlotAt(c.nr) + 1]
              ELSE c.mem[q]
      BY <3>1, StoredIs
    <3>3. o \in Cells  OBVIOUS
    <3> QED  BY <3>2, <3>3, <2>2, <1>7
  <2>4. CASE o \notin SlotAt(c.nr) .. SlotAt(c.nr) + ItemLen - 1
    BY <2>3, <2>4, <1>4
  <2>5. CASE o \in SlotAt(c.nr) .. SlotAt(c.nr) + ItemLen - 1
    <3> DEFINE k == o - SlotAt(c.nr) + 1
    <3>1. k \in 1 .. ItemLen /\ n \in 1 .. n
      BY <2>5, <1>3
    <3>2. ItemOf(c, call) = [name |-> calls[n].name, offset |-> c.sz % 65536,
                             length |-> call.length % 65536]
          /\ c.sz % 65536 \in Nat /\ call.length % 65536 \in Nat
      BY <1>1 DEF ItemOf
    <3>3. d.mem[o] = [item |-> ItemOf(c, call), nth |-> k]
      BY <2>3, <2>5
    <3> DEFINE offset == c.sz % 65536
               length == call.length % 65536
               cell == d.mem[o]
    <3>4. /\ offset \in Nat /\ length \in Nat
          /\ cell = [item |-> [name |-> calls[n].name, offset |-> offset, length |-> length],
                     nth |-> k]
      BY <3>2, <3>3
    <3> HIDE DEF k, offset, length, cell
    <3>5. GivenItem(cell, calls, n)
      BY <3>1, <3>4 DEF GivenItem
    <3> QED  BY <3>5 DEF cell
  <2> QED  BY <2>4, <2>5
<1> QED  BY <1>5, <1>6, <1>7 DEF SetParamData

\* A name that is given for the first time is in no slot.
LEMMA NotNamed ==
  ASSUME NEW calls, NEW n \in Nat \ {0}, FirstCall(calls, n),
         NEW c, Named(c, calls, n - 1), c.sz <= ParamsSize,
         NEW k \in Nat, k < ParamsCount
  PROVE  ~HasName(c, k, calls[n])
<1> DEFINE cell == c.mem[SlotAt(k)]
<1>1. SlotAt(k) \in Cells /\ ParamsSize <= SlotAt(k)
  BY Slots DEF Cells
<1>2. cell = Zero \/ GivenItem(cell, calls, n - 1)
  BY <1>1 DEF Named
<1>3. CASE cell = Zero
  <2> HIDE DEF cell
  <2>1. "item" \notin DOMAIN cell /\ "value" \notin DOMAIN cell
    BY <1>3 DEF Zero
  <2> QED  BY <2>1 DEF HasName, cell
<1>4. CASE GivenItem(cell, calls, n - 1)
  <2> HIDE DEF cell
  <2>1. PICK m \in 1 .. n - 1, j \in 1 .. ItemLen, offset, length \in Nat :
          cell = [item |-> [name |-> calls[m].name, offset |-> offset, length |-> length],
                  nth |-> j]
    BY <1>4 DEF GivenItem
  <2>2. "value" \notin DOMAIN cell /\ cell.item.name = calls[m].name
    BY <2>1
  <2>3. calls[m].name # calls[n].name
    BY DEF FirstCall
  <2> QED  BY <2>2, <2>3 DEF HasName, cell
<1> QED  BY <1>2, <1>3, <1>4

-----------------------------------------------------------------------------
(* The tables after each call *)

\* The table after each call, as ParamsAfter builds it.
After(f, calls) ==
  f = [n \in 0 .. Len(calls) |->
         IF n = 0 THEN NoParams ELSE SetParamData(f[n - 1], calls[n])]

\* That function exists: there is no smallest number of calls without one.
LEMMA AfterExists ==
  ASSUME NEW calls, Len(calls) \in Nat
  PROVE  \E f : After(f, calls)
<1> DEFINE Is(f, N) == f = [n \in 0 .. N |->
                 IF n = 0 THEN NoParams ELSE SetParamData(f[n - 1], calls[n])]
           Bad == {N \in Nat : ~ \E f : Is(f, N)}
<1>1. Bad = {}
  <2> SUFFICES ASSUME Bad # {} PROVE FALSE
    OBVIOUS
  <2>1. PICK N \in Bad : \A M \in Bad : N <= M
    <3> HIDE DEF Bad
    <3>1. Bad \subseteq Nat  BY DEF Bad
    <3> QED  BY <3>1, LeastNumber
  <2>2. CASE N = 0
    <3> DEFINE f == [n \in 0 .. 0 |-> NoParams]
    <3>1. Is(f, 0)  OBVIOUS
    <3> QED  BY <3>1, <2>2
  <2>3. CASE N # 0
    <3>1. N - 1 \in Nat /\ ~(N <= N - 1)  BY <2>3
    <3>2. N - 1 \notin Bad
      <4> HIDE DEF Bad
      <4> QED  BY <2>1, <3>1
    <3>3. PICK f : Is(f, N - 1)
      <4> HIDE DEF Is
      <4> QED  BY <3>1, <3>2
    <3> DEFINE g == [n \in 0 .. N |-> IF n = N THEN SetParamData(f[N - 1], calls[N]) ELSE f[n]]
    <3>4. \A n \in 0 .. N : g[n] = IF n = 0 THEN NoParams ELSE SetParamData(g[n - 1], calls[n])
      <4> TAKE n \in 0 .. N
      <4>1. CASE n = 0
        BY <4>1, <3>1, <3>3
      <4>2. CASE n # 0 /\ n # N
        <5>1. n \in 0 .. N - 1 /\ n - 1 \in 0 .. N /\ n - 1 # N  BY <4>2
        <5>2. g[n] = f[n] /\ g[n - 1] = f[n - 1]  BY <4>2, <5>1
        <5>3. f[n] = SetParamData(f[n - 1], calls[n])  BY <4>2, <5>1, <3>3
        <5> QED  BY <4>2, <5>2, <5>3
      <4>3. CASE n = N
        <5>1. N - 1 \in 0 .. N /\ N - 1 # N  BY <3>1
        <5>2. g[N] = SetParamData(f[N - 1], calls[N]) /\ g[N - 1] = f[N - 1]  BY <5>1
        <5> HIDE DEF g
        <5> QED  BY <4>3, <5>2, <2>3
      <4> QED  BY <4>1, <4>2, <4>3
    <3>5. Is(g, N)
      <4>1. g = [n \in 0 .. N |-> g[n]]  OBVIOUS
      <4> HIDE DEF g
      <4> QED  BY <4>1, <3>4
    <3> QED  BY <3>5
  <2> QED  BY <2>2, <2>3
<1>2. Len(calls) \notin Bad
  <2> HIDE DEF Bad
  <2> QED  BY <1>1
<1>3. \E f : Is(f, Len(calls))
  <2> HIDE DEF Is
  <2> QED  BY <1>2
<1> QED  BY <1>3 DEF After

\* What is known of the tables after some calls: each one is a table, its slots
\* hold items that were given, and what a call leaves alone stays to the end.
Steps(after, calls) ==
  /\ Len(calls) \in Nat /\ after[0] = NoParams
  /\ \A n \in 1 .. Len(calls) : /\ after[n] = SetParamData(after[n - 1], calls[n])
                                /\ calls[n].length \in Nat

LEMMA ParamSteps ==
  ASSUME NEW Names, NEW Values, NEW calls \in Calls(Names, Values)
  PROVE  Steps(ParamsAfter(calls), calls)
<1> DEFINE after == CHOOSE f : After(f, calls)
           L == Len(calls)
<1>1. L \in Nat  BY DEF Calls
<1>2. After(after, calls)  BY <1>1, AfterExists
<1>3. ParamsAfter(calls) = after  BY DEF ParamsAfter, After
<1> HIDE DEF after
<1>4. after[0] = NoParams /\ \A n \in 1 .. L : after[n] = SetParamData(after[n - 1], calls[n])
  <2>1. \A n \in 0 .. L : after[n] = IF n = 0 THEN NoParams ELSE SetParamData(after[n - 1], calls[n])
    BY <1>2 DEF After
  <2> QED  BY <2>1, <1>1
<1>5. \A n \in 1 .. L : calls[n].length \in Nat
  <2> TAKE n \in 1 .. L
  <2>1. calls[n] \in [name : Names, long : BOOLEAN, length : Nat, value : Values, alike : BOOLEAN]
    BY ElementOfSeq DEF Calls
  <2> QED  BY <2>1
<1> QED  BY <1>1, <1>3, <1>4, <1>5 DEF Steps

LEMMA ParamTables ==
  ASSUME NEW after, NEW calls, Steps(after, calls), NEW n \in 0 .. Len(calls)
  PROVE  IsTable(after[n]) /\ Named(after[n], calls, n)
<1> DEFINE L == Len(calls)
           Good(i) == IsTable(after[i]) /\ Named(after[i], calls, i)
           Bad == {i \in 0 .. L : ~Good(i)}
<1>1. L \in Nat /\ after[0] = NoParams
      /\ \A i \in 1 .. L : after[i] = SetParamData(after[i - 1], calls[i]) /\ calls[i].length \in Nat
  BY DEF Steps
<1> HIDE DEF L
<1>2. Good(0)
  <2>1. NoParams.nr = 0 /\ NoParams.sz = 0 /\ NoParams.mem = [o \in Cells |-> Zero]
        /\ NoParams = [nr |-> NoParams.nr, sz |-> NoParams.sz, mem |-> NoParams.mem]
    BY DEF NoParams, Cells
  <2> QED  BY <2>1, <1>1 DEF IsTable, Named
<1>3. ASSUME NEW i \in 1 .. L, Good(i - 1) PROVE Good(i)
  <2>1. i \in Nat \ {0} /\ calls[i].length \in Nat  BY <1>1
  <2>2. IsTable(after[i])  BY <2>1, <1>1, <1>3, SetParamStep
  <2>3. Named(after[i], calls, i)  BY <2>1, <1>1, <1>3, SetParamNamed
  <2> QED  BY <2>2, <2>3
<1> HIDE DEF Good
<1>4. Bad = {}
  <2> SUFFICES ASSUME Bad # {} PROVE FALSE
    OBVIOUS
  <2>1. PICK i \in Bad : \A m \in Bad : i <= m
    <3>1. Bad \subseteq Nat  BY <1>1
    <3> HIDE DEF Bad
    <3> QED  BY <3>1, LeastNumber
  <2>2. i # 0  BY <1>2
  <2>3. i \in 1 .. L /\ i - 1 \in 0 .. L /\ ~(i <= i - 1)  BY <1>1, <2>2
  <2>4. i - 1 \notin Bad
    <3> HIDE DEF Bad
    <3> QED  BY <2>1, <2>3
  <2> QED  BY <2>3, <2>4, <1>3
<1> QED  BY <1>4 DEF L, Good

\* From call n to the last one the counters do not fall, and cells of values in
\* the buffer and of slots that no value comes to keep what they hold.
LEMMA ParamsStay ==
  ASSUME NEW after, NEW calls, Steps(after, calls), NEW n \in 0 .. Len(calls)
  PROVE  /\ after[n].nr <= after[Len(calls)].nr /\ after[n].sz <= after[Len(calls)].sz
         /\ \A o \in Cells : Kept(after[n], after[Len(calls)], o) =>
                               after[Len(calls)].mem[o] = after[n].mem[o]
<1> DEFINE L == Len(calls)
           c == after[n]
           Good(i) == /\ c.nr <= after[i].nr /\ c.sz <= after[i].sz
                      /\ \A o \in Cells : Kept(c, after[i], o) => after[i].mem[o] = c.mem[o]
           Bad == {i \in n .. L : ~Good(i)}
<1>1. L \in Nat /\ n \in Nat /\ n <= L
      /\ \A i \in 1 .. L : after[i] = SetParamData(after[i - 1], calls[i]) /\ calls[i].length \in Nat
  BY DEF Steps
<1>2. \A i \in 0 .. L : IsTable(after[i])
  BY ParamTables
<1> HIDE DEF L
<1>3. c.nr \in Nat /\ c.sz \in Nat
  BY <1>1, <1>2 DEF IsTable, L
<1>4. Good(n)
  BY <1>3
<1>5. ASSUME NEW i \in n + 1 .. L, Good(i - 1) PROVE Good(i)
  <2> DEFINE a == after[i - 1]
             b == after[i]
  <2>1. i \in 1 .. L /\ i - 1 \in 0 .. L /\ i \in 0 .. L  BY <1>1
  <2>2. IsTable(a) /\ IsTable(b) /\ b = SetParamData(a, calls[i]) /\ calls[i].length \in Nat
    BY <2>1, <1>1, <1>2
  <2>3. /\ a.nr <= b.nr /\ a.sz <= b.sz
        /\ \A o \in Cells : Kept(a, b, o) => b.mem[o] = a.mem[o]
    <3> HIDE DEF a, b
    <3> QED  BY <2>2, SetParamStep
  <2>4. /\ c.nr <= a.nr /\ c.sz <= a.sz
        /\ \A o \in Cells : Kept(c, a, o) => a.mem[o] = c.mem[o]
    BY <1>5
  <2>5. a.nr \in Nat /\ a.sz \in Nat /\ b.nr \in Nat /\ b.sz \in Nat
    BY <2>2 DEF IsTable
  <2> HIDE DEF a, b, c
  <2>6. SlotAt(c.nr) <= SlotAt(a.nr) /\ SlotAt(c.nr) \in Nat /\ SlotAt(a.nr) \in Nat
    <3> DEFINE x == c.nr
               y == a.nr
    <3>1. x \in Nat /\ y \in Nat /\ x <= y  BY <2>4, <2>5, <1>3
    <3> HIDE DEF x, y
    <3>2. SlotAt(x) \in Nat /\ SlotAt(y) \in Nat  BY <3>1, SlotIs
    <3>3. CASE x = y  BY <3>2, <3>3 DEF x, y
    <3>4. CASE x < y
      <4>1. SlotAt(x) < SlotAt(y)  BY <3>1, <3>4, SlotsApart
      <4> QED  BY <4>1, <3>2 DEF x, y
    <3> QED  BY <3>1, <3>3, <3>4
  <2>7. ASSUME NEW o \in Cells, Kept(c, b, o) PROVE b.mem[o] = c.mem[o]
    <3>1. o \in Nat /\ ParamsSize \in Nat  BY Slots DEF Cells
    <3>2. Kept(c, a, o) /\ Kept(a, b, o)
      <4>1. CASE o < c.sz /\ o < ParamsSize
        <5>1. o < a.sz  BY <4>1, <3>1, <2>4, <2>5, <1>3
        <5> QED  BY <5>1, <4>1 DEF Kept
      <4>2. CASE b.sz <= o /\ o < SlotAt(c.nr)
        <5>1. a.sz <= o  BY <4>2, <3>1, <2>3, <2>5
        <5>2. o < SlotAt(a.nr)  BY <4>2, <3>1, <2>6
        <5> QED  BY <5>1, <5>2, <4>2 DEF Kept
      <4> QED  BY <4>1, <4>2, <2>7 DEF Kept
    <3> QED  BY <3>2, <2>3, <2>4
  <2>8. c.nr <= b.nr /\ c.sz <= b.sz
    BY <2>3, <2>4, <2>5, <1>3
  <2> QED  BY <2>7, <2>8 DEF b
<1> HIDE DEF Good
<1>6. Bad = {}
  <2> SUFFICES ASSUME Bad # {} PROVE FALSE
    OBVIOUS
  <2>1. PICK i \in Bad : \A m \in Bad : i <= m
    <3>1. Bad \subseteq Nat  BY <1>1
    <3> HIDE DEF Bad
    <3> QED  BY <3>1, LeastNumber
  <2>2. i # n  BY <1>4
  <2>3. i \in n + 1 .. L /\ i - 1 \in n .. L /\ ~(i <= i - 1)  BY <1>1, <2>2
  <2>4. i - 1 \notin Bad
    <3> HIDE DEF Bad
    <3> QED  BY <2>1, <2>3
  <2> QED  BY <2>3, <2>4, <1>5
<1>7. Good(L)  BY <1>1, <1>6
<1> QED  BY <1>7 DEF Good, L, c

\* A parameter given for the first time is where the counters were.
LEMMA ParamKept ==
  ASSUME NEW after, NEW calls, Steps(after, calls), NEW n \in 1 .. Len(calls)
  PROVE  ParamTold(after, calls, n)
<1> DEFINE L == Len(calls)
           e == after[L]
           c == after[n - 1]
           d == after[n]
           call == calls[n]
           slot == SlotAt(c.nr)
           item == [name |-> call.name, offset |-> c.sz, length |-> call.length]
<1> SUFFICES ASSUME FirstCall(calls, n), c.nr < ParamsCount,
                    c.sz + call.length <= ParamsSize, e.sz <= slot
             PROVE  /\ Holds(e, c.sz, ValueBytes(call))
                    /\ Holds(e, slot, ItemBytes(item))
                    /\ e.sz <= ParamsSize => FoundAt(e, call, c.nr)
  BY DEF ParamTold, FirstCall
<1>1. L \in Nat /\ n \in Nat \ {0} /\ n \in 0 .. L /\ n - 1 \in 0 .. L /\ L \in 0 .. L
      /\ d = SetParamData(c, call) /\ call.length \in Nat
  BY DEF Steps
<1>2. IsTable(c) /\ IsTable(d) /\ IsTable(e) /\ Named(c, calls, n - 1)
  BY <1>1, ParamTables
<1>3. /\ \A o \in Cells : Kept(c, e, o) => e.mem[o] = c.mem[o]
      /\ \A o \in Cells : Kept(d, e, o) => e.mem[o] = d.mem[o]
      /\ d.sz <= e.sz
  BY <1>1, ParamsStay
<1>4. /\ c.nr \in Nat /\ c.sz \in Nat /\ d.sz \in Nat /\ e.sz \in Nat
      /\ slot \in Nat /\ ParamsSize \in Nat /\ ParamsSize < 65536 /\ ItemLen = 12 /\ ParamsSize <= slot
      /\ slot + ItemLen <= TableLen /\ TableLen \in Nat /\ SlotAt(d.nr) \in Nat
  <2>1. c.nr \in Nat /\ c.sz \in Nat /\ d.nr \in Nat /\ d.sz \in Nat /\ e.sz \in Nat
    BY <1>2 DEF IsTable
  <2> HIDE DEF c, d, e
  <2>2. /\ slot \in Nat /\ ParamsSize <= slot /\ ItemLen = 12 /\ TableLen \in Nat
        /\ slot + ItemLen <= TableLen
    BY <2>1, SlotIs
  <2>3. SlotAt(d.nr) \in Nat  BY <2>1, SlotIs
  <2>4. ParamsSize \in Nat /\ ParamsSize < 65536  BY TagsAssumption DEF TagsAssumption
  <2> QED  BY <2>1, <2>2, <2>3, <2>4
<1>5. c.sz <= ParamsSize
  <2> DEFINE sz == c.sz
             len == call.length
  <2> HIDE DEF sz, len
  <2>1. sz \in Nat /\ len \in Nat /\ sz + len <= ParamsSize
    BY <1>1, <1>4 DEF sz, len
  <2>2. sz <= ParamsSize  BY <2>1, <1>4
  <2> QED  BY <2>2 DEF sz
<1>6. \A k \in Nat : k < ParamsCount => ~HasName(c, k, call)
  BY <1>1, <1>2, <1>5, NotNamed
<1>7. d = Stored(c, call)
  <2>1. ~(c.nr > 0 /\ HasName(c, 0, call))
    BY <1>6, TagsAssumption DEF TagsAssumption
  <2>2. ~call.long  BY DEF FirstCall
  <2> QED  BY <2>1, <2>2, <1>1 DEF SetParamData
<1>8. /\ d.nr = c.nr + 1 /\ d.sz = c.sz + call.length
      /\ \A o \in Cells :
           d.mem[o] =
             IF o \in c.sz .. c.sz + call.length - 1
             THEN [value |-> call.value, nth |-> o - c.sz + 1]
             ELSE IF o \in slot .. slot + ItemLen - 1
             THEN [item |-> ItemOf(c, call), nth |-> o - slot + 1]
             ELSE c.mem[o]
  <2> HIDE DEF c, d, call
  <2> QED  BY <1>1, <1>2, <1>7, StoredIs
<1>9. ItemOf(c, call) = item
  <2> DEFINE sz == c.sz
             len == call.length
  <2> HIDE DEF sz, len
  <2>0. sz \in Nat /\ len \in Nat /\ sz + len <= ParamsSize
    BY <1>1, <1>4 DEF sz, len
  <2>1. sz < 65536 /\ len < 65536
    BY <2>0, <1>4
  <2>2. sz % 65536 = sz /\ len % 65536 = len
    <3>1. \A x \in Nat : x < 65536 => x % 65536 = x  OBVIOUS
    <3> QED  BY <2>0, <2>1, <3>1
  <2> QED  BY <2>2 DEF ItemOf, sz, len
<1>10. slot + ItemLen = SlotAt(d.nr)
  <2> DEFINE nr == c.nr
  <2>1. nr \in Nat /\ d.nr = nr + 1  BY <1>4, <1>8
  <2> HIDE DEF nr, d
  <2>2. SlotAt(nr + 1) = SlotAt(nr) + ItemLen  BY <2>1, SlotIs
  <2> QED  BY <2>1, <2>2 DEF nr
<1> HIDE DEF c, d, e, slot, item, call, L
<1>11. Holds(e, c.sz, ValueBytes(call))
  <2>1. Len(ValueBytes(call)) = call.length
        /\ \A k \in 1 .. call.length : ValueBytes(call)[k] = [value |-> call.value, nth |-> k]
    BY <1>1, BytesAre
  <2>2. ASSUME NEW k \in 1 .. call.length
        PROVE  c.sz + k - 1 < TableLen /\ e.mem[c.sz + k - 1] = [value |-> call.value, nth |-> k]
    <3> DEFINE o == c.sz + k - 1
    <3>1. o \in Nat /\ o < TableLen /\ o - c.sz + 1 = k
          /\ o \in c.sz .. c.sz + call.length - 1 /\ o < d.sz /\ o < ParamsSize
      <4> DEFINE len == call.length
                 sz == c.sz
                 dsz == d.sz
      <4>1. len \in Nat /\ sz \in Nat /\ k \in 1 .. len /\ dsz = sz + len
            /\ sz + len <= ParamsSize /\ ParamsSize \in Nat
            /\ slot \in Nat /\ ParamsSize <= slot /\ slot + 12 <= TableLen /\ TableLen \in Nat
            /\ o = sz + k - 1
        BY <1>1, <1>4, <1>8
      <4> HIDE DEF len, sz, dsz, o
      <4>2. /\ o \in Nat /\ o < TableLen /\ o - sz + 1 = k
            /\ o \in sz .. sz + len - 1 /\ o < dsz /\ o < ParamsSize
        BY <4>1
      <4> QED  BY <4>2 DEF len, sz, dsz
    <3> HIDE DEF o
    <3>2. o \in Cells  BY <3>1, <1>4 DEF Cells
    <3>3. d.mem[o] = [value |-> call.value, nth |-> k]
      BY <3>1, <3>2, <1>8
    <3>4. e.mem[o] = d.mem[o]
      BY <3>1, <3>2, <1>3 DEF Kept
    <3> QED  BY <3>1, <3>3, <3>4 DEF o
  <2> QED  BY <2>1, <2>2 DEF Holds
<1>12. \A k \in 1 .. ItemLen : /\ slot + k - 1 < TableLen
                               /\ e.mem[slot + k - 1] = [item |-> item, nth |-> k]
  <2> TAKE k \in 1 .. ItemLen
  <2> DEFINE o == slot + k - 1
  <2>1. o \in Nat /\ o < TableLen /\ o - slot + 1 = k /\ o \in slot .. slot + ItemLen - 1
        /\ o < SlotAt(d.nr) /\ slot <= o /\ o \notin c.sz .. c.sz + call.length - 1
        /\ e.sz <= o
    <3> DEFINE len == call.length
               sz == c.sz
               esz == e.sz
               next == SlotAt(d.nr)
    <3>1. /\ len \in Nat /\ sz \in Nat /\ esz \in Nat /\ sz + len <= ParamsSize
          /\ esz <= slot /\ ParamsSize \in Nat /\ TableLen \in Nat
      BY <1>1, <1>4
    <3>2. /\ slot \in Nat /\ ParamsSize <= slot /\ slot + 12 <= TableLen
          /\ next = slot + 12 /\ ItemLen = 12
      BY <1>4, <1>10
    <3>3. k \in 1 .. 12 /\ o = slot + k - 1  BY <3>2
    <3> HIDE DEF len, sz, esz, next, o
    <3>4. /\ o \in Nat /\ o < TableLen /\ o - slot + 1 = k /\ o \in slot .. slot + 11
          /\ o < next /\ slot <= o /\ esz <= o
      BY <3>1, <3>2, <3>3
    <3>5. o \notin sz .. sz + len - 1  BY <3>1, <3>2, <3>4
    <3>6. slot + 11 = slot + ItemLen - 1  BY <3>2
    <3> QED  BY <3>4, <3>5, <3>6 DEF len, sz, esz, next
  <2> HIDE DEF o
  <2>2. o \in Cells  BY <2>1, <1>4 DEF Cells
  <2>3. d.mem[o] = [item |-> item, nth |-> k]
    BY <2>1, <2>2, <1>8, <1>9
  <2>4. e.mem[o] = d.mem[o]
    BY <2>1, <2>2, <1>3 DEF Kept
  <2> QED  BY <2>1, <2>3, <2>4 DEF o
<1>13. Holds(e, slot, ItemBytes(item))
  <2>1. Len(ItemBytes(item)) = ItemLen
        /\ \A k \in 1 .. ItemLen : ItemBytes(item)[k] = [item |-> item, nth |-> k]
    BY <1>1, BytesAre
  <2> QED  BY <2>1, <1>12 DEF Holds
<1>14. ASSUME e.sz <= ParamsSize PROVE FoundAt(e, call, c.nr)
  <2>1. e.mem[slot] = [item |-> item, nth |-> 1]
    <3>1. 1 \in 1 .. ItemLen /\ slot + 1 - 1 = slot  BY <1>4
    <3> QED  BY <3>1, <1>12
  <2>2. HasName(e, c.nr, call)
    BY <2>1 DEF HasName, slot, item
  <2>3. ASSUME NEW j \in 0 .. c.nr - 1 PROVE ~HasName(e, j, call)
    <3>1. j \in Nat /\ j < ParamsCount /\ j < c.nr
      <4> DEFINE nr == c.nr
      <4>1. nr \in Nat /\ nr < ParamsCount /\ j \in 0 .. nr - 1  BY <1>4
      <4> HIDE DEF nr
      <4>2. ParamsCount \in Nat  BY TagsAssumption DEF TagsAssumption
      <4>3. j \in Nat /\ j < ParamsCount /\ j < nr  BY <4>1, <4>2
      <4> QED  BY <4>3 DEF nr
    <3> DEFINE at == SlotAt(j)
    <3>2. at \in Cells /\ at \in Nat /\ ParamsSize <= at /\ at < slot
      <4>1. at \in Nat /\ ParamsSize <= at /\ at \in Cells  BY <3>1, SlotIs
      <4>2. at < slot
        <5> DEFINE nr == c.nr
        <5>1. nr \in Nat /\ j \in Nat /\ j < nr  BY <3>1, <1>4
        <5> HIDE DEF nr, at
        <5>2. SlotAt(j) < SlotAt(nr)  BY <5>1, SlotsApart
        <5> QED  BY <5>2 DEF nr, at, slot
      <4> QED  BY <4>1, <4>2
    <3> HIDE DEF at
    <3>3. e.sz <= at
      <4> DEFINE sz == e.sz
      <4>1. sz \in Nat /\ sz <= ParamsSize  BY <1>4, <1>14
      <4> HIDE DEF sz
      <4>2. sz <= at  BY <4>1, <3>2, <1>4
      <4> QED  BY <4>2 DEF sz
    <3>4. e.mem[at] = c.mem[at]
      BY <3>2, <3>3, <1>3 DEF Kept, slot
    <3>5. HasName(e, j, call) = HasName(c, j, call)
      BY <3>4 DEF HasName, at
    <3> QED  BY <3>1, <3>5, <1>6
  <2> QED  BY <2>2, <2>3 DEF FoundAt
<1> QED  BY <1>11, <1>13, <1>14

\* The call before an overrun table reports it.
LEMMA OverrunTold ==
  ASSUME NEW after, NEW calls, Steps(after, calls)
  PROVE  OverrunReported(after, calls)
<1> DEFINE L == Len(calls)
           e == after[L]
           c == after[L - 1]
<1>0. ParamsSize \in Nat /\ ParamsCount \in Nat
  BY TagsAssumption DEF TagsAssumption
<1>1. CASE L = 0
  <2>1. e.nr = 0 /\ e.sz = 0  BY <1>1 DEF Steps, NoParams
  <2> QED  BY <2>1, <1>0 DEF OverrunReported
<1>2. CASE L # 0
  <2>1. L \in 1 .. L /\ L \in 0 .. L /\ L - 1 \in 0 .. L
        /\ e = SetParamData(c, calls[L]) /\ calls[L].length \in Nat
    BY <1>2 DEF Steps
  <2>2. IsTable(c) /\ IsTable(e)
    BY <2>1, ParamTables
  <2>3. /\ c.nr \in Nat /\ c.sz \in Nat /\ e.nr \in Nat /\ e.sz \in Nat
        /\ e.nr <= c.nr + 1 /\ e.sz <= c.sz + calls[L].length
    BY <2>1, <2>2, SetParamStep DEF IsTable
  <2> DEFINE len == calls[L].length
  <2>4. len \in Nat /\ e.sz <= c.sz + len  BY <2>1, <2>3
  <2> HIDE DEF len, e, c
  <2>5. e.nr > ParamsCount \/ e.sz > ParamsSize => c.nr >= ParamsCount \/ len + c.sz >= ParamsSize
    BY <2>3, <2>4, <1>0
  <2>6. e.nr > ParamsCount \/ e.sz > ParamsSize => Reported(c, calls[L])
    BY <2>5 DEF Reported, len
  <2> QED  BY <2>1, <2>6 DEF OverrunReported, e, c
<1> QED  BY <1>1, <1>2

-----------------------------------------------------------------------------
(* The tags for the kernel *)

\* The tags announce at least what is written behind their headers.
TagTypes == {"core", "mem", "cmdline", "sdk", "emmc", "param"}
TagRec == {t \in [type : TagTypes, bytes : Nat, written : Nat] : t.written <= t.bytes}

LEMMA TagListIs ==
  ASSUME NEW args \in Nat, NEW sdk \in Nat, NEW ctrl,
         ctrl.nr \in Nat, ctrl.sz \in Nat
  PROVE  TagList(args, sdk, ctrl) \in Seq(TagRec)
<1> DEFINE I == ctrl.nr
           B == ctrl.sz
<1>0. /\ "core" \in TagTypes /\ "mem" \in TagTypes /\ "cmdline" \in TagTypes
      /\ "sdk" \in TagTypes /\ "emmc" \in TagTypes /\ "param" \in TagTypes
  BY DEF TagTypes
<1>1. \A type \in TagTypes : \A b, w \in Nat : w <= b => Tag(type, b, w) \in TagRec
  BY DEF Tag, TagRec
<1>2. ParamBytes(ctrl) \in Nat /\ ParamWritten(ctrl) \in Nat /\ ParamWritten(ctrl) <= ParamBytes(ctrl)
  <2>1. CASE ctrl.nr = 0  BY <2>1 DEF ParamBytes, ParamWritten
  <2>2. CASE ctrl.nr # 0
    <3>1. /\ ParamBytes(ctrl) = 4 * ((16 + 12 * I + B + 3) \div 4)
          /\ ParamWritten(ctrl) = 12 + 12 * I + B
      BY <2>2 DEF ParamBytes, ParamWritten, ItemLen
    <3> HIDE DEF I, B
    <3>2. I \in Nat /\ B \in Nat  BY DEF I, B
    <3> QED  BY <3>1, <3>2
  <2> QED  BY <2>1, <2>2
<1> HIDE DEF I, B
<1>3. Tag("core", 12, 12) \in TagRec /\ Tag("mem", 8, 8) \in TagRec
  BY <1>0, <1>1
<1>4. Tag("cmdline", args + 1, args + 1) \in TagRec
  <2>1. args + 1 \in Nat /\ args + 1 <= args + 1  OBVIOUS
  <2> QED  BY <2>1, <1>0, <1>1
<1>5. Tag("sdk", sdk, sdk) \in TagRec /\ Tag("emmc", 4, 4) \in TagRec
  BY <1>0, <1>1
<1>6. Tag("param", ParamBytes(ctrl), ParamWritten(ctrl)) \in TagRec
  BY <1>0, <1>1, <1>2
<1> DEFINE a == <<Tag("core", 12, 12), Tag("mem", 8, 8)>>
           b == IF args = 0 THEN <<>> ELSE <<Tag("cmdline", args + 1, args + 1)>>
           c == <<Tag("sdk", sdk, sdk), Tag("emmc", 4, 4),
                  Tag("param", ParamBytes(ctrl), ParamWritten(ctrl))>>
<1>7. a \in Seq(TagRec)  BY <1>3
<1>8. b \in Seq(TagRec)  BY <1>4
<1>9. c \in Seq(TagRec)  BY <1>5, <1>6
<1>10. TagList(args, sdk, ctrl) = a \o b \o c  BY DEF TagList
<1> HIDE DEF a, b, c
<1> QED  BY <1>7, <1>8, <1>9, <1>10, ConcatProperties

\* Where the first tags lie.
PlacedTo(at, tags, N) ==
  at = [i \in 1 .. N |-> IF i = 1 THEN TagOffset ELSE at[i - 1] + 4 * Words(tags[i - 1].bytes)]

LEMMA PlacedExists ==
  ASSUME NEW tags, NEW N \in Nat
  PROVE  \E at : PlacedTo(at, tags, N)
<1> DEFINE Bad == {M \in Nat : ~ \E at : PlacedTo(at, tags, M)}
<1> SUFFICES ASSUME N \in Bad PROVE FALSE
  OBVIOUS
<1>1. PICK M \in Bad : \A K \in Bad : M <= K
  <2>1. Bad \subseteq Nat /\ Bad # {}  OBVIOUS
  <2> HIDE DEF Bad
  <2> QED  BY <2>1, LeastNumber
<1>2. M # 0
  <2>1. PlacedTo([i \in 1 .. 0 |-> 0], tags, 0)  BY DEF PlacedTo
  <2> QED  BY <2>1
<1>3. M - 1 \in Nat /\ ~(M <= M - 1)  BY <1>2
<1>4. M - 1 \notin Bad
  <2> HIDE DEF Bad
  <2> QED  BY <1>1, <1>3
<1>5. PICK at : PlacedTo(at, tags, M - 1)  BY <1>3, <1>4
<1> DEFINE last == IF M = 1 THEN TagOffset ELSE at[M - 1] + 4 * Words(tags[M - 1].bytes)
           g == [i \in 1 .. M |-> IF i = M THEN last ELSE at[i]]
<1>6. \A i \in 1 .. M : g[i] = IF i = 1 THEN TagOffset ELSE g[i - 1] + 4 * Words(tags[i - 1].bytes)
  <2> TAKE i \in 1 .. M
  <2>1. CASE i = M
    <3>1. g[i] = last  BY <2>1
    <3>2. M # 1 => g[M - 1] = at[M - 1]  BY <1>3
    <3> HIDE DEF g
    <3> QED  BY <2>1, <3>1, <3>2
  <2>2. CASE i # M
    <3>1. i \in 1 .. M - 1 /\ (i # 1 => i - 1 \in 1 .. M /\ i - 1 # M)  BY <2>2
    <3>2. g[i] = at[i] /\ (i # 1 => g[i - 1] = at[i - 1])  BY <2>2, <3>1
    <3>3. at[i] = IF i = 1 THEN TagOffset ELSE at[i - 1] + 4 * Words(tags[i - 1].bytes)
      BY <3>1, <1>5 DEF PlacedTo
    <3> HIDE DEF g
    <3> QED  BY <3>2, <3>3
  <2> QED  BY <2>1, <2>2
<1>7. PlacedTo(g, tags, M)
  <2>1. g = [i \in 1 .. M |-> g[i]]  OBVIOUS
  <2> HIDE DEF g
  <2> QED  BY <1>6, <2>1 DEF PlacedTo
<1> QED  BY <1>7

\* The tags lie at words, none reaches into the next.
LEMMA PlacedApart ==
  ASSUME NEW tags \in Seq(TagRec), NEW i \in 1 .. Len(tags)
  PROVE  /\ Placed(tags)[i] % 4 = 0
         /\ Placed(tags)[i] + 8 + tags[i].written <= Placed(tags)[i + 1]
<1> DEFINE L == Len(tags)
           at == Placed(tags)
<1>1. L \in Nat /\ L + 1 \in Nat  OBVIOUS
<1>2. PlacedTo(at, tags, L + 1)
  <2>1. at = CHOOSE f : PlacedTo(f, tags, L + 1)  BY DEF Placed, PlacedTo
  <2> HIDE DEF at
  <2> QED  BY <1>1, <2>1, PlacedExists
<1> HIDE DEF at
<1>3. at[1] = TagOffset /\ \A n \in 1 .. L : at[n + 1] = at[n] + 4 * Words(tags[n].bytes)
  <2>1. \A n \in 1 .. L + 1 : at[n] = IF n = 1 THEN TagOffset ELSE at[n - 1] + 4 * Words(tags[n - 1].bytes)
    BY <1>2 DEF PlacedTo
  <2>2. \A n \in 1 .. L : n + 1 \in 1 .. L + 1 /\ n + 1 # 1 /\ (n + 1) - 1 = n  BY <1>1
  <2> QED  BY <1>1, <2>1, <2>2
<1>4. \A n \in 1 .. L : /\ Words(tags[n].bytes) \in Nat /\ tags[n].written \in Nat
                        /\ 8 + tags[n].written <= 4 * Words(tags[n].bytes)
  <2> TAKE n \in 1 .. L
  <2>1. tags[n] \in TagRec  BY ElementOfSeq
  <2> DEFINE b == tags[n].bytes
             w == tags[n].written
  <2>2. b \in Nat /\ w \in Nat /\ w <= b  BY <2>1 DEF TagRec
  <2> HIDE DEF b, w
  <2>3. Words(b) \in Nat /\ 8 + w <= 4 * Words(b)  BY <2>2 DEF Words
  <2> QED  BY <2>2, <2>3 DEF b, w
<1> HIDE DEF L
<1> DEFINE Bad == {n \in 1 .. L + 1 : ~(at[n] \in Nat /\ at[n] % 4 = 0)}
<1>5. Bad = {}
  <2> SUFFICES ASSUME Bad # {} PROVE FALSE
    OBVIOUS
  <2>1. PICK n \in Bad : \A m \in Bad : n <= m
    <3>1. Bad \subseteq Nat  OBVIOUS
    <3> HIDE DEF Bad
    <3> QED  BY <3>1, LeastNumber
  <2>2. n # 1
    <3>1. TagOffset \in Nat /\ TagOffset % 4 = 0  BY TagsAssumption DEF TagsAssumption
    <3> QED  BY <3>1, <1>3
  <2>3. n - 1 \in 1 .. L /\ n - 1 \in 1 .. L + 1 /\ ~(n <= n - 1) /\ (n - 1) + 1 = n  BY <1>1, <2>2
  <2>4. n - 1 \notin Bad
    <3> HIDE DEF Bad
    <3> QED  BY <2>1, <2>3
  <2> DEFINE a == at[n - 1]
             w == Words(tags[n - 1].bytes)
  <2>5. a \in Nat /\ a % 4 = 0 /\ w \in Nat  BY <2>3, <2>4, <1>4
  <2>6. at[n] = a + 4 * w  BY <2>3, <1>3
  <2> HIDE DEF a, w
  <2>7. at[n] \in Nat /\ at[n] % 4 = 0  BY <2>5, <2>6
  <2> QED  BY <2>7
<1>6. i \in 1 .. L + 1 /\ i \in 1 .. L  BY <1>1 DEF L
<1>7. at[i] \in Nat /\ at[i] % 4 = 0  BY <1>5, <1>6
<1> DEFINE w == 4 * Words(tags[i].bytes)
<1>8. at[i + 1] = at[i] + w /\ w \in Nat /\ tags[i].written \in Nat /\ 8 + tags[i].written <= w
  BY <1>3, <1>4, <1>6
<1> DEFINE t == tags[i].written
<1> HIDE DEF w, t
<1>9. t \in Nat /\ 8 + t <= w /\ at[i + 1] = at[i] + w /\ w \in Nat  BY <1>8 DEF t
<1>10. at[i] + 8 + t <= at[i + 1]  BY <1>7, <1>9
<1> QED  BY <1>7, <1>10 DEF at, t

\* For every sequence of parameters, every size of the table and every length
\* of the boot arguments and of the version text, overruns of the table included:
\* the tags begin at words and none reaches into the next one, the parameter tag
\* with its rounded size included; a parameter given for the first time keeps the
\* item and the value it was given as long as no later value runs over its slot,
\* although set_param_data compares a name with the first item only and a name
\* that is too long takes a slot; it is found by its name unless the buffer has
\* overrun; and an overrun was reported by an assertion.
THEOREM TagsFollow ==
  ASSUME NEW Names, NEW Values, NEW calls \in Calls(Names, Values),
         NEW args \in Nat, NEW sdk \in Nat
  PROVE  TagsHold(calls, args, sdk)
<1> DEFINE after == ParamsAfter(calls)
           ctrl == after[Len(calls)]
           tags == TagList(args, sdk, ctrl)
<1>1. Steps(after, calls)  BY ParamSteps
<1> HIDE DEF after
<1>2. ctrl.nr \in Nat /\ ctrl.sz \in Nat
  <2>1. Len(calls) \in 0 .. Len(calls)  BY DEF Calls
  <2> QED  BY <1>1, <2>1, ParamTables DEF IsTable
<1> HIDE DEF ctrl
<1>3. tags \in Seq(TagRec)  BY <1>2, TagListIs
<1> HIDE DEF tags
<1>4. \A i \in 1 .. Len(tags) : /\ Placed(tags)[i] % 4 = 0
                               /\ Placed(tags)[i] + 8 + tags[i].written <= Placed(tags)[i + 1]
  BY <1>3, PlacedApart
<1>5. TagsApart(ctrl, args, sdk)  BY <1>4 DEF TagsApart, tags
<1>6. \A n \in 1 .. Len(calls) : ParamTold(after, calls, n)  BY <1>1, ParamKept
<1>7. OverrunReported(after, calls)  BY <1>1, OverrunTold
<1> QED  BY <1>5, <1>6, <1>7 DEF TagsHold, after, ctrl

-----------------------------------------------------------------------------
(* The layout of the memory *)

\* A multiple of the size of the memory repeats its start, nothing before it.
LEMMA FirstRepeats ==
  ASSUME NEW a \in Nat \ {0}, NEW b \in Nat \ {0}
  PROVE  (b < a => b % a = b) /\ a % a = 0
<1>1. ASSUME b < a PROVE b % a = b
  BY <1>1
<1>2. a % a = 0
  OBVIOUS
<1> QED  BY <1>1, <1>2

\* get_ddr_size finds every size up to 3G that is made of 16M, and nothing for
\* a larger memory.
LEMMA SizeFound ==
  ASSUME NEW n \in Nat \ {0}
  PROVE  GetDdrSize(16 * n * MiB) = IF n <= 192 THEN 16 * n * MiB ELSE 0
<1> DEFINE found == {k \in 1 .. 192 : Repeats(16 * n * MiB, 16 * k * MiB)}
           first == CHOOSE k \in found : \A m \in found : k <= m
<1>1. \A k \in 1 .. 192 : /\ k < n => k \notin found
                          /\ k = n => k \in found
  <2> TAKE k \in 1 .. 192
  <2> DEFINE a == 16 * n * MiB
             b == 16 * k * MiB
  <2>1. /\ a \in Nat \ {0} /\ b \in Nat \ {0} /\ (k < n => b < a) /\ (k = n => b = a)
    BY DEF MiB
  <2>2. (k \in found) = (b % a = 0)
    BY DEF Repeats
  <2> HIDE DEF a, b, found
  <2> QED  BY <2>1, <2>2, FirstRepeats
<1>2. GetDdrSize(16 * n * MiB) = IF found = {} THEN 0 ELSE 16 * MiB * first
  BY DEF GetDdrSize
<1>3. CASE n <= 192
  <2>1. n \in found /\ \A m \in found : n <= m
    <3>1. n \in 1 .. 192  BY <1>3
    <3>2. n \in found  BY <3>1, <1>1
    <3>3. ASSUME NEW m \in found PROVE n <= m
      BY <1>1, m \in 1 .. 192
    <3> QED  BY <3>2, <3>3
  <2>2. found \subseteq 1 .. 192
    OBVIOUS
  <2> HIDE DEF found
  <2>3. first \in found /\ \A m \in found : first <= m
    BY <2>1
  <2>4. first = n
    <3> HIDE DEF first
    <3> QED  BY <2>1, <2>2, <2>3
  <2> HIDE DEF first
  <2>5. found # {}
    BY <2>1
  <2> QED  BY <1>2, <1>3, <2>4, <2>5 DEF MiB
<1>4. CASE ~(n <= 192)
  <2>1. found = {}
    <3>1. \A k \in 1 .. 192 : k < n  BY <1>4
    <3> QED  BY <1>1, <3>1
  <2> HIDE DEF found, first
  <2> QED  BY <1>2, <1>4, <2>1
<1> QED  BY <1>3, <1>4

\* The program ends at a mebibyte, behind its page table and its stack.
LEMMA Ends ==
  ASSUME NEW prog, Linked(prog)
  PROVE  /\ PageTable(prog) \in Nat /\ prog.bssEnd <= PageTable(prog)
         /\ IrqStack(prog) = PageTable(prog) + 2
         /\ End(prog) \in Nat /\ IrqStack(prog) + 16 <= End(prog) /\ End(prog) % MiB = 0
<1>1. ASSUME NEW a \in Nat
      PROVE  RoundUp(a, MiB) \in Nat /\ a <= RoundUp(a, MiB) /\ RoundUp(a, MiB) % MiB = 0
  BY DEF RoundUp, MiB
<1>2. prog.bssEnd \in Nat
  BY DEF Linked
<1>3. PageTable(prog) \in Nat /\ prog.bssEnd <= PageTable(prog)
  BY <1>1, <1>2 DEF PageTable
<1>4. IrqStack(prog) = PageTable(prog) + 2
  BY DEF IrqStack
<1>5. IrqStack(prog) + 16 \in Nat
  BY <1>3, <1>4
<1> QED  BY <1>1, <1>3, <1>4, <1>5 DEF End

\* The first rows of the table, resolved.
ResolvedTo(row, prog, ddr, N) ==
  row = [i \in 1 .. N |-> Resolve(DdrLayout(prog)[i], DdrLayout(prog), i,
                                 IF i = 1 THEN DdrLayout(prog)[1] ELSE row[i - 1], ddr)]

LEMMA ResolvedExists ==
  ASSUME NEW prog, NEW ddr, NEW N \in Nat
  PROVE  \E row : ResolvedTo(row, prog, ddr, N)
<1> DEFINE rows == DdrLayout(prog)
           Bad == {M \in Nat : ~ \E row : ResolvedTo(row, prog, ddr, M)}
<1> SUFFICES ASSUME N \in Bad PROVE FALSE
  OBVIOUS
<1>1. PICK M \in Bad : \A K \in Bad : M <= K
  <2>1. Bad \subseteq Nat /\ Bad # {}  OBVIOUS
  <2> HIDE DEF Bad
  <2> QED  BY <2>1, LeastNumber
<1>2. M # 0
  <2>1. ResolvedTo([i \in 1 .. 0 |-> 0], prog, ddr, 0)  BY DEF ResolvedTo
  <2> QED  BY <2>1
<1>3. M - 1 \in Nat /\ ~(M <= M - 1)  BY <1>2
<1>4. M - 1 \notin Bad
  <2> HIDE DEF Bad
  <2> QED  BY <1>1, <1>3
<1>5. PICK row : ResolvedTo(row, prog, ddr, M - 1)  BY <1>3, <1>4
<1> DEFINE Of(f, i) == Resolve(rows[i], rows, i, IF i = 1 THEN rows[1] ELSE f[i - 1], ddr)
           last == Of(row, M)
           g == [i \in 1 .. M |-> IF i = M THEN last ELSE row[i]]
<1>6. \A i \in 1 .. M : g[i] = Of(g, i)
  <2> TAKE i \in 1 .. M
  <2>1. i # 1 => g[i - 1] = row[i - 1]
    <3>1. i # 1 => i - 1 \in 1 .. M /\ i - 1 # M  BY <1>3
    <3> QED  BY <3>1
  <2>2. Of(g, i) = Of(row, i)
    <3> HIDE DEF g
    <3> QED  BY <2>1
  <2>3. CASE i = M
    BY <2>2, <2>3
  <2>4. CASE i # M
    <3>1. i \in 1 .. M - 1  BY <2>4
    <3>2. row[i] = Of(row, i)  BY <3>1, <1>5 DEF ResolvedTo
    <3>3. g[i] = row[i]  BY <2>4
    <3> HIDE DEF g, Of
    <3> QED  BY <3>2, <3>3, <2>2
  <2> QED  BY <2>3, <2>4
<1>7. ResolvedTo(g, prog, ddr, M)
  <2>1. g = [i \in 1 .. M |-> g[i]]  OBVIOUS
  <2> HIDE DEF g
  <2> QED  BY <1>6, <2>1 DEF ResolvedTo
<1> QED  BY <1>7

\* What a row resolves to: the code changes three of its fields.
Changed(r, start, end, size) == [r EXCEPT !.start = start, !.end = end, !.size = size]

LEMMA ChangedIs ==
  ASSUME NEW name, NEW s, NEW e, NEW z, NEW attr, NEW s2, NEW e2, NEW z2
  PROVE  Changed(Region(name, s, e, z, attr), s2, e2, z2) = Region(name, s2, e2, z2, attr)
<1>1. [Region(name, s, e, z, attr) EXCEPT !.start = s2] = Region(name, s2, e, z, attr)
  BY DEF Region
<1>2. [Region(name, s2, e, z, attr) EXCEPT !.end = e2] = Region(name, s2, e2, z, attr)
  BY DEF Region
<1>3. [Region(name, s2, e2, z, attr) EXCEPT !.size = z2] = Region(name, s2, e2, z2, attr)
  BY DEF Region
<1> QED  BY <1>1, <1>2, <1>3, Zenon DEF Changed

LEMMA ResolveIs ==
  ASSUME NEW name, NEW s, NEW e, NEW z, NEW attr, NEW rows, NEW i, NEW before, NEW ddr
  PROVE  LET own   == name = "resmem" /\ Reserved(ddr) # LayoutAuto
             start == IF own THEN ddr - Reserved(ddr) ELSE IF s = LayoutAuto THEN before.end ELSE s
             asked == IF own THEN Reserved(ddr) ELSE z
             open  == e = LayoutAuto /\ asked = LayoutAuto
             until == IF i = Len(rows) THEN ddr ELSE rows[i + 1].start
             size  == IF open THEN (until - start) % U32Wrap ELSE asked
             end   == IF e = LayoutAuto THEN (start + size) % U32Wrap ELSE e
         IN Resolve(Region(name, s, e, z, attr), rows, i, before, ddr)
              = Region(name, start, end, IF size = LayoutAuto THEN (end - start) % U32Wrap ELSE size, attr)
<1> DEFINE r == Region(name, s, e, z, attr)
           own   == r.name = "resmem" /\ Reserved(ddr) # LayoutAuto
           start == IF own THEN ddr - Reserved(ddr) ELSE IF r.start = LayoutAuto THEN before.end ELSE r.start
           asked == IF own THEN Reserved(ddr) ELSE r.size
           open  == r.end = LayoutAuto /\ asked = LayoutAuto
           until == IF i = Len(rows) THEN ddr ELSE rows[i + 1].start
           size  == IF open THEN (until - start) % U32Wrap ELSE asked
           end   == IF r.end = LayoutAuto THEN (start + size) % U32Wrap ELSE r.end
           size2 == IF size = LayoutAuto THEN (end - start) % U32Wrap ELSE size
<1>1. Resolve(r, rows, i, before, ddr) = Changed(r, start, end, size2)
  BY Zenon DEF Resolve, Changed
<1>2. Changed(r, start, end, size2) = Region(name, start, end, size2, attr)
  <2> HIDE DEF start, end, size2
  <2> QED  BY ChangedIs
<1>3. Resolve(r, rows, i, before, ddr) = Region(name, start, end, size2, attr)
  <2> HIDE DEF r, start, end, size2
  <2> QED  BY <1>1, <1>2, Zenon
<1>4. r.name = name /\ r.start = s /\ r.end = e /\ r.size = z
  BY DEF Region
<1> HIDE DEF r
<1> QED  BY <1>3, <1>4 DEF r

\* A row whose end the table gives, one whose size it gives, and the last.
LEMMA EndGiven ==
  ASSUME NEW name, name # "resmem", NEW s, NEW e, e # LayoutAuto, NEW attr,
         NEW rows, NEW i, NEW before, NEW ddr
  PROVE  LET from == IF s = LayoutAuto THEN before.end ELSE s
         IN Resolve(Region(name, s, e, LayoutAuto, attr), rows, i, before, ddr)
              = Region(name, from, e, (e - from) % U32Wrap, attr)
BY ResolveIs

LEMMA SizeGiven ==
  ASSUME NEW name, name # "resmem", NEW s, NEW size, NEW attr, size # LayoutAuto,
         NEW rows, NEW i, NEW before, NEW ddr
  PROVE  LET from == IF s = LayoutAuto THEN before.end ELSE s
         IN Resolve(Region(name, s, LayoutAuto, size, attr), rows, i, before, ddr)
              = Region(name, from, (from + size) % U32Wrap, size, attr)
BY ResolveIs

LEMMA LastRow ==
  ASSUME NEW attr, NEW rows, NEW before, NEW ddr
  PROVE  LET own  == Reserved(ddr) # LayoutAuto
             from == IF own THEN ddr - Reserved(ddr) ELSE before.end
             size == IF own THEN Reserved(ddr) ELSE (ddr - from) % U32Wrap
             end  == (from + size) % U32Wrap
         IN Resolve(Region("resmem", LayoutAuto, LayoutAuto, LayoutAuto, attr), rows, Len(rows), before, ddr)
              = Region("resmem", from, end, IF size = LayoutAuto THEN (end - from) % U32Wrap ELSE size, attr)
<1>1. CASE Reserved(ddr) # LayoutAuto
  BY <1>1, ResolveIs
<1>2. CASE Reserved(ddr) = LayoutAuto
  BY <1>2, ResolveIs
<1> QED  BY <1>1, <1>2

\* The rows of the table, one by one.
LEMMA Rows ==
  ASSUME NEW prog
  PROVE  LET rows == DdrLayout(prog) IN
         /\ Len(rows) = 11 /\ DOMAIN rows = 1 .. 11
         /\ rows[1] = Region("stack", 0, prog.text - MallocLen, LayoutAuto, CB)
         /\ rows[2] = Region("malloc", LayoutAuto, LayoutAuto, MallocLen - GlobalLen, CB)
         /\ rows[3] = Region("global", LayoutAuto, LayoutAuto, GlobalLen, CB)
         /\ rows[4] = Region("reserve", LayoutAuto, prog.text, LayoutAuto, CB)
         /\ rows[5] = Region(".text", prog.text, prog.textEnd, LayoutAuto, CB)
         /\ rows[6] = Region(".data", LayoutAuto, prog.bssEnd, LayoutAuto, CB)
         /\ rows[7] = Region("pagetable", PageTable(prog), PageTable(prog) + 2, LayoutAuto, CB)
         /\ rows[8] = Region("irqstack", IrqStack(prog), IrqStack(prog) + 16, LayoutAuto, CB)
         /\ rows[9] = Region("DMA", End(prog), LayoutAuto, DmaLen, {})
         /\ rows[10] = Region("free", LayoutAuto, LayoutAuto, FreeLen, {})
         /\ rows[11] = Region("resmem", LayoutAuto, LayoutAuto, LayoutAuto, {})
BY DEF DdrLayout

\* The rows but the last do not depend on the size of the memory.
LEMMA RowsResolved ==
  ASSUME NEW prog, NEW ddr, Linked(prog)
  PROVE  LET row == Resolved(prog, ddr) IN
         /\ DOMAIN row = 1 .. 11
         /\ row[1] = Region("stack", 0, prog.text - MallocLen, prog.text - MallocLen, CB)
         /\ row[2] = Region("malloc", prog.text - MallocLen, prog.text - GlobalLen,
                            MallocLen - GlobalLen, CB)
         /\ row[3] = Region("global", prog.text - GlobalLen, prog.text, GlobalLen, CB)
         /\ row[4] = Region("reserve", prog.text, prog.text, 0, CB)
         /\ row[5] = Region(".text", prog.text, prog.textEnd, prog.textEnd - prog.text, CB)
         /\ row[6] = Region(".data", prog.textEnd, prog.bssEnd, prog.bssEnd - prog.textEnd, CB)
         /\ row[7] = Region("pagetable", PageTable(prog), PageTable(prog) + 2, 2, CB)
         /\ row[8] = Region("irqstack", IrqStack(prog), IrqStack(prog) + 16, 16, CB)
         /\ row[9] = Region("DMA", End(prog), End(prog) + DmaLen, DmaLen, {})
         /\ row[10] = Region("free", End(prog) + DmaLen, End(prog) + DmaLen + FreeLen, FreeLen, {})
         /\ row[11] = Resolve(Region("resmem", LayoutAuto, LayoutAuto, LayoutAuto, {}),
                              DdrLayout(prog), 11, row[10], ddr)
<1> DEFINE rows == DdrLayout(prog)
           row == Resolved(prog, ddr)
           text == prog.text
           textEnd == prog.textEnd
           bssEnd == prog.bssEnd
           pt == PageTable(prog)
           is == IrqStack(prog)
           e == End(prog)
<1>1. ResolvedTo(row, prog, ddr, 11)
  <2>1. Len(rows) = 11  BY Rows
  <2>2. row = CHOOSE f : ResolvedTo(f, prog, ddr, 11)
    BY <2>1, Zenon DEF Resolved, ResolvedTo
  <2> HIDE DEF row
  <2> QED  BY <2>2, ResolvedExists
<1> HIDE DEF row
<1>2. /\ DOMAIN row = 1 .. 11
      /\ row[1] = Resolve(rows[1], rows, 1, rows[1], ddr)
      /\ \A i \in 2 .. 11 : row[i] = Resolve(rows[i], rows, i, row[i - 1], ddr)
  BY <1>1 DEF ResolvedTo
<1>3. /\ MallocLen \in Nat /\ GlobalLen \in Nat /\ DmaLen \in Nat /\ FreeLen \in Nat
      /\ GlobalLen < MallocLen /\ GlobalLen > 0 /\ DmaLen > 0 /\ FreeLen > 0
  BY LayoutAssumption DEF LayoutAssumption
<1>4. /\ text \in Nat /\ textEnd \in Nat /\ bssEnd \in Nat /\ pt \in Nat /\ e \in Nat
      /\ MallocLen <= text /\ text <= textEnd /\ textEnd <= bssEnd /\ bssEnd <= pt
      /\ is = pt + 2 /\ is + 16 <= e /\ e + DmaLen + FreeLen <= 28672
  BY Ends DEF Linked, MiB
<1> HIDE DEF text, textEnd, bssEnd, pt, is, e
<1>5. ASSUME NEW a \in Nat, NEW b \in Nat, a <= b, b <= 28672 PROVE (b - a) % U32Wrap = b - a
  BY <1>5 DEF U32Wrap, MiB
<1>6. ASSUME NEW a \in Nat, a <= 28672 PROVE a % U32Wrap = a /\ a # LayoutAuto
  BY <1>6 DEF U32Wrap, MiB, LayoutAuto
<1>7. \A r, s, en, z, at : Region(r, s, en, z, at).end = en
  BY DEF Region
<1> HIDE DEF rows
<1>11. row[1] = Region("stack", 0, text - MallocLen, text - MallocLen, CB)
  <2>1. rows[1] = Region("stack", 0, text - MallocLen, LayoutAuto, CB)  BY Rows DEF rows, text
  <2>2. text - MallocLen \in Nat /\ text - MallocLen <= 28672  BY <1>3, <1>4
  <2>3. text - MallocLen # LayoutAuto /\ 0 # LayoutAuto  BY <2>2, <1>6
  <2>4. row[1] = Region("stack", 0, text - MallocLen, ((text - MallocLen) - 0) % U32Wrap, CB)
    BY <2>1, <2>3, <1>2, EndGiven
  <2>5. ((text - MallocLen) - 0) % U32Wrap = text - MallocLen  BY <2>2, <1>6
  <2> QED  BY <2>4, <2>5
<1>12. row[2] = Region("malloc", text - MallocLen, text - GlobalLen, MallocLen - GlobalLen, CB)
  <2>1. rows[2] = Region("malloc", LayoutAuto, LayoutAuto, MallocLen - GlobalLen, CB)  BY Rows DEF rows
  <2>2. MallocLen - GlobalLen # LayoutAuto  BY <1>3, <1>4, <1>6
  <2>3. row[2] = Resolve(rows[2], rows, 2, row[1], ddr)  BY <1>2
  <2>4. row[1].end = text - MallocLen  BY <1>11, <1>7
  <2>5. row[2] = Region("malloc", text - MallocLen,
                        ((text - MallocLen) + (MallocLen - GlobalLen)) % U32Wrap, MallocLen - GlobalLen, CB)
    BY <2>1, <2>2, <2>3, <2>4, SizeGiven
  <2>6. /\ (text - MallocLen) + (MallocLen - GlobalLen) = text - GlobalLen
        /\ text - GlobalLen \in Nat /\ text - GlobalLen <= 28672
    BY <1>3, <1>4
  <2> QED  BY <2>5, <2>6, <1>6
<1>13. row[3] = Region("global", text - GlobalLen, text, GlobalLen, CB)
  <2>1. rows[3] = Region("global", LayoutAuto, LayoutAuto, GlobalLen, CB)  BY Rows DEF rows
  <2>2. GlobalLen # LayoutAuto  BY <1>3, <1>4, <1>6
  <2>3. row[3] = Resolve(rows[3], rows, 3, row[2], ddr)  BY <1>2
  <2>4. row[2].end = text - GlobalLen  BY <1>12, <1>7
  <2>5. row[3] = Region("global", text - GlobalLen, ((text - GlobalLen) + GlobalLen) % U32Wrap, GlobalLen, CB)
    BY <2>1, <2>2, <2>3, <2>4, SizeGiven
  <2>6. (text - GlobalLen) + GlobalLen = text /\ text <= 28672  BY <1>3, <1>4
  <2> QED  BY <2>5, <2>6, <1>4, <1>6
<1>14. row[4] = Region("reserve", text, text, 0, CB)
  <2>1. rows[4] = Region("reserve", LayoutAuto, text, LayoutAuto, CB)  BY Rows DEF rows, text
  <2>2. text # LayoutAuto  BY <1>3, <1>4, <1>6
  <2>3. row[4] = Resolve(rows[4], rows, 4, row[3], ddr)  BY <1>2
  <2>4. row[3].end = text  BY <1>13, <1>7
  <2>5. row[4] = Region("reserve", text, text, (text - text) % U32Wrap, CB)
    BY <2>1, <2>2, <2>3, <2>4, EndGiven
  <2>6. text - text = 0 /\ text <= 28672  BY <1>3, <1>4
  <2> QED  BY <2>5, <2>6, <1>4, <1>5
<1>15. row[5] = Region(".text", text, textEnd, textEnd - text, CB)
  <2>1. rows[5] = Region(".text", text, textEnd, LayoutAuto, CB)  BY Rows DEF rows, text, textEnd
  <2>2. text # LayoutAuto /\ textEnd # LayoutAuto  BY <1>3, <1>4, <1>6
  <2>3. row[5] = Resolve(rows[5], rows, 5, row[4], ddr)  BY <1>2
  <2>4. row[5] = Region(".text", text, textEnd, (textEnd - text) % U32Wrap, CB)
    BY <2>1, <2>2, <2>3, EndGiven
  <2>5. textEnd <= 28672  BY <1>3, <1>4
  <2> QED  BY <2>4, <2>5, <1>4, <1>5
<1>16. row[6] = Region(".data", textEnd, bssEnd, bssEnd - textEnd, CB)
  <2>1. rows[6] = Region(".data", LayoutAuto, bssEnd, LayoutAuto, CB)  BY Rows DEF rows, bssEnd
  <2>2. bssEnd # LayoutAuto  BY <1>3, <1>4, <1>6
  <2>3. row[6] = Resolve(rows[6], rows, 6, row[5], ddr)  BY <1>2
  <2>4. row[5].end = textEnd  BY <1>15, <1>7
  <2>5. row[6] = Region(".data", textEnd, bssEnd, (bssEnd - textEnd) % U32Wrap, CB)
    BY <2>1, <2>2, <2>3, <2>4, EndGiven
  <2>6. bssEnd <= 28672  BY <1>3, <1>4
  <2> QED  BY <2>5, <2>6, <1>4, <1>5
<1>17. row[7] = Region("pagetable", pt, pt + 2, 2, CB)
  <2>1. rows[7] = Region("pagetable", pt, pt + 2, LayoutAuto, CB)  BY Rows DEF rows, pt
  <2>2. pt + 2 \in Nat /\ pt <= 28672 /\ pt + 2 <= 28672 /\ (pt + 2) - pt = 2  BY <1>3, <1>4
  <2>3. pt # LayoutAuto /\ pt + 2 # LayoutAuto  BY <2>2, <1>4, <1>6
  <2>4. row[7] = Resolve(rows[7], rows, 7, row[6], ddr)  BY <1>2
  <2>5. row[7] = Region("pagetable", pt, pt + 2, ((pt + 2) - pt) % U32Wrap, CB)
    BY <2>1, <2>3, <2>4, EndGiven
  <2>6. 2 % U32Wrap = 2  BY <1>6
  <2> QED  BY <2>2, <2>5, <2>6
<1>18. row[8] = Region("irqstack", is, is + 16, 16, CB)
  <2>1. rows[8] = Region("irqstack", is, is + 16, LayoutAuto, CB)  BY Rows DEF rows, is
  <2>2. is \in Nat /\ is + 16 \in Nat /\ is <= 28672 /\ is + 16 <= 28672 /\ (is + 16) - is = 16  BY <1>3, <1>4
  <2>3. is # LayoutAuto /\ is + 16 # LayoutAuto  BY <2>2, <1>6
  <2>4. row[8] = Resolve(rows[8], rows, 8, row[7], ddr)  BY <1>2
  <2>5. row[8] = Region("irqstack", is, is + 16, ((is + 16) - is) % U32Wrap, CB)
    BY <2>1, <2>3, <2>4, EndGiven
  <2>6. 16 % U32Wrap = 16  BY <1>6
  <2> QED  BY <2>2, <2>5, <2>6
<1>19. row[9] = Region("DMA", e, e + DmaLen, DmaLen, {})
  <2>1. rows[9] = Region("DMA", e, LayoutAuto, DmaLen, {})  BY Rows DEF rows, e
  <2>2. e <= 28672 /\ e + DmaLen \in Nat /\ e + DmaLen <= 28672 /\ DmaLen <= 28672  BY <1>3, <1>4
  <2>3. e # LayoutAuto /\ DmaLen # LayoutAuto  BY <2>2, <1>3, <1>4, <1>6
  <2>4. row[9] = Resolve(rows[9], rows, 9, row[8], ddr)  BY <1>2
  <2>5. row[9] = Region("DMA", e, (e + DmaLen) % U32Wrap, DmaLen, {})
    BY <2>1, <2>3, <2>4, SizeGiven
  <2> QED  BY <2>2, <2>5, <1>6
<1>20. row[10] = Region("free", e + DmaLen, e + DmaLen + FreeLen, FreeLen, {})
  <2>1. rows[10] = Region("free", LayoutAuto, LayoutAuto, FreeLen, {})  BY Rows DEF rows
  <2>2. e + DmaLen + FreeLen \in Nat /\ e + DmaLen + FreeLen <= 28672 /\ FreeLen <= 28672  BY <1>3, <1>4
  <2>3. FreeLen # LayoutAuto  BY <2>2, <1>3, <1>6
  <2>4. row[10] = Resolve(rows[10], rows, 10, row[9], ddr)  BY <1>2
  <2>5. row[9].end = e + DmaLen  BY <1>19, <1>7
  <2>6. row[10] = Region("free", e + DmaLen, (e + DmaLen + FreeLen) % U32Wrap, FreeLen, {})
    BY <2>1, <2>3, <2>4, <2>5, SizeGiven
  <2> QED  BY <2>2, <2>6, <1>6
<1>21. row[11] = Resolve(rows[11], rows, 11, row[10], ddr)
  BY <1>2
<1>22. rows[11] = Region("resmem", LayoutAuto, LayoutAuto, LayoutAuto, {})
  BY Rows DEF rows
<1> QED
  BY <1>2, <1>11, <1>12, <1>13, <1>14, <1>15, <1>16, <1>17, <1>18, <1>19, <1>20, <1>21, <1>22
  DEF row, rows, text, textEnd, bssEnd, pt, is, e

\* The last row ends with the memory.
LEMMA LastResolved ==
  ASSUME NEW prog, Linked(prog), NEW n \in 1 .. 192
  PROVE  LET ddr == 16 * n * MiB
             free == End(prog) + DmaLen + FreeLen
         IN \E start, size \in Nat :
              /\ Resolved(prog, ddr)[11] = Region("resmem", start, ddr, size, {})
              /\ n >= 16 => free <= start /\ size > 0 /\ start + size = ddr
              /\ n < 16 => start = free /\ size = (ddr - free) % U32Wrap
<1> DEFINE ddr == 16 * n * MiB
           free == End(prog) + DmaLen + FreeLen
           row == Resolved(prog, ddr)
           r == Reserved(ddr)
           from == IF r # LayoutAuto THEN ddr - r ELSE free
           size == IF r # LayoutAuto THEN r ELSE (ddr - from) % U32Wrap
           end == (from + size) % U32Wrap
<1>1. ddr \in Nat /\ ddr <= 393216 /\ (n >= 16 => ddr >= 32768) /\ (n < 16 => ddr < 32768)
  BY DEF MiB
<1>2. free \in Nat /\ free <= 28672
  <2>1. DmaLen \in Nat /\ FreeLen \in Nat  BY LayoutAssumption DEF LayoutAssumption
  <2>2. End(prog) \in Nat  BY Ends
  <2> QED  BY <2>1, <2>2 DEF Linked, MiB
<1>3. row[10].end = free
  <2>1. row[10] = Region("free", End(prog) + DmaLen, free, FreeLen, {})
    BY RowsResolved
  <2> HIDE DEF row, free
  <2> QED  BY <2>1 DEF Region
<1>4. Len(DdrLayout(prog)) = 11
  BY Rows
<1>5. row[11] = Region("resmem", from, end, IF size = LayoutAuto THEN (end - from) % U32Wrap ELSE size, {})
  <2>1. row[11] = Resolve(Region("resmem", LayoutAuto, LayoutAuto, LayoutAuto, {}),
                          DdrLayout(prog), 11, row[10], ddr)
    BY RowsResolved
  <2> HIDE DEF ddr, row, free
  <2>2. LET own  == r # LayoutAuto
            first == IF own THEN ddr - r ELSE row[10].end
            z == IF own THEN r ELSE (ddr - first) % U32Wrap
            last  == (first + z) % U32Wrap
        IN Resolve(Region("resmem", LayoutAuto, LayoutAuto, LayoutAuto, {}),
                   DdrLayout(prog), Len(DdrLayout(prog)), row[10], ddr)
             = Region("resmem", first, last, IF z = LayoutAuto THEN (last - first) % U32Wrap ELSE z, {})
    BY LastRow, Zenon
  <2> HIDE DEF r
  <2> QED  BY <2>1, <2>2, <1>3, <1>4
<1> HIDE DEF ddr, row, free
<1>6. CASE n >= 16
  <2>1. /\ r \in Nat /\ r > 0 /\ r <= ddr /\ 28672 <= ddr - r
    BY <1>1, <1>6 DEF Reserved, MiB
  <2> HIDE DEF r
  <2>2. r # LayoutAuto  BY <2>1 DEF LayoutAuto
  <2>3. from = ddr - r /\ size = r /\ end = ddr % U32Wrap
    BY <2>1, <2>2, <1>1
  <2>4. ddr % U32Wrap = ddr  BY <1>1 DEF U32Wrap, MiB
  <2>5. row[11] = Region("resmem", ddr - r, ddr, r, {})
    BY <1>5, <2>2, <2>3, <2>4
  <2>6. ddr - r \in Nat /\ free <= ddr - r /\ (ddr - r) + r = ddr
    BY <1>1, <1>2, <2>1
  <2> QED  BY <2>1, <2>5, <2>6, <1>6 DEF row, ddr, free
<1>7. CASE n < 16
  <2>1. r = LayoutAuto  BY <1>1, <1>7 DEF Reserved, MiB
  <2> HIDE DEF r
  <2>2. from = free /\ size = (ddr - free) % U32Wrap /\ end = (free + size) % U32Wrap
    BY <2>1
  <2> DEFINE d == (ddr - free) % U32Wrap
  <2>3. d \in Nat /\ (free + d) % U32Wrap = ddr
    BY <1>1, <1>2, <1>7 DEF U32Wrap, MiB
  <2> HIDE DEF d
  <2>4. d # LayoutAuto  BY <2>3 DEF LayoutAuto
  <2>5. size = d /\ end = ddr  BY <2>2, <2>3 DEF d
  <2> HIDE DEF from, size, end
  <2>6. row[11] = Region("resmem", free, ddr, d, {})
    BY <1>5, <2>2, <2>4, <2>5
  <2> QED  BY <2>3, <2>6, <1>2, <1>7 DEF row, ddr, free, d
<1> QED  BY <1>6, <1>7

LEMMA SectionsAre == \A s \in Int : s \in Sections <=> 0 <= s /\ s <= 4095
BY DEF Sections

\* The sections of the program are cached, those behind it are not.
LEMMA Pages ==
  ASSUME NEW prog, Linked(prog)
  PROVE  LET pages == MmuSet(MmuInit, 0, End(prog) - 0, CB) IN
         \A s \in Nat : s <= 4095 => pages[s] = IF s < End(prog) \div MiB THEN CB ELSE {}
<1> DEFINE e == End(prog)
<1>1. e \in Nat /\ e % MiB = 0  BY Ends
<1> HIDE DEF e
<1>2. 0 % MiB = 0 /\ (e - 0) % MiB = 0 /\ 0 \div MiB = 0 /\ (0 + (e - 0)) \div MiB = e \div MiB
  <2>1. e - 0 = e /\ 0 + e = e  BY <1>1
  <2> QED  BY <1>1, <2>1 DEF MiB
<1>3. e \div MiB \in Nat  BY <1>1 DEF MiB
<1>4. MmuSet(MmuInit, 0, e - 0, CB) =
        [s \in Sections |-> IF s \in 0 .. (e \div MiB) - 1 THEN MmuInit[s] \cup CB ELSE MmuInit[s]]
  BY <1>2, Zenon DEF MmuSet
<1>5. ASSUME NEW s \in Nat, s <= 4095
      PROVE  MmuSet(MmuInit, 0, e - 0, CB)[s] = IF s < e \div MiB THEN CB ELSE {}
  <2>1. s \in Sections  BY <1>5, SectionsAre
  <2>2. MmuInit[s] = {}  BY <2>1 DEF MmuInit
  <2>3. (s \in 0 .. (e \div MiB) - 1) = (s < e \div MiB)  BY <1>3
  <2> QED  BY <1>4, <2>1, <2>2, <2>3
<1> QED  BY <1>5 DEF e

\* A region ends below the section limit, its pages are those of its row.
PagesRight(r, pages) ==
  \A s \in r.start \div MiB .. (r.end - 1) \div MiB : pages[s] = r.attr

\* The regions of the program lie in front of e, the others behind it.
LEMMA PagesRightIs ==
  ASSUME NEW e \in Nat, e % MiB = 0, NEW pages,
         \A s \in Nat : s <= 4095 => pages[s] = IF s < e \div MiB THEN CB ELSE {},
         NEW r, r.start \in Nat, r.end \in Nat, r.end <= 393216,
         (r.attr = CB /\ r.end <= e) \/ (r.attr = {} /\ e <= r.start)
  PROVE  PagesRight(r, pages)
<1> DEFINE a == r.start
           b == r.end
<1> SUFFICES ASSUME NEW s \in a \div MiB .. (b - 1) \div MiB
             PROVE  pages[s] = r.attr
  BY DEF PagesRight
<1>1. a \in Nat /\ b \in Nat /\ b <= 393216
  OBVIOUS
<1>2. a \div MiB \in Nat /\ (b - 1) \div MiB \in Int /\ (b - 1) \div MiB <= 4095
  <2> HIDE DEF a, b
  <2> QED  BY <1>1 DEF MiB
<1>3. s \in Nat /\ s <= 4095
  <2> HIDE DEF a, b
  <2> QED  BY <1>2
<1>4. pages[s] = IF s < e \div MiB THEN CB ELSE {}
  BY <1>3
<1>5. b <= e => s < e \div MiB
  <2> SUFFICES ASSUME b <= e PROVE s < e \div MiB
    OBVIOUS
  <2> HIDE DEF a, b
  <2>1. (b - 1) \div MiB < e \div MiB
    BY <1>1 DEF MiB
  <2> QED  BY <2>1, <1>1, <1>2, <1>3 DEF MiB
<1>6. e <= a => ~(s < e \div MiB)
  <2> SUFFICES ASSUME e <= a PROVE ~(s < e \div MiB)
    OBVIOUS
  <2> HIDE DEF a, b
  <2>1. e \div MiB <= a \div MiB
    BY <1>1 DEF MiB
  <2> QED  BY <2>1, <1>1, <1>2, <1>3 DEF MiB
<1>7. CASE r.attr = CB /\ b <= e
  <2> HIDE DEF a, b
  <2> QED  BY <1>4, <1>5, <1>7
<1>8. CASE r.attr = {} /\ e <= a
  <2> HIDE DEF a, b
  <2> QED  BY <1>4, <1>6, <1>8
<1> QED  BY <1>7, <1>8

\* A function on the first numbers is a sequence.
LEMMA Counted ==
  ASSUME NEW n \in Nat, NEW f, f = [i \in 1 .. n |-> f[i]]
  PROVE  Len(f) = n
<1> DEFINE S == {f[i] : i \in 1 .. n}
<1>1. f \in [1 .. n -> S]
  OBVIOUS
<1> HIDE DEF S
<1>2. f \in Seq(S)
  BY <1>1, SeqDef
<1> QED  BY <1>1, <1>2

\* The numbers a layout is made of, and its rows but the last field by field.
LEMMA Numbers ==
  ASSUME NEW prog, Linked(prog)
  PROVE  LET e == End(prog)
             free == e + DmaLen + FreeLen
         IN /\ MallocLen \in Nat /\ GlobalLen \in Nat /\ DmaLen \in Nat /\ FreeLen \in Nat
            /\ GlobalLen < MallocLen /\ GlobalLen > 0 /\ DmaLen > 0 /\ FreeLen > 0
            /\ prog.text \in Nat /\ prog.textEnd \in Nat /\ prog.bssEnd \in Nat
            /\ PageTable(prog) \in Nat /\ e \in Nat
            /\ MallocLen <= prog.text /\ prog.text <= prog.textEnd
            /\ prog.textEnd <= prog.bssEnd /\ prog.bssEnd <= PageTable(prog)
            /\ IrqStack(prog) = PageTable(prog) + 2 /\ IrqStack(prog) + 16 <= e
            /\ free \in Nat /\ free <= 28672
            /\ e % MiB = 0 /\ e + DmaLen <= KernelStart /\ KernelEnd <= free
<1>1. /\ MallocLen \in Nat /\ GlobalLen \in Nat /\ DmaLen \in Nat /\ FreeLen \in Nat
      /\ GlobalLen < MallocLen /\ GlobalLen > 0 /\ DmaLen > 0 /\ FreeLen > 0
  BY LayoutAssumption DEF LayoutAssumption
<1> QED  BY <1>1, Ends DEF Linked, MiB

LEMMA RowFields ==
  ASSUME NEW prog, Linked(prog), NEW ddr
  PROVE  LET row == Resolved(prog, ddr)
             text == prog.text
             textEnd == prog.textEnd
             bssEnd == prog.bssEnd
             pt == PageTable(prog)
             is == IrqStack(prog)
             e == End(prog)
             free == e + DmaLen + FreeLen
         IN /\ DOMAIN row = 1 .. 11 /\ Len(row) = 11
            /\ row[1].start = 0 /\ row[1].end = text - MallocLen /\ row[1].size = text - MallocLen
            /\ row[2].start = text - MallocLen /\ row[2].end = text - GlobalLen /\ row[2].size = MallocLen - GlobalLen
            /\ row[3].start = text - GlobalLen /\ row[3].end = text /\ row[3].size = GlobalLen
            /\ row[4].start = text /\ row[4].end = text /\ row[4].size = 0
            /\ row[5].start = text /\ row[5].end = textEnd /\ row[5].size = textEnd - text
            /\ row[6].start = textEnd /\ row[6].end = bssEnd /\ row[6].size = bssEnd - textEnd
            /\ row[7].start = pt /\ row[7].end = pt + 2 /\ row[7].size = 2
            /\ row[8].start = is /\ row[8].end = is + 16 /\ row[8].size = 16
            /\ row[9].start = e /\ row[9].end = e + DmaLen /\ row[9].size = DmaLen
            /\ row[10].start = e + DmaLen /\ row[10].end = free /\ row[10].size = FreeLen
            /\ row[10].name = "free"
            /\ row[1].attr = CB /\ row[2].attr = CB /\ row[3].attr = CB /\ row[4].attr = CB
            /\ row[5].attr = CB /\ row[6].attr = CB /\ row[7].attr = CB /\ row[8].attr = CB
            /\ row[9].attr = {} /\ row[10].attr = {}
<1> DEFINE row == Resolved(prog, ddr)
           text == prog.text
           textEnd == prog.textEnd
           bssEnd == prog.bssEnd
           pt == PageTable(prog)
           is == IrqStack(prog)
           e == End(prog)
           free == e + DmaLen + FreeLen
<1>1. /\ DOMAIN row = 1 .. 11
      /\ row[1] = Region("stack", 0, text - MallocLen, text - MallocLen, CB)
      /\ row[2] = Region("malloc", text - MallocLen, text - GlobalLen, MallocLen - GlobalLen, CB)
      /\ row[3] = Region("global", text - GlobalLen, text, GlobalLen, CB)
      /\ row[4] = Region("reserve", text, text, 0, CB)
      /\ row[5] = Region(".text", text, textEnd, textEnd - text, CB)
      /\ row[6] = Region(".data", textEnd, bssEnd, bssEnd - textEnd, CB)
      /\ row[7] = Region("pagetable", pt, pt + 2, 2, CB)
      /\ row[8] = Region("irqstack", is, is + 16, 16, CB)
      /\ row[9] = Region("DMA", e, e + DmaLen, DmaLen, {})
      /\ row[10] = Region("free", e + DmaLen, free, FreeLen, {})
  BY RowsResolved
<1>2. Len(row) = 11
  <2>1. row = [i \in 1 .. 11 |-> row[i]]
    <3>1. 11 \in Nat /\ Len(DdrLayout(prog)) = 11  BY Rows
    <3>2. ResolvedTo(row, prog, ddr, 11)
      <4>1. row = CHOOSE f : ResolvedTo(f, prog, ddr, 11)
        BY <3>1, Zenon DEF Resolved, ResolvedTo
      <4> HIDE DEF row
      <4> QED  BY <3>1, <4>1, ResolvedExists
    <3> HIDE DEF row
    <3> QED  BY <3>2 DEF ResolvedTo
  <2> HIDE DEF row
  <2> QED  BY <2>1, Counted
<1> HIDE DEF row, text, textEnd, bssEnd, pt, is, e, free
<1> QED  BY <1>1, <1>2 DEF Region, row, text, textEnd, bssEnd, pt, is, e, free

LEMMA Eleven == \A i \in 1 .. 11 : \/ i = 1 \/ i = 2 \/ i = 3 \/ i = 4 \/ i = 5 \/ i = 6
                                   \/ i = 7 \/ i = 8 \/ i = 9 \/ i = 10 \/ i = 11
OBVIOUS

\* What sysmem_init comes to.
LEMMA SysmemIs ==
  ASSUME NEW prog, Linked(prog), NEW ddr
  PROVE  LET sys == SysmemInit(prog, ddr)
             row == Resolved(prog, GetDdrSize(ddr))
         IN /\ sys.rows = row /\ sys.misplaced = Misplaced(row, GetDdrSize(ddr))
            /\ sys.ptbtail = PageTable(prog) + 2
            /\ \A s \in Nat : s <= 4095 =>
                 sys.pages[s] = IF s < End(prog) \div MiB THEN CB ELSE {}
<1> DEFINE size == GetDdrSize(ddr)
           row == Resolved(prog, size)
           e == End(prog)
           sys == SysmemInit(prog, ddr)
<1>1. row[1].start = 0
  BY RowFields
<1>2. /\ sys.rows = row /\ sys.misplaced = Misplaced(row, size) /\ sys.ptbtail = PtbTail(prog)
      /\ sys.pages = MmuSet(MmuInit, row[1].start, e - row[1].start, CB)
  <2> HIDE DEF size
  <2> QED  BY DEF SysmemInit, size
<1> HIDE DEF row, sys, size, e
<1>3. sys.pages = MmuSet(MmuInit, 0, e - 0, CB)
  BY <1>1, <1>2
<1>4. \A s \in Nat : s <= 4095 => sys.pages[s] = IF s < e \div MiB THEN CB ELSE {}
  BY <1>3, Pages DEF e
<1> QED  BY <1>2, <1>4 DEF PtbTail, row, sys, size, e

\* The rows of the program, whatever is found of the memory.
LEMMA ProgramPlaced ==
  ASSUME NEW prog, Linked(prog), NEW ddr
  PROVE  ProgramRight(SysmemInit(prog, ddr))
<1> DEFINE sys == SysmemInit(prog, ddr)
           row == Resolved(prog, GetDdrSize(ddr))
           text == prog.text
           textEnd == prog.textEnd
           bssEnd == prog.bssEnd
           pt == PageTable(prog)
           is == IrqStack(prog)
           e == End(prog)
           free == e + DmaLen + FreeLen
<1>1. /\ sys.rows = row /\ sys.ptbtail = pt + 2
      /\ \A s \in Nat : s <= 4095 => sys.pages[s] = IF s < e \div MiB THEN CB ELSE {}
  BY SysmemIs
<1>2. /\ MallocLen \in Nat /\ GlobalLen \in Nat /\ DmaLen \in Nat /\ FreeLen \in Nat
      /\ GlobalLen < MallocLen /\ GlobalLen > 0 /\ DmaLen > 0 /\ FreeLen > 0
      /\ text \in Nat /\ textEnd \in Nat /\ bssEnd \in Nat /\ pt \in Nat /\ e \in Nat
      /\ MallocLen <= text /\ text <= textEnd /\ textEnd <= bssEnd /\ bssEnd <= pt
      /\ is = pt + 2 /\ is + 16 <= e /\ free \in Nat /\ free <= 28672
      /\ e % MiB = 0 /\ e + DmaLen <= KernelStart /\ KernelEnd <= free
  BY Numbers
<1>3. /\ DOMAIN row = 1 .. 11 /\ Len(row) = 11
      /\ row[1].start = 0 /\ row[1].end = text - MallocLen
      /\ row[2].start = text - MallocLen /\ row[2].end = text - GlobalLen
      /\ row[3].start = text - GlobalLen /\ row[3].end = text
      /\ row[4].start = text /\ row[4].end = text
      /\ row[5].start = text /\ row[5].end = textEnd
      /\ row[6].start = textEnd /\ row[6].end = bssEnd
      /\ row[7].start = pt /\ row[7].end = pt + 2
      /\ row[8].start = is /\ row[8].end = is + 16
      /\ row[9].start = e /\ row[9].end = e + DmaLen
      /\ row[10].start = e + DmaLen /\ row[10].end = free /\ row[10].name = "free"
  BY RowFields
<1>4. /\ row[1].attr = CB /\ row[2].attr = CB /\ row[3].attr = CB /\ row[4].attr = CB
      /\ row[5].attr = CB /\ row[6].attr = CB /\ row[7].attr = CB /\ row[8].attr = CB
      /\ row[9].attr = {} /\ row[10].attr = {}
  BY RowFields
<1>5. free = e + DmaLen + FreeLen
  BY DEF free
<1> HIDE DEF sys, row, text, textEnd, bssEnd, pt, is, e, free
<1>6. \A i \in 1 .. 9 : row[i].end <= row[i + 1].start
  <2> DEFINE Apart(i) == row[i].end <= row[i + 1].start
  <2>1. Apart(1) /\ Apart(2) /\ Apart(3) /\ Apart(4) /\ Apart(5)
    BY <1>2, <1>3
  <2>2. Apart(6) /\ Apart(7) /\ Apart(8) /\ Apart(9)
    BY <1>2, <1>3
  <2> HIDE DEF Apart
  <2>3. ASSUME NEW i \in 1 .. 9 PROVE Apart(i)
    <3>1. i \in 1 .. 11 /\ i # 10 /\ i # 11  OBVIOUS
    <3> QED  BY <3>1, Eleven, <2>1, <2>2
  <2> QED  BY <2>3 DEF Apart
<1>7. \A i \in 1 .. 10 : PagesMatch(sys, i)
  <2>1. ASSUME NEW r, r.start \in Nat, r.end \in Nat, r.end <= 393216,
               (r.attr = CB /\ r.end <= e) \/ (r.attr = {} /\ e <= r.start)
        PROVE  PagesRight(r, sys.pages)
    BY <2>1, <1>1, <1>2, PagesRightIs
  <2> DEFINE Match(i) == PagesRight(row[i], sys.pages)
  <2>2. Match(1) /\ Match(2) /\ Match(3)
    BY <2>1, <1>2, <1>3, <1>4, <1>5
  <2>3. Match(4) /\ Match(5) /\ Match(6)
    BY <2>1, <1>2, <1>3, <1>4, <1>5
  <2>4. Match(7) /\ Match(8) /\ Match(9)
    BY <2>1, <1>2, <1>3, <1>4, <1>5
  <2>5. Match(10)
    BY <2>1, <1>2, <1>3, <1>4, <1>5
  <2> HIDE DEF Match
  <2>6. ASSUME NEW i \in 1 .. 10 PROVE Match(i)
    <3>1. i \in 1 .. 11 /\ i # 11  OBVIOUS
    <3> QED  BY <3>1, Eleven, <2>2, <2>3, <2>4, <2>5
  <2> QED  BY <2>6, <1>1 DEF Match, PagesRight, PagesMatch
<1>8. \E i \in DOMAIN row : /\ row[i].name = "free"
                            /\ row[i].start <= KernelStart /\ KernelEnd <= row[i].end
  <2>1. 10 \in DOMAIN row  BY <1>3
  <2> QED  BY <2>1, <1>2, <1>3
<1>9. sys.ptbtail <= row[7].end
  BY <1>1, <1>2, <1>3
<1>10. Len(row) - 2 = 9 /\ Len(row) - 1 = 10
  BY <1>3
<1>11. ProgramRight(sys)
  BY <1>1, <1>6, <1>7, <1>8, <1>9, <1>10 DEF ProgramRight
<1> QED  BY <1>11 DEF sys

\* Every memory whose size is found: the layout holds.
LEMMA HoldsFound ==
  ASSUME NEW prog, Linked(prog), NEW n \in 1 .. 192
  PROVE  LayoutHolds(prog, 16 * n * MiB)
<1> DEFINE ddr == 16 * n * MiB
           row == Resolved(prog, ddr)
           text == prog.text
           textEnd == prog.textEnd
           bssEnd == prog.bssEnd
           pt == PageTable(prog)
           is == IrqStack(prog)
           e == End(prog)
           free == e + DmaLen + FreeLen
           sys == SysmemInit(prog, ddr)
<1>1. /\ MallocLen \in Nat /\ GlobalLen \in Nat /\ DmaLen \in Nat /\ FreeLen \in Nat
      /\ GlobalLen < MallocLen /\ GlobalLen > 0 /\ DmaLen > 0 /\ FreeLen > 0
      /\ text \in Nat /\ textEnd \in Nat /\ bssEnd \in Nat /\ pt \in Nat /\ e \in Nat
      /\ MallocLen <= text /\ text <= textEnd /\ textEnd <= bssEnd /\ bssEnd <= pt
      /\ is = pt + 2 /\ is + 16 <= e /\ free \in Nat /\ free <= 28672
      /\ e % MiB = 0 /\ e + DmaLen <= KernelStart /\ KernelEnd <= free
  BY Numbers
<1>2. ddr \in Nat /\ ddr <= 393216 /\ (n >= 16 => ddr >= 32768) /\ (n < 16 => ddr < 32768)
  BY DEF MiB
<1>3. PICK start \in Nat, size \in Nat :
        /\ row[11] = Region("resmem", start, ddr, size, {})
        /\ n >= 16 => free <= start /\ size > 0 /\ start + size = ddr
        /\ n < 16 => start = free /\ size = (ddr - free) % U32Wrap
  BY LastResolved
<1>4. /\ DOMAIN row = 1 .. 11 /\ Len(row) = 11
      /\ row[1].start = 0 /\ row[1].end = text - MallocLen /\ row[1].size = text - MallocLen
      /\ row[2].start = text - MallocLen /\ row[2].end = text - GlobalLen /\ row[2].size = MallocLen - GlobalLen
      /\ row[3].start = text - GlobalLen /\ row[3].end = text /\ row[3].size = GlobalLen
      /\ row[4].start = text /\ row[4].end = text /\ row[4].size = 0
      /\ row[5].start = text /\ row[5].end = textEnd /\ row[5].size = textEnd - text
      /\ row[6].start = textEnd /\ row[6].end = bssEnd /\ row[6].size = bssEnd - textEnd
      /\ row[7].start = pt /\ row[7].end = pt + 2 /\ row[7].size = 2
      /\ row[8].start = is /\ row[8].end = is + 16 /\ row[8].size = 16
      /\ row[9].start = e /\ row[9].end = e + DmaLen /\ row[9].size = DmaLen
      /\ row[10].start = e + DmaLen /\ row[10].end = free /\ row[10].size = FreeLen
  BY RowFields
<1>5. /\ sys.rows = row /\ sys.misplaced = Misplaced(row, ddr)
      /\ \A s \in Nat : s <= 4095 => sys.pages[s] = IF s < e \div MiB THEN CB ELSE {}
  <2>1. GetDdrSize(ddr) = ddr
    <3>1. n \in Nat \ {0} /\ n <= 192  OBVIOUS
    <3> QED  BY <3>1, SizeFound
  <2> HIDE DEF ddr
  <2> QED  BY <2>1, SysmemIs
<1>6. ProgramRight(sys)
  BY ProgramPlaced
<1> HIDE DEF ddr, row, text, textEnd, bssEnd, pt, is, e, sys
<1>7. /\ row[11].start = start /\ row[11].end = ddr /\ row[11].size = size /\ row[11].attr = {}
  BY <1>3 DEF Region
<1>8. free = e + DmaLen + FreeLen
  BY DEF free
<1> HIDE DEF free
<1> DEFINE Ok(r) == /\ (r.start + r.size) % U32Wrap = r.end
                    /\ r.size # 0 => r.start < ddr /\ r.end <= ddr /\ r.start < r.end
<1>9. sys.misplaced = {} <=> \A i \in 1 .. 11 : Ok(row[i])
  BY <1>4, <1>5 DEF Misplaced
<1>10. n >= 16 => sys.misplaced = {}
  <2> SUFFICES ASSUME n >= 16 PROVE sys.misplaced = {}
    OBVIOUS
  <2>1. ASSUME NEW r, r.start \in Nat, r.size \in Nat, r.start + r.size = r.end, r.end <= ddr
        PROVE  Ok(r)
    <3> DEFINE a == r.start
               z == r.size
    <3>1. a \in Nat /\ z \in Nat /\ r.end = a + z /\ a + z <= ddr  BY <2>1
    <3> HIDE DEF a, z
    <3>2. (a + z) % U32Wrap = a + z /\ (z # 0 => a < a + z /\ a < ddr)
      BY <3>1, <1>2 DEF U32Wrap, MiB
    <3> QED  BY <3>1, <3>2 DEF a, z
  <2> HIDE DEF Ok
  <2>2. free <= ddr /\ start + size = ddr
    BY <1>1, <1>2, <1>3
  <2>3. Ok(row[1]) /\ Ok(row[2]) /\ Ok(row[3])
    BY <2>1, <2>2, <1>1, <1>2, <1>4, <1>8
  <2>4. Ok(row[4]) /\ Ok(row[5]) /\ Ok(row[6])
    BY <2>1, <2>2, <1>1, <1>2, <1>4, <1>8
  <2>5. Ok(row[7]) /\ Ok(row[8]) /\ Ok(row[9])
    BY <2>1, <2>2, <1>1, <1>2, <1>4, <1>8
  <2>6. Ok(row[10]) /\ Ok(row[11])
    BY <2>1, <2>2, <1>1, <1>2, <1>4, <1>7, <1>8
  <2>7. \A i \in 1 .. 11 : Ok(row[i])
    BY Eleven, <2>3, <2>4, <2>5, <2>6
  <2> QED  BY <2>7, <1>9
<1>11. ASSUME sys.misplaced = {}
       PROVE  ReservedRight(sys, ddr)
  <2>1. Ok(row[10])
    BY <1>9, <1>11
  <2>2. free <= ddr
    BY <2>1, <1>1, <1>4
  <2>3. free <= start
    <3>1. CASE n >= 16
      BY <3>1, <1>3
    <3>2. CASE n < 16
      BY <2>2, <3>2, <1>1, <1>3
    <3> QED  BY <3>1, <3>2
  <2>4. e <= start
    BY <2>3, <1>1, <1>8
  <2>5. PagesRight(row[11], sys.pages)
    BY <2>4, <1>1, <1>2, <1>5, <1>7, PagesRightIs
  <2>6. PagesMatch(sys, 11)
    BY <2>5, <1>5 DEF PagesRight, PagesMatch
  <2>7. row[10].end <= row[11].start /\ row[11].end = ddr
    BY <2>3, <1>4, <1>7
  <2>8. Len(row) = 11 /\ 11 - 1 = 10
    BY <1>4
  <2> QED  BY <2>6, <2>7, <2>8, <1>5 DEF ReservedRight
<1>12. ddr \in 256 * MiB .. 3072 * MiB => sys.misplaced = {}
  <2>1. 256 * MiB = 32768 /\ 3072 * MiB \in Int
    BY DEF MiB
  <2>2. ASSUME ddr \in 256 * MiB .. 3072 * MiB PROVE n >= 16
    <3>1. ddr >= 32768
      BY <2>1, <2>2
    <3> QED  BY <3>1, <1>2
  <2> QED  BY <2>2, <1>10
<1>13. LayoutHolds(prog, ddr)
  BY <1>6, <1>11, <1>12, Zenon DEF LayoutHolds, sys
<1> QED  BY <1>13 DEF ddr

\* A memory whose size is not found is reported.
LEMMA UnfoundReported ==
  ASSUME NEW prog, Linked(prog), NEW n \in Nat, n > 192
  PROVE  LayoutHolds(prog, 16 * n * MiB)
<1> DEFINE ddr == 16 * n * MiB
           row == Resolved(prog, 0)
           sys == SysmemInit(prog, ddr)
<1>1. GetDdrSize(ddr) = 0
  <2>1. n \in Nat \ {0} /\ ~(n <= 192)  OBVIOUS
  <2> QED  BY <2>1, SizeFound
<1>2. sys.misplaced = Misplaced(row, 0)
  <2> HIDE DEF ddr
  <2> QED  BY <1>1, SysmemIs
<1>3. 2 \in DOMAIN row /\ row[2].start \in Nat /\ row[2].size # 0
  <2>1. MallocLen \in Nat /\ GlobalLen \in Nat /\ GlobalLen < MallocLen
    BY LayoutAssumption DEF LayoutAssumption
  <2>2. prog.text \in Nat /\ MallocLen <= prog.text
    BY DEF Linked
  <2>3. /\ DOMAIN row = 1 .. 11
        /\ row[2].start = prog.text - MallocLen /\ row[2].size = MallocLen - GlobalLen
    BY RowFields
  <2> HIDE DEF row
  <2> QED  BY <2>1, <2>2, <2>3
<1>4. 2 \in Misplaced(row, 0)
  <2> HIDE DEF row
  <2> QED  BY <1>3 DEF Misplaced
<1>5. ddr \notin 256 * MiB .. 3072 * MiB
  <2>1. ddr > 393216 /\ ddr \in Int /\ 3072 * MiB = 393216 /\ 256 * MiB \in Int
    BY DEF MiB
  <2> HIDE DEF ddr
  <2> QED  BY <2>1
<1>6. ProgramRight(sys)
  BY ProgramPlaced
<1> HIDE DEF ddr, row, sys
<1>7. sys.misplaced # {}
  BY <1>2, <1>4
<1>8. LayoutHolds(prog, ddr)
  BY <1>5, <1>6, <1>7 DEF LayoutHolds, sys
<1> QED  BY <1>8 DEF ddr

\* For every program, every size of the heaps and of the memory kept free that
\* fit in front of the reserved memory, and every memory made of 16M, whatever
\* assertions print: the regions of the program and the memory kept free lie one
\* behind the other, the kernel image fits in, and the pages of the program and
\* no others are cached, so that those of the DMA heap are not.  From 256M to 3G
\* no region is misplaced; and when none is, the reserved memory follows, ends
\* with the memory and is not cached: a wrong one is always reported.
THEOREM LayoutFollows ==
  ASSUME NEW prog, Linked(prog), NEW ddr \in Nat \ {0}, ddr % (16 * MiB) = 0
  PROVE  LayoutHolds(prog, ddr)
<1> DEFINE n == ddr \div 2048
<1>1. n \in Nat /\ n > 0 /\ ddr = 16 * n * MiB
  BY DEF MiB
<1> HIDE DEF n
<1>2. CASE n <= 192
  <2>1. n \in 1 .. 192  BY <1>1, <1>2
  <2> QED  BY <2>1, <1>1, HoldsFound
<1>3. CASE n > 192
  BY <1>1, <1>3, UnfoundReported
<1> QED  BY <1>1, <1>2, <1>3

-----------------------------------------------------------------------------
(* The parts side by side *)

\* The types of the interrupts.
LEMMA IrqInitTypes == IrqInit => IrqTypeOK
BY IrqAssumption DEF IrqInit, IrqTypeOK

LEMMA IrqStepTypes == IrqInv /\ IrqTypeOK /\ [IrqNext]_irqVars => IrqTypeOK'
<1> SUFFICES ASSUME IrqInv, IrqTypeOK, [IrqNext]_irqVars PROVE IrqTypeOK'
  OBVIOUS
<1> USE IrqAssumption
<1>1. CASE GicInit
  BY <1>1 DEF GicInit, Program, IrqTypeOK
<1>2. ASSUME NEW t \in Timers, ClockSource(t) PROVE IrqTypeOK'
  BY <1>2 DEF ClockSource, Program, IrqTypeOK
<1>3. CASE Connect
  BY <1>3 DEF Connect, Program, IrqTypeOK
<1>4. CASE Fill
  <2>1. timer \in Timers
    BY <1>4 DEF Fill, IrqInv, Connecting
  <2>2. handle' \in [0 .. MaxIrq - 1 -> Timers \cup {NoTimer}]
    BY <1>4, <2>1 DEF Fill, IrqTypeOK
  <2> QED  BY <1>4, <2>2 DEF Fill, Program, IrqTypeOK
<1>5. CASE Enable
  <2>1. enabled' \subseteq Shared
    BY <1>5, ZenonT(60) DEF Enable, IrqTypeOK
  <2> QED  BY <1>5, <2>1 DEF Enable, Program, IrqTypeOK
<1>6. CASE Restore
  BY <1>6 DEF Restore, Program, IrqTypeOK
<1>7. CASE Printf
  BY <1>7 DEF Printf, Program, IrqTypeOK
<1>8. CASE EnableIrq
  BY <1>8 DEF EnableIrq, Program, IrqTypeOK
<1>9. CASE Interrupt
  BY <1>9 DEF Interrupt, IrqTypeOK
<1>10. CASE Ack
  <2>1. irqnr' \in Shared \cup {0}
    BY <1>10 DEF Ack, Pending, IrqTypeOK
  <2> QED  BY <1>10, <2>1 DEF Ack, IrqTypeOK
<1>11. CASE Handle
  BY <1>11 DEF Handle, IrqTypeOK
<1>12. CASE Leave
  BY <1>12 DEF Leave, IrqTypeOK
<1>13. ASSUME NEW t \in Timers, Fire(t) PROVE IrqTypeOK'
  BY <1>13 DEF Fire, IrqTypeOK
<1>14. CASE UNCHANGED irqVars
  BY <1>14 DEF irqVars, IrqTypeOK
<1> QED
  BY <1>1, <1>2, <1>3, <1>4, <1>5, <1>6, <1>7, <1>8, <1>9, <1>10, <1>11, <1>12,
     <1>13, <1>14 DEF IrqNext, MainStep, Dispatch

\* A part that stands still keeps what holds at its start; what is laid out
\* and what the kernel is told stay as given.
PlatformInv ==
  /\ job \in {"irq", "memdbg", "layout", "tags"}
  /\ IrqInv /\ IrqTypeOK /\ MemInv
  /\ job = "layout" => input \in LayoutInputs
  /\ job = "tags" => input \in TagInputs

LEMMA ParkedInv == IrqParked => IrqInv /\ IrqTypeOK
BY IrqAssumption DEF IrqParked, IrqInv, IrqTypeOK, Connecting, LinesServed

LEMMA PlatformInvHolds == Spec => []PlatformInv
<1>1. Init => PlatformInv
  <2> SUFFICES ASSUME Init PROVE PlatformInv
    OBVIOUS
  <2>1. IrqInv /\ IrqTypeOK
    BY ParkedInv, IrqInitInv, IrqInitTypes DEF Init
  <2>2. MemInv
    BY MemInitInv DEF Init
  <2> QED  BY <2>1, <2>2 DEF Init, PlatformInv
<1>2. PlatformInv /\ [Next]_vars => PlatformInv'
  <2> SUFFICES ASSUME PlatformInv, [Next]_vars PROVE PlatformInv'
    OBVIOUS
  <2>1. job' = job /\ input' = input
    BY DEF Next, IrqStep, MemStep, Alone, vars
  <2>2. [IrqNext]_irqVars /\ [MemNext]_memVars
    BY DEF Next, IrqStep, MemStep, Alone, vars
  <2>3. IrqInv' /\ IrqTypeOK'
    BY <2>2, IrqStepInv, IrqStepTypes DEF PlatformInv
  <2>4. MemInv'
    BY <2>2, MemStepInv DEF PlatformInv
  <2> QED  BY <2>1, <2>3, <2>4 DEF PlatformInv
<1> QED
  BY <1>1, <1>2, PTL DEF Spec

\* The variables of all parts keep their ranges, for all constants; the program
\* stands still, with interrupts off, while an interrupt is dispatched.
THEOREM PlatformTypes == Spec => []TypeOK
<1>1. PlatformInv => TypeOK
  BY MemTypes DEF PlatformInv, TypeOK
<1> QED
  BY PlatformInvHolds, <1>1, PTL

\* The interrupt that is acknowledged has its handler, and the record of the
\* reserved memory is true, also side by side.
THEOREM PlatformSafe == Spec => [](HandlerInPlace /\ RecordsTrue)
<1>1. PlatformInv => HandlerInPlace /\ RecordsTrue
  BY InPlace, RecordsAgree DEF PlatformInv
<1> QED
  BY PlatformInvHolds, <1>1, PTL

\* Every layout that is looked at holds: LayoutFollows for the programs and
\* memories of the instance.
THEOREM LayoutAlwaysRight == Spec => []LayoutRight
<1>1. PlatformInv => LayoutRight
  <2> SUFFICES ASSUME job = "layout", input \in LayoutInputs
               PROVE  LayoutHolds(input.prog, input.ddr)
    BY DEF PlatformInv, LayoutRight
  <2>1. Linked(input.prog) /\ input.ddr \in Nat \ {0} /\ input.ddr % (16 * MiB) = 0
    BY PlatformAssumption
  <2> QED  BY <2>1, LayoutFollows
<1> QED
  BY PlatformInvHolds, <1>1, PTL

\* All that is told the kernel is right: TagsFollow for the parameters and the
\* lengths of the instance.
THEOREM TagsAlwaysRight == Spec => []TagsRight
<1>1. PlatformInv => TagsRight
  <2> SUFFICES ASSUME job = "tags", input \in TagInputs
               PROVE  TagsHold(input.calls, input.args, input.sdk)
    BY DEF PlatformInv, TagsRight
  <2>1. input.args \in Nat /\ input.sdk \in Nat /\ input.calls \in Calls(STRING \ {NoName}, Nat)
    BY PlatformAssumption DEF Calls
  <2> QED  BY <2>1, TagsFollow
<1> QED
  BY PlatformInvHolds, <1>1, PTL
=============================================================================
