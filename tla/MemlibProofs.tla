---------------------------- MODULE MemlibProofs ----------------------------
(***************************************************************************)
(* Proofs about the heap of Memlib, for every arena, page size, bin width  *)
(* and set of requests the assumptions of the module allow.                *)
(***************************************************************************)
EXTENDS Memlib, SequenceTheorems, FiniteSetTheorems, WellFoundedInduction, TLAPS

-----------------------------------------------------------------------------
(* Numbers *)

\* What the assumption says of each constant.
LEMMA Constants ==
  /\ W32 \in Nat /\ W32 >= 32 /\ Start \in Nat /\ Start >= 1 /\ End \in Nat /\ Start < End
  /\ End < W32 \div 2 /\ Start % 4 = 0
  /\ PageSize \in Nat /\ PageSize >= 8 /\ PageSize % 8 = 0
  /\ MaxSmall \in Nat /\ MaxSmall >= 16 /\ MaxSmall % 8 = 0
  /\ LargeWidth \in Nat \ {0}
  /\ None \notin Nat /\ Requests \subseteq 0 .. W32 - 1 /\ Alignments \subseteq Nat
BY MemlibAssumption

\* Division rounds down.
LEMMA Divide ==
  ASSUME NEW n \in Nat, NEW d \in Nat \ {0}
  PROVE  /\ n \div d \in Nat
         /\ (n \div d) * d \in Nat
         /\ (n \div d) * d <= n /\ n < (n \div d) * d + d
<1> DEFINE q == n \div d
<1>1. q \in Nat /\ n % d \in 0 .. d - 1 /\ n = d * q + (n % d)
  OBVIOUS
<1>2. q * d \in Nat /\ q * d = d * q
  <2>1. \A y \in Nat : y * d \in Nat /\ y * d = d * y
    OBVIOUS
  <2> HIDE DEF q
  <2> QED BY <1>1, <2>1
<1> DEFINE p == q * d
<1>3. p \in Nat /\ n = p + (n % d)
  BY <1>1, <1>2
<1> HIDE DEF p
<1>4. p <= n /\ n < p + d
  BY <1>1, <1>3
<1> QED BY <1>1, <1>3, <1>4 DEF p

\* A multiple of a multiple of eight is one.
LEMMA Eights ==
  ASSUME NEW k \in Nat, NEW m \in Nat, m % 8 = 0
  PROVE  k * m \in Nat /\ (k * m) % 8 = 0
<1>1. PICK j \in Nat : m = 8 * j
  <2>1. m \div 8 \in Nat /\ m = 8 * (m \div 8)
    OBVIOUS
  <2> QED BY <2>1
<1>2. k * j \in Nat /\ k * m = 8 * (k * j)
  BY <1>1
<1> DEFINE x == k * j
<1>3. x \in Nat /\ k * m = 8 * x
  BY <1>2
<1> HIDE DEF x
<1> QED BY <1>3

\* Rounding up to a multiple of m, itself a multiple of eight.
LEMMA RoundUp ==
  ASSUME NEW n \in Nat, NEW m \in Nat \ {0}, m % 8 = 0
  PROVE  /\ Round(n, m) \in Nat /\ Round(n, m) % 8 = 0
         /\ n <= Round(n, m) /\ Round(n, m) < n + m
<1> DEFINE k == (n + m - 1) \div m
<1>1. n + m - 1 \in Nat
  OBVIOUS
<1>2. /\ k \in Nat /\ k * m \in Nat
      /\ k * m <= n + m - 1 /\ n + m - 1 < k * m + m
  BY <1>1, Divide
<1>3. Round(n, m) = k * m
  BY DEF Round
<1> HIDE DEF k
<1>4. (k * m) % 8 = 0
  BY <1>2, Eights
<1> DEFINE x == k * m
<1>5. x \in Nat /\ x <= n + m - 1 /\ n + m - 1 < x + m /\ x % 8 = 0 /\ Round(n, m) = x
  BY <1>2, <1>3, <1>4
<1> HIDE DEF x
<1> QED BY <1>5

\* Division keeps the order.
LEMMA DivideOrder ==
  ASSUME NEW a \in Nat, NEW b \in Nat, NEW d \in Nat \ {0}, a <= b
  PROVE  a \div d \in Nat /\ b \div d \in Nat /\ a \div d <= b \div d
<1> DEFINE q == a \div d
           r == b \div d
<1>1. q \in Nat /\ q * d <= a /\ r \in Nat /\ b < r * d + d
  BY Divide
<1> HIDE DEF q, r
<1>2. ASSUME q >= r + 1 PROVE FALSE
  <2>1. q * d >= (r + 1) * d
    BY <1>1, <1>2
  <2>2. (r + 1) * d = r * d + d
    BY <1>1
  <2> DEFINE x == r * d
             y == q * d
  <2>3. x \in Int /\ y \in Int
    BY <1>1
  <2>4. y >= x + d /\ y <= a /\ b < x + d
    BY <2>1, <2>2, <1>1
  <2> HIDE DEF x, y
  <2> QED BY <2>3, <2>4
<1>3. q <= r
  BY <1>1, <1>2
<1> QED BY <1>1, <1>3 DEF q, r

\* bin_index: larger sizes are in bins behind; the sizes of chunks are never in
\* the bin of the last remainder.
LEMMA BinIndexOrder ==
  ASSUME NEW s \in Nat, NEW t \in Nat, s <= t
  PROVE  /\ BinIndex(s) \in Nat /\ BinIndex(t) \in Nat /\ BinIndex(s) <= BinIndex(t)
         /\ s >= 16 => BinIndex(s) >= 2
<1> USE Constants
<1>1. /\ s >= MaxSmall => (s - MaxSmall) \div LargeWidth \in Nat
      /\ t >= MaxSmall => (t - MaxSmall) \div LargeWidth \in Nat
      /\ s >= MaxSmall => (s - MaxSmall) \div LargeWidth <= (t - MaxSmall) \div LargeWidth
  <2>1. s >= MaxSmall => s - MaxSmall \in Nat
    OBVIOUS
  <2>2. t >= MaxSmall => t - MaxSmall \in Nat
    OBVIOUS
  <2>3. t >= MaxSmall => (t - MaxSmall) \div LargeWidth \in Nat
    BY <2>2, Divide
  <2> QED BY <2>1, <2>2, <2>3, DivideOrder
<1> DEFINE x == (s - MaxSmall) \div LargeWidth
           y == (t - MaxSmall) \div LargeWidth
<1>2. /\ BinIndex(s) = IF s < MaxSmall THEN s \div 8 ELSE MaxSmall \div 8 + x
      /\ BinIndex(t) = IF t < MaxSmall THEN t \div 8 ELSE MaxSmall \div 8 + y
  BY DEF BinIndex
<1> HIDE DEF x, y
<1>3. /\ s >= MaxSmall => x \in Nat /\ x <= y
      /\ t >= MaxSmall => y \in Nat
  BY <1>1 DEF x, y
<1> QED BY <1>2, <1>3

\* The sizes of chunks and of requests have a bin.
LEMMA BinsIs ==
  /\ Bins = 1 .. BinIndex(W32 \div 2) + 1
  /\ BinIndex(W32 \div 2) \in Nat
  /\ Lr \in Bins
  /\ \A s \in Nat : s >= 16 /\ s <= W32 \div 2 =>
       /\ BinIndex(s) \in Bins /\ BinIndex(s) + 1 \in Bins
       /\ BinIndex(s) # Lr
<1>1. W32 \div 2 \in Nat
  BY Constants
<1>2. BinIndex(W32 \div 2) \in Nat
  BY <1>1, BinIndexOrder
<1>3. ASSUME NEW s \in Nat, s >= 16, s <= W32 \div 2
      PROVE  BinIndex(s) \in Nat /\ BinIndex(s) <= BinIndex(W32 \div 2) /\ BinIndex(s) >= 2
  BY <1>1, <1>3, BinIndexOrder
<1>4. Bins = 1 .. BinIndex(W32 \div 2) + 1
  BY DEF Bins
<1> QED BY <1>2, <1>3, <1>4 DEF Lr

-----------------------------------------------------------------------------
(* Heaps as records: what each way of writing one changes. *)

HeapOf(pos, base, top, first, size, pin, foot, bins, marks) ==
  [pos |-> pos, base |-> base, top |-> top, first |-> first,
   size |-> size, pin |-> pin, foot |-> foot, bins |-> bins, marks |-> marks]
IsHeap(h) ==
  h = HeapOf(h.pos, h.base, h.top, h.first, h.size, h.pin, h.foot, h.bins, h.marks)

LEMMA HeapOfIsHeap ==
  ASSUME NEW pos, NEW base, NEW top, NEW first, NEW size, NEW pin, NEW foot,
         NEW bins, NEW marks
  PROVE  IsHeap(HeapOf(pos, base, top, first, size, pin, foot, bins, marks))
BY DEF IsHeap, HeapOf

LEMMA SetHeadIs ==
  ASSUME NEW h, IsHeap(h), NEW p, NEW s, NEW u
  PROVE  SetHead(h, p, s, u) =
           HeapOf(h.pos, h.base, h.top, h.first, Put(h.size, p, s), Put(h.pin, p, u),
                  h.foot, h.bins, h.marks)
<1> DEFINE a == Put(h.size, p, s)
           b == Put(h.pin, p, u)
<1>1. SetHead(h, p, s, u) = [h EXCEPT !.size = a, !.pin = b]
  BY DEF SetHead
<1> HIDE DEF a, b
<1> DEFINE g == [h EXCEPT !.size = a]
<1>2. g = HeapOf(h.pos, h.base, h.top, h.first, a, h.pin, h.foot, h.bins, h.marks)
  BY DEF IsHeap, HeapOf
<1>3. SetHead(h, p, s, u) = [g EXCEPT !.pin = b]
  BY <1>1
<1> HIDE DEF g
<1>4. IsHeap(g) /\ g.pos = h.pos /\ g.base = h.base /\ g.top = h.top /\ g.first = h.first
      /\ g.size = a /\ g.foot = h.foot /\ g.bins = h.bins /\ g.marks = h.marks
  BY <1>2, HeapOfIsHeap DEF HeapOf
<1>5. [g EXCEPT !.pin = b] =
        HeapOf(h.pos, h.base, h.top, h.first, a, b, h.foot, h.bins, h.marks)
  BY <1>4, HeapOfIsHeap DEF IsHeap, HeapOf
<1> QED BY <1>3, <1>5 DEF a, b

LEMMA SetFootIs ==
  ASSUME NEW h, IsHeap(h), NEW p, NEW s
  PROVE  SetFoot(h, p, s) =
           HeapOf(h.pos, h.base, h.top, h.first, h.size, h.pin,
                  Put(h.foot, p + s, s), h.bins, h.marks)
BY DEF IsHeap, HeapOf, SetFoot

LEMMA SetInuseAtIs ==
  ASSUME NEW h, IsHeap(h), NEW p, NEW s
  PROVE  SetInuseAt(h, p, s) =
           HeapOf(h.pos, h.base, h.top, h.first, h.size, [h.pin EXCEPT ![p + s] = TRUE],
                  h.foot, h.bins, h.marks)
<1> DEFINE a == [h.pin EXCEPT ![p + s] = TRUE]
<1>1. SetInuseAt(h, p, s) = [h EXCEPT !.pin = a]
  BY DEF SetInuseAt
<1> HIDE DEF a
<1>2. [h EXCEPT !.pin = a] =
        HeapOf(h.pos, h.base, h.top, h.first, h.size, a, h.foot, h.bins, h.marks)
  BY DEF IsHeap, HeapOf
<1> QED BY <1>1, <1>2 DEF a

LEMMA UnlinkIs ==
  ASSUME NEW h, IsHeap(h), NEW p
  PROVE  Unlink(h, p) =
           HeapOf(h.pos, h.base, h.top, h.first, h.size, h.pin, h.foot,
                  [i \in Bins |-> Without(h.bins[i], p)], h.marks)
BY DEF IsHeap, HeapOf, Unlink

LEMMA SetLastRemainderIs ==
  ASSUME NEW h, IsHeap(h), NEW p
  PROVE  /\ LinkLastRemainder(h, p) =
              HeapOf(h.pos, h.base, h.top, h.first, h.size, h.pin, h.foot,
                     [h.bins EXCEPT ![Lr] = <<p>>], h.marks)
         /\ ClearLastRemainder(h) =
              HeapOf(h.pos, h.base, h.top, h.first, h.size, h.pin, h.foot,
                     [h.bins EXCEPT ![Lr] = <<>>], h.marks)
BY DEF IsHeap, HeapOf, LinkLastRemainder, ClearLastRemainder

\* What frontlink does to the lists and the marks.
Linked(h, p, s) ==
  LET i   == BinIndex(s)
      lst == h.bins[i]
      n   == Cardinality({j \in DOMAIN lst : s < h.size[lst[j]]})
  IN [h.bins EXCEPT ![i] = IF s < MaxSmall THEN <<p>> \o lst
                           ELSE SubSeq(lst, 1, n) \o <<p>> \o SubSeq(lst, n + 1, Len(lst))]
Marked(h, s) ==
  IF s < MaxSmall \/ h.bins[BinIndex(s)] = <<>> THEN h.marks \cup {Block(BinIndex(s))}
  ELSE h.marks

LEMMA FrontlinkIs ==
  ASSUME NEW h, IsHeap(h), NEW p, NEW s
  PROVE  Frontlink(h, p, s) =
           HeapOf(h.pos, h.base, h.top, h.first, h.size, h.pin, h.foot,
                  Linked(h, p, s), Marked(h, s))
<1> DEFINE i == BinIndex(s)
           lst == h.bins[i]
           n == Cardinality({j \in DOMAIN lst : s < h.size[lst[j]]})
<1>1. Mark(h, i) = [h EXCEPT !.marks = @ \cup {Block(i)}]
  BY DEF Mark
<1>2. CASE s < MaxSmall
  <2>1. Frontlink(h, p, s) = [Mark(h, i) EXCEPT !.bins[i] = <<p>> \o @]
    BY <1>2 DEF Frontlink
  <2>2. Linked(h, p, s) = [h.bins EXCEPT ![i] = <<p>> \o @]
    BY <1>2 DEF Linked
  <2>3. Marked(h, s) = h.marks \cup {Block(i)}
    BY <1>2 DEF Marked
  <2> DEFINE m == h.marks \cup {Block(i)}
             g == Mark(h, i)
             b == [h.bins EXCEPT ![i] = <<p>> \o @]
  <2>4. g = [h EXCEPT !.marks = m]
    BY <1>1, Zenon
  <2> HIDE DEF g, m
  <2>5. g = HeapOf(h.pos, h.base, h.top, h.first, h.size, h.pin, h.foot, h.bins, m)
    BY <2>4 DEF IsHeap, HeapOf
  <2>6. IsHeap(g) /\ g.pos = h.pos /\ g.base = h.base /\ g.top = h.top
        /\ g.first = h.first /\ g.size = h.size /\ g.pin = h.pin /\ g.foot = h.foot
        /\ g.bins = h.bins /\ g.marks = m
    BY <2>5, HeapOfIsHeap DEF HeapOf
  <2>7. [g EXCEPT !.bins[i] = <<p>> \o @] = [g EXCEPT !.bins = b]
    BY <2>6
  <2> HIDE DEF b
  <2>8. [g EXCEPT !.bins = b] =
          HeapOf(h.pos, h.base, h.top, h.first, h.size, h.pin, h.foot, b, m)
    BY <2>6 DEF IsHeap, HeapOf
  <2> QED BY <2>1, <2>2, <2>3, <2>7, <2>8, Zenon DEF g, m, b
<1>3. CASE ~(s < MaxSmall)
  <2> DEFINE new == SubSeq(lst, 1, n) \o <<p>> \o SubSeq(lst, n + 1, Len(lst))
  <2>1. Frontlink(h, p, s) =
          [(IF lst = <<>> THEN Mark(h, i) ELSE h) EXCEPT
             !.bins[i] = SubSeq(@, 1, n) \o <<p>> \o SubSeq(@, n + 1, Len(@))]
    BY <1>3 DEF Frontlink
  <2>2. Linked(h, p, s) = [h.bins EXCEPT ![i] = new]
    BY <1>3 DEF Linked
  <2>3. Marked(h, s) = IF lst = <<>> THEN h.marks \cup {Block(i)} ELSE h.marks
    BY <1>3 DEF Marked
  <2>4. Mark(h, i).bins = h.bins
    BY <1>1 DEF IsHeap, HeapOf
  <2>5. Frontlink(h, p, s) =
          [(IF lst = <<>> THEN Mark(h, i) ELSE h) EXCEPT !.bins = [h.bins EXCEPT ![i] = new]]
    BY <2>1, <2>4, ZenonT(40)
  <2> DEFINE b == [h.bins EXCEPT ![i] = new]
             m == h.marks \cup {Block(i)}
             e == lst = <<>>
  <2>6. /\ Frontlink(h, p, s) = IF e THEN [[h EXCEPT !.marks = m] EXCEPT !.bins = b]
                                ELSE [h EXCEPT !.bins = b]
        /\ Linked(h, p, s) = b /\ Marked(h, s) = IF e THEN m ELSE h.marks
    BY <1>1, <2>2, <2>3, <2>5
  <2> HIDE DEF b, m, e
  <2> DEFINE g == [h EXCEPT !.marks = m]
  <2>7. g = HeapOf(h.pos, h.base, h.top, h.first, h.size, h.pin, h.foot, h.bins, m)
    BY HeapOfIsHeap DEF IsHeap, HeapOf
  <2> HIDE DEF g
  <2>8. IsHeap(g) /\ g.pos = h.pos /\ g.base = h.base /\ g.top = h.top
        /\ g.first = h.first /\ g.size = h.size /\ g.pin = h.pin /\ g.foot = h.foot
        /\ g.marks = m
    BY <2>7, HeapOfIsHeap DEF HeapOf
  <2>9. [g EXCEPT !.bins = b] =
          HeapOf(h.pos, h.base, h.top, h.first, h.size, h.pin, h.foot, b, m)
    BY <2>8, HeapOfIsHeap DEF IsHeap, HeapOf
  <2>10. [h EXCEPT !.bins = b] =
          HeapOf(h.pos, h.base, h.top, h.first, h.size, h.pin, h.foot, b, h.marks)
    BY DEF IsHeap, HeapOf
  <2> QED BY <2>6, <2>9, <2>10 DEF g
<1> QED BY <1>2, <1>3

-----------------------------------------------------------------------------
(* Sets of numbers and sequences *)

FiniteSetsOf(U, F) == F \subseteq SUBSET U /\ F # {} /\ \A s \in F : IsFiniteSet(s)

\* A set of finite sets has a smallest one.
LEMMA SmallestSet ==
  ASSUME NEW U, NEW F, FiniteSetsOf(U, F)
  PROVE  \E s \in F : \A t \in F : t \subseteq s => t = s
<1> DEFINE R == StrictSubsetOrdering(U)
           D == FiniteSubsetsOf(U)
<1>1. IsWellFoundedOn(R, D)  BY FS_StrictSubsetOrderingWellFounded
<1>2. F \subseteq D /\ F # {}  BY DEF FiniteSubsetsOf, FiniteSetsOf
<1>3. PICK s \in F : \A t \in F : ~(<<t, s>> \in R)
  <2> HIDE DEF R, D
  <2> QED  BY <1>1, <1>2, WFMin
<1>4. ASSUME NEW t \in F, t \subseteq s, t # s PROVE FALSE
  <2>1. <<t, s>> \in R  BY <1>4 DEF StrictSubsetOrdering, FiniteSetsOf
  <2> QED  BY <2>1, <1>3
<1> QED  BY <1>4

\* A set of numbers has a least one.
LEMMA LeastNumber ==
  ASSUME NEW T, T \subseteq Nat, T # {}
  PROVE  \E x \in T : \A y \in T : x <= y
<1> DEFINE U == Nat
           I == {0 .. x : x \in T}
<1>1. I \subseteq SUBSET U /\ I # {}
  <2>1. \A x \in T : 0 .. x \subseteq Nat  OBVIOUS
  <2> QED  BY <2>1
<1>2. \A a \in I : IsFiniteSet(a)  BY FS_Interval
<1>3. PICK a \in I : \A b \in I : b \subseteq a => b = a
  <2>1. FiniteSetsOf(U, I)  BY <1>1, <1>2 DEF FiniteSetsOf
  <2> HIDE DEF I, U
  <2> QED  BY <2>1, SmallestSet
<1>4. PICK x \in T : a = 0 .. x  OBVIOUS
<1>5. ASSUME NEW y \in T, y < x PROVE FALSE
  <2>1. 0 .. y \subseteq 0 .. x /\ x \in 0 .. x /\ x \notin 0 .. y  BY <1>5
  <2>2. 0 .. y = 0 .. x  BY <1>3, <1>4, <2>1
  <2> QED  BY <2>1, <2>2
<1> QED  BY <1>4, <1>5

\* A bounded set of numbers has a greatest one, the one Max chooses.
LEMMA MaxIs ==
  ASSUME NEW n \in Nat, NEW T, T \subseteq 1 .. n, T # {}
  PROVE  Max(T) \in T /\ \A y \in T : y <= Max(T)
<1> DEFINE D == {n - y : y \in T}
<1>1. D \subseteq Nat /\ D # {}
  <2>1. \A y \in T : n - y \in Nat
    OBVIOUS
  <2> QED BY <2>1
<1>2. PICK d \in D : \A e \in D : d <= e
  <2> HIDE DEF D
  <2> QED BY <1>1, LeastNumber
<1>3. PICK x \in T : d = n - x
  OBVIOUS
<1>4. \A y \in T : n - x <= n - y
  BY <1>2, <1>3
<1>5. \A y \in T : x >= y
  BY <1>4
<1> QED BY <1>5 DEF Max

\* The least number is the one Min chooses.
LEMMA MinIs ==
  ASSUME NEW T, T \subseteq Nat, T # {}
  PROVE  Min(T) \in T /\ \A y \in T : Min(T) <= y
BY LeastNumber DEF Min

\* A set of places that has every place in front of one it has is 1 .. n.
LEMMA Prefix ==
  ASSUME NEW m \in Nat, NEW A, A \subseteq 1 .. m,
         \A j \in A : \A k \in 1 .. m : k < j => k \in A
  PROVE  Cardinality(A) \in 0 .. m /\ A = 1 .. Cardinality(A)
<1> DEFINE T == {n \in 1 .. m + 1 : n \notin A}
<1>1. m + 1 \in T /\ T \subseteq Nat
  OBVIOUS
<1>2. PICK x \in T : \A y \in T : x <= y
  <2> HIDE DEF T
  <2> QED BY <1>1, LeastNumber
<1>3. A = 1 .. x - 1
  <2>1. ASSUME NEW k \in 1 .. x - 1, k \notin A PROVE FALSE
    BY <2>1, <1>2
  <2>2. ASSUME NEW j \in A, ~(j <= x - 1) PROVE FALSE
    <3>1. j # x /\ x \in 1 .. m /\ x < j
      BY <2>2
    <3> QED BY <3>1
  <2>3. \A j \in A : j \in 1 .. x - 1
    <3>1. \A j \in A : j \in Nat /\ j >= 1 /\ x \in Nat
      OBVIOUS
    <3> QED BY <3>1, <2>2
  <2> QED BY <2>1, <2>3
<1>4. x - 1 \in 0 .. m /\ Cardinality(1 .. x - 1) = x - 1
  <2>1. x - 1 \in Nat /\ x - 1 <= m
    BY <1>2
  <2>2. Cardinality(1 .. x - 1) = IF 1 > x - 1 THEN 0 ELSE (x - 1) - 1 + 1
    BY <2>1, FS_Interval
  <2> QED BY <2>1, <2>2
<1> QED BY <1>3, <1>4

\* The chunks of a list are different ones.
Distinct(s) == \A i, j \in 1 .. Len(s) : s[i] = s[j] => i = j

\* The part of a list behind its place k.
LEMMA SubSeqAfter ==
  ASSUME NEW S, NEW s \in Seq(S), NEW k \in 0 .. Len(s)
  PROVE  /\ SubSeq(s, k + 1, Len(s)) \in Seq(S)
         /\ Len(SubSeq(s, k + 1, Len(s))) = Len(s) - k
         /\ \A i \in 1 .. Len(s) - k : SubSeq(s, k + 1, Len(s))[i] = s[k + i]
<1>0. Len(s) \in Nat
  BY LenProperties
<1> DEFINE b == SubSeq(s, k + 1, Len(s))
           m == k + 1
           n == Len(s)
<1>1. m \in 1 .. n + 1 /\ n \in m - 1 .. n
  BY <1>0
<1>2. /\ b \in Seq(S)
      /\ Len(b) = IF m <= n THEN n - m + 1 ELSE 0
      /\ \A i \in 1 .. n - m + 1 : b[i] = s[m + i - 1]
  BY <1>1, SubSeqProperties
<1> HIDE DEF b
<1>3. Len(b) = Len(s) - k
  BY <1>0, <1>2
<1>4. \A i \in 1 .. Len(s) - k : i \in 1 .. n - m + 1 /\ m + i - 1 = k + i
  BY <1>0
<1>5. \A i \in 1 .. Len(s) - k : b[i] = s[k + i]
  BY <1>2, <1>4
<1> QED BY <1>2, <1>3, <1>5 DEF b

\* Joining two lists, the lengths given.
Joins(S, s, t, m, n) ==
  /\ m \in Nat /\ n \in Nat
  /\ s \o t \in Seq(S) /\ Len(s \o t) = m + n
  /\ \A i \in 1 .. m + n : (s \o t)[i] = IF i <= m THEN s[i] ELSE t[i - m]

LEMMA Join ==
  ASSUME NEW S, NEW s \in Seq(S), NEW t \in Seq(S)
  PROVE  Joins(S, s, t, Len(s), Len(t))
BY ConcatProperties, LenProperties DEF Joins

LEMMA WithoutIs ==
  ASSUME NEW S, NEW s \in Seq(S), Distinct(s), NEW e
  PROVE  /\ (~\E k \in 1 .. Len(s) : s[k] = e) => Without(s, e) = s
         /\ \A k \in 1 .. Len(s) : s[k] = e =>
              /\ Without(s, e) \in Seq(S)
              /\ Len(Without(s, e)) = Len(s) - 1
              /\ \A j \in 1 .. Len(s) - 1 :
                   Without(s, e)[j] = IF j < k THEN s[j] ELSE s[j + 1]
<1>0. DOMAIN s = 1 .. Len(s) /\ Len(s) \in Nat
  BY LenProperties
<1>1. (~\E k \in 1 .. Len(s) : s[k] = e) => Without(s, e) = s
  <2> SUFFICES ASSUME ~\E k \in 1 .. Len(s) : s[k] = e PROVE Without(s, e) = s
    OBVIOUS
  <2> DEFINE at == {j \in DOMAIN s : s[j] = e}
  <2>1. at = {}
    BY <1>0, SMTT(30)
  <2> QED BY <2>1, Zenon DEF Without
<1>2. ASSUME NEW k \in 1 .. Len(s), s[k] = e
      PROVE  /\ Without(s, e) \in Seq(S)
             /\ Len(Without(s, e)) = Len(s) - 1
             /\ \A j \in 1 .. Len(s) - 1 :
                  Without(s, e)[j] = IF j < k THEN s[j] ELSE s[j + 1]
  <2>1. {i \in DOMAIN s : s[i] = e} = {k}
    BY <1>0, <1>2 DEF Distinct
  <2>2. Min({k}) = k
    BY DEF Min
  <2>3. Without(s, e) = SubSeq(s, 1, k - 1) \o SubSeq(s, k + 1, Len(s))
    BY <2>1, <2>2 DEF Without, RemoveAt
  <2> DEFINE a == SubSeq(s, 1, k - 1)
             b == SubSeq(s, k + 1, Len(s))
  <2>4. /\ a \in Seq(S) /\ Len(a) = k - 1
        /\ \A i \in 1 .. k - 1 : a[i] = s[i]
    BY <1>0, SubSeqProperties
  <2>5. /\ b \in Seq(S) /\ Len(b) = Len(s) - k
        /\ \A i \in 1 .. Len(s) - k : b[i] = s[k + i]
    <3>1. k \in 0 .. Len(s)
      BY <1>0
    <3> QED BY <3>1, SubSeqAfter
  <2> HIDE DEF a, b
  <2> DEFINE m == k - 1
             n == Len(s) - k
             c == a \o b
  <2>6. /\ c \in Seq(S) /\ Len(c) = m + n
        /\ \A i \in 1 .. m + n : c[i] = IF i <= m THEN a[i] ELSE b[i - m]
    <3>1. Joins(S, a, b, Len(a), Len(b))
      BY <2>4, <2>5, Join
    <3> QED BY <2>4, <2>5, <3>1 DEF Joins
  <2>7. Without(s, e) = c
    BY <2>3 DEF a, b
  <2> HIDE DEF c
  <2>8. ASSUME NEW j \in 1 .. Len(s) - 1
        PROVE  c[j] = IF j < k THEN s[j] ELSE s[j + 1]
    <3>1. j \in 1 .. m + n /\ (j <= m <=> j < k)
      BY <1>0
    <3>2. j < k => j \in 1 .. k - 1
      BY <1>0
    <3>3. ~(j < k) => j - m \in 1 .. Len(s) - k /\ k + (j - m) = j + 1
      BY <1>0
    <3> HIDE DEF m, n
    <3> QED BY <2>4, <2>5, <2>6, <3>1, <3>2, <3>3
  <2>9. m + n = Len(s) - 1
    BY <1>0
  <2> QED BY <2>6, <2>7, <2>8, <2>9
<1> QED BY <1>1, <1>2

\* A chunk put in a list behind its first n chunks.
Inserted(t, s, n, p) ==
  /\ Len(t) = Len(s) + 1
  /\ \A j \in 1 .. Len(s) + 1 :
       t[j] = IF j <= n THEN s[j] ELSE IF j = n + 1 THEN p ELSE s[j - 1]

LEMMA InsertedAt ==
  ASSUME NEW S, NEW s \in Seq(S), NEW p, NEW n \in 0 .. Len(s)
  PROVE  /\ SubSeq(s, 1, n) \o <<p>> \o SubSeq(s, n + 1, Len(s)) \in Seq(S \cup {p})
         /\ Inserted(SubSeq(s, 1, n) \o <<p>> \o SubSeq(s, n + 1, Len(s)), s, n, p)
<1> DEFINE T == S \cup {p}
           a == SubSeq(s, 1, n)
           b == SubSeq(s, n + 1, Len(s))
           c == <<p>>
<1>0. Len(s) \in Nat /\ s \in Seq(T)
  BY LenProperties, SeqMonotonic
<1>1. /\ a \in Seq(T) /\ Len(a) = n
      /\ \A i \in 1 .. n : a[i] = s[i]
  BY <1>0, SubSeqProperties
<1>2. /\ b \in Seq(T) /\ Len(b) = Len(s) - n
      /\ \A i \in 1 .. Len(s) - n : b[i] = s[n + i]
  BY <1>0, SubSeqAfter
<1>3. c \in Seq(T) /\ Len(c) = 1 /\ c[1] = p
  OBVIOUS
<1> HIDE DEF a, b, c, T
<1>4. /\ a \o c \in Seq(T) /\ Len(a \o c) = n + 1
      /\ \A i \in 1 .. n + 1 : (a \o c)[i] = IF i <= n THEN a[i] ELSE c[i - n]
  <2>1. Joins(T, a, c, Len(a), Len(c))
    BY <1>1, <1>3, Join
  <2> QED BY <1>1, <1>3, <2>1 DEF Joins
<1> DEFINE d == a \o c
<1> HIDE DEF d
<1>5. /\ d \o b \in Seq(T) /\ Len(d \o b) = n + 1 + (Len(s) - n)
      /\ \A i \in 1 .. n + 1 + (Len(s) - n) :
           (d \o b)[i] = IF i <= n + 1 THEN d[i] ELSE b[i - (n + 1)]
  <2>1. d \in Seq(T) /\ Len(d) = n + 1
    BY <1>4 DEF d
  <2>2. Joins(T, d, b, Len(d), Len(b))
    BY <1>2, <2>1, Join
  <2> QED BY <1>2, <2>1, <2>2 DEF Joins
<1>6. Inserted(d \o b, s, n, p)
  <2> DEFINE e == d \o b
  <2>1. /\ Len(e) = Len(s) + 1
        /\ \A i \in 1 .. Len(s) + 1 : e[i] = IF i <= n + 1 THEN d[i] ELSE b[i - (n + 1)]
    BY <1>0, <1>5, SMTT(30)
  <2>2. \A i \in 1 .. n + 1 : d[i] = IF i <= n THEN s[i] ELSE p
    BY <1>0, <1>1, <1>3, <1>4 DEF d
  <2>3. \A i \in n + 2 .. Len(s) + 1 : b[i - (n + 1)] = s[i - 1]
    <3>1. ASSUME NEW i \in n + 2 .. Len(s) + 1 PROVE b[i - (n + 1)] = s[i - 1]
      <4>1. i - (n + 1) \in 1 .. Len(s) - n /\ n + (i - (n + 1)) = i - 1
        BY <1>0
      <4> QED BY <4>1, <1>2
    <3> QED BY <3>1
  <2> HIDE DEF e
  <2>4. Inserted(e, s, n, p)
    BY <1>0, <2>1, <2>2, <2>3 DEF Inserted
  <2> QED BY <2>4 DEF e
<1> QED BY <1>5, <1>6 DEF d, a, b, c, T

LEMMA InsertedFirst ==
  ASSUME NEW S, NEW s \in Seq(S), NEW p
  PROVE  <<p>> \o s \in Seq(S \cup {p}) /\ Inserted(<<p>> \o s, s, 0, p)
<1> DEFINE T == S \cup {p}
           c == <<p>>
<1>0. Len(s) \in Nat /\ s \in Seq(T)
  BY LenProperties, SeqMonotonic
<1>1. c \in Seq(T) /\ Len(c) = 1 /\ c[1] = p
  OBVIOUS
<1> HIDE DEF c, T
<1>2. /\ c \o s \in Seq(T) /\ Len(c \o s) = 1 + Len(s)
      /\ \A i \in 1 .. 1 + Len(s) : (c \o s)[i] = IF i <= 1 THEN c[i] ELSE s[i - 1]
  <2>1. Joins(T, c, s, Len(c), Len(s))
    BY <1>0, <1>1, Join
  <2> QED BY <1>1, <2>1 DEF Joins
<1>3. Inserted(c \o s, s, 0, p)
  BY <1>0, <1>1, <1>2 DEF Inserted
<1> QED BY <1>2, <1>3 DEF c, T

-----------------------------------------------------------------------------
(* The free lists *)

\* The chunk p has a place in the lists, and no chunk has two.
HasPlace(bins, p) == \E i \in Bins : \E k \in 1 .. Len(bins[i]) : bins[i][k] = p
OnePlace(bins) ==
  \A i, j \in Bins : \A k \in 1 .. Len(bins[i]), l \in 1 .. Len(bins[j]) :
     bins[i][k] = bins[j][l] => i = j /\ k = l
InBinOfSize(bins, size) ==
  \A i \in Bins \ {Lr} : \A k \in 1 .. Len(bins[i]) : BinIndex(size[bins[i][k]]) = i
SmallestLast(bins, size) ==
  \A i \in Bins \ {Lr} : i >= MaxSmall \div 8 =>
     \A k, l \in 1 .. Len(bins[i]) : k < l => size[bins[i][l]] <= size[bins[i][k]]
Covered(bins, marks) ==
  /\ marks \subseteq {Block(i) : i \in Bins}
  /\ \A i \in Bins \ {Lr} : bins[i] # <<>> => Block(i) \in marks

\* The lists hold the chunks of F and no others.
Lists(bins, marks, size, F) ==
  /\ bins \in [Bins -> Seq(F)]
  /\ OnePlace(bins)
  /\ \A p \in F : HasPlace(bins, p)
  /\ Len(bins[Lr]) <= 1
  /\ InBinOfSize(bins, size)
  /\ SmallestLast(bins, size)
  /\ Covered(bins, marks)

SizesFit(size, F) == \A p \in F : size[p] \in Nat /\ size[p] >= 16 /\ size[p] <= W32 \div 2

\* Lists without chunks and with one.
LEMMA ShortLists ==
  ASSUME NEW S, NEW s \in Seq(S)
  PROVE  /\ Len(s) \in Nat
         /\ Len(s) = 0 <=> s = <<>>
         /\ Len(s) = 1 => s = <<s[1]>> /\ s[1] \in S
<1>1. Len(s) \in Nat /\ (Len(s) = 0 <=> s = <<>>)
  BY LenProperties, EmptySeq
<1>2. ASSUME Len(s) = 1 PROVE s = <<s[1]>> /\ s[1] \in S
  <2>1. s[1] \in S
    BY <1>2, ElementOfSeq
  <2>2. <<s[1]>> \in Seq(S) /\ Len(<<s[1]>>) = 1 /\ <<s[1]>>[1] = s[1]
    BY <2>1
  <2>3. \A i \in 1 .. Len(s) : s[i] = <<s[1]>>[i]
    BY <1>2, <2>2
  <2> QED BY <1>2, <2>1, <2>2, <2>3, SeqEqual
<1> QED BY <1>1, <1>2

\* A sequence of other elements.
LEMMA SeqWithin ==
  ASSUME NEW S, NEW s \in Seq(S), NEW T, \A k \in 1 .. Len(s) : s[k] \in T
  PROVE  s \in Seq(T)
<1>1. Len(s) \in Nat /\ s \in [1 .. Len(s) -> S]
  BY LenProperties
<1>2. s \in [1 .. Len(s) -> T]
  BY <1>1
<1> QED BY <1>1, <1>2, SeqDef

\* What the lists are about is their chunks: facts of the types.
LEMMA ListTypes ==
  ASSUME NEW bins, NEW marks, NEW size, NEW F, Lists(bins, marks, size, F)
  PROVE  /\ \A i \in Bins :
              /\ bins[i] \in Seq(F) /\ Len(bins[i]) \in Nat
              /\ DOMAIN bins[i] = 1 .. Len(bins[i])
              /\ Distinct(bins[i])
              /\ \A k \in 1 .. Len(bins[i]) : bins[i][k] \in F
              /\ bins[i] = <<>> <=> Len(bins[i]) = 0
         /\ bins[Lr] = <<>> \/ (bins[Lr] = <<bins[Lr][1]>> /\ bins[Lr][1] \in F)
<1>1. ASSUME NEW i \in Bins
      PROVE  /\ bins[i] \in Seq(F) /\ Len(bins[i]) \in Nat
             /\ DOMAIN bins[i] = 1 .. Len(bins[i])
             /\ Distinct(bins[i])
             /\ \A k \in 1 .. Len(bins[i]) : bins[i][k] \in F
             /\ bins[i] = <<>> <=> Len(bins[i]) = 0
  <2>1. bins[i] \in Seq(F)
    BY DEF Lists
  <2>2. Distinct(bins[i])
    BY DEF Lists, OnePlace, Distinct
  <2>3. Len(bins[i]) \in Nat /\ (bins[i] = <<>> <=> Len(bins[i]) = 0)
        /\ DOMAIN bins[i] = 1 .. Len(bins[i])
    BY <2>1, ShortLists, LenProperties
  <2>4. \A k \in 1 .. Len(bins[i]) : bins[i][k] \in F
    BY <2>1, ElementOfSeq
  <2> QED BY <2>1, <2>2, <2>3, <2>4
<1>2. bins[Lr] \in Seq(F) /\ Len(bins[Lr]) <= 1 /\ Len(bins[Lr]) \in Nat
  BY <1>1, BinsIs DEF Lists
<1>3. Len(bins[Lr]) = 0 \/ Len(bins[Lr]) = 1
  <2> DEFINE n == Len(bins[Lr])
  <2>1. n \in Nat /\ n <= 1
    BY <1>2
  <2> HIDE DEF n
  <2>2. n = 0 \/ n = 1
    BY <2>1
  <2> QED BY <2>2 DEF n
<1>4. bins[Lr] = <<>> \/ (bins[Lr] = <<bins[Lr][1]>> /\ bins[Lr][1] \in F)
  BY <1>2, <1>3, ShortLists
<1> QED BY <1>1, <1>4

\* The lists of an empty heap.
LEMMA ListsEmpty ==
  ASSUME NEW size
  PROVE  Lists([i \in Bins |-> <<>>], {}, size, {})
BY BinsIs, EmptySeq DEF Lists, OnePlace, HasPlace, InBinOfSize, SmallestLast, Covered

\* The sizes of other chunks do not matter to the lists.
LEMMA ListsAgree ==
  ASSUME NEW bins, NEW marks, NEW size, NEW F, Lists(bins, marks, size, F),
         NEW size2, \A p \in F : size2[p] = size[p]
  PROVE  Lists(bins, marks, size2, F)
<1>1. \A i \in Bins : \A k \in 1 .. Len(bins[i]) : size2[bins[i][k]] = size[bins[i][k]]
  BY ListTypes
<1>2. InBinOfSize(bins, size2)
  BY <1>1 DEF Lists, InBinOfSize
<1>3. SmallestLast(bins, size2)
  BY <1>1 DEF Lists, SmallestLast
<1> QED BY <1>2, <1>3 DEF Lists

\* unlink: the chunk leaves its list, the others stay where they are.
LEMMA ListsUnlink ==
  ASSUME NEW bins, NEW marks, NEW size, NEW F, Lists(bins, marks, size, F), NEW p \in F
  PROVE  /\ Lists([i \in Bins |-> Without(bins[i], p)], marks, size, F \ {p})
         /\ Without(bins[Lr], p) = IF bins[Lr] = <<p>> THEN <<>> ELSE bins[Lr]
<1> DEFINE c == [i \in Bins |-> Without(bins[i], p)]
           G == F \ {p}
<1>0. PICK i0 \in Bins : \E k \in 1 .. Len(bins[i0]) : bins[i0][k] = p
  BY DEF Lists, HasPlace
<1>1. PICK k0 \in 1 .. Len(bins[i0]) : bins[i0][k0] = p
  BY <1>0
<1> DEFINE old(i, j) == IF i = i0 /\ j >= k0 THEN j + 1 ELSE j
<1>2. \A i \in Bins : i # i0 => ~\E k \in 1 .. Len(bins[i]) : bins[i][k] = p
  BY <1>1 DEF Lists, OnePlace
<1>3. \A i \in Bins : i # i0 => c[i] = bins[i]
  <2>1. ASSUME NEW i \in Bins, i # i0 PROVE Without(bins[i], p) = bins[i]
    BY <2>1, <1>2, ListTypes, WithoutIs
  <2> QED BY <2>1
<1>4. /\ c[i0] \in Seq(F) /\ Len(c[i0]) = Len(bins[i0]) - 1
      /\ \A j \in 1 .. Len(bins[i0]) - 1 :
           c[i0][j] = IF j < k0 THEN bins[i0][j] ELSE bins[i0][j + 1]
  BY <1>1, ListTypes, WithoutIs
<1>5. \A i \in Bins : c[i] \in Seq(F) /\ Len(c[i]) \in Nat /\ Len(bins[i]) \in Nat
  BY <1>3, <1>4, ListTypes, LenProperties
<1>6. \A i \in Bins : \A j \in 1 .. Len(c[i]) :
        /\ old(i, j) \in 1 .. Len(bins[i])
        /\ c[i][j] = bins[i][old(i, j)]
        /\ i = i0 => old(i, j) # k0
  BY <1>3, <1>4, <1>5
<1>7. \A i \in Bins : \A j, l \in 1 .. Len(c[i]) :
        /\ old(i, j) = old(i, l) => j = l
        /\ j < l => old(i, j) < old(i, l)
  BY <1>5
<1>8. \A i \in Bins : \A k \in 1 .. Len(bins[i]) :
        i # i0 \/ k # k0 => \E j \in 1 .. Len(c[i]) : old(i, j) = k
  <2>1. ASSUME NEW i \in Bins, NEW k \in 1 .. Len(bins[i]), i # i0 \/ k # k0
        PROVE  \E j \in 1 .. Len(c[i]) : old(i, j) = k
    <3>1. CASE i # i0
      BY <3>1, <1>3
    <3>2. CASE i = i0 /\ k < k0
      <4>1. k \in 1 .. Len(c[i]) /\ old(i, k) = k
        BY <3>2, <1>4, <1>5
      <4> QED BY <4>1
    <3>3. CASE i = i0 /\ k > k0
      <4>1. k - 1 \in 1 .. Len(c[i]) /\ old(i, k - 1) = k
        BY <3>3, <1>1, <1>4, <1>5
      <4> QED BY <4>1
    <3> QED BY <2>1, <3>1, <3>2, <3>3, <1>1, <1>5
  <2> QED BY <2>1
<1>9. \A i \in Bins : \A j \in 1 .. Len(c[i]) : c[i][j] \in G
  <2>1. ASSUME NEW i \in Bins, NEW j \in 1 .. Len(c[i]) PROVE c[i][j] \in G
    <3>1. old(i, j) \in 1 .. Len(bins[i]) /\ c[i][j] = bins[i][old(i, j)]
          /\ (i = i0 => old(i, j) # k0)
      BY <1>6
    <3>2. bins[i][old(i, j)] \in F
      BY <3>1, ListTypes
    <3>3. bins[i][old(i, j)] # p
      BY <3>1, <1>1 DEF Lists, OnePlace
    <3> QED BY <3>1, <3>2, <3>3
  <2> QED BY <2>1
<1>10. c \in [Bins -> Seq(G)]
  <2>1. ASSUME NEW i \in Bins PROVE c[i] \in Seq(G)
    <3>1. c[i] \in Seq(F) /\ \A j \in 1 .. Len(c[i]) : c[i][j] \in G
      BY <1>5, <1>9
    <3> HIDE DEF c, G
    <3> QED BY <3>1, SeqWithin
  <2> QED BY <2>1
<1> HIDE DEF c
<1>11. OnePlace(c)
  <2>1. ASSUME NEW i \in Bins, NEW j \in Bins, NEW k \in 1 .. Len(c[i]),
               NEW l \in 1 .. Len(c[j]), c[i][k] = c[j][l]
        PROVE  i = j /\ k = l
    <3>1. bins[i][old(i, k)] = bins[j][old(j, l)]
      BY <2>1, <1>6
    <3>2. i = j /\ old(i, k) = old(j, l)
      BY <3>1, <1>6 DEF Lists, OnePlace
    <3> QED BY <3>2, <1>7
  <2> QED BY <2>1 DEF OnePlace
<1>12. \A q \in G : HasPlace(c, q)
  <2>1. ASSUME NEW q \in G PROVE HasPlace(c, q)
    <3>0. PICK i \in Bins : \E k \in 1 .. Len(bins[i]) : bins[i][k] = q
      BY DEF Lists, HasPlace
    <3>1. PICK k \in 1 .. Len(bins[i]) : bins[i][k] = q
      BY <3>0
    <3>2. i # i0 \/ k # k0
      BY <3>1, <1>1
    <3>3. PICK j \in 1 .. Len(c[i]) : old(i, j) = k
      BY <3>2, <1>8
    <3>4. c[i][j] = q
      BY <3>1, <3>3, <1>6
    <3> QED BY <3>4 DEF HasPlace
  <2> QED BY <2>1
<1>13. c[Lr] = IF bins[Lr] = <<p>> THEN <<>> ELSE bins[Lr]
  <2>1. CASE i0 = Lr
    <3>0. k0 \in 1 .. Len(bins[Lr]) /\ Len(bins[Lr]) <= 1 /\ Len(bins[Lr]) \in Nat
          /\ bins[Lr][k0] = p /\ bins[Lr] \in Seq(F)
      BY <2>1, <1>1, <1>5, BinsIs DEF Lists
    <3> DEFINE n == Len(bins[Lr])
    <3>1. bins[Lr] = <<p>> /\ Len(c[Lr]) = 0
      <4>1. n \in Nat /\ n <= 1 /\ k0 \in 1 .. n
        BY <3>0
      <4> HIDE DEF n
      <4>2. n = 1 /\ k0 = 1
        BY <4>1
      <4>3. bins[Lr] = <<bins[Lr][1]>>
        BY <3>0, <4>2, ShortLists DEF n
      <4>4. Len(c[Lr]) = n - 1
        BY <2>1, <1>4 DEF n
      <4> QED BY <3>0, <4>2, <4>3, <4>4
    <3>2. c[Lr] = <<>>
      BY <3>1, <1>5, BinsIs, ShortLists
    <3> QED BY <3>1, <3>2
  <2>2. CASE i0 # Lr
    <3>1. c[Lr] = bins[Lr]
      BY <2>2, <1>3, BinsIs
    <3>2. bins[Lr] # <<p>>
      BY <2>2, <1>2, BinsIs
    <3> QED BY <3>1, <3>2
  <2> QED BY <2>1, <2>2
<1>14. Len(c[Lr]) <= 1
  BY <1>13, EmptySeq DEF Lists
<1>15. InBinOfSize(c, size)
  BY <1>6, SMTT(40) DEF Lists, InBinOfSize
<1>16. SmallestLast(c, size)
  <2>1. ASSUME NEW i \in Bins \ {Lr}, i >= MaxSmall \div 8,
               NEW k \in 1 .. Len(c[i]), NEW l \in 1 .. Len(c[i]), k < l
        PROVE  size[c[i][l]] <= size[c[i][k]]
    <3>1. old(i, k) < old(i, l)
      BY <2>1, <1>7
    <3>2. old(i, k) \in 1 .. Len(bins[i]) /\ old(i, l) \in 1 .. Len(bins[i])
          /\ c[i][k] = bins[i][old(i, k)] /\ c[i][l] = bins[i][old(i, l)]
      BY <1>6
    <3> HIDE DEF old
    <3> QED BY <2>1, <3>1, <3>2 DEF Lists, SmallestLast
  <2> QED BY <2>1 DEF SmallestLast
<1>17. Covered(c, marks)
  <2>1. ASSUME NEW i \in Bins \ {Lr}, c[i] # <<>> PROVE bins[i] # <<>>
    <3>1. Len(c[i]) # 0
      BY <2>1, <1>5, ShortLists
    <3>2. 1 \in 1 .. Len(c[i])
      BY <3>1, <1>5
    <3>3. old(i, 1) \in 1 .. Len(bins[i])
      BY <3>2, <1>6
    <3> HIDE DEF old
    <3> QED BY <3>3, ListTypes
  <2> QED BY <2>1 DEF Lists, Covered
<1>18. Lists(c, marks, size, G)
  BY <1>10, <1>11, <1>12, <1>14, <1>15, <1>16, <1>17 DEF Lists
<1> QED BY <1>13, <1>18, BinsIs DEF c

\* A chunk is put in the list i behind the first n chunks of it, where it keeps
\* the order, and the block of the list is marked.
GoesIn(bins, size, F, p, i, t, n) ==
  /\ p \notin F /\ i \in Bins \ {Lr} /\ BinIndex(size[p]) = i
  /\ n \in 0 .. Len(bins[i]) /\ t \in Seq(F \cup {p}) /\ Inserted(t, bins[i], n, p)
  /\ i >= MaxSmall \div 8 => \A j \in 1 .. Len(bins[i]) :
       IF j <= n THEN size[p] <= size[bins[i][j]] ELSE size[bins[i][j]] <= size[p]

LEMMA ListsInsert ==
  ASSUME NEW bins, NEW marks, NEW size, NEW F, Lists(bins, marks, size, F),
         NEW p, NEW i0, NEW t, NEW n, GoesIn(bins, size, F, p, i0, t, n),
         NEW marks2, marks2 = marks \/ marks2 = marks \cup {Block(i0)}, Block(i0) \in marks2
  PROVE  Lists([bins EXCEPT ![i0] = t], marks2, size, F \cup {p})
<1> DEFINE c == [bins EXCEPT ![i0] = t]
           G == F \cup {p}
           m == Len(bins[i0])
           old(i, j) == IF i = i0 /\ j > n THEN j - 1 ELSE j
           new(i, j) == i = i0 /\ j = n + 1
<1>1. /\ p \notin F /\ i0 \in Bins \ {Lr} /\ BinIndex(size[p]) = i0
      /\ n \in 0 .. m /\ t \in Seq(G) /\ m \in Nat
      /\ Len(t) = m + 1
      /\ \A j \in 1 .. m + 1 :
           t[j] = IF j <= n THEN bins[i0][j] ELSE IF j = n + 1 THEN p ELSE bins[i0][j - 1]
  BY ListTypes DEF GoesIn, Inserted
<1>2. \A i \in Bins : c[i] = IF i = i0 THEN t ELSE bins[i]
  BY DEF Lists
<1>3. \A i \in Bins : c[i] \in Seq(G) /\ Len(c[i]) \in Nat /\ Len(bins[i]) \in Nat
  <2>1. ASSUME NEW i \in Bins PROVE bins[i] \in Seq(G) /\ Len(bins[i]) \in Nat
    BY ListTypes, SeqMonotonic
  <2>2. Len(t) \in Nat
    BY <1>1
  <2> QED BY <1>1, <1>2, <2>1, <2>2
<1>4. c \in [Bins -> Seq(G)]
  <2>1. DOMAIN c = Bins /\ c = [i \in Bins |-> c[i]]
    BY DEF Lists
  <2> HIDE DEF c
  <2> QED BY <1>3, <2>1
<1> HIDE DEF c
<1>5. \A i \in Bins : \A j \in 1 .. Len(c[i]) :
        IF new(i, j) THEN c[i][j] = p
        ELSE old(i, j) \in 1 .. Len(bins[i]) /\ c[i][j] = bins[i][old(i, j)]
  <2>1. ASSUME NEW i \in Bins, NEW j \in 1 .. Len(c[i])
        PROVE  IF new(i, j) THEN c[i][j] = p
               ELSE old(i, j) \in 1 .. Len(bins[i]) /\ c[i][j] = bins[i][old(i, j)]
    <3>1. CASE i # i0
      BY <3>1, <1>2
    <3>2. CASE i = i0
      <4>1. j \in 1 .. m + 1 /\ c[i] = t
        BY <3>2, <1>1, <1>2
      <4>2. CASE j = n + 1
        BY <4>1, <4>2, <3>2, <1>1
      <4>3. CASE j <= n
        BY <4>1, <4>3, <3>2, <1>1
      <4>4. CASE j > n + 1
        BY <4>1, <4>4, <3>2, <1>1
      <4> QED BY <4>1, <4>2, <4>3, <4>4, <1>1
    <3> QED BY <3>1, <3>2
  <2> QED BY <2>1
<1>6. \A i \in Bins : \A j, l \in 1 .. Len(c[i]) :
        ~new(i, j) /\ ~new(i, l) =>
          /\ old(i, j) = old(i, l) => j = l
          /\ j < l => old(i, j) < old(i, l)
  BY <1>1, <1>3
<1>7. \A i \in Bins : \A k \in 1 .. Len(bins[i]) :
        \E j \in 1 .. Len(c[i]) : ~new(i, j) /\ old(i, j) = k
  <2>1. ASSUME NEW i \in Bins, NEW k \in 1 .. Len(bins[i])
        PROVE  \E j \in 1 .. Len(c[i]) : ~new(i, j) /\ old(i, j) = k
    <3>1. CASE i # i0
      BY <3>1, <1>2
    <3>2. CASE i = i0 /\ k <= n
      <4>1. k \in 1 .. Len(c[i]) /\ ~new(i, k) /\ old(i, k) = k
        BY <3>2, <1>1, <1>2, <1>3
      <4> QED BY <4>1
    <3>3. CASE i = i0 /\ k > n
      <4>1. k + 1 \in 1 .. Len(c[i]) /\ ~new(i, k + 1) /\ old(i, k + 1) = k
        BY <3>3, <1>1, <1>2, <1>3
      <4> QED BY <4>1
    <3> QED BY <3>1, <3>2, <3>3, <1>1, <1>3
  <2> QED BY <2>1
<1>8. \A i \in Bins : \A j \in 1 .. Len(c[i]) :
        ~new(i, j) => c[i][j] \in F /\ c[i][j] # p
  <2>1. ASSUME NEW i \in Bins, NEW j \in 1 .. Len(c[i]), ~new(i, j)
        PROVE  c[i][j] \in F /\ c[i][j] # p
    <3>1. old(i, j) \in 1 .. Len(bins[i]) /\ c[i][j] = bins[i][old(i, j)]
      BY <2>1, <1>5
    <3> HIDE DEF old
    <3>2. bins[i][old(i, j)] \in F
      BY <3>1, ListTypes
    <3> QED BY <3>1, <3>2, <1>1
  <2> QED BY <2>1
<1>9. \A i \in Bins : \A j \in 1 .. Len(c[i]) : new(i, j) => i = i0 /\ j = n + 1
  OBVIOUS
<1>10. n + 1 \in 1 .. Len(c[i0]) /\ new(i0, n + 1)
  BY <1>1, <1>2
<1> HIDE DEF old, new
<1>11. OnePlace(c)
  <2>1. ASSUME NEW i \in Bins, NEW j \in Bins, NEW k \in 1 .. Len(c[i]),
               NEW l \in 1 .. Len(c[j]), c[i][k] = c[j][l]
        PROVE  i = j /\ k = l
    <3>1. CASE new(i, k) \/ new(j, l)
      BY <3>1, <2>1, <1>5, <1>8, <1>9
    <3>2. CASE ~new(i, k) /\ ~new(j, l)
      <4>1. /\ old(i, k) \in 1 .. Len(bins[i]) /\ old(j, l) \in 1 .. Len(bins[j])
            /\ bins[i][old(i, k)] = bins[j][old(j, l)]
        BY <3>2, <2>1, <1>5
      <4>2. i = j /\ old(i, k) = old(j, l)
        BY <4>1 DEF Lists, OnePlace
      <4> QED BY <3>2, <4>2, <1>6
    <3> QED BY <3>1, <3>2
  <2> QED BY <2>1 DEF OnePlace
<1>12. \A q \in G : HasPlace(c, q)
  <2>1. ASSUME NEW q \in F PROVE HasPlace(c, q)
    <3>0. PICK i \in Bins : \E k \in 1 .. Len(bins[i]) : bins[i][k] = q
      BY DEF Lists, HasPlace
    <3>1. PICK k \in 1 .. Len(bins[i]) : bins[i][k] = q
      BY <3>0
    <3>2. PICK j \in 1 .. Len(c[i]) : ~new(i, j) /\ old(i, j) = k
      BY <1>7
    <3>3. c[i][j] = q
      BY <3>1, <3>2, <1>5
    <3> QED BY <3>3 DEF HasPlace
  <2>2. HasPlace(c, p)
    BY <1>1, <1>5, <1>10 DEF HasPlace
  <2> QED BY <2>1, <2>2
<1>13. Len(c[Lr]) <= 1
  BY <1>1, <1>2, BinsIs DEF Lists
<1>14. InBinOfSize(c, size)
  <2>1. ASSUME NEW i \in Bins \ {Lr}, NEW k \in 1 .. Len(c[i])
        PROVE  BinIndex(size[c[i][k]]) = i
    <3>1. CASE new(i, k)
      BY <3>1, <1>1, <1>5, <1>9
    <3>2. CASE ~new(i, k)
      BY <3>2, <1>5 DEF Lists, InBinOfSize
    <3> QED BY <3>1, <3>2
  <2> QED BY <2>1 DEF InBinOfSize
<1>15. SmallestLast(c, size)
  <2>1. ASSUME NEW i \in Bins \ {Lr}, i >= MaxSmall \div 8,
               NEW k \in 1 .. Len(c[i]), NEW l \in 1 .. Len(c[i]), k < l
        PROVE  size[c[i][l]] <= size[c[i][k]]
    <3>0. /\ i = i0 => \A j \in 1 .. m :
               IF j <= n THEN size[p] <= size[bins[i][j]] ELSE size[bins[i][j]] <= size[p]
          /\ k \in Int /\ l \in Int /\ n \in Int /\ m \in Nat
      BY <2>1, <1>1 DEF GoesIn
    <3>1. CASE ~new(i, k) /\ ~new(i, l)
      <4>1. old(i, k) < old(i, l)
        BY <3>1, <2>1, <1>6
      <4>2. old(i, k) \in 1 .. Len(bins[i]) /\ old(i, l) \in 1 .. Len(bins[i])
            /\ c[i][k] = bins[i][old(i, k)] /\ c[i][l] = bins[i][old(i, l)]
        BY <3>1, <1>5
      <4> QED BY <2>1, <4>1, <4>2 DEF Lists, SmallestLast
    <3>2. CASE new(i, k)
      <4>1. i = i0 /\ k = n + 1 /\ ~new(i, l) /\ c[i][k] = p
        BY <3>2, <2>1, <3>0, <1>5 DEF new
      <4>2. old(i, l) \in 1 .. m /\ ~(old(i, l) <= n) /\ c[i][l] = bins[i][old(i, l)]
        BY <4>1, <2>1, <3>0, <1>5 DEF old
      <4> QED BY <4>1, <4>2, <3>0
    <3>3. CASE new(i, l)
      <4>1. i = i0 /\ l = n + 1 /\ ~new(i, k) /\ c[i][l] = p
        BY <3>3, <2>1, <3>0, <1>5 DEF new
      <4>2. old(i, k) \in 1 .. m /\ old(i, k) <= n /\ c[i][k] = bins[i][old(i, k)]
        BY <4>1, <2>1, <3>0, <1>5 DEF old
      <4> QED BY <4>1, <4>2, <3>0
    <3> QED BY <3>1, <3>2, <3>3
  <2> QED BY <2>1 DEF SmallestLast
<1>16. Covered(c, marks2)
  <2>1. marks2 \subseteq {Block(i) : i \in Bins}
    BY <1>1 DEF Lists, Covered
  <2>2. ASSUME NEW i \in Bins \ {Lr}, c[i] # <<>> PROVE Block(i) \in marks2
    BY <2>2, <1>2 DEF Lists, Covered
  <2> QED BY <2>1, <2>2 DEF Covered
<1> QED BY <1>4, <1>11, <1>12, <1>13, <1>14, <1>15, <1>16 DEF Lists, c

\* The list of the last remainder gets its only chunk.
LEMMA ListsSetLr ==
  ASSUME NEW bins, NEW marks, NEW size, NEW F, Lists(bins, marks, size, F),
         Len(bins[Lr]) = 0, NEW p, p \notin F
  PROVE  Lists([bins EXCEPT ![Lr] = <<p>>], marks, size, F \cup {p})
<1> DEFINE one == <<p>>
           c == [bins EXCEPT ![Lr] = one]
           G == F \cup {p}
<1>2. one \in Seq(G) /\ Len(one) = 1 /\ one[1] = p
  OBVIOUS
<1> HIDE DEF one
<1>1. \A i \in Bins : c[i] = IF i = Lr THEN one ELSE bins[i]
  BY DEF Lists
<1>3. \A i \in Bins : c[i] \in Seq(G)
  <2>1. ASSUME NEW i \in Bins PROVE bins[i] \in Seq(G)
    BY ListTypes, SeqMonotonic
  <2> QED BY <1>1, <1>2, <2>1
<1>4. c \in [Bins -> Seq(G)]
  <2>1. DOMAIN c = Bins /\ c = [i \in Bins |-> c[i]]
    BY DEF Lists
  <2> HIDE DEF c
  <2> QED BY <1>3, <2>1
<1> HIDE DEF c
<1>5. \A i \in Bins : \A k \in 1 .. Len(c[i]) :
        IF i = Lr THEN k = 1 /\ c[i][k] = p
        ELSE k \in 1 .. Len(bins[i]) /\ c[i][k] = bins[i][k] /\ c[i][k] # p
  <2>1. ASSUME NEW i \in Bins, i # Lr, NEW k \in 1 .. Len(c[i])
        PROVE  k \in 1 .. Len(bins[i]) /\ c[i][k] = bins[i][k] /\ c[i][k] # p
    <3>1. c[i] = bins[i]
      BY <1>1, <2>1
    <3>2. bins[i][k] \in F
      BY <3>1, ListTypes
    <3> QED BY <3>1, <3>2
  <2>2. c[Lr] = one
    BY <1>1, BinsIs
  <2>3. \A k \in 1 .. Len(c[Lr]) : k = 1 /\ c[Lr][k] = p
    <3>1. \A k \in 1 .. Len(one) : k = 1 /\ one[k] = p
      BY <1>2
    <3> QED BY <2>2, <3>1, Zenon
  <2> QED BY <2>1, <2>3
<1>6. OnePlace(c)
  BY <1>5 DEF OnePlace, Lists
<1>7. \A q \in G : HasPlace(c, q)
  <2>1. ASSUME NEW q \in F PROVE HasPlace(c, q)
    <3>0. PICK i \in Bins : \E k \in 1 .. Len(bins[i]) : bins[i][k] = q
      BY DEF Lists, HasPlace
    <3>1. i # Lr
      BY <3>0, ListTypes
    <3> QED BY <3>0, <3>1, <1>1 DEF HasPlace
  <2>2. HasPlace(c, p)
    BY <1>1, <1>2, BinsIs DEF HasPlace
  <2> QED BY <2>1, <2>2
<1>8. Len(c[Lr]) <= 1
  <2>1. c[Lr] = one
    BY <1>1, BinsIs
  <2>2. Len(one) <= 1
    BY <1>2
  <2> QED BY <2>1, <2>2, Zenon
<1>9. InBinOfSize(c, size) /\ SmallestLast(c, size) /\ Covered(c, marks)
  BY <1>1 DEF Lists, InBinOfSize, SmallestLast, Covered
<1> QED BY <1>4, <1>6, <1>7, <1>8, <1>9 DEF Lists, c, one

\* The list of the last remainder loses its chunk.
LEMMA ListsClearLr ==
  ASSUME NEW bins, NEW marks, NEW size, NEW F, Lists(bins, marks, size, F),
         NEW p, bins[Lr] = <<p>>
  PROVE  p \in F /\ Lists([bins EXCEPT ![Lr] = <<>>], marks, size, F \ {p})
<1> DEFINE c == [bins EXCEPT ![Lr] = <<>>]
           G == F \ {p}
<1>0. p \in F
  BY ListTypes
<1>1. \A i \in Bins : c[i] = IF i = Lr THEN <<>> ELSE bins[i]
  BY DEF Lists
<1>2. Len(bins[Lr]) = 1 /\ bins[Lr][1] = p /\ Lr \in Bins
  BY BinsIs
<1>3. \A i \in Bins : i # Lr => \A k \in 1 .. Len(bins[i]) : bins[i][k] \in G
  BY <1>2, ListTypes DEF Lists, OnePlace
<1>4. \A i \in Bins : c[i] \in Seq(G)
  <2>1. ASSUME NEW i \in Bins, i # Lr PROVE bins[i] \in Seq(G)
    <3>1. bins[i] \in Seq(F) /\ \A k \in 1 .. Len(bins[i]) : bins[i][k] \in G
      BY <1>3, <2>1, ListTypes
    <3> HIDE DEF G
    <3> QED BY <3>1, SeqWithin
  <2> QED BY <1>1, <2>1, EmptySeq
<1>5. c \in [Bins -> Seq(G)]
  <2>1. DOMAIN c = Bins /\ c = [i \in Bins |-> c[i]]
    BY DEF Lists
  <2> HIDE DEF c
  <2> QED BY <1>4, <2>1
<1> HIDE DEF c
<1>6. \A i \in Bins : \A k \in 1 .. Len(c[i]) :
        i # Lr /\ k \in 1 .. Len(bins[i]) /\ c[i][k] = bins[i][k]
  BY <1>1, EmptySeq
<1>7. OnePlace(c)
  BY <1>6 DEF OnePlace, Lists
<1>8. \A q \in G : HasPlace(c, q)
  <2>1. ASSUME NEW q \in G PROVE HasPlace(c, q)
    <3>0. PICK i \in Bins : \E k \in 1 .. Len(bins[i]) : bins[i][k] = q
      BY DEF Lists, HasPlace
    <3>1. i # Lr
      BY <3>0, <1>2
    <3> QED BY <3>0, <3>1, <1>1 DEF HasPlace
  <2> QED BY <2>1
<1>9. Len(c[Lr]) <= 1
  BY <1>1, BinsIs, EmptySeq
<1>10. InBinOfSize(c, size) /\ SmallestLast(c, size) /\ Covered(c, marks)
  BY <1>1 DEF Lists, InBinOfSize, SmallestLast, Covered
<1> QED BY <1>0, <1>5, <1>7, <1>8, <1>9, <1>10 DEF Lists, c

\* frontlink: the chunk goes in the list of its size.
LEMMA ListsFrontlink ==
  ASSUME NEW h, NEW F, Lists(h.bins, h.marks, h.size, F),
         NEW p, p \notin F, SizesFit(h.size, F \cup {p}), NEW s, s = h.size[p]
  PROVE  /\ Lists(Linked(h, p, s), Marked(h, s), h.size, F \cup {p})
         /\ Linked(h, p, s)[Lr] = h.bins[Lr]
<1> DEFINE i == BinIndex(s)
           lst == h.bins[i]
           A == {j \in DOMAIN lst : s < h.size[lst[j]]}
           n == Cardinality(A)
           big == SubSeq(lst, 1, n) \o <<p>> \o SubSeq(lst, n + 1, Len(lst))
           low == <<p>> \o lst
<1>1. s \in Nat /\ s >= 16 /\ s <= W32 \div 2
  BY DEF SizesFit
<1>2. i \in Bins \ {Lr} /\ i \in Nat
  <2>1. i \in Bins /\ i # Lr /\ Bins \subseteq Nat
    BY <1>1, BinsIs
  <2> QED BY <2>1
<1>3. /\ lst \in Seq(F) /\ Len(lst) \in Nat /\ DOMAIN lst = 1 .. Len(lst)
      /\ \A j \in 1 .. Len(lst) : lst[j] \in F
  BY <1>2, ListTypes
<1>4. s < MaxSmall <=> i < MaxSmall \div 8
  <2>1. s >= MaxSmall => (s - MaxSmall) \div LargeWidth \in Nat
    <3>1. s >= MaxSmall => s - MaxSmall \in Nat
      BY <1>1, Constants
    <3> QED BY <3>1, Constants, Divide
  <2>2. i = IF s < MaxSmall THEN s \div 8 ELSE MaxSmall \div 8 + (s - MaxSmall) \div LargeWidth
    BY DEF BinIndex
  <2> DEFINE x == (s - MaxSmall) \div LargeWidth
  <2> HIDE DEF x, i
  <2>3. i = IF s < MaxSmall THEN s \div 8 ELSE MaxSmall \div 8 + x
    BY <2>2 DEF x
  <2>4. s >= MaxSmall => x \in Nat
    BY <2>1 DEF x
  <2> QED BY <1>1, <2>3, <2>4, Constants
<1> HIDE DEF i
<1>5. ASSUME NEW t, NEW k, k \in 0 .. Len(lst), t \in Seq(F \cup {p}), Inserted(t, lst, k, p),
             i >= MaxSmall \div 8 => \A j \in 1 .. Len(lst) :
               IF j <= k THEN s <= h.size[lst[j]] ELSE h.size[lst[j]] <= s
      PROVE  Lists([h.bins EXCEPT ![i] = t], Marked(h, s), h.size, F \cup {p})
  <2>1. GoesIn(h.bins, h.size, F, p, i, t, k)
    BY <1>2, <1>5 DEF GoesIn, i
  <2>2. Marked(h, s) = h.marks \/ Marked(h, s) = h.marks \cup {Block(i)}
    BY DEF Marked, i
  <2>3. Block(i) \in Marked(h, s)
    <3>1. s < MaxSmall \/ lst = <<>> => Block(i) \in Marked(h, s)
      BY DEF Marked, i
    <3>2. lst # <<>> => Block(i) \in h.marks
      BY <1>2 DEF Lists, Covered
    <3> QED BY <2>2, <3>1, <3>2
  <2> QED BY <2>1, <2>2, <2>3, ListsInsert
<1>6. CASE s < MaxSmall
  <2>1. low \in Seq(F \cup {p}) /\ Inserted(low, lst, 0, p)
    BY <1>3, InsertedFirst
  <2>2. ~(i >= MaxSmall \div 8)
    BY <1>2, <1>4, <1>6, Constants
  <2>3. 0 \in 0 .. Len(lst)
    BY <1>3
  <2>4. Lists([h.bins EXCEPT ![i] = low], Marked(h, s), h.size, F \cup {p})
    BY <1>5, <2>1, <2>2, <2>3
  <2>5. Linked(h, p, s) = [h.bins EXCEPT ![i] = low]
    BY <1>6 DEF Linked, i
  <2>6. [h.bins EXCEPT ![i] = low][Lr] = h.bins[Lr]
    BY <1>2
  <2> QED BY <2>4, <2>5, <2>6
<1>7. CASE ~(s < MaxSmall)
  <2>1. i >= MaxSmall \div 8
    BY <1>2, <1>4, <1>7, Constants
  <2>2. A \subseteq 1 .. Len(lst)
    BY <1>3
  <2>3. \A j \in 1 .. Len(lst) : h.size[lst[j]] \in Nat
    BY <1>3 DEF SizesFit
  <2>4. \A j \in A : \A k \in 1 .. Len(lst) : k < j => k \in A
    <3>1. ASSUME NEW j \in A, NEW k \in 1 .. Len(lst), k < j PROVE s < h.size[lst[k]]
      <4>1. h.size[lst[j]] <= h.size[lst[k]]
        BY <3>1, <2>1, <2>2, <1>2 DEF Lists, SmallestLast
      <4>2. s < h.size[lst[j]] /\ j \in 1 .. Len(lst)
        BY <2>2
      <4> DEFINE x == h.size[lst[j]]
                 y == h.size[lst[k]]
      <4>3. s < x /\ x <= y /\ x \in Nat /\ y \in Nat
        BY <4>1, <4>2, <2>3
      <4> HIDE DEF x, y
      <4>4. s < y
        BY <4>3, <1>1
      <4> QED BY <4>4 DEF y
    <3> QED BY <3>1, <1>3
  <2>5. n \in 0 .. Len(lst) /\ A = 1 .. n
    <3> HIDE DEF A
    <3> QED BY <1>3, <2>2, <2>4, Prefix
  <2>6. \A j \in 1 .. Len(lst) : j \in A <=> s < h.size[lst[j]]
    BY <1>3
  <2> HIDE DEF A, n
  <2>7. \A j \in 1 .. Len(lst) : IF j <= n THEN s <= h.size[lst[j]] ELSE h.size[lst[j]] <= s
    BY <2>3, <2>5, <2>6, <1>1, SMTT(30)
  <2>8. big \in Seq(F \cup {p}) /\ Inserted(big, lst, n, p)
    BY <1>3, <2>5, InsertedAt
  <2> HIDE DEF big
  <2>9. Lists([h.bins EXCEPT ![i] = big], Marked(h, s), h.size, F \cup {p})
    BY <1>5, <2>5, <2>7, <2>8
  <2>10. Linked(h, p, s) = [h.bins EXCEPT ![i] = big]
    BY <1>7 DEF Linked, i, big, n, A
  <2>11. [h.bins EXCEPT ![i] = big][Lr] = h.bins[Lr]
    BY <1>2
  <2> QED BY <2>9, <2>10, <2>11
<1> QED BY <1>6, <1>7

\* When there is no last remainder, a free chunk is in the list of its size.
LEMMA ListOfSize ==
  ASSUME NEW bins, NEW marks, NEW size, NEW F, Lists(bins, marks, size, F),
         NEW p \in F, bins[Lr] # <<p>>
  PROVE  \E k \in 1 .. Len(bins[BinIndex(size[p])]) : bins[BinIndex(size[p])][k] = p
<1>0. PICK i \in Bins : \E k \in 1 .. Len(bins[i]) : bins[i][k] = p
  BY DEF Lists, HasPlace
<1>1. PICK k \in 1 .. Len(bins[i]) : bins[i][k] = p
  BY <1>0
<1>2. ASSUME i = Lr PROVE FALSE
  <2>1. bins[Lr] \in Seq(F) /\ Len(bins[Lr]) \in Nat /\ Len(bins[Lr]) <= 1
        /\ k \in 1 .. Len(bins[Lr]) /\ bins[Lr][k] = p
    BY <1>1, <1>2, ListTypes DEF Lists
  <2> DEFINE n == Len(bins[Lr])
  <2>2. n \in Nat /\ n <= 1 /\ k \in 1 .. n
    BY <2>1
  <2> HIDE DEF n
  <2>3. n = 1 /\ k = 1
    BY <2>2
  <2>4. bins[Lr] = <<bins[Lr][1]>>
    BY <2>1, <2>3, ShortLists DEF n
  <2> QED BY <2>1, <2>3, <2>4
<1>3. BinIndex(size[p]) = i
  BY <1>1, <1>2 DEF Lists, InBinOfSize
<1> QED BY <1>1, <1>3

-----------------------------------------------------------------------------
(* Chunks side by side *)

\* The chunks of C lie side by side from the first one to the break, the top
\* chunk last.
Chain(C, size, first, top, pos) ==
  /\ C \subseteq Start .. End /\ first \in C /\ top \in C
  /\ pos \in Start .. End /\ top + size[top] = pos
  /\ \A p \in C : /\ size[p] \in Nat /\ size[p] >= 16 /\ size[p] % 8 = 0
                  /\ p % 8 = 0 /\ first <= p /\ p <= top
  /\ \A p \in C \ {top} : p + size[p] \in C
  /\ \A p \in C \ {first} : \E q \in C \ {top} : q + size[q] = p
  /\ \A p, q \in C : p < q => p + size[p] <= q

\* The tags tell which chunks are free: never two neighbours, nor the one in
\* front of the first or of the top chunk, and the foot of each leads to it.
Tags(C, size, pin, foot, first, top) ==
  /\ \A p \in C : pin[p] \in BOOLEAN
  /\ pin[first] = TRUE /\ pin[top] = TRUE
  /\ \A a \in C : pin[a] = FALSE =>
       /\ pin[a + size[a]] = TRUE
       /\ a \in DOMAIN foot /\ foot[a] \in Nat /\ a - foot[a] \in C \ {top}
       /\ size[a - foot[a]] = foot[a]

FreeIn(C, size, pin, top) == {p \in C \ {top} : pin[p + size[p]] = FALSE}
UsedIn(C, size, pin, top) == {p \in C \ {top} : pin[p + size[p]] = TRUE}

\* Facts of one chunk.
LEMMA ChainTypes ==
  ASSUME NEW C, NEW size, NEW first, NEW top, NEW pos, Chain(C, size, first, top, pos)
  PROVE  /\ pos \in Nat /\ pos >= Start /\ pos <= End /\ pos % 8 = 0
         /\ first \in C /\ top \in C /\ top + size[top] = pos /\ top < pos
         /\ \A p \in C :
              /\ p \in Nat /\ p >= Start /\ p <= End /\ p % 8 = 0
              /\ size[p] \in Nat /\ size[p] >= 16 /\ size[p] % 8 = 0 /\ size[p] <= End
              /\ p + size[p] \in Nat /\ p + size[p] <= pos /\ p < p + size[p]
              /\ p # top => p < top /\ p + size[p] <= top /\ p + size[p] \in C
         /\ \A p, q \in C : p < q => p + size[p] <= q
<1>1. /\ pos \in Nat /\ pos >= Start /\ pos <= End
      /\ first \in C /\ top \in C /\ top + size[top] = pos
  BY Constants DEF Chain
<1>2. ASSUME NEW p \in C
      PROVE  /\ p \in Nat /\ p >= Start /\ p <= End /\ p % 8 = 0 /\ p <= top
             /\ size[p] \in Nat /\ size[p] >= 16 /\ size[p] % 8 = 0
  BY Constants DEF Chain
<1>3. pos % 8 = 0 /\ top < pos
  BY <1>1, <1>2
<1>4. \A p, q \in C : p < q => p + size[p] <= q
  BY DEF Chain
<1>5. ASSUME NEW p \in C
      PROVE  /\ size[p] <= End
             /\ p + size[p] \in Nat /\ p + size[p] <= pos /\ p < p + size[p]
             /\ p # top => p < top /\ p + size[p] <= top /\ p + size[p] \in C
  <2>1. p # top => p < top /\ p + size[p] <= top
    BY <1>1, <1>2, <1>4
  <2>2. p # top => p + size[p] \in C
    BY DEF Chain
  <2>3. p + size[p] \in Nat /\ p < p + size[p]
    BY <1>2
  <2>4. p + size[p] <= pos
    BY <1>1, <1>2, <1>3, <2>1, <2>3
  <2>5. size[p] <= End
    BY <1>1, <1>2, <2>4, Constants
  <2> QED BY <2>1, <2>2, <2>3, <2>4, <2>5
<1> QED BY <1>1, <1>2, <1>3, <1>4, <1>5

\* A chunk is cut in two.
CutSizes(C, size, p, lead, size2) ==
  /\ size2[p] = lead /\ size2[p + lead] = size[p] - lead
  /\ \A x \in C : x # p => size2[x] = size[x]

LEMMA ChainSplit ==
  ASSUME NEW C, NEW size, NEW first, NEW top, NEW pos, Chain(C, size, first, top, pos),
         NEW p \in C, NEW lead \in Nat, lead >= 16, lead % 8 = 0, size[p] - lead >= 16,
         NEW size2, CutSizes(C, size, p, lead, size2)
  PROVE  /\ Chain(C \cup {p + lead}, size2, first, IF p = top THEN p + lead ELSE top, pos)
         /\ p + lead \notin C
<1> DEFINE r == p + lead
           D == C \cup {r}
           top2 == IF p = top THEN r ELSE top
<1>1. /\ pos \in Nat /\ pos >= Start /\ pos <= End /\ pos % 8 = 0
      /\ first \in C /\ top \in C /\ top + size[top] = pos /\ top < pos
      /\ \A x \in C :
              /\ x \in Nat /\ x >= Start /\ x <= End /\ x % 8 = 0
              /\ size[x] \in Nat /\ size[x] >= 16 /\ size[x] % 8 = 0 /\ size[x] <= End
              /\ x + size[x] \in Nat /\ x + size[x] <= pos /\ x < x + size[x]
              /\ x # top => x < top /\ x + size[x] <= top /\ x + size[x] \in C
      /\ \A x, q \in C : x < q => x + size[x] <= q
  BY ChainTypes
<1>2. r \in Nat /\ r % 8 = 0 /\ p < r /\ r < p + size[p] /\ r >= Start /\ r <= End
  BY <1>1, Constants
<1>3. r \notin C
  BY <1>1, <1>2
<1>4. /\ size2[p] = lead /\ size2[r] = size[p] - lead
      /\ \A x \in C : x # p => size2[x] = size[x]
  BY DEF CutSizes
<1>5. r + size2[r] = p + size[p]
  BY <1>1, <1>2, <1>4
<1>6. size2[r] \in Nat /\ size2[r] % 8 = 0 /\ size2[r] >= 16
  BY <1>1, <1>4
<1> HIDE DEF r
<1>7. D \subseteq Start .. End /\ first \in D /\ top2 \in D
  BY <1>1, <1>2, Constants
<1>8. pos \in Start .. End /\ top2 + size2[top2] = pos
  BY <1>1, <1>4, <1>5, Constants
<1>9. ASSUME NEW x \in D
      PROVE  /\ size2[x] \in Nat /\ size2[x] >= 16 /\ size2[x] % 8 = 0
             /\ x % 8 = 0 /\ first <= x /\ x <= top2
  <2>1. first <= p
    BY DEF Chain
  <2>2. CASE x = r
    <3>1. p # top => p + size[p] <= top
      BY <1>1
    <3>2. r <= top2
      BY <1>1, <1>2, <3>1
    <3> QED BY <2>1, <2>2, <3>2, <1>1, <1>2, <1>6
  <2>3. CASE x \in C
    <3>1. first <= x /\ x <= top
      BY <2>3 DEF Chain
    <3>2. x <= top2
      BY <2>3, <3>1, <1>1, <1>2
    <3>3. CASE x = p
      BY <3>1, <3>2, <3>3, <1>1, <1>4
    <3>4. CASE x # p
      BY <2>3, <3>1, <3>2, <3>4, <1>1, <1>4
    <3> QED BY <3>3, <3>4
  <2> QED BY <2>2, <2>3
<1>10. ASSUME NEW x \in D \ {top2} PROVE x + size2[x] \in D
  <2>1. CASE x = p
    BY <2>1, <1>4 DEF r
  <2>2. CASE x = r
    BY <2>2, <1>1, <1>5
  <2>3. CASE x \in C /\ x # p
    BY <2>3, <1>1, <1>4
  <2> QED BY <2>1, <2>2, <2>3
<1>11. ASSUME NEW x \in D \ {first} PROVE \E q \in D \ {top2} : q + size2[q] = x
  <2>1. CASE x = r
    <3>1. p \in D \ {top2} /\ p + size2[p] = r
      BY <1>3, <1>4, <1>2 DEF r
    <3> QED BY <2>1, <3>1
  <2>2. CASE x \in C
    <3>1. PICK q \in C \ {top} : q + size[q] = x
      BY <2>2 DEF Chain
    <3>2. CASE q = p
      <4>1. r \in D \ {top2} /\ r + size2[r] = x
        BY <3>1, <3>2, <1>3, <1>5, <1>1
      <4> QED BY <4>1
    <3>3. CASE q # p
      <4>1. q \in D \ {top2} /\ q + size2[q] = x
        BY <3>1, <3>3, <1>3, <1>4
      <4> QED BY <4>1
    <3> QED BY <3>2, <3>3
  <2> QED BY <2>1, <2>2
<1>12. ASSUME NEW x \in D, NEW q \in D, x < q PROVE x + size2[x] <= q
  <2>1. CASE x = r /\ q \in C
    <3>1. p < q
      BY <2>1, <1>12, <1>1, <1>2
    <3>2. p + size[p] <= q
      BY <2>1, <3>1, <1>1
    <3> QED BY <2>1, <3>2, <1>5
  <2>2. CASE x = p
    <3>1. q = r \/ (q \in C /\ p + size[p] <= q)
      BY <2>2, <1>12, <1>1
    <3>2. x + size2[x] = r
      BY <2>2, <1>4 DEF r
    <3>3. q \in C => q \in Nat
      BY <1>1
    <3>4. r \in Nat /\ r < p + size[p] /\ p + size[p] \in Nat
      BY <1>1, <1>2
    <3>5. r <= q
      BY <3>1, <3>3, <3>4
    <3> QED BY <3>2, <3>5
  <2>3. CASE x \in C /\ x # p /\ q \in C
    BY <2>3, <1>12, <1>1, <1>4
  <2>4. CASE x \in C /\ x # p /\ q = r
    <3>0. x \in Nat /\ p \in Nat /\ r \in Nat /\ p + size[p] \in Nat
          /\ p < r /\ r < p + size[p] /\ x < r /\ x # p
      BY <2>4, <1>12, <1>1, <1>2
    <3>1. x < p
      <4>1. p < x => p + size[p] <= x
        BY <2>4, <1>1
      <4> QED BY <4>1, <3>0
    <3>2. x + size[x] <= p /\ x + size[x] \in Nat
      BY <2>4, <3>1, <1>1
    <3>3. x + size2[x] = x + size[x]
      BY <2>4, <1>4
    <3>4. x + size2[x] <= r
      BY <3>0, <3>2, <3>3
    <3> QED BY <2>4, <3>4
  <2>5. CASE x = r /\ q = r
    BY <2>5, <1>12, <1>2
  <2> QED BY <2>1, <2>2, <2>3, <2>4, <2>5
<1> QED BY <1>3, <1>7, <1>8, <1>9, <1>10, <1>11, <1>12 DEF Chain, r

\* The chunks from q to end become one; end may be the break.
Outside(C, q, end) == {x \in C : x <= q \/ x >= end}
JoinSizes(C, size, q, end, size2) ==
  /\ size2[q] = end - q
  /\ \A x \in C : x < q \/ x >= end => size2[x] = size[x]

LEMMA ChainMerge ==
  ASSUME NEW C, NEW size, NEW first, NEW top, NEW pos, Chain(C, size, first, top, pos),
         NEW q \in C, NEW end \in C \cup {pos}, q < end,
         NEW size2, JoinSizes(C, size, q, end, size2)
  PROVE  Chain(Outside(C, q, end), size2, first, IF end = pos THEN q ELSE top, pos)
<1> DEFINE D == Outside(C, q, end)
           top2 == IF end = pos THEN q ELSE top
<1>1. /\ pos \in Nat /\ pos >= Start /\ pos <= End /\ pos % 8 = 0
      /\ first \in C /\ top \in C /\ top + size[top] = pos /\ top < pos
      /\ \A x \in C :
              /\ x \in Nat /\ x >= Start /\ x <= End /\ x % 8 = 0
              /\ size[x] \in Nat /\ size[x] >= 16 /\ size[x] % 8 = 0
              /\ x + size[x] \in Nat /\ x + size[x] <= pos /\ x < x + size[x]
              /\ x # top => x < top /\ x + size[x] <= top /\ x + size[x] \in C
      /\ \A x, y \in C : x < y => x + size[x] <= y
  BY ChainTypes
<1>2. \A x \in C : first <= x /\ x <= top
  BY DEF Chain
<1>3. /\ end \in Nat /\ end % 8 = 0 /\ end <= pos /\ end - q \in Nat
      /\ (end - q) % 8 = 0 /\ q + size[q] <= end
  <2>1. end \in Nat /\ end % 8 = 0 /\ end <= pos
    BY <1>1
  <2>2. q \in Nat /\ q % 8 = 0 /\ q + size[q] <= pos
    BY <1>1
  <2>3. q + size[q] <= end
    BY <1>1, <2>2
  <2> QED BY <2>1, <2>2, <2>3
<1>4. end - q >= 16
  <2>1. q \in Nat /\ size[q] \in Nat /\ size[q] >= 16
    BY <1>1
  <2> QED BY <2>1, <1>3
<1>5. /\ size2[q] = end - q
      /\ \A x \in C : x < q \/ x >= end => size2[x] = size[x]
  BY DEF JoinSizes
<1>6. /\ \A x \in D : x \in C /\ (x < q \/ x = q \/ x >= end)
      /\ \A x \in C : x < q \/ x = q \/ x >= end => x \in D
      /\ D \subseteq C /\ q \in D
  BY <1>1 DEF Outside
<1>7. end # pos => end \in D /\ end \in C
  BY <1>1, <1>3, <1>6
<1>8. first \in D /\ top2 \in D
  <2>1. first \in D
    BY <1>1, <1>2, <1>6
  <2>2. end # pos => end <= top
    BY <1>2, <1>7
  <2>3. end # pos => top \in D
    BY <1>1, <1>3, <1>6, <2>2
  <2> QED BY <1>6, <2>1, <2>3
<1> HIDE DEF D
<1>9. top2 + size2[top2] = pos
  <2>1. CASE end = pos
    BY <2>1, <1>1, <1>3, <1>5
  <2>2. CASE end # pos
    <3>1. end <= top
      BY <1>2, <1>7, <2>2
    <3>2. size2[top] = size[top]
      BY <1>1, <1>5, <3>1
    <3> QED BY <2>2, <3>2, <1>1
  <2> QED BY <2>1, <2>2
<1>10. ASSUME NEW x \in D
       PROVE  /\ size2[x] \in Nat /\ size2[x] >= 16 /\ size2[x] % 8 = 0
              /\ x % 8 = 0 /\ first <= x /\ x <= top2
  <2>1. size2[x] \in Nat /\ size2[x] >= 16 /\ size2[x] % 8 = 0
    <3>1. CASE x = q
      BY <3>1, <1>3, <1>4, <1>5
    <3>2. CASE x # q
      BY <3>2, <1>1, <1>5, <1>6
    <3> QED BY <3>1, <3>2
  <2>2. x % 8 = 0 /\ first <= x
    BY <1>1, <1>2, <1>6
  <2>3. x <= top2
    <3>1. CASE end = pos
      <4>1. x < pos /\ x \in Nat /\ q \in Nat
        BY <1>1, <1>6
      <4>2. x < q \/ x = q
        BY <1>6, <3>1, <4>1, <1>1
      <4> QED BY <3>1, <4>1, <4>2
    <3>2. CASE end # pos
      BY <3>2, <1>2, <1>6
    <3> QED BY <3>1, <3>2
  <2> QED BY <2>1, <2>2, <2>3
<1>11. ASSUME NEW x \in D \ {top2} PROVE x + size2[x] \in D
  <2>1. CASE x = q
    BY <2>1, <1>3, <1>5, <1>7, <1>1
  <2>2. CASE x < q
    <3>1. x \in C /\ x # top /\ size2[x] = size[x] /\ x + size[x] \in C
      BY <2>2, <1>1, <1>2, <1>5, <1>6
    <3>2. x + size[x] <= q
      BY <3>1, <2>2, <1>1
    <3>3. x + size[x] < q \/ x + size[x] = q
      BY <3>1, <3>2, <1>1, SMTT(30)
    <3> QED BY <3>1, <3>3, <1>6
  <2>3. CASE x >= end
    <3>1. x \in C /\ size2[x] = size[x]
      BY <2>3, <1>5, <1>6
    <3>2. end # pos
      BY <2>3, <3>1, <1>1, SMTT(40)
    <3>3. x + size[x] \in C /\ x + size[x] >= end
      BY <3>1, <3>2, <2>3, <1>1, <1>3, SMTT(30)
    <3> QED BY <3>1, <3>3, <1>6
  <2> QED BY <2>1, <2>2, <2>3, <1>6
<1>12. ASSUME NEW x \in D \ {first} PROVE \E y \in D \ {top2} : y + size2[y] = x
  <2>1. PICK y \in C \ {top} : y + size[y] = x
    BY <1>6 DEF Chain
  <2>2. CASE x < q \/ x = q
    <3>0. y < x /\ x <= q /\ x \in Nat /\ y \in Nat /\ q \in Nat
      BY <2>1, <2>2, <1>1, <1>6
    <3>1. y < q
      BY <3>0
    <3>2. y \in D /\ size2[y] = size[y]
      BY <3>1, <1>5, <1>6
    <3>3. y # top2
      BY <3>1, <2>1, <1>1
    <3> QED BY <2>1, <3>2, <3>3
  <2>3. CASE x >= end
    <3>0. x \in Nat /\ y \in Nat /\ q \in Nat /\ x \in C
      BY <2>1, <1>1, <1>6
    <3>1. end # pos
      BY <2>3, <3>0, <1>1
    <3>2. CASE y >= end
      BY <3>1, <3>2, <2>1, <1>5, <1>6
    <3>3. CASE y < end
      <4>1. end \in C /\ y + size[y] <= end
        BY <3>1, <3>3, <1>1, <1>7
      <4>2. x = end
        BY <4>1, <2>1, <2>3, <1>3, <3>0
      <4>3. q # top2
        <5>1. end <= top /\ q < end /\ end \in Nat /\ q \in Nat /\ top \in Nat
          BY <3>1, <1>1, <1>2, <1>3, <1>7
        <5> QED BY <5>1, <3>1
      <4> QED BY <4>2, <4>3, <1>3, <1>5, <1>6, <3>0
    <3> QED BY <3>2, <3>3, <3>0, <1>3
  <2> QED BY <2>2, <2>3, <1>6
<1>13. ASSUME NEW x \in D, NEW y \in D, x < y PROVE x + size2[x] <= y
  <2>1. CASE x = q
    <3>1. y >= end
      BY <2>1, <1>13, <1>6, <1>1
    <3> QED BY <2>1, <3>1, <1>3, <1>5, <1>1
  <2>2. CASE x # q
    BY <2>2, <1>13, <1>1, <1>5, <1>6
  <2> QED BY <2>1, <2>2
<1>14. D \subseteq Start .. End /\ pos \in Start .. End
  BY <1>6 DEF Chain
<1>15. Chain(D, size2, first, top2, pos)
  <2> HIDE DEF top2
  <2> QED BY <1>8, <1>9, <1>10, <1>11, <1>12, <1>13, <1>14 DEF Chain
<1> QED BY <1>15 DEF D

\* The break moves and the top chunk with it.
MovesTop(C, size, top, pos2, size2) ==
  size2[top] = pos2 - top /\ \A x \in C : x # top => size2[x] = size[x]

LEMMA ChainMoves ==
  ASSUME NEW C, NEW size, NEW first, NEW top, NEW pos, Chain(C, size, first, top, pos),
         NEW pos2 \in Start .. End, pos2 % 8 = 0, pos2 - top >= 16,
         NEW size2, MovesTop(C, size, top, pos2, size2)
  PROVE  Chain(C, size2, first, top, pos2)
<1> USE DEF MovesTop
<1>1. /\ top \in C /\ pos2 \in Nat
      /\ \A x \in C : x \in Nat /\ x % 8 = 0 /\ (x # top => x < top)
  BY ChainTypes, Constants
<1>2. size2[top] \in Nat /\ size2[top] >= 16 /\ size2[top] % 8 = 0 /\ top + size2[top] = pos2
  BY <1>1
<1>3. \A p \in C : /\ size2[p] \in Nat /\ size2[p] >= 16 /\ size2[p] % 8 = 0
                   /\ p % 8 = 0 /\ first <= p /\ p <= top
  BY <1>2 DEF Chain
<1>4. \A p \in C \ {top} : p + size2[p] \in C
  BY DEF Chain
<1>5. \A p \in C \ {first} : \E q \in C \ {top} : q + size2[q] = p
  <2>1. ASSUME NEW p \in C \ {first} PROVE \E q \in C \ {top} : q + size2[q] = p
    <3>1. PICK q \in C \ {top} : q + size[q] = p
      BY DEF Chain
    <3> QED BY <3>1
  <2> QED BY <2>1
<1>6. \A p, q \in C : p < q => p + size2[p] <= q
  <2>1. ASSUME NEW p \in C, NEW q \in C, p < q PROVE p + size2[p] <= q
    <3>1. p # top
      BY <2>1, <1>1
    <3> QED BY <2>1, <3>1 DEF Chain
  <2> QED BY <2>1
<1> QED BY <1>2, <1>3, <1>4, <1>5, <1>6 DEF Chain

\* The first memory is all top chunk.
LEMMA ChainBegins ==
  ASSUME NEW at \in Start .. End, at % 8 = 0, NEW pos \in Start .. End, pos % 8 = 0,
         pos - at >= 16, NEW size, size[at] = pos - at
  PROVE  Chain({at}, size, at, at, pos)
<1>1. at \in Nat /\ pos \in Nat /\ pos - at \in Nat /\ (pos - at) % 8 = 0
  BY Constants
<1> QED BY <1>1 DEF Chain

\* A chunk is cut in two: the second part begins behind a part in use.
CutTags(C, size, pin, foot, p, lead, pin2, foot2) ==
  /\ pin2[p + lead] = TRUE
  /\ \A x \in C : pin2[x] = pin[x]
  /\ \A a \in C : pin[a] = FALSE =>
       a \in DOMAIN foot2 /\ foot2[a] = IF a = p + size[p] THEN size[p] - lead ELSE foot[a]

SplitUse(C, size, pin, top, p, lead, size2, pin2, top2) ==
  /\ FreeIn(C \cup {p + lead}, size2, pin2, top2) =
       IF p # top /\ pin[p + size[p]] = FALSE
       THEN (FreeIn(C, size, pin, top) \ {p}) \cup {p + lead}
       ELSE FreeIn(C, size, pin, top)
  /\ UsedIn(C \cup {p + lead}, size2, pin2, top2) =
       UsedIn(C, size, pin, top) \cup
         {IF p # top /\ pin[p + size[p]] = TRUE THEN p + lead ELSE p}

LEMMA TagsSplit ==
  ASSUME NEW C, NEW size, NEW first, NEW top, NEW pos, Chain(C, size, first, top, pos),
         NEW pin, NEW foot, Tags(C, size, pin, foot, first, top),
         NEW p \in C, NEW lead \in Nat, lead >= 16, size[p] - lead >= 16, p + lead \notin C,
         NEW size2, CutSizes(C, size, p, lead, size2),
         NEW pin2, NEW foot2, CutTags(C, size, pin, foot, p, lead, pin2, foot2),
         NEW top2, top2 = IF p = top THEN p + lead ELSE top
  PROVE  /\ Tags(C \cup {p + lead}, size2, pin2, foot2, first, top2)
         /\ SplitUse(C, size, pin, top, p, lead, size2, pin2, top2)
<1> USE DEF CutTags
<1> DEFINE r == p + lead
           D == C \cup {r}
<1>1. /\ first \in C /\ top \in C
      /\ \A x \in C :
              /\ x \in Nat /\ size[x] \in Nat /\ x < x + size[x]
              /\ x # top => x + size[x] \in C
      /\ \A x, q \in C : x < q => x + size[x] <= q
  BY ChainTypes
<1>2. /\ size2[p] = lead /\ size2[r] = size[p] - lead /\ r + size2[r] = p + size[p]
      /\ \A x \in C : x # p => size2[x] = size[x]
  BY <1>1 DEF CutSizes
<1>3. r \notin C /\ pin2[r] = TRUE /\ r = p + lead
  OBVIOUS
<1> HIDE DEF r
<1>4. /\ \A x \in C : pin[x] \in BOOLEAN
      /\ pin[first] = TRUE /\ pin[top] = TRUE
      /\ \A a \in C : pin[a] = FALSE =>
           /\ a # top /\ pin[a + size[a]] = TRUE /\ a + size[a] \in C
           /\ foot[a] \in Nat /\ a - foot[a] \in C \ {top}
           /\ size[a - foot[a]] = foot[a]
  BY <1>1 DEF Tags
<1>5. \A x \in D : pin2[x] \in BOOLEAN
  BY <1>3, <1>4
<1>6. pin2[first] = TRUE /\ pin2[top2] = TRUE
  BY <1>1, <1>3, <1>4
<1>7. ASSUME NEW a \in D, pin2[a] = FALSE
      PROVE  /\ pin2[a + size2[a]] = TRUE
             /\ a \in DOMAIN foot2 /\ foot2[a] \in Nat /\ a - foot2[a] \in D \ {top2}
             /\ size2[a - foot2[a]] = foot2[a]
  <2>1. a \in C /\ pin[a] = FALSE
    BY <1>3, <1>7
  <2>2. pin2[a + size2[a]] = TRUE
    <3>1. CASE a = p
      BY <3>1, <1>2, <1>3
    <3>2. CASE a # p
      BY <3>2, <2>1, <1>2, <1>4
    <3> QED BY <3>1, <3>2
  <2>3. CASE a = p + size[p]
    <3>1. foot2[a] = size[p] - lead /\ a \in DOMAIN foot2
      BY <2>1, <2>3
    <3>2. a - foot2[a] = r
      BY <3>1, <2>3, <1>1, <1>3
    <3>3. p # top
      <4>1. \A x \in C : x <= top
        BY DEF Chain
      <4> QED BY <4>1, <2>1, <2>3, <1>1
    <3>4. r \in D \ {top2} /\ size2[r] = foot2[a]
      BY <3>1, <3>3, <1>1, <1>2, <1>3
    <3> QED BY <2>2, <3>1, <3>2, <3>4, <1>1
  <2>4. CASE a # p + size[p]
    <3>1. foot2[a] = foot[a] /\ a \in DOMAIN foot2
      BY <2>1, <2>4
    <3> DEFINE y == a - foot[a]
    <3>2. y \in C \ {top} /\ size[y] = foot[a] /\ y + size[y] = a /\ foot[a] \in Nat
      BY <2>1, <1>1, <1>4
    <3>3. y # p
      BY <3>2, <2>4
    <3>4. size2[y] = size[y] /\ y # r
      BY <3>2, <3>3, <1>2, <1>3
    <3>5. y \in D \ {top2}
      BY <3>2, <3>3, <3>4, <1>3
    <3> QED BY <2>2, <3>1, <3>2, <3>4, <3>5
  <2> QED BY <2>3, <2>4
<1>8. Tags(D, size2, pin2, foot2, first, top2)
  BY <1>5, <1>6, <1>7 DEF Tags
<1>9. \A x \in C \ {top, p} : x # r /\ x # top2 /\ x + size2[x] = x + size[x]
                               /\ pin2[x + size2[x]] = pin[x + size[x]]
  BY <1>1, <1>2, <1>3
<1>10. p # top => top2 = top /\ pin2[r + size2[r]] = pin[p + size[p]] /\ r # top2
                  /\ pin[p + size[p]] \in BOOLEAN
  BY <1>1, <1>2, <1>3, <1>4
<1>11. p = top => top2 = r
  BY <1>3
<1>12. pin2[p + size2[p]] = TRUE /\ p # top2
  <2>1. r # p /\ p + size2[p] = r
    BY <1>2, <1>3
  <2> QED BY <2>1, <1>3
<1> DEFINE F == FreeIn(C, size, pin, top)
           U == UsedIn(C, size, pin, top)
<1>13. \A x : x \in F <=> x \in C /\ x # top /\ pin[x + size[x]] = FALSE
  BY DEF FreeIn
<1>14. \A x : x \in U <=> x \in C /\ x # top /\ pin[x + size[x]] = TRUE
  BY DEF UsedIn
<1>15. \A x : x \in FreeIn(D, size2, pin2, top2)
              <=> x \in D /\ x # top2 /\ pin2[x + size2[x]] = FALSE
  BY DEF FreeIn
<1>16. \A x : x \in UsedIn(D, size2, pin2, top2)
              <=> x \in D /\ x # top2 /\ pin2[x + size2[x]] = TRUE
  BY DEF UsedIn
<1> HIDE DEF F, U
<1>17. \A x : x \in FreeIn(D, size2, pin2, top2) <=>
         x \in IF p # top /\ pin[p + size[p]] = FALSE THEN (F \ {p}) \cup {r} ELSE F
  <2>1. ASSUME NEW x, x \in C \ {top, p}
        PROVE  x \in FreeIn(D, size2, pin2, top2) <=> x \in F
    BY <2>1, <1>9, <1>13, <1>15
  <2>2. r \in FreeIn(D, size2, pin2, top2) <=> p # top /\ pin[p + size[p]] = FALSE
    BY <1>10, <1>11, <1>15
  <2>3. p \notin FreeIn(D, size2, pin2, top2)
    BY <1>12, <1>15
  <2>4. p # top => top \notin FreeIn(D, size2, pin2, top2)
    BY <1>10, <1>15
  <2>5. top \notin F /\ r \notin F
    BY <1>3, <1>13
  <2>6. (p # top /\ pin[p + size[p]] = FALSE) \/ p \notin F
    BY <1>13
  <2>7. \A x : x \in FreeIn(D, size2, pin2, top2) => x \in C \/ x = r
    BY <1>15
  <2>8. \A x : x \in F => x \in C
    BY <1>13
  <2>9. p \in C /\ r \notin C
    BY <1>3
  <2> QED BY <2>1, <2>2, <2>3, <2>4, <2>5, <2>6, <2>7, <2>8, <2>9
<1>18. \A x : x \in UsedIn(D, size2, pin2, top2) <=>
         x \in U \cup {IF p # top /\ pin[p + size[p]] = TRUE THEN r ELSE p}
  <2>1. ASSUME NEW x, x \in C \ {top, p}
        PROVE  x \in UsedIn(D, size2, pin2, top2) <=> x \in U
    BY <2>1, <1>9, <1>14, <1>16
  <2>2. r \in UsedIn(D, size2, pin2, top2) <=> p # top /\ pin[p + size[p]] = TRUE
    BY <1>10, <1>11, <1>16
  <2>3. p \in UsedIn(D, size2, pin2, top2)
    BY <1>12, <1>16
  <2>4. p # top => top \notin UsedIn(D, size2, pin2, top2)
    BY <1>10, <1>16
  <2>5. top \notin U /\ r \notin U
    BY <1>3, <1>14
  <2>6. p # top /\ pin[p + size[p]] = TRUE <=> p \in U
    BY <1>14
  <2>7. \A x : x \in UsedIn(D, size2, pin2, top2) => x \in C \/ x = r
    BY <1>16
  <2>8. \A x : x \in U => x \in C
    BY <1>14
  <2>9. p \in C /\ r \notin C
    BY <1>3
  <2> QED BY <2>1, <2>2, <2>3, <2>4, <2>5, <2>6, <2>7, <2>8, <2>9
<1> QED BY <1>8, <1>17, <1>18 DEF r, F, U, SplitUse

LEMMA ChainEnds ==
  ASSUME NEW C, NEW size, NEW first, NEW top, NEW pos, Chain(C, size, first, top, pos)
  PROVE  \A x \in C : first <= x /\ x <= top
BY DEF Chain

\* The chunks outside a merged one keep their sizes and are no top chunk.
LEMMA ChainOutside ==
  ASSUME NEW C, NEW size, NEW first, NEW top, NEW pos, Chain(C, size, first, top, pos),
         NEW q \in C, NEW end \in C \cup {pos}, q < end
  PROVE  /\ end \in Nat /\ q \in Nat /\ q \in Outside(C, q, end) /\ first \in Outside(C, q, end)
         /\ end \in C => end \in Outside(C, q, end)
         /\ \A x \in C : x < q => x # top /\ x + size[x] \in C /\ x + size[x] <= q
         /\ \A x \in C : x > end => x + size[x] > end
         /\ \A x \in C : x # top => x + size[x] \in C
         /\ \A x \in C : x \in Nat /\ size[x] \in Nat /\ x < x + size[x]
         /\ \A x \in C : x + size[x] < q => x < q
         /\ \A x \in C : x + size[x] > end => x >= end
<1>1. /\ first \in C /\ top \in C /\ pos \in Nat
      /\ \A x \in C :
              /\ x \in Nat /\ size[x] \in Nat /\ x < x + size[x] /\ first <= x /\ x <= top
              /\ x # top => x + size[x] \in C
              /\ x + size[x] <= pos
      /\ \A x, y \in C : x < y => x + size[x] <= y
  <2>1. \A x \in C : first <= x /\ x <= top
    BY ChainEnds
  <2>2. /\ first \in C /\ top \in C /\ pos \in Nat
        /\ \A x \in C :
              /\ x \in Nat /\ size[x] \in Nat /\ x < x + size[x]
              /\ x # top => x + size[x] \in C
              /\ x + size[x] <= pos
        /\ \A x, y \in C : x < y => x + size[x] <= y
    BY ChainTypes
  <2> QED BY <2>1, <2>2
<1>2. end \in Nat /\ q \in Nat /\ q <= top
  BY <1>1
<1>3. first \in Outside(C, q, end) /\ q \in Outside(C, q, end)
      /\ (end \in C => end \in Outside(C, q, end))
  BY <1>1, <1>2 DEF Outside
<1>4. \A x \in C : x < q => x # top /\ x + size[x] \in C /\ x + size[x] <= q
  BY <1>1, <1>2
<1>5. \A x \in C : x + size[x] > end => x >= end
  <2>1. CASE end \in C
    BY <2>1, <1>1
  <2>2. CASE end = pos
    BY <2>2, <1>1
  <2> QED BY <2>1, <2>2
<1> QED BY <1>1, <1>2, <1>3, <1>4, <1>5

SameTags(C, pin, pin2) == \A x \in C : pin2[x] = pin[x]
SameBut(C, size, p, size2) == \A x \in C : x # p => size2[x] = size[x]

\* The chunks from q to the break become the top chunk.
MergeUse(C, size, pin, top, q, pos, size2, pin2) ==
  /\ FreeIn(Outside(C, q, pos), size2, pin2, q) = {x \in FreeIn(C, size, pin, top) : x < q}
  /\ UsedIn(Outside(C, q, pos), size2, pin2, q) = {x \in UsedIn(C, size, pin, top) : x < q}

LEMMA TagsMergeTop ==
  ASSUME NEW C, NEW size, NEW first, NEW top, NEW pos, Chain(C, size, first, top, pos),
         NEW pin, NEW foot, Tags(C, size, pin, foot, first, top),
         NEW q \in C, pin[q] = TRUE,
         NEW size2, JoinSizes(C, size, q, pos, size2),
         NEW pin2, SameTags(C, pin, pin2)
  PROVE  /\ Tags(Outside(C, q, pos), size2, pin2, foot, first, q)
         /\ MergeUse(C, size, pin, top, q, pos, size2, pin2)
<1> USE DEF SameTags
<1> DEFINE D == Outside(C, q, pos)
<1>0. pos \in Nat /\ q \in Nat /\ q < pos /\ pos \in C \cup {pos}
  BY ChainTypes
<1>1. /\ q \in D /\ first \in D
      /\ \A x \in C : x < q => x # top /\ x + size[x] \in C /\ x + size[x] <= q
      /\ \A x \in C : x \in Nat /\ size[x] \in Nat /\ x < x + size[x]
  BY <1>0, ChainOutside
<1>2. \A x : x \in D <=> x \in C /\ x <= q
  BY <1>0, <1>1, ChainTypes DEF Outside
<1>3. \A x \in C : x < q => size2[x] = size[x] /\ pin2[x + size2[x]] = pin[x + size[x]]
  BY <1>1 DEF JoinSizes
<1> HIDE DEF D
<1>4. ASSUME NEW a \in D, pin2[a] = FALSE
      PROVE  /\ pin2[a + size2[a]] = TRUE
             /\ a \in DOMAIN foot /\ foot[a] \in Nat /\ a - foot[a] \in D \ {q}
             /\ size2[a - foot[a]] = foot[a]
  <2>1. a \in C /\ a < q /\ pin[a] = FALSE
    BY <1>0, <1>1, <1>2, <1>4
  <2>2. /\ pin[a + size[a]] = TRUE
        /\ a \in DOMAIN foot /\ foot[a] \in Nat /\ a - foot[a] \in C \ {top}
        /\ size[a - foot[a]] = foot[a]
    BY <2>1 DEF Tags
  <2> DEFINE y == a - foot[a]
  <2>3. y \in C /\ y \in Int /\ y <= a /\ size[y] = foot[a]
    <3>1. a \in Nat /\ foot[a] \in Nat
      BY <2>1, <2>2, <1>1
    <3> QED BY <3>1, <2>2
  <2> HIDE DEF y
  <2>4. y < q
    BY <2>1, <2>3, <1>0, <1>1
  <2>5. y \in D \ {q} /\ size2[y] = foot[a]
    BY <2>3, <2>4, <1>0, <1>1, <1>2, <1>3
  <2>6. pin2[a + size2[a]] = TRUE
    BY <2>1, <2>2, <1>3
  <2> QED BY <2>2, <2>5, <2>6 DEF y
<1>5. Tags(D, size2, pin2, foot, first, q)
  BY <1>1, <1>2, <1>4 DEF Tags
<1>6. \A x \in D : x # q => x \in C /\ x < q
  BY <1>0, <1>1, <1>2
<1>7. \A x \in C : x < q => x \in D /\ x # q /\ x # top
  BY <1>0, <1>1, <1>2
<1>8. FreeIn(D, size2, pin2, q) = {x \in FreeIn(C, size, pin, top) : x < q}
  BY <1>3, <1>6, <1>7 DEF FreeIn
<1>9. UsedIn(D, size2, pin2, q) = {x \in UsedIn(C, size, pin, top) : x < q}
  BY <1>3, <1>6, <1>7 DEF UsedIn
<1> QED BY <1>5, <1>8, <1>9 DEF D, MergeUse

\* The chunks from q to end become a free one.
JoinTags(C, pin, foot, q, end, pin2, foot2) ==
  /\ pin2[end] = FALSE /\ end \in DOMAIN foot2 /\ foot2[end] = end - q
  /\ \A x \in C : x <= q \/ x > end => pin2[x] = pin[x]
  /\ \A a \in C : a # end /\ pin[a] = FALSE => a \in DOMAIN foot2 /\ foot2[a] = foot[a]

JoinUse(C, size, pin, top, q, end, size2, pin2) ==
  /\ FreeIn(Outside(C, q, end), size2, pin2, top) =
       {x \in FreeIn(C, size, pin, top) : x < q \/ x >= end} \cup {q}
  /\ UsedIn(Outside(C, q, end), size2, pin2, top) =
       {x \in UsedIn(C, size, pin, top) : x < q \/ x >= end}

LEMMA TagsMergeMid ==
  ASSUME NEW C, NEW size, NEW first, NEW top, NEW pos, Chain(C, size, first, top, pos),
         NEW pin, NEW foot, Tags(C, size, pin, foot, first, top),
         NEW q \in C, pin[q] = TRUE,
         NEW end \in C \ {top}, q < end, pin[end + size[end]] = TRUE,
         NEW size2, JoinSizes(C, size, q, end, size2),
         NEW pin2, NEW foot2, JoinTags(C, pin, foot, q, end, pin2, foot2)
  PROVE  /\ Tags(Outside(C, q, end), size2, pin2, foot2, first, top)
         /\ JoinUse(C, size, pin, top, q, end, size2, pin2)
<1> USE DEF JoinTags
<1> DEFINE D == Outside(C, q, end)
<1>1. /\ end \in Nat /\ q \in Nat /\ q \in D /\ first \in D /\ end \in D
      /\ \A x \in C : x < q => x # top /\ x + size[x] \in C /\ x + size[x] <= q
      /\ \A x \in C : x > end => x + size[x] > end
      /\ \A x \in C : x # top => x + size[x] \in C
      /\ \A x \in C : x \in Nat /\ size[x] \in Nat /\ x < x + size[x]
      /\ \A x \in C : x + size[x] < q => x < q
      /\ \A x \in C : x + size[x] > end => x >= end
  BY ChainOutside
<1>2. \A x : x \in D <=> x \in C /\ (x <= q \/ x >= end)
  BY DEF Outside
<1>3. /\ size2[q] = end - q /\ q + size2[q] = end
      /\ \A x \in C : x < q \/ x >= end => size2[x] = size[x] /\ x \in D /\ x # q
  BY <1>1, <1>2 DEF JoinSizes
<1>4. top \in D /\ first # end /\ top # q /\ top >= end
  <2>1. top \in C /\ end <= top /\ first <= q /\ top \in Nat /\ first \in Nat
    BY ChainTypes, ChainEnds
  <2> QED BY <2>1, <1>1, <1>2
<1>5. /\ \A x \in C : pin[x] \in BOOLEAN
      /\ pin[first] = TRUE /\ pin[top] = TRUE
      /\ \A a \in C : pin[a] = FALSE =>
           /\ a # top /\ pin[a + size[a]] = TRUE
           /\ a \in DOMAIN foot /\ foot[a] \in Nat /\ a - foot[a] \in C \ {top}
           /\ size[a - foot[a]] = foot[a]
  BY DEF Tags
<1> HIDE DEF D
<1>6. \A x \in C : (x < q \/ x >= end) /\ x # top =>
        pin2[x + size2[x]] = pin[x + size[x]] /\ x + size2[x] # end
  <2>1. ASSUME NEW x \in C, x < q \/ x >= end, x # top
        PROVE  pin2[x + size2[x]] = pin[x + size[x]] /\ x + size2[x] # end
    <3>1. x + size[x] \in C /\ size2[x] = size[x]
      BY <2>1, <1>1, <1>3
    <3>2. x + size[x] # end /\ (x + size[x] <= q \/ x + size[x] > end)
      <4>1. /\ x \in Nat /\ size[x] \in Nat /\ x < x + size[x]
            /\ x < q => x + size[x] <= q
        BY <1>1
      <4> QED BY <4>1, <2>1, <1>1
    <3>3. pin2[x + size[x]] = pin[x + size[x]]
      BY <3>1, <3>2
    <3> QED BY <3>1, <3>2, <3>3
  <2> QED BY <2>1
<1>7. ASSUME NEW a \in D, pin2[a] = FALSE, a # end
      PROVE  /\ pin2[a + size2[a]] = TRUE
             /\ a \in DOMAIN foot2 /\ foot2[a] \in Nat /\ a - foot2[a] \in D \ {top}
             /\ size2[a - foot2[a]] = foot2[a]
  <2>1. a \in C /\ pin[a] = FALSE /\ a # q /\ (a < q \/ a > end)
    BY <1>1, <1>2, <1>7
  <2>2. /\ pin[a + size[a]] = TRUE /\ a # top
        /\ a \in DOMAIN foot2 /\ foot2[a] = foot[a]
        /\ foot[a] \in Nat /\ a - foot[a] \in C \ {top}
        /\ size[a - foot[a]] = foot[a]
    BY <2>1, <1>5, <1>7
  <2> DEFINE y == a - foot[a]
  <2>3. y \in C \ {top} /\ size[y] = foot[a] /\ y + size[y] = a
    <3>1. a \in Nat /\ foot[a] \in Nat
      BY <2>1, <2>2, <1>1
    <3> QED BY <3>1, <2>2
  <2> HIDE DEF y
  <2>4. y < q \/ y >= end
    BY <2>1, <2>3, <1>1
  <2>5. y \in D /\ size2[y] = size[y]
    BY <2>3, <2>4, <1>3
  <2>6. pin2[a + size2[a]] = TRUE
    BY <2>1, <2>2, <1>6, <1>1
  <2> QED BY <2>2, <2>3, <2>5, <2>6 DEF y
<1>8. /\ pin2[end + size2[end]] = TRUE
      /\ foot2[end] \in Nat /\ end - foot2[end] \in D \ {top}
      /\ size2[end - foot2[end]] = foot2[end]
  <2>1. pin2[end + size2[end]] = TRUE
    BY <1>1, <1>6
  <2>2. end - q \in Nat /\ end - (end - q) = q
    BY <1>1
  <2> QED BY <2>1, <2>2, <1>1, <1>3, <1>4
<1>9. \A x \in D : pin2[x] \in BOOLEAN
  <2>1. \A x \in D : x \in C /\ (x = end \/ x <= q \/ x > end)
    BY <1>1, <1>2
  <2> QED BY <2>1, <1>5
<1>10. pin2[first] = TRUE /\ pin2[top] = TRUE
  <2>1. first \in C /\ top \in C /\ first <= q /\ top # end /\ top \in Nat
    BY ChainTypes, ChainEnds
  <2>2. top > end
    BY <2>1, <1>1, <1>4
  <2> QED BY <2>1, <2>2, <1>5
<1>11. Tags(D, size2, pin2, foot2, first, top)
  BY <1>7, <1>8, <1>9, <1>10 DEF Tags
<1>12. \A x \in D : x # q => x \in C /\ (x < q \/ x >= end)
  BY <1>1, <1>2
<1>13. FreeIn(D, size2, pin2, top) =
         {x \in FreeIn(C, size, pin, top) : x < q \/ x >= end} \cup {q}
  <2>1. ASSUME NEW x PROVE x \in FreeIn(D, size2, pin2, top) <=>
                             x \in {y \in FreeIn(C, size, pin, top) : y < q \/ y >= end} \cup {q}
    <3>1. CASE x = q
      BY <3>1, <1>1, <1>3, <1>4 DEF FreeIn
    <3>2. CASE x # q
      BY <3>2, <1>3, <1>6, <1>12 DEF FreeIn
    <3> QED BY <3>1, <3>2
  <2> QED BY <2>1
<1>14. UsedIn(D, size2, pin2, top) =
         {x \in UsedIn(C, size, pin, top) : x < q \/ x >= end}
  BY <1>1, <1>3, <1>4, <1>6, <1>12 DEF UsedIn
<1> QED BY <1>11, <1>13, <1>14 DEF D, JoinUse

\* A free chunk becomes one in use.
TagSet(C, size, pin, p, pin2) ==
  pin2[p + size[p]] = TRUE /\ \A x \in C : x # p + size[p] => pin2[x] = pin[x]

LEMMA TagsUse ==
  ASSUME NEW C, NEW size, NEW first, NEW top, NEW pos, Chain(C, size, first, top, pos),
         NEW pin, NEW foot, Tags(C, size, pin, foot, first, top),
         NEW p \in FreeIn(C, size, pin, top),
         NEW pin2, TagSet(C, size, pin, p, pin2)
  PROVE  /\ Tags(C, size, pin2, foot, first, top)
         /\ FreeIn(C, size, pin2, top) = FreeIn(C, size, pin, top) \ {p}
         /\ UsedIn(C, size, pin2, top) = UsedIn(C, size, pin, top) \cup {p}
<1>1. /\ p \in C \ {top} /\ pin[p + size[p]] = FALSE /\ p + size[p] \in C
      /\ \A x \in C \ {top} : x + size[x] \in C
      /\ first \in C /\ top \in C
  BY ChainTypes DEF FreeIn
<1>2. \A x \in C \ {top} : x + size[x] = p + size[p] => x = p
  <2>1. \A x \in C : x \in Nat /\ size[x] \in Nat /\ x < x + size[x]
    BY ChainTypes
  <2>2. \A x, y \in C : x < y => x + size[x] <= y
    BY ChainTypes
  <2> QED BY <2>1, <2>2, <1>1
<1> DEFINE e == p + size[p]
<1>3. /\ e \in C /\ pin2[e] = TRUE /\ pin[e] = FALSE
      /\ \A x \in C : x # e => pin2[x] = pin[x]
      /\ \A x \in C \ {top} : x + size[x] = e => x = p
  BY <1>1, <1>2 DEF TagSet
<1> HIDE DEF e
<1>4. \A x \in C : pin2[x] = FALSE => pin[x] = FALSE
  BY <1>3
<1>5. \A x \in C : pin[x] = TRUE => pin2[x] = TRUE
  BY <1>3
<1>6. ASSUME NEW a \in C, pin2[a] = FALSE
      PROVE  /\ pin2[a + size[a]] = TRUE
             /\ a \in DOMAIN foot /\ foot[a] \in Nat /\ a - foot[a] \in C \ {top}
             /\ size[a - foot[a]] = foot[a]
  <2>1. pin[a] = FALSE
    BY <1>4, <1>6
  <2>2. /\ pin[a + size[a]] = TRUE
        /\ a \in DOMAIN foot /\ foot[a] \in Nat /\ a - foot[a] \in C \ {top}
        /\ size[a - foot[a]] = foot[a]
    BY <2>1 DEF Tags
  <2>3. a # top /\ a + size[a] \in C
    BY <2>1, <1>1 DEF Tags
  <2> QED BY <2>2, <2>3, <1>5
<1>7. Tags(C, size, pin2, foot, first, top)
  <2>1. pin2[first] = TRUE /\ pin2[top] = TRUE /\ \A x \in C : pin2[x] \in BOOLEAN
    BY <1>1, <1>3, <1>5 DEF Tags
  <2> QED BY <2>1, <1>6 DEF Tags
<1>8. \A x \in C \ {top} : x # p => pin2[x + size[x]] = pin[x + size[x]]
  BY <1>1, <1>3
<1>9. pin2[p + size[p]] = TRUE /\ p \in C \ {top}
  BY <1>1 DEF TagSet
<1>10. FreeIn(C, size, pin2, top) = FreeIn(C, size, pin, top) \ {p}
  BY <1>8, <1>9 DEF FreeIn
<1>11. UsedIn(C, size, pin2, top) = UsedIn(C, size, pin, top) \cup {p}
  BY <1>8, <1>9 DEF UsedIn
<1> QED BY <1>7, <1>10, <1>11

\* The size of the top chunk says nothing about the others.
LEMMA TagsMoves ==
  ASSUME NEW C, NEW size, NEW first, NEW top, NEW pos, Chain(C, size, first, top, pos),
         NEW pin, NEW foot, Tags(C, size, pin, foot, first, top),
         NEW size2, SameBut(C, size, top, size2), NEW pin2, SameTags(C, pin, pin2)
  PROVE  /\ Tags(C, size2, pin2, foot, first, top)
         /\ FreeIn(C, size2, pin2, top) = FreeIn(C, size, pin, top)
         /\ UsedIn(C, size2, pin2, top) = UsedIn(C, size, pin, top)
<1> USE DEF SameTags, SameBut
<1>1. /\ \A x \in C \ {top} : x + size[x] \in C
      /\ first \in C /\ top \in C
  BY ChainTypes
<1>2. \A x \in C \ {top} : size2[x] = size[x] /\ pin2[x + size2[x]] = pin[x + size[x]]
  BY <1>1
<1>3. ASSUME NEW a \in C, pin2[a] = FALSE
      PROVE  /\ pin2[a + size2[a]] = TRUE
             /\ a \in DOMAIN foot /\ foot[a] \in Nat /\ a - foot[a] \in C \ {top}
             /\ size2[a - foot[a]] = foot[a]
  <2>1. pin[a] = FALSE /\ a # top
    BY <1>1, <1>3 DEF Tags
  <2>2. /\ pin[a + size[a]] = TRUE
        /\ a \in DOMAIN foot /\ foot[a] \in Nat /\ a - foot[a] \in C \ {top}
        /\ size[a - foot[a]] = foot[a]
    BY <2>1 DEF Tags
  <2> QED BY <2>1, <2>2, <1>2
<1>4. Tags(C, size2, pin2, foot, first, top)
  <2>1. pin2[first] = TRUE /\ pin2[top] = TRUE /\ \A x \in C : pin2[x] \in BOOLEAN
    BY <1>1 DEF Tags
  <2> QED BY <2>1, <1>3 DEF Tags
<1>5. FreeIn(C, size2, pin2, top) = FreeIn(C, size, pin, top)
  BY <1>2 DEF FreeIn
<1>6. UsedIn(C, size2, pin2, top) = UsedIn(C, size, pin, top)
  BY <1>2 DEF UsedIn
<1> QED BY <1>4, <1>5, <1>6

LEMMA TagsBegins ==
  ASSUME NEW at, NEW size, NEW pin, pin[at] = TRUE, NEW foot
  PROVE  /\ Tags({at}, size, pin, foot, at, at)
         /\ FreeIn({at}, size, pin, at) = {} /\ UsedIn({at}, size, pin, at) = {}
BY DEF Tags, FreeIn, UsedIn

\* What the tags say of chunks that are free and in use.
LEMMA ChunkFacts ==
  ASSUME NEW C, NEW size, NEW first, NEW top, NEW pos, Chain(C, size, first, top, pos),
         NEW pin, NEW foot, Tags(C, size, pin, foot, first, top)
  PROVE  /\ \A p \in FreeIn(C, size, pin, top) :
              /\ p \in C \ {top} /\ pin[p] = TRUE /\ pin[p + size[p]] = FALSE
              /\ p \notin UsedIn(C, size, pin, top)
         /\ \A p \in UsedIn(C, size, pin, top) :
              /\ p \in C \ {top} /\ pin[p + size[p]] = TRUE
              /\ p \notin FreeIn(C, size, pin, top)
         /\ \A p \in C \ {top} : p \in FreeIn(C, size, pin, top) \/ p \in UsedIn(C, size, pin, top)
         /\ \A a \in C : pin[a] = FALSE =>
              /\ a \in Nat /\ foot[a] \in Nat /\ a - foot[a] \in FreeIn(C, size, pin, top)
              /\ a - foot[a] + size[a - foot[a]] = a
         /\ SizesFit(size, C)
<1>1. /\ \A x \in C \ {top} : x + size[x] \in C
      /\ \A x \in C : x \in Nat /\ size[x] \in Nat /\ size[x] >= 16 /\ size[x] <= End
  BY ChainTypes
<1>2. /\ \A x \in C : pin[x] \in BOOLEAN
      /\ \A a \in C : pin[a] = FALSE =>
           /\ pin[a + size[a]] = TRUE
           /\ a \in DOMAIN foot /\ foot[a] \in Nat /\ a - foot[a] \in C \ {top}
           /\ size[a - foot[a]] = foot[a]
  BY DEF Tags
<1>3. \A p \in FreeIn(C, size, pin, top) :
              /\ p \in C \ {top} /\ pin[p] = TRUE /\ pin[p + size[p]] = FALSE
              /\ p \notin UsedIn(C, size, pin, top)
  BY <1>1, <1>2 DEF FreeIn, UsedIn
<1>4. \A p \in UsedIn(C, size, pin, top) :
              /\ p \in C \ {top} /\ pin[p + size[p]] = TRUE
              /\ p \notin FreeIn(C, size, pin, top)
  BY <1>1, <1>2 DEF FreeIn, UsedIn
<1>5. \A p \in C \ {top} : p \in FreeIn(C, size, pin, top) \/ p \in UsedIn(C, size, pin, top)
  BY <1>1, <1>2 DEF FreeIn, UsedIn
<1>6. ASSUME NEW a \in C, pin[a] = FALSE
      PROVE  /\ a \in Nat /\ foot[a] \in Nat /\ a - foot[a] \in FreeIn(C, size, pin, top)
             /\ a - foot[a] + size[a - foot[a]] = a
  <2> DEFINE y == a - foot[a]
  <2>1. a \in Nat /\ foot[a] \in Nat /\ y \in C \ {top} /\ size[y] = foot[a]
    BY <1>1, <1>2, <1>6
  <2>2. y + size[y] = a
    <3>1. y + foot[a] = a
      BY <2>1
    <3> HIDE DEF y
    <3> QED BY <3>1, <2>1
  <2> HIDE DEF y
  <2>3. y \in FreeIn(C, size, pin, top)
    BY <2>1, <2>2, <1>6 DEF FreeIn
  <2> QED BY <2>1, <2>2, <2>3 DEF y
<1>7. SizesFit(size, C)
  BY <1>1, Constants DEF SizesFit
<1> QED BY <1>3, <1>4, <1>5, <1>6, <1>7

\* A chunk that is the last remainder changes its size.
LEMMA ListsResize ==
  ASSUME NEW bins, NEW marks, NEW size, NEW F, Lists(bins, marks, size, F),
         NEW p, bins[Lr] = <<p>>, NEW size2, SameBut(F, size, p, size2)
  PROVE  Lists(bins, marks, size2, F)
<1> USE DEF SameBut
<1> DEFINE one == <<p>>
           none == <<>>
           c == [bins EXCEPT ![Lr] = none]
<1>1. p \in F /\ Lists(c, marks, size, F \ {p})
  BY ListsClearLr
<1>2. Lists(c, marks, size2, F \ {p})
  <2> HIDE DEF c
  <2> QED BY <1>1, ListsAgree
<1>3. bins = [i \in Bins |-> bins[i]] /\ DOMAIN bins = Bins /\ Lr \in Bins
  BY BinsIs DEF Lists
<1>4. c[Lr] = none
  BY <1>3, Zenon
<1>5. Len(c[Lr]) = 0
  <2>1. Len(none) = 0
    OBVIOUS
  <2> HIDE DEF none, c
  <2> QED BY <2>1, <1>4
<1>6. Lists([c EXCEPT ![Lr] = one], marks, size2, (F \ {p}) \cup {p})
  <2> HIDE DEF c
  <2> QED BY <1>2, <1>5, ListsSetLr DEF one
<1>7. [c EXCEPT ![Lr] = one] = bins
  <2>1. bins[Lr] = one
    OBVIOUS
  <2> HIDE DEF one, none
  <2>2. DOMAIN c = Bins /\ \A i \in Bins : i # Lr => c[i] = bins[i]
    BY <1>3
  <2> HIDE DEF c
  <2> QED BY <2>1, <2>2, <1>3
<1>8. (F \ {p}) \cup {p} = F
  BY <1>1
<1> QED BY <1>6, <1>7, <1>8

-----------------------------------------------------------------------------
(* Heaps in shape *)

\* The chunks of C, and of the records that stand for them.
Solid(h, C) ==
  /\ Chain(C, h.size, h.first, h.top, h.pos)
  /\ Tags(C, h.size, h.pin, h.foot, h.first, h.top)
Frame(h, C) ==
  /\ IsHeap(h)
  /\ h.pos \in Start .. End /\ h.pos % 4 = 0 /\ h.base \in BOOLEAN
  /\ C \subseteq DOMAIN h.size /\ C \subseteq DOMAIN h.pin
  /\ IF h.top = None THEN C = {} /\ DOMAIN h.size = {} /\ DOMAIN h.pin = {} ELSE Solid(h, C)

FreeOf(h, C) == FreeIn(C, h.size, h.pin, h.top)
UsedOf(h, C) == UsedIn(C, h.size, h.pin, h.top)

\* The heap between two steps: its chunks are those of C.
Good(h, C) == Frame(h, C) /\ Lists(h.bins, h.marks, h.size, FreeOf(h, C))

\* The memory in use is the same, or there is one more chunk of it.
SameUse(h, C, g, D) ==
  /\ UsedOf(g, D) = UsedOf(h, C)
  /\ \A x \in UsedOf(h, C) : g.size[x] = h.size[x]
MoreUse(h, C, g, D, p) ==
  /\ p \notin UsedOf(h, C) /\ UsedOf(g, D) = UsedOf(h, C) \cup {p}
  /\ \A x \in UsedOf(h, C) : g.size[x] = h.size[x]
LessUse(h, C, g, D, p) ==
  /\ UsedOf(g, D) = UsedOf(h, C) \ {p}
  /\ \A x \in UsedOf(h, C) : x # p => g.size[x] = h.size[x]

\* What an allocation of nb bytes hands out.
Hands(h, C, r, nb) ==
  \E D : Good(r.h, D) /\ IF r.mem = None THEN SameUse(h, C, r.h, D)
                         ELSE \E p \in D : /\ r.mem = Mem(p) /\ MoreUse(h, C, r.h, D, p)
                                           /\ r.h.size[p] >= nb

LEMMA PutIs ==
  ASSUME NEW f, NEW x, NEW v
  PROVE  /\ DOMAIN Put(f, x, v) = DOMAIN f \cup {x}
         /\ Put(f, x, v)[x] = v
         /\ \A y \in DOMAIN f : y # x => Put(f, x, v)[y] = f[y]
BY DEF Put

TwoPut(g, f, x, v, y, w) ==
  /\ DOMAIN g = DOMAIN f \cup {x, y}
  /\ g[x] = v /\ g[y] = w
  /\ \A z \in DOMAIN f : z # x /\ z # y => g[z] = f[z]

LEMMA PutTwice ==
  ASSUME NEW f, NEW x, NEW v, NEW y, NEW w, x # y
  PROVE  TwoPut(Put(Put(f, x, v), y, w), f, x, v, y, w)
<1> DEFINE g == Put(f, x, v)
<1>1. /\ DOMAIN g = DOMAIN f \cup {x} /\ g[x] = v
      /\ \A z \in DOMAIN f : z # x => g[z] = f[z]
  BY DEF Put
<1> HIDE DEF g
<1>2. /\ DOMAIN Put(g, y, w) = DOMAIN g \cup {y} /\ Put(g, y, w)[y] = w
      /\ \A z \in DOMAIN g : z # y => Put(g, y, w)[z] = g[z]
  BY DEF Put
<1>3. Put(g, y, w)[x] = v
  BY <1>1, <1>2
<1>4. \A z \in DOMAIN f : z # x /\ z # y => Put(g, y, w)[z] = f[z]
  BY <1>1, <1>2
<1>5. DOMAIN Put(g, y, w) = DOMAIN f \cup {x, y}
  BY <1>1, <1>2
<1> QED BY <1>2, <1>3, <1>4, <1>5 DEF g, TwoPut

\* The parts of a heap.
LEMMA Parts ==
  ASSUME NEW pos, NEW base, NEW top, NEW first, NEW size, NEW pin, NEW foot,
         NEW bins, NEW marks, NEW g,
         g = HeapOf(pos, base, top, first, size, pin, foot, bins, marks)
  PROVE  /\ IsHeap(g) /\ g.pos = pos /\ g.base = base /\ g.top = top /\ g.first = first
         /\ g.size = size /\ g.pin = pin /\ g.foot = foot /\ g.bins = bins /\ g.marks = marks
BY HeapOfIsHeap DEF HeapOf

\* A heap with chunks.
LEMMA Standing ==
  ASSUME NEW h, NEW C, Frame(h, C), h.top # None \/ C # {}
  PROVE  /\ Chain(C, h.size, h.first, h.top, h.pos)
         /\ Tags(C, h.size, h.pin, h.foot, h.first, h.top)
         /\ h.top # None /\ h.top \in C /\ h.first \in C
         /\ C \subseteq DOMAIN h.size /\ C \subseteq DOMAIN h.pin
         /\ IsHeap(h)
<1>1. h.top # None
  BY DEF Frame
<1>2. Chain(C, h.size, h.first, h.top, h.pos) /\ Tags(C, h.size, h.pin, h.foot, h.first, h.top)
  BY <1>1 DEF Frame, Solid
<1>3. h.top \in C /\ h.first \in C
  BY <1>2, ChainTypes
<1> QED BY <1>1, <1>2, <1>3 DEF Frame

\* TakeWhole: the chunk leaves the lists and is in use.
LEMMA TakesWhole ==
  ASSUME NEW h, NEW C, Good(h, C), NEW p \in FreeOf(h, C), NEW nb \in Nat, h.size[p] >= nb
  PROVE  Hands(h, C, TakeWhole(h, p), nb)
<1> DEFINE size == h.size
           pin == h.pin
           foot == h.foot
           top == h.top
           first == h.first
           pos == h.pos
           F == FreeOf(h, C)
<1>1. /\ Chain(C, size, first, top, pos) /\ Tags(C, size, pin, foot, first, top)
      /\ top # None /\ IsHeap(h)
      /\ C \subseteq DOMAIN size /\ C \subseteq DOMAIN pin
  <2>1. p \in C /\ Frame(h, C)
    BY DEF FreeOf, FreeIn, Good
  <2> QED BY <2>1, Standing
<1>2. /\ F = FreeIn(C, size, pin, top) /\ UsedOf(h, C) = UsedIn(C, size, pin, top)
      /\ p \in FreeIn(C, size, pin, top)
      /\ Lists(h.bins, h.marks, size, F)
  BY DEF FreeOf, UsedOf, Good
<1> DEFINE e == p + size[p]
           pin2 == [pin EXCEPT ![e] = TRUE]
           bins2 == [i \in Bins |-> Without(h.bins[i], p)]
           g == Unlink(SetInuseAt(h, p, size[p]), p)
<1>3. g = HeapOf(pos, h.base, top, first, size, pin2, foot, bins2, h.marks)
  <2> DEFINE g1 == SetInuseAt(h, p, size[p])
  <2>1. g1 = HeapOf(pos, h.base, top, first, size, pin2, foot, h.bins, h.marks)
    BY <1>1, SetInuseAtIs
  <2> HIDE DEF g1, pin2, size
  <2>2. /\ IsHeap(g1) /\ g1.pos = h.pos /\ g1.base = h.base /\ g1.top = h.top
        /\ g1.first = h.first /\ g1.size = size /\ g1.pin = pin2 /\ g1.foot = h.foot
        /\ g1.bins = h.bins /\ g1.marks = h.marks
    BY <2>1, Parts
  <2>3. g = Unlink(g1, p)
    BY DEF g1
  <2> QED BY <2>2, <2>3, UnlinkIs
<1>4. TakeWhole(h, p) = [h |-> g, mem |-> Mem(p)]
  BY DEF TakeWhole, Got
<1> HIDE DEF g, size, pin, foot, top, first, pos, F
<1>5. e \in C /\ p \in C /\ e \in DOMAIN pin /\ p \in Nat /\ size[p] \in Nat
  <2>1. p \in C \ {top}
    BY <1>2 DEF FreeIn
  <2> QED BY <1>1, <2>1, ChainTypes
<1>6. /\ DOMAIN pin2 = DOMAIN pin /\ pin2[e] = TRUE
      /\ \A x \in C : x # e => pin2[x] = pin[x]
  BY <1>1, <1>5
<1> HIDE DEF pin2
<1>7. /\ Tags(C, size, pin2, foot, first, top)
      /\ FreeIn(C, size, pin2, top) = FreeIn(C, size, pin, top) \ {p}
      /\ UsedIn(C, size, pin2, top) = UsedIn(C, size, pin, top) \cup {p}
  <2>1. TagSet(C, size, pin, p, pin2)
    BY <1>6 DEF TagSet
  <2> QED BY <1>1, <1>2, <2>1, TagsUse
<1>8. Lists(bins2, h.marks, size, F \ {p})
  BY <1>2, ListsUnlink
<1> HIDE DEF bins2, e
<1>9. /\ IsHeap(g) /\ g.pos = pos /\ g.base = h.base /\ g.top = top
      /\ g.first = first /\ g.size = size /\ g.pin = pin2 /\ g.foot = foot
      /\ g.bins = bins2 /\ g.marks = h.marks
  BY <1>3, Parts
<1>10. Frame(g, C)
  <2>1. pos \in Start .. End /\ pos % 4 = 0 /\ h.base \in BOOLEAN
    BY DEF Good, Frame, pos
  <2> QED BY <1>1, <1>6, <1>7, <1>9, <2>1 DEF Frame, Solid
<1>11. Good(g, C)
  BY <1>2, <1>7, <1>8, <1>9, <1>10 DEF Good, FreeOf
<1>12. MoreUse(h, C, g, C, p)
  <2>1. p \notin UsedIn(C, size, pin, top)
    BY <1>1, <1>2, ChunkFacts
  <2> QED BY <2>1, <1>2, <1>7, <1>9 DEF MoreUse, UsedOf, size
<1>13. Mem(p) # None
  BY <1>5, Constants DEF Mem
<1>14. g.size[p] >= nb
  BY <1>9 DEF size
<1>15. TakeWhole(h, p).h = g /\ TakeWhole(h, p).mem = Mem(p)
  BY <1>4
<1> QED BY <1>5, <1>11, <1>12, <1>13, <1>14, <1>15 DEF Hands

\* The lists after a split: the chunk leaves them, the rest is the last remainder.
SplitBins(bins, p, r) == [[i \in Bins |-> Without(bins[i], p)] EXCEPT ![Lr] = <<r>>]

\* TakePiece: the records it leaves.
RestOf(h, p, nb, r, rest) == r = p + nb /\ rest = h.size[p] - nb

LEMMA TakePieceIs ==
  ASSUME NEW h, IsHeap(h), NEW p, NEW nb, NEW r, NEW rest, RestOf(h, p, nb, r, rest)
  PROVE  TakePiece(h, p, nb).mem = Mem(p) /\
         TakePiece(h, p, nb).h =
           HeapOf(h.pos, h.base, h.top, h.first, Put(Put(h.size, p, nb), r, rest),
                  Put(Put(h.pin, p, TRUE), r, TRUE), Put(h.foot, r + rest, rest),
                  SplitBins(h.bins, p, r), h.marks)
<1> DEFINE g1 == SetHead(h, p, nb, TRUE)
           g2 == Unlink(g1, p)
           g3 == LinkLastRemainder(g2, r)
           g4 == SetHead(g3, r, rest, TRUE)
           g5 == SetFoot(g4, r, rest)
           s1 == Put(h.size, p, nb)
           p1 == Put(h.pin, p, TRUE)
           b1 == [i \in Bins |-> Without(h.bins[i], p)]
           b2 == [b1 EXCEPT ![Lr] = <<r>>]
           s2 == Put(s1, r, rest)
           p2 == Put(p1, r, TRUE)
           f2 == Put(h.foot, r + rest, rest)
<1>1. TakePiece(h, p, nb) = [h |-> g5, mem |-> Mem(p)]
  BY DEF TakePiece, Got, RestOf
<1>2. g1 = HeapOf(h.pos, h.base, h.top, h.first, s1, p1, h.foot, h.bins, h.marks)
  BY SetHeadIs
<1> HIDE DEF g1, s1, p1
<1>3. /\ IsHeap(g1) /\ g1.pos = h.pos /\ g1.base = h.base /\ g1.top = h.top
      /\ g1.first = h.first /\ g1.size = s1 /\ g1.pin = p1 /\ g1.foot = h.foot
      /\ g1.bins = h.bins /\ g1.marks = h.marks
  BY <1>2, Parts
<1>4. g2 = HeapOf(h.pos, h.base, h.top, h.first, s1, p1, h.foot, b1, h.marks)
  BY <1>3, UnlinkIs
<1> HIDE DEF g2, b1
<1>5. /\ IsHeap(g2) /\ g2.pos = h.pos /\ g2.base = h.base /\ g2.top = h.top
      /\ g2.first = h.first /\ g2.size = s1 /\ g2.pin = p1 /\ g2.foot = h.foot
      /\ g2.bins = b1 /\ g2.marks = h.marks
  BY <1>4, Parts
<1>6. g3 = HeapOf(h.pos, h.base, h.top, h.first, s1, p1, h.foot, b2, h.marks)
  BY <1>5, SetLastRemainderIs
<1> HIDE DEF g3, b2
<1>7. /\ IsHeap(g3) /\ g3.pos = h.pos /\ g3.base = h.base /\ g3.top = h.top
      /\ g3.first = h.first /\ g3.size = s1 /\ g3.pin = p1 /\ g3.foot = h.foot
      /\ g3.bins = b2 /\ g3.marks = h.marks
  BY <1>6, Parts
<1>8. g4 = HeapOf(h.pos, h.base, h.top, h.first, s2, p2, h.foot, b2, h.marks)
  BY <1>7, SetHeadIs
<1> HIDE DEF g4, s2, p2
<1>9. /\ IsHeap(g4) /\ g4.pos = h.pos /\ g4.base = h.base /\ g4.top = h.top
      /\ g4.first = h.first /\ g4.size = s2 /\ g4.pin = p2 /\ g4.foot = h.foot
      /\ g4.bins = b2 /\ g4.marks = h.marks
  BY <1>8, Parts
<1>10. g5 = HeapOf(h.pos, h.base, h.top, h.first, s2, p2, f2, b2, h.marks)
  BY <1>9, SetFootIs
<1> HIDE DEF g5, f2
<1>11. b2 = SplitBins(h.bins, p, r)
  BY DEF b2, b1, SplitBins
<1> QED BY <1>1, <1>10, <1>11 DEF s1, p1, s2, p2, f2

\* The chunks and the lists of a heap under names of their own.
Named(h, C, pos, base, top, first, size, pin, foot, bins, marks) ==
  /\ h = HeapOf(pos, base, top, first, size, pin, foot, bins, marks)
  /\ pos \in Start .. End /\ pos % 4 = 0 /\ base \in BOOLEAN
  /\ C \subseteq DOMAIN size /\ C \subseteq DOMAIN pin
  /\ top # None
  /\ Chain(C, size, first, top, pos)
  /\ Tags(C, size, pin, foot, first, top)

\* How heaps with chunks are put together again.
LEMMA Made ==
  ASSUME NEW g, NEW C, NEW pos, NEW base, NEW top, NEW first, NEW size, NEW pin, NEW foot,
         NEW bins, NEW marks,
         Named(g, C, pos, base, top, first, size, pin, foot, bins, marks)
  PROVE  /\ Frame(g, C) /\ g.size = size /\ g.top = top /\ g.pos = pos /\ g.bins = bins
         /\ g.pin = pin /\ g.marks = marks /\ g.base = base
         /\ FreeOf(g, C) = FreeIn(C, size, pin, top) /\ UsedOf(g, C) = UsedIn(C, size, pin, top)
         /\ Lists(bins, marks, size, FreeIn(C, size, pin, top)) => Good(g, C)
<1>1. /\ IsHeap(g) /\ g.pos = pos /\ g.base = base /\ g.top = top
      /\ g.first = first /\ g.size = size /\ g.pin = pin /\ g.foot = foot
      /\ g.bins = bins /\ g.marks = marks
  BY Parts DEF Named
<1>2. Frame(g, C)
  BY <1>1 DEF Named, Frame, Solid
<1>3. FreeOf(g, C) = FreeIn(C, size, pin, top) /\ UsedOf(g, C) = UsedIn(C, size, pin, top)
  BY <1>1 DEF FreeOf, UsedOf
<1> QED BY <1>1, <1>2, <1>3 DEF Good

LEMMA Opened ==
  ASSUME NEW h, NEW C, Frame(h, C), h.top # None \/ C # {}
  PROVE  \E pos, base, top, first, size, pin, foot, bins, marks :
            Named(h, C, pos, base, top, first, size, pin, foot, bins, marks)
<1>1. /\ Chain(C, h.size, h.first, h.top, h.pos)
      /\ Tags(C, h.size, h.pin, h.foot, h.first, h.top)
      /\ h.top # None
      /\ C \subseteq DOMAIN h.size /\ C \subseteq DOMAIN h.pin
  BY Standing
<1>2. h.pos \in Start .. End /\ h.pos % 4 = 0 /\ h.base \in BOOLEAN
      /\ h = HeapOf(h.pos, h.base, h.top, h.first, h.size, h.pin, h.foot, h.bins, h.marks)
  BY DEF Frame, IsHeap
<1>3. Named(h, C, h.pos, h.base, h.top, h.first, h.size, h.pin, h.foot, h.bins, h.marks)
  BY <1>1, <1>2, Zenon DEF Named
<1> QED BY <1>3, Zenon

\* A last remainder takes the place of the one that was split, or of none.
LEMMA ListsSplit ==
  ASSUME NEW bins, NEW marks, NEW size, NEW F, Lists(bins, marks, size, F),
         NEW p \in F, bins[Lr] = <<>> \/ bins[Lr] = <<p>>, NEW r, r \notin F,
         NEW size2, SameBut(F, size, p, size2)
  PROVE  Lists(SplitBins(bins, p, r), marks, size2, (F \ {p}) \cup {r})
<1> DEFINE b1 == [i \in Bins |-> Without(bins[i], p)]
<1>1. Lists(b1, marks, size, F \ {p}) /\ b1[Lr] = <<>>
  <2>1. Without(bins[Lr], p) = IF bins[Lr] = <<p>> THEN <<>> ELSE bins[Lr]
    BY ListsUnlink
  <2>2. b1[Lr] = Without(bins[Lr], p)
    BY BinsIs
  <2>3. b1[Lr] = <<>>
    BY <2>1, <2>2, Zenon
  <2> QED BY <2>3, ListsUnlink
<1> HIDE DEF b1
<1>2. Lists(b1, marks, size2, F \ {p})
  <2>1. \A x \in F \ {p} : size2[x] = size[x]
    BY DEF SameBut
  <2> QED BY <1>1, <2>1, ListsAgree
<1>3. Len(b1[Lr]) = 0
  BY <1>1
<1>4. Lists([b1 EXCEPT ![Lr] = <<r>>], marks, size2, (F \ {p}) \cup {r})
  BY <1>2, <1>3, ListsSetLr
<1> QED BY <1>4 DEF b1, SplitBins

\* No other chunk is the last remainder.
NoOther(bins, p) == bins[Lr] = <<>> \/ bins[Lr] = <<p>>

\* TakePiece: the chunk is cut, its first part is in use.
LEMMA TakesPiece ==
  ASSUME NEW h, NEW C, Good(h, C), NEW p \in FreeOf(h, C),
         NoOther(h.bins, p), NEW nb \in Nat, nb >= 16, nb % 8 = 0, h.size[p] - nb >= 16
  PROVE  Hands(h, C, TakePiece(h, p, nb), nb)
<1>1. Frame(h, C) /\ C # {}
  BY DEF Good, FreeOf, FreeIn
<1>2. PICK pos, base, top, first, size, pin, foot, bins, marks :
        Named(h, C, pos, base, top, first, size, pin, foot, bins, marks)
  BY <1>1, Opened
<1> DEFINE F == FreeIn(C, size, pin, top)
<1>3. /\ h.size = size /\ h.bins = bins /\ h.pin = pin /\ h.top = top
      /\ FreeOf(h, C) = F /\ UsedOf(h, C) = UsedIn(C, size, pin, top)
      /\ h.marks = marks
  BY <1>2, Made
<1>4. Lists(bins, marks, size, F)
  BY <1>3 DEF Good
<1>5. /\ h = HeapOf(pos, base, top, first, size, pin, foot, bins, marks)
      /\ pos \in Start .. End /\ pos % 4 = 0 /\ base \in BOOLEAN
      /\ C \subseteq DOMAIN size /\ C \subseteq DOMAIN pin
      /\ top # None
      /\ Chain(C, size, first, top, pos)
      /\ Tags(C, size, pin, foot, first, top)
  BY <1>2 DEF Named
<1>6. p \in F /\ p \in C /\ p # top /\ pin[p] = TRUE /\ pin[p + size[p]] = FALSE
      /\ p \notin UsedIn(C, size, pin, top)
  <2>1. p \in FreeIn(C, size, pin, top)
    BY <1>3
  <2>2. /\ p \in C \ {top} /\ pin[p] = TRUE /\ pin[p + size[p]] = FALSE
        /\ p \notin UsedIn(C, size, pin, top)
    BY <2>1, <1>5, ChunkFacts
  <2> QED BY <2>1, <2>2
<1>7. p \in Nat /\ size[p] \in Nat /\ size[p] % 8 = 0 /\ size[p] - nb >= 16
  BY <1>3, <1>5, <1>6, ChainTypes
<1> HIDE DEF F
<1> DEFINE r == p + nb
           rest == size[p] - nb
           size2 == Put(Put(size, p, nb), r, rest)
           pin2 == Put(Put(pin, p, TRUE), r, TRUE)
           foot2 == Put(foot, r + rest, rest)
           bins2 == SplitBins(bins, p, r)
           D == C \cup {r}
           G == (F \ {p}) \cup {r}
           g == TakePiece(h, p, nb).h
<1>8. /\ TakePiece(h, p, nb).mem = Mem(p)
      /\ g = HeapOf(pos, base, top, first, size2, pin2, foot2, bins2, marks)
  <2>1. /\ IsHeap(h) /\ h.pos = pos /\ h.base = base /\ h.top = top /\ h.first = first
        /\ h.size = size /\ h.pin = pin /\ h.foot = foot /\ h.bins = bins /\ h.marks = marks
    BY <1>5, Parts
  <2> HIDE DEF g, size2, pin2, foot2, bins2
  <2>2. r = p + nb /\ rest = h.size[p] - nb
    BY <2>1
  <2> HIDE DEF r, rest
  <2>3. TakePiece(h, p, nb).mem = Mem(p) /\ TakePiece(h, p, nb).h =
           HeapOf(h.pos, h.base, h.top, h.first, Put(Put(h.size, p, nb), r, rest),
                  Put(Put(h.pin, p, TRUE), r, TRUE), Put(h.foot, r + rest, rest),
                  SplitBins(h.bins, p, r), h.marks)
    <3>1. IsHeap(h) /\ RestOf(h, p, nb, r, rest)
      BY <2>1, <2>2 DEF RestOf
    <3> QED BY <3>1, TakePieceIs, ZenonT(40)
  <2> QED BY <2>1, <2>3, Zenon DEF g, size2, pin2, foot2, bins2
<1> HIDE DEF g
<1>9. r \in Nat /\ rest \in Nat /\ r # p /\ r + rest = p + size[p] /\ r = p + nb
      /\ rest = size[p] - nb
  BY <1>7
<1> HIDE DEF r, rest
<1>10. /\ size2[p] = nb /\ size2[r] = rest /\ DOMAIN size2 = DOMAIN size \cup {p, r}
       /\ \A x \in DOMAIN size : x # p /\ x # r => size2[x] = size[x]
  <2>1. TwoPut(size2, size, p, nb, r, rest)
    BY <1>9, PutTwice
  <2> HIDE DEF size2
  <2> QED BY <2>1 DEF TwoPut
<1>11. /\ pin2[p] = TRUE /\ pin2[r] = TRUE /\ DOMAIN pin2 = DOMAIN pin \cup {p, r}
       /\ \A x \in DOMAIN pin : x # p /\ x # r => pin2[x] = pin[x]
  <2>1. TwoPut(pin2, pin, p, TRUE, r, TRUE)
    BY <1>9, PutTwice
  <2> HIDE DEF pin2
  <2> QED BY <2>1 DEF TwoPut
<1>12. /\ DOMAIN foot2 = DOMAIN foot \cup {p + size[p]} /\ foot2[p + size[p]] = rest
       /\ \A x \in DOMAIN foot : x # p + size[p] => foot2[x] = foot[x]
  BY <1>9 DEF Put
<1> HIDE DEF size2, pin2, foot2
<1>13. r \notin C
  <2>1. \A x, y \in C : x < y => x + size[x] <= y
    BY <1>5, ChainTypes
  <2> QED BY <2>1, <1>6, <1>7, <1>9
<1>14. CutSizes(C, size, p, nb, size2) /\ CutTags(C, size, pin, foot, p, nb, pin2, foot2)
  <2>1. \A a \in C : pin[a] = FALSE => a \in DOMAIN foot
    BY <1>5 DEF Tags
  <2> QED BY <2>1, <1>5, <1>6, <1>9, <1>10, <1>11, <1>12, <1>13 DEF CutSizes, CutTags
<1>15. Chain(D, size2, first, top, pos)
  BY <1>5, <1>6, <1>7, <1>9, <1>14, ChainSplit
<1>16. /\ Tags(D, size2, pin2, foot2, first, top)
       /\ FreeIn(D, size2, pin2, top) = G
       /\ UsedIn(D, size2, pin2, top) = UsedIn(C, size, pin, top) \cup {p}
  <2>1. top = IF p = top THEN p + nb ELSE top
    BY <1>6
  <2>2. /\ Tags(C \cup {p + nb}, size2, pin2, foot2, first, top)
        /\ SplitUse(C, size, pin, top, p, nb, size2, pin2, top)
    <3>1. nb >= 16 /\ size[p] - nb >= 16 /\ p + nb \notin C
      BY <1>7, <1>9, <1>13
    <3> QED BY <2>1, <3>1, <1>5, <1>6, <1>14, TagsSplit
  <2>3. /\ FreeIn(D, size2, pin2, top) = (FreeIn(C, size, pin, top) \ {p}) \cup {r}
        /\ UsedIn(D, size2, pin2, top) = UsedIn(C, size, pin, top) \cup {p}
    BY <2>2, <1>6, <1>9 DEF SplitUse
  <2> QED BY <2>2, <2>3, <1>9 DEF F
<1>17. Lists(bins2, marks, size2, G)
  <2>1. F \subseteq C
    BY DEF F, FreeIn
  <2>2. SameBut(F, size, p, size2) /\ r \notin F
    BY <2>1, <1>5, <1>10, <1>13 DEF SameBut
  <2>3. bins[Lr] = <<>> \/ bins[Lr] = <<p>>
    BY <1>3, Zenon DEF NoOther
  <2> QED BY <2>2, <2>3, <1>4, <1>6, ListsSplit
<1> HIDE DEF bins2, G
<1>18. D \subseteq DOMAIN size2 /\ D \subseteq DOMAIN pin2
  BY <1>5, <1>10, <1>11
<1>19. Named(g, D, pos, base, top, first, size2, pin2, foot2, bins2, marks)
  BY <1>5, <1>8, <1>15, <1>16, <1>18 DEF Named
<1>20. /\ Good(g, D) /\ g.size = size2
       /\ UsedOf(g, D) = UsedIn(C, size, pin, top) \cup {p}
  BY <1>16, <1>17, <1>19, Made, ZenonT(30)
<1>21. MoreUse(h, C, g, D, p)
  <2>1. \A x \in UsedIn(C, size, pin, top) : x \in DOMAIN size /\ x # p /\ x # r
    BY <1>5, <1>6, <1>13 DEF UsedIn
  <2> QED BY <2>1, <1>3, <1>6, <1>10, <1>20 DEF MoreUse
<1>22. p \in D /\ g.size[p] >= nb /\ Mem(p) # None
  <2>1. Mem(p) \in Nat
    BY <1>7 DEF Mem
  <2> QED BY <2>1, <1>6, <1>7, <1>10, <1>20, Constants
<1> QED BY <1>8, <1>20, <1>21, <1>22 DEF Hands, g

\* CutTop: the records it leaves.
LEMMA CutTopIs ==
  ASSUME NEW h, IsHeap(h), NEW nb, NEW r, NEW rest, RestOf(h, h.top, nb, r, rest),
         h.top # None, ~(h.size[h.top] - nb < MinSize)
  PROVE  CutTop(h, nb).mem = Mem(h.top) /\
         CutTop(h, nb).h =
           HeapOf(h.pos, h.base, r, h.first, Put(Put(h.size, h.top, nb), r, rest),
                  Put(Put(h.pin, h.top, TRUE), r, TRUE), h.foot, h.bins, h.marks)
<1> DEFINE t == h.top
           s1 == Put(h.size, t, nb)
           p1 == Put(h.pin, t, TRUE)
           g1 == SetHead(h, t, nb, TRUE)
           g2 == [g1 EXCEPT !.top = @ + nb]
           g3 == SetHead(g2, r, rest, TRUE)
<1>1. CutTop(h, nb) = [h |-> g3, mem |-> Mem(t)]
  BY DEF CutTop, Got, TopSize, RestOf
<1>2. r = t + nb
  BY DEF RestOf
<1> HIDE DEF t
<1>3. g1 = HeapOf(h.pos, h.base, h.top, h.first, s1, p1, h.foot, h.bins, h.marks)
  BY SetHeadIs
<1> HIDE DEF g1, s1, p1
<1>4. /\ IsHeap(g1) /\ g1.pos = h.pos /\ g1.base = h.base /\ g1.top = t
      /\ g1.first = h.first /\ g1.size = s1 /\ g1.pin = p1 /\ g1.foot = h.foot
      /\ g1.bins = h.bins /\ g1.marks = h.marks
  BY <1>3, Parts DEF t
<1>5. g2 = [g1 EXCEPT !.top = r]
  BY <1>2, <1>4
<1>6. g2 = HeapOf(h.pos, h.base, r, h.first, s1, p1, h.foot, h.bins, h.marks)
  <2> HIDE DEF g2
  <2> QED BY <1>4, <1>5 DEF IsHeap, HeapOf
<1> HIDE DEF g2
<1>7. /\ IsHeap(g2) /\ g2.pos = h.pos /\ g2.base = h.base /\ g2.top = r
      /\ g2.first = h.first /\ g2.size = s1 /\ g2.pin = p1 /\ g2.foot = h.foot
      /\ g2.bins = h.bins /\ g2.marks = h.marks
  BY <1>6, Parts
<1>8. g3 = HeapOf(h.pos, h.base, r, h.first, Put(s1, r, rest), Put(p1, r, TRUE),
                  h.foot, h.bins, h.marks)
  BY <1>7, SetHeadIs
<1> HIDE DEF g3
<1> QED BY <1>1, <1>8 DEF s1, p1, t

\* CutTop: the chunk is in use, the rest is the top chunk.
LEMMA CutsTop ==
  ASSUME NEW h, NEW C, Good(h, C), h.top # None,
         NEW nb \in Nat, nb >= 16, nb % 8 = 0, h.size[h.top] - nb >= 16
  PROVE  Hands(h, C, CutTop(h, nb), nb)
<1>1. Frame(h, C)
  BY DEF Good
<1>2. PICK pos, base, top, first, size, pin, foot, bins, marks :
        Named(h, C, pos, base, top, first, size, pin, foot, bins, marks)
  BY <1>1, Opened
<1> DEFINE F == FreeIn(C, size, pin, top)
           U == UsedIn(C, size, pin, top)
<1>3. /\ h.size = size /\ h.bins = bins /\ h.pin = pin /\ h.top = top
      /\ FreeOf(h, C) = F /\ UsedOf(h, C) = U
      /\ h.marks = marks
  BY <1>2, Made
<1>4. Lists(bins, marks, size, F)
  BY <1>3 DEF Good
<1>5. /\ h = HeapOf(pos, base, top, first, size, pin, foot, bins, marks)
      /\ pos \in Start .. End /\ pos % 4 = 0 /\ base \in BOOLEAN
      /\ C \subseteq DOMAIN size /\ C \subseteq DOMAIN pin
      /\ top # None
      /\ Chain(C, size, first, top, pos)
      /\ Tags(C, size, pin, foot, first, top)
  BY <1>2 DEF Named
<1>6. /\ top \in C /\ top \in Nat /\ size[top] \in Nat /\ size[top] % 8 = 0
      /\ size[top] - nb >= 16 /\ pin[top] = TRUE
  BY <1>3, <1>5, ChainTypes DEF Tags
<1> DEFINE r == top + nb
           rest == size[top] - nb
           size2 == Put(Put(size, top, nb), r, rest)
           pin2 == Put(Put(pin, top, TRUE), r, TRUE)
           D == C \cup {r}
           g == CutTop(h, nb).h
<1>8. /\ CutTop(h, nb).mem = Mem(top)
      /\ g = HeapOf(pos, base, r, first, size2, pin2, foot, bins, marks)
  <2>1. /\ IsHeap(h) /\ h.pos = pos /\ h.base = base /\ h.top = top /\ h.first = first
        /\ h.size = size /\ h.pin = pin /\ h.foot = foot /\ h.bins = bins /\ h.marks = marks
    BY <1>5, Parts
  <2> HIDE DEF g, size2, pin2
  <2>2. RestOf(h, h.top, nb, r, rest) /\ h.top # None /\ ~(h.size[h.top] - nb < MinSize)
    BY <2>1, <1>5, <1>6 DEF RestOf, MinSize
  <2> HIDE DEF r, rest
  <2>3. CutTop(h, nb).mem = Mem(h.top) /\ CutTop(h, nb).h =
           HeapOf(h.pos, h.base, r, h.first, Put(Put(h.size, h.top, nb), r, rest),
                  Put(Put(h.pin, h.top, TRUE), r, TRUE), h.foot, h.bins, h.marks)
    BY <2>1, <2>2, CutTopIs
  <2> QED BY <2>1, <2>3, Zenon DEF g, size2, pin2
<1> HIDE DEF g, F, U
<1>9. r \in Nat /\ rest \in Nat /\ r # top /\ r + rest = top + size[top] /\ r = top + nb
      /\ rest = size[top] - nb
  BY <1>6
<1> HIDE DEF r, rest
<1>10. /\ size2[top] = nb /\ size2[r] = rest /\ DOMAIN size2 = DOMAIN size \cup {top, r}
       /\ \A x \in DOMAIN size : x # top /\ x # r => size2[x] = size[x]
  <2>1. TwoPut(size2, size, top, nb, r, rest)
    BY <1>9, PutTwice
  <2> HIDE DEF size2
  <2> QED BY <2>1 DEF TwoPut
<1>11. /\ pin2[top] = TRUE /\ pin2[r] = TRUE /\ DOMAIN pin2 = DOMAIN pin \cup {top, r}
       /\ \A x \in DOMAIN pin : x # top /\ x # r => pin2[x] = pin[x]
  <2>1. TwoPut(pin2, pin, top, TRUE, r, TRUE)
    BY <1>9, PutTwice
  <2> HIDE DEF pin2
  <2> QED BY <2>1 DEF TwoPut
<1> HIDE DEF size2, pin2
<1>13. r \notin C
  <2>1. \A x \in C : x <= top
    BY <1>5, ChainEnds
  <2> QED BY <2>1, <1>6, <1>9
<1>14. CutSizes(C, size, top, nb, size2) /\ CutTags(C, size, pin, foot, top, nb, pin2, foot)
  <2>1. \A a \in C : pin[a] = FALSE => a \in DOMAIN foot
    BY <1>5 DEF Tags
  <2>2. \A a \in C : a # top + size[top]
    <3>1. \A x \in C : x <= top
      BY <1>5, ChainEnds
    <3>2. \A x \in C : x \in Nat
      BY <1>5, ChainTypes
    <3> QED BY <3>1, <3>2, <1>6
  <2> QED BY <2>1, <2>2, <1>5, <1>6, <1>9, <1>10, <1>11, <1>13 DEF CutSizes, CutTags
<1>15. Chain(D, size2, first, r, pos)
  BY <1>5, <1>6, <1>9, <1>14, ChainSplit
<1>16. /\ Tags(D, size2, pin2, foot, first, r)
       /\ FreeIn(D, size2, pin2, r) = F
       /\ UsedIn(D, size2, pin2, r) = U \cup {top}
  <2>1. r = IF top = top THEN top + nb ELSE top
    BY <1>9
  <2>2. /\ Tags(C \cup {top + nb}, size2, pin2, foot, first, r)
        /\ SplitUse(C, size, pin, top, top, nb, size2, pin2, r)
    <3>1. nb >= 16 /\ size[top] - nb >= 16 /\ top + nb \notin C
      BY <1>6, <1>9, <1>13
    <3> QED BY <2>1, <3>1, <1>5, <1>6, <1>14, TagsSplit
  <2>3. /\ FreeIn(D, size2, pin2, r) = FreeIn(C, size, pin, top)
        /\ UsedIn(D, size2, pin2, r) = UsedIn(C, size, pin, top) \cup {top}
    BY <2>2, <1>6, <1>9 DEF SplitUse
  <2> QED BY <2>2, <2>3, <1>9 DEF F, U
<1>17. Lists(bins, marks, size2, F)
  <2>1. \A x \in F : x \in C /\ x # top
    BY DEF F, FreeIn
  <2>2. \A x \in F : size2[x] = size[x]
    BY <2>1, <1>5, <1>10, <1>13
  <2> QED BY <2>2, <1>4, ListsAgree
<1>18. D \subseteq DOMAIN size2 /\ D \subseteq DOMAIN pin2 /\ r # None
  BY <1>5, <1>9, <1>10, <1>11, Constants
<1>19. Named(g, D, pos, base, r, first, size2, pin2, foot, bins, marks)
  BY <1>5, <1>8, <1>15, <1>16, <1>18 DEF Named
<1> DEFINE U2 == UsedIn(D, size2, pin2, r)
<1>20. /\ Good(g, D) /\ g.size = size2
       /\ UsedOf(g, D) = U2
  <2> HIDE DEF U2, D
  <2>1. FreeIn(D, size2, pin2, r) = F
    BY <1>16
  <2> QED BY <2>1, <1>17, <1>19, Made DEF U2
<1>21. MoreUse(h, C, g, D, top)
  <2>1. \A x \in U : x \in DOMAIN size /\ x # top /\ x # r
    BY <1>5, <1>13 DEF U, UsedIn
  <2> QED BY <2>1, <1>3, <1>16, <1>10, <1>20 DEF MoreUse
<1>22. top \in D /\ g.size[top] >= nb /\ Mem(top) # None
  <2>1. Mem(top) \in Nat
    BY <1>6 DEF Mem
  <2> QED BY <2>1, <1>6, <1>10, <1>20, Constants
<1> QED BY <1>8, <1>20, <1>21, <1>22 DEF Hands, g

-----------------------------------------------------------------------------
(* The top chunk grows *)

LEMMA SbrkIs ==
  ASSUME NEW h, IsHeap(h), NEW n
  PROVE  Sbrk(h, n) = HeapOf(h.pos + n, h.base, h.top, h.first, h.size, h.pin, h.foot,
                             h.bins, h.marks)
<1> DEFINE x == h.pos + n
<1>1. Sbrk(h, n) = [h EXCEPT !.pos = x]
  BY DEF Sbrk
<1> HIDE DEF x
<1>2. [h EXCEPT !.pos = x] =
        HeapOf(x, h.base, h.top, h.first, h.size, h.pin, h.foot, h.bins, h.marks)
  BY DEF IsHeap, HeapOf
<1> QED BY <1>1, <1>2 DEF x

LEMMA BaseIs ==
  ASSUME NEW h, IsHeap(h), NEW b
  PROVE  [h EXCEPT !.base = b] =
           HeapOf(h.pos, b, h.top, h.first, h.size, h.pin, h.foot, h.bins, h.marks)
BY DEF IsHeap, HeapOf

BothTop(h, t, f) == [h EXCEPT !.top = t, !.first = f]
LEMMA BothTopIs ==
  ASSUME NEW h, IsHeap(h), NEW t, NEW f
  PROVE  BothTop(h, t, f) =
           HeapOf(h.pos, h.base, t, f, h.size, h.pin, h.foot, h.bins, h.marks)
<1> DEFINE g == [h EXCEPT !.top = t]
<1>1. g = HeapOf(h.pos, h.base, t, h.first, h.size, h.pin, h.foot, h.bins, h.marks)
  BY DEF IsHeap, HeapOf
<1>2. BothTop(h, t, f) = [g EXCEPT !.first = f]
  BY DEF BothTop
<1> HIDE DEF g
<1>3. /\ IsHeap(g) /\ g.pos = h.pos /\ g.base = h.base /\ g.top = t
      /\ g.first = h.first /\ g.size = h.size /\ g.pin = h.pin /\ g.foot = h.foot
      /\ g.bins = h.bins /\ g.marks = h.marks
  BY <1>1, Parts
<1>4. [g EXCEPT !.first = f] =
        HeapOf(h.pos, h.base, t, f, h.size, h.pin, h.foot, h.bins, h.marks)
  BY <1>3, HeapOfIsHeap DEF IsHeap, HeapOf
<1> QED BY <1>2, <1>4

\* How far the break is asked to move.
Want(base, nb) == IF base THEN Round(nb + MinSize, PageSize) ELSE nb + MinSize
LEMMA WantIs ==
  ASSUME NEW base \in BOOLEAN, NEW nb \in Nat, nb >= 16, nb % 8 = 0
  PROVE  /\ Want(base, nb) \in Nat /\ Want(base, nb) % 8 = 0
         /\ Want(base, nb) >= nb + 16 /\ Want(base, nb) <= Round(nb + MinSize, PageSize)
         /\ Round(nb + MinSize, PageSize) \in Nat
<1>1. PageSize \in Nat \ {0} /\ PageSize % 8 = 0 /\ nb + MinSize \in Nat /\ (nb + MinSize) % 8 = 0
      /\ nb + MinSize = nb + 16
  BY Constants DEF MinSize
<1> DEFINE x == Round(nb + MinSize, PageSize)
<1>2. x \in Nat /\ x % 8 = 0 /\ x >= nb + MinSize
  BY <1>1, RoundUp
<1> HIDE DEF x
<1>3. Want(base, nb) = x \/ Want(base, nb) = nb + MinSize
  BY Zenon DEF Want, x
<1> DEFINE w == Want(base, nb)
<1>4. w \in Nat /\ w % 8 = 0 /\ w >= nb + 16 /\ w <= x
  <2>1. w = x \/ w = nb + MinSize
    BY <1>3
  <2> HIDE DEF w
  <2> QED BY <2>1, <1>1, <1>2
<1> QED BY <1>2, <1>4 DEF x

\* The first chunk begins at a multiple of eight, the break is at the end of a page.
FrontGap(brk) == (8 - (Mem(brk) % 8)) % 8
More(brk, want) ==
  FrontGap(brk) + Round(brk + FrontGap(brk) + want, PageSize) - (brk + FrontGap(brk) + want)
LEMMA FrontIs ==
  ASSUME NEW brk \in Nat, brk % 4 = 0, NEW want \in Nat, want % 8 = 0
  PROVE  /\ brk + FrontGap(brk) \in Nat /\ (brk + FrontGap(brk)) % 8 = 0
         /\ FrontGap(brk) \in Nat /\ FrontGap(brk) <= 4
         /\ More(brk, want) \in Nat
         /\ (brk + want + More(brk, want)) % 8 = 0
         /\ brk + want + More(brk, want) >= brk + FrontGap(brk) + want
         /\ brk + want + More(brk, want) < brk + want + PageSize
<1> DEFINE f == FrontGap(brk)
<1>1. f \in Nat /\ (brk + f) % 8 = 0 /\ f <= 4 /\ f = (8 - ((brk + 8) % 8)) % 8
  BY DEF FrontGap, Mem
<1> HIDE DEF f
<1> DEFINE e == brk + f + want
           x == Round(e, PageSize)
<1>2. e \in Nat /\ e % 8 = 0
  BY <1>1
<1>3. PageSize \in Nat \ {0} /\ PageSize % 8 = 0
  BY Constants
<1>4. x \in Nat /\ x % 8 = 0 /\ x >= e /\ x < e + PageSize
  <2> HIDE DEF e
  <2> QED BY <1>2, <1>3, RoundUp
<1>5. More(brk, want) = f + x - (brk + f + want)
  BY DEF More, f
<1> HIDE DEF x
<1>6. x <= e + PageSize - 8
  BY <1>2, <1>3, <1>4
<1>7. brk + want + More(brk, want) = x /\ More(brk, want) \in Nat
  BY <1>1, <1>4, <1>5
<1> QED BY <1>1, <1>2, <1>3, <1>4, <1>6, <1>7 DEF f

\* memlib_extend_top, the branches under the names above.
LEMMA ExtendTopIs ==
  ASSUME NEW h, NEW nb, NEW want, want = Want(h.base, nb), NEW at, at = h.pos + FrontGap(h.pos),
         NEW more, more = More(h.pos, want)
  PROVE  ExtendTop(h, nb) =
           IF ~CanMove(h, want) THEN h
           ELSE IF h.top # None THEN SetHead(Sbrk(h, want), h.top, want + TopSize(h), TRUE)
           ELSE LET h1 == [Sbrk(h, want) EXCEPT !.base = TRUE]
                IN IF ~CanMove(h1, more) THEN h1
                   ELSE SetHead([Sbrk(h1, more) EXCEPT !.top = at, !.first = at],
                                at, h.pos + want + more - at, TRUE)
<1>1. ExtendTop(h, nb) =
           IF ~CanMove(h, want) THEN h
           ELSE IF h.top # None THEN SetHead(Sbrk(h, want), h.top, want + TopSize(h), TRUE)
           ELSE LET front == FrontGap(h.pos)
                    a     == h.pos + front
                    m     == front + Round(a + want, PageSize) - (a + want)
                    h1    == [Sbrk(h, want) EXCEPT !.base = TRUE]
                IN IF ~CanMove(h1, m) THEN h1
                   ELSE SetHead([Sbrk(h1, m) EXCEPT !.top = a, !.first = a],
                                a, h.pos + want + m - a, TRUE)
  BY Zenon DEF ExtendTop, Want, FrontGap
<1>2. more = FrontGap(h.pos) + Round(at + want, PageSize) - (at + want)
  BY Zenon DEF More
<1> QED BY <1>1, <1>2, Zenon

\* The break can not be moved far enough for a chunk of nb bytes.
NoRoom(h, nb) == h.pos + Round(nb + MinSize, PageSize) + PageSize > End

\* What asking for a larger top chunk leaves.
Extended(h, C, g, D, nb) ==
  /\ Good(g, D) /\ SameUse(h, C, g, D)
  /\ (g.top # None /\ g.size[g.top] - nb >= 16) \/ NoRoom(h, nb)

LEMMA GrowsTop ==
  ASSUME NEW h, NEW C, Good(h, C), h.top # None, NEW nb \in Nat, nb >= 16,
         NEW want \in Nat, want % 8 = 0, want >= nb + 16, CanMove(h, want)
  PROVE  Extended(h, C, SetHead(Sbrk(h, want), h.top, want + TopSize(h), TRUE), C, nb)
<1>1. Frame(h, C)
  BY DEF Good
<1>2. PICK pos, base, top, first, size, pin, foot, bins, marks :
        Named(h, C, pos, base, top, first, size, pin, foot, bins, marks)
  BY <1>1, Opened
<1> DEFINE F == FreeIn(C, size, pin, top)
           U == UsedIn(C, size, pin, top)
           new == want + TopSize(h)
           pos2 == pos + want
           size2 == Put(size, top, new)
           pin2 == Put(pin, top, TRUE)
           g == SetHead(Sbrk(h, want), h.top, new, TRUE)
<1>3. /\ h.size = size /\ h.bins = bins /\ h.pin = pin /\ h.top = top /\ h.pos = pos
      /\ FreeOf(h, C) = F /\ UsedOf(h, C) = U
      /\ h.marks = marks
  BY <1>2, Made
<1>4. Lists(bins, marks, size, F)
  BY <1>3 DEF Good
<1>5. /\ h = HeapOf(pos, base, top, first, size, pin, foot, bins, marks)
      /\ pos \in Start .. End /\ pos % 4 = 0 /\ base \in BOOLEAN
      /\ C \subseteq DOMAIN size /\ C \subseteq DOMAIN pin
      /\ top # None
      /\ Chain(C, size, first, top, pos)
      /\ Tags(C, size, pin, foot, first, top)
  BY <1>2 DEF Named
<1>6. /\ top \in C /\ top \in Nat /\ size[top] \in Nat /\ size[top] % 8 = 0 /\ size[top] >= 16
      /\ pin[top] = TRUE /\ pos \in Nat /\ pos % 8 = 0 /\ top + size[top] = pos
  BY <1>5, ChainTypes DEF Tags
<1>7. new = want + size[top]
  BY <1>3, <1>5 DEF TopSize
<1> HIDE DEF new
<1>8. g = HeapOf(pos2, base, top, first, size2, pin2, foot, bins, marks)
  <2>1. /\ IsHeap(h) /\ h.pos = pos /\ h.base = base /\ h.top = top /\ h.first = first
        /\ h.size = size /\ h.pin = pin /\ h.foot = foot /\ h.bins = bins /\ h.marks = marks
    BY <1>5, Parts
  <2> DEFINE g1 == Sbrk(h, want)
  <2> HIDE DEF pos2
  <2>2. g1 = HeapOf(pos2, base, top, first, size, pin, foot, bins, marks)
    BY <2>1, SbrkIs DEF pos2
  <2> HIDE DEF g1
  <2>3. /\ IsHeap(g1) /\ g1.pos = pos2 /\ g1.base = base /\ g1.top = top /\ g1.first = first
        /\ g1.size = size /\ g1.pin = pin /\ g1.foot = foot /\ g1.bins = bins /\ g1.marks = marks
    BY <2>2, Parts
  <2>4. SetHead(g1, top, new, TRUE) =
          HeapOf(pos2, base, top, first, size2, pin2, foot, bins, marks)
    BY <2>3, SetHeadIs
  <2> QED BY <2>1, <2>4 DEF g1
<1> HIDE DEF g, F, U
<1>9. /\ pos2 \in Start .. End /\ pos2 % 4 = 0 /\ pos2 % 8 = 0 /\ pos2 - top >= 16
      /\ new = pos2 - top /\ new - nb >= 16 /\ new \in Nat
  <2>1. pos2 \in Start .. End
    BY <1>3 DEF CanMove
  <2> QED BY <2>1, <1>6, <1>7
<1> HIDE DEF pos2
<1>10. /\ DOMAIN size2 = DOMAIN size \cup {top} /\ size2[top] = new
       /\ \A x \in DOMAIN size : x # top => size2[x] = size[x]
       /\ DOMAIN pin2 = DOMAIN pin \cup {top} /\ pin2[top] = TRUE
       /\ \A x \in DOMAIN pin : x # top => pin2[x] = pin[x]
  BY DEF Put
<1> HIDE DEF size2, pin2
<1>11. MovesTop(C, size, top, pos2, size2) /\ SameBut(C, size, top, size2)
       /\ SameTags(C, pin, pin2)
  BY <1>5, <1>6, <1>9, <1>10 DEF MovesTop, SameBut, SameTags
<1>12. Chain(C, size2, first, top, pos2)
  BY <1>5, <1>9, <1>11, ChainMoves
<1>13. /\ Tags(C, size2, pin2, foot, first, top)
       /\ FreeIn(C, size2, pin2, top) = F
       /\ UsedIn(C, size2, pin2, top) = U
  BY <1>5, <1>11, TagsMoves DEF F, U
<1>14. Lists(bins, marks, size2, F)
  <2>1. \A x \in F : x \in C /\ x # top
    BY DEF F, FreeIn
  <2>2. \A x \in F : size2[x] = size[x]
    BY <2>1, <1>5, <1>10
  <2> QED BY <2>2, <1>4, ListsAgree
<1>15. Named(g, C, pos2, base, top, first, size2, pin2, foot, bins, marks)
  BY <1>5, <1>8, <1>9, <1>10, <1>12, <1>13 DEF Named
<1>16. /\ Good(g, C) /\ g.size = size2 /\ g.top = top
       /\ UsedOf(g, C) = U
  BY <1>13, <1>14, <1>15, Made
<1>17. SameUse(h, C, g, C)
  <2>1. \A x \in U : x \in DOMAIN size /\ x # top
    BY <1>5 DEF U, UsedIn
  <2> QED BY <2>1, <1>3, <1>10, <1>16 DEF SameUse
<1>18. g.top # None /\ g.size[g.top] - nb >= 16
  BY <1>5, <1>9, <1>10, <1>16
<1> QED BY <1>16, <1>17, <1>18 DEF Extended, g, new

\* A heap without chunks.
LEMMA Bare ==
  ASSUME NEW h, NEW C, Good(h, C), h.top = None
  PROVE  /\ C = {} /\ DOMAIN h.size = {} /\ DOMAIN h.pin = {} /\ IsHeap(h)
         /\ FreeOf(h, C) = {} /\ UsedOf(h, C) = {}
         /\ Lists(h.bins, h.marks, h.size, {})
<1>1. C = {} /\ DOMAIN h.size = {} /\ DOMAIN h.pin = {} /\ IsHeap(h)
  BY DEF Good, Frame
<1>2. FreeOf(h, C) = {} /\ UsedOf(h, C) = {}
  BY <1>1 DEF FreeOf, UsedOf, FreeIn, UsedIn
<1>3. Lists(h.bins, h.marks, h.size, FreeOf(h, C))
  BY DEF Good
<1> QED BY <1>1, <1>2, <1>3

\* The first memory is not enough to begin with: the break stays moved.
LEMMA GrowsHalf ==
  ASSUME NEW h, NEW C, Good(h, C), h.top = None,
         NEW want \in Nat, want % 8 = 0, CanMove(h, want)
  PROVE  LET g == [Sbrk(h, want) EXCEPT !.base = TRUE] IN
         /\ g = HeapOf(h.pos + want, TRUE, None, h.first, h.size, h.pin, h.foot, h.bins, h.marks)
         /\ Good(g, C) /\ SameUse(h, C, g, C) /\ g.top = None /\ g.pos = h.pos + want
<1>1. /\ C = {} /\ DOMAIN h.size = {} /\ DOMAIN h.pin = {} /\ IsHeap(h)
      /\ FreeOf(h, C) = {} /\ UsedOf(h, C) = {}
      /\ Lists(h.bins, h.marks, h.size, {})
  BY Bare
<1> DEFINE g == [Sbrk(h, want) EXCEPT !.base = TRUE]
           x == h.pos + want
           b == TRUE
<1>2. x \in Start .. End /\ x % 4 = 0
  <2>1. h.pos \in Start .. End /\ h.pos % 4 = 0
    BY DEF Good, Frame
  <2>2. h.pos \in Nat
    BY <2>1, Constants
  <2> QED BY <2>1, <2>2 DEF CanMove
<1>3. g = HeapOf(x, b, None, h.first, h.size, h.pin, h.foot, h.bins, h.marks)
  <2> DEFINE g1 == Sbrk(h, want)
  <2>1. g1 = HeapOf(x, h.base, h.top, h.first, h.size, h.pin, h.foot, h.bins, h.marks)
    BY <1>1, SbrkIs
  <2> HIDE DEF g1, x, b
  <2>2. /\ IsHeap(g1) /\ g1.pos = x /\ g1.top = None /\ g1.first = h.first
        /\ g1.size = h.size /\ g1.pin = h.pin /\ g1.foot = h.foot /\ g1.bins = h.bins
        /\ g1.marks = h.marks
    BY <2>1, Parts
  <2>3. [g1 EXCEPT !.base = b] =
          HeapOf(x, b, None, h.first, h.size, h.pin, h.foot, h.bins, h.marks)
    BY <2>2, BaseIs
  <2> QED BY <2>3 DEF g1, b
<1> HIDE DEF g, x, b
<1>4. /\ IsHeap(g) /\ g.pos = x /\ g.base = b /\ g.top = None /\ g.first = h.first
      /\ g.size = h.size /\ g.pin = h.pin /\ g.foot = h.foot /\ g.bins = h.bins
      /\ g.marks = h.marks
  BY <1>3, Parts
<1>5. Frame(g, C)
  <2>1. b \in BOOLEAN
    BY DEF b
  <2> QED BY <2>1, <1>1, <1>2, <1>4 DEF Frame
<1>6. FreeOf(g, C) = {} /\ UsedOf(g, C) = {}
  BY <1>1 DEF FreeOf, UsedOf, FreeIn, UsedIn
<1>7. Good(g, C)
  BY <1>1, <1>4, <1>5, <1>6 DEF Good
<1>8. SameUse(h, C, g, C)
  BY <1>1, <1>6 DEF SameUse
<1> QED BY <1>3, <1>4, <1>7, <1>8 DEF g, x, b

\* The first memory is all top chunk.
FirstTop(h, more, at, s) ==
  SetHead([Sbrk(h, more) EXCEPT !.top = at, !.first = at], at, s, TRUE)

LEMMA FirstTopIs ==
  ASSUME NEW h, IsHeap(h), NEW more, NEW at, NEW s, NEW x, x = h.pos + more
  PROVE  FirstTop(h, more, at, s) =
           HeapOf(x, h.base, at, at, Put(h.size, at, s), Put(h.pin, at, TRUE),
                  h.foot, h.bins, h.marks)
<1> DEFINE g1 == Sbrk(h, more)
           g2 == BothTop(g1, at, at)
           size2 == Put(h.size, at, s)
           pin2 == Put(h.pin, at, TRUE)
<1>1. g1 = HeapOf(x, h.base, h.top, h.first, h.size, h.pin, h.foot, h.bins, h.marks)
  BY SbrkIs
<1> HIDE DEF g1, size2, pin2
<1>2. /\ IsHeap(g1) /\ g1.pos = x /\ g1.base = h.base
      /\ g1.size = h.size /\ g1.pin = h.pin /\ g1.foot = h.foot /\ g1.bins = h.bins
      /\ g1.marks = h.marks
  BY <1>1, Parts
<1>3. g2 = HeapOf(x, h.base, at, at, h.size, h.pin, h.foot, h.bins, h.marks)
  BY <1>2, BothTopIs
<1> HIDE DEF g2
<1>4. /\ IsHeap(g2) /\ g2.pos = x /\ g2.base = h.base /\ g2.top = at /\ g2.first = at
      /\ g2.size = h.size /\ g2.pin = h.pin /\ g2.foot = h.foot /\ g2.bins = h.bins
      /\ g2.marks = h.marks
  BY <1>3, Parts
<1>5. SetHead(g2, at, s, TRUE) =
        HeapOf(x, h.base, at, at, size2, pin2, h.foot, h.bins, h.marks)
  <2>1. SetHead(g2, at, s, TRUE) =
          HeapOf(g2.pos, g2.base, g2.top, g2.first, Put(g2.size, at, s), Put(g2.pin, at, TRUE),
                 g2.foot, g2.bins, g2.marks)
    BY <1>4, SetHeadIs
  <2> QED BY <2>1, <1>4, Zenon DEF size2, pin2
<1> QED BY <1>5 DEF g1, g2, size2, pin2, FirstTop, BothTop

BeginsAt(h, more, at, s) ==
  /\ more \in Nat /\ CanMove(h, more) /\ (h.pos + more) % 8 = 0
  /\ at \in Start .. End /\ at % 8 = 0 /\ s = h.pos + more - at /\ s >= 16

LEMMA GrowsFirst ==
  ASSUME NEW h, NEW C, Good(h, C), h.top = None, NEW more, NEW at, NEW s,
         BeginsAt(h, more, at, s)
  PROVE  LET g == FirstTop(h, more, at, s) IN
         Good(g, {at}) /\ SameUse(h, C, g, {at}) /\ g.top = at /\ g.size[at] = s
<1>1. /\ C = {} /\ DOMAIN h.size = {} /\ DOMAIN h.pin = {} /\ IsHeap(h)
      /\ FreeOf(h, C) = {} /\ UsedOf(h, C) = {}
      /\ Lists(h.bins, h.marks, h.size, {})
  BY Bare
<1> DEFINE x == h.pos + more
           size2 == Put(h.size, at, s)
           pin2 == Put(h.pin, at, TRUE)
           D == {at}
           g == FirstTop(h, more, at, s)
<1>2. x \in Start .. End /\ x % 8 = 0 /\ x % 4 = 0 /\ s = x - at /\ h.base \in BOOLEAN
      /\ x \in Nat /\ at \in Start .. End /\ at % 8 = 0 /\ s >= 16
  <2>1. h.pos \in Start .. End /\ h.base \in BOOLEAN
    BY DEF Good, Frame
  <2>2. h.pos \in Nat
    BY <2>1, Constants
  <2>3. x \in Start .. End /\ x \in Nat
    BY <2>2, Constants DEF CanMove, BeginsAt
  <2>4. x % 8 = 0 /\ s = x - at /\ at \in Start .. End /\ at % 8 = 0 /\ s >= 16
    <3>1. (h.pos + more) % 8 = 0 /\ s = h.pos + more - at /\ more \in Nat
      BY DEF BeginsAt
    <3>2. at \in Start .. End /\ at % 8 = 0 /\ s >= 16
      BY DEF BeginsAt
    <3>3. x % 8 = 0
      BY <3>1
    <3>4. s = x - at
      <4>1. at \in Int /\ x \in Int
        BY <3>2, <2>3, Constants
      <4>2. s = (h.pos + more) - at
        <5>1. at \in Int
          BY <4>1
        <5> QED BY <5>1, <3>1, <2>2
      <4>3. h.pos + more = x
        OBVIOUS
      <4> HIDE DEF x
      <4> QED BY <4>1, <4>2, <4>3
    <3> QED BY <3>2, <3>3, <3>4
  <2> HIDE DEF x
  <2>5. x % 4 = 0
    BY <2>3, <2>4
  <2> QED BY <2>1, <2>3, <2>4, <2>5
<1>3. g = HeapOf(x, h.base, at, at, size2, pin2, h.foot, h.bins, h.marks)
  <2> HIDE DEF x
  <2>1. x = h.pos + more
    BY DEF x
  <2> QED BY <1>1, <2>1, FirstTopIs
<1> HIDE DEF g
<1>4. /\ D \subseteq DOMAIN size2 /\ D \subseteq DOMAIN pin2 /\ size2[at] = s /\ pin2[at] = TRUE
  BY DEF Put
<1> HIDE DEF size2, pin2, x
<1>5. Chain(D, size2, at, at, x)
  BY <1>2, <1>4, ChainBegins
<1>6. /\ Tags(D, size2, pin2, h.foot, at, at)
      /\ FreeIn(D, size2, pin2, at) = {} /\ UsedIn(D, size2, pin2, at) = {}
  BY <1>4, TagsBegins
<1>7. Lists(h.bins, h.marks, size2, {})
  BY <1>1, ListsAgree
<1>8. at # None
  BY <1>2, Constants
<1>9. Named(g, D, x, h.base, at, at, size2, pin2, h.foot, h.bins, h.marks)
  BY <1>2, <1>3, <1>4, <1>5, <1>6, <1>8 DEF Named
<1> HIDE DEF D
<1>10. /\ Good(g, D) /\ g.size = size2 /\ g.top = at
       /\ UsedOf(g, D) = UsedIn(D, size2, pin2, at)
  <2> DEFINE E == FreeIn(D, size2, pin2, at)
  <2>1. Lists(h.bins, h.marks, size2, E)
    <3>1. E = {}
      BY <1>6
    <3> HIDE DEF E
    <3> QED BY <1>7, <3>1
  <2> QED BY <2>1, <1>9, Made
<1>11. SameUse(h, C, g, D)
  BY <1>1, <1>6, <1>10 DEF SameUse
<1> QED BY <1>4, <1>10, <1>11 DEF g, D

\* memlib_extend_top: either there is room for a chunk of nb bytes and a
\* header behind it, or the break can not be moved.
LEMMA Extends ==
  ASSUME NEW h, NEW C, Good(h, C), NEW nb \in Nat, nb >= 16, nb % 8 = 0
  PROVE  \E D : Extended(h, C, ExtendTop(h, nb), D, nb)
<1> DEFINE want == Want(h.base, nb)
           at == h.pos + FrontGap(h.pos)
           more == More(h.pos, want)
           h1 == [Sbrk(h, want) EXCEPT !.base = TRUE]
           page == Round(nb + MinSize, PageSize)
<1>1. h.pos \in Start .. End /\ h.pos \in Nat /\ h.pos % 4 = 0 /\ h.base \in BOOLEAN
  BY Constants DEF Good, Frame
<1>2. want \in Nat /\ want % 8 = 0 /\ want >= nb + 16 /\ want <= page /\ page \in Nat
  BY <1>1, WantIs
<1>3. ExtendTop(h, nb) =
           IF ~CanMove(h, want) THEN h
           ELSE IF h.top # None THEN SetHead(Sbrk(h, want), h.top, want + TopSize(h), TRUE)
           ELSE IF ~CanMove(h1, more) THEN h1
           ELSE SetHead([Sbrk(h1, more) EXCEPT !.top = at, !.first = at],
                        at, h.pos + want + more - at, TRUE)
  BY ExtendTopIs, Zenon
<1> HIDE DEF want
<1>4. /\ at \in Nat /\ at % 8 = 0 /\ more \in Nat /\ (h.pos + want + more) % 8 = 0
      /\ h.pos + want + more >= at + want
      /\ h.pos + want + more < h.pos + want + PageSize
      /\ at >= h.pos
  <2> DEFINE brk == h.pos
  <2>1. brk \in Nat /\ brk % 4 = 0
    BY <1>1
  <2>2. at = brk + FrontGap(brk) /\ more = More(brk, want)
    OBVIOUS
  <2> HIDE DEF brk, at, more
  <2>3. /\ brk + FrontGap(brk) \in Nat /\ (brk + FrontGap(brk)) % 8 = 0
        /\ FrontGap(brk) \in Nat
        /\ More(brk, want) \in Nat
        /\ (brk + want + More(brk, want)) % 8 = 0
        /\ brk + want + More(brk, want) >= brk + FrontGap(brk) + want
        /\ brk + want + More(brk, want) < brk + want + PageSize
    BY <2>1, <1>2, FrontIs
  <2>4. at >= brk
    BY <2>1, <2>2, <2>3
  <2> QED BY <2>2, <2>3, <2>4 DEF brk
<1> HIDE DEF at, more, page
<1>5. PageSize \in Nat
  BY Constants
<1>6. CASE ~CanMove(h, want)
  <2>1. h.pos + want > End
    BY <1>1, <1>2, <1>6, Constants DEF CanMove
  <2>2. NoRoom(h, nb)
    BY <2>1, <1>1, <1>2, <1>5, Constants DEF NoRoom, page
  <2>3. SameUse(h, C, h, C)
    BY DEF SameUse
  <2>4. ExtendTop(h, nb) = h
    BY <1>3, <1>6, Zenon
  <2> QED BY <2>2, <2>3, <2>4 DEF Extended
<1>7. CASE CanMove(h, want) /\ h.top # None
  <2>1. ExtendTop(h, nb) = SetHead(Sbrk(h, want), h.top, want + TopSize(h), TRUE)
    BY <1>3, <1>7, Zenon
  <2> QED BY <2>1, <1>2, <1>7, GrowsTop
<1>8. CASE CanMove(h, want) /\ h.top = None
  <2>1. /\ Good(h1, C) /\ SameUse(h, C, h1, C) /\ h1.top = None /\ h1.pos = h.pos + want
    BY <1>2, <1>8, GrowsHalf
  <2> HIDE DEF h1
  <2>2. CASE ~CanMove(h1, more)
    <3>1. h.pos + want + more > End
      BY <2>1, <2>2, <1>1, <1>2, <1>4, Constants DEF CanMove
    <3>2. NoRoom(h, nb)
      BY <3>1, <1>1, <1>2, <1>4, <1>5, Constants DEF NoRoom, page
    <3>3. ExtendTop(h, nb) = h1
      BY <1>3, <1>8, <2>2, Zenon
    <3> QED BY <2>1, <3>2, <3>3 DEF Extended
  <2>3. CASE CanMove(h1, more)
    <3> DEFINE s == h.pos + want + more - at
               g == FirstTop(h1, more, at, s)
    <3>1. ExtendTop(h, nb) = g
      BY <1>3, <1>8, <2>3, Zenon DEF FirstTop
    <3>2. h1.pos + more \in Start .. End
      BY <2>3 DEF CanMove
    <3>3. at \in Start .. End /\ (h1.pos + more) % 8 = 0 /\ s = h1.pos + more - at /\ s >= 16
          /\ s - nb >= 16
      BY <3>2, <2>1, <1>1, <1>2, <1>4, Constants
    <3>4. Good(g, {at}) /\ SameUse(h1, C, g, {at}) /\ g.top = at /\ g.size[at] = s
      <4> HIDE DEF s
      <4>1. BeginsAt(h1, more, at, s)
        BY <2>3, <3>3, <1>4 DEF BeginsAt
      <4> QED BY <2>1, <4>1, GrowsFirst
    <3> HIDE DEF g, s
    <3>5. SameUse(h, C, g, {at})
      <4>1. UsedOf(h, C) = {} /\ UsedOf(h1, C) = {}
        BY <1>8, <2>1, Bare
      <4> QED BY <4>1, <3>4 DEF SameUse
    <3>6. g.top # None /\ g.size[g.top] - nb >= 16
      BY <3>3, <3>4, <1>4, Constants
    <3>7. Extended(h, C, g, {at}, nb)
      BY <3>4, <3>5, <3>6 DEF Extended
    <3> QED BY <3>1, <3>7
  <2> QED BY <2>2, <2>3
<1> QED BY <1>6, <1>7, <1>8

\* An answer of the allocator: memory, or none because the break can not move.
Answers(h, C, r, nb) == Hands(h, C, r, nb) /\ (r.mem = None => NoRoom(h, nb))

\* Steps in front of a call that leave the memory in use alone.
LEMMA HandsAfter ==
  ASSUME NEW h, NEW C, NEW g, NEW D, SameUse(h, C, g, D), NEW r, NEW nb, Hands(g, D, r, nb)
  PROVE  Hands(h, C, r, nb)
<1>1. PICK E : Good(r.h, E) /\ IF r.mem = None THEN SameUse(g, D, r.h, E)
                         ELSE \E p \in E : /\ r.mem = Mem(p) /\ MoreUse(g, D, r.h, E, p)
                                           /\ r.h.size[p] >= nb
  BY DEF Hands
<1>2. CASE r.mem = None
  <2>1. SameUse(h, C, r.h, E)
    BY <1>1, <1>2 DEF SameUse
  <2> QED BY <1>1, <1>2, <2>1 DEF Hands
<1>3. CASE r.mem # None
  <2>1. PICK p \in E : r.mem = Mem(p) /\ MoreUse(g, D, r.h, E, p) /\ r.h.size[p] >= nb
    BY <1>1, <1>3
  <2>2. MoreUse(h, C, r.h, E, p)
    BY <2>1 DEF SameUse, MoreUse
  <2> QED BY <1>1, <1>3, <2>1, <2>2 DEF Hands
<1> QED BY <1>2, <1>3

LEMMA HandsNothing ==
  ASSUME NEW h, NEW C, NEW g, NEW D, SameUse(h, C, g, D), Good(g, D), NEW nb
  PROVE  Hands(h, C, Nothing(g), nb)
<1>1. Nothing(g).h = g /\ Nothing(g).mem = None
  BY DEF Nothing
<1> QED BY <1>1 DEF Hands

\* CutTop, when the top chunk is large enough and when not.
LEMMA CutsOrNot ==
  ASSUME NEW g, NEW D, Good(g, D), NEW nb \in Nat, nb >= 16, nb % 8 = 0
  PROVE  \/ CutTop(g, nb) = Nothing(g) /\ ~(g.top # None /\ g.size[g.top] - nb >= 16)
         \/ Hands(g, D, CutTop(g, nb), nb) /\ CutTop(g, nb).mem # None
<1>1. CASE g.top = None
  <2>1. TopSize(g) = 0 /\ 0 - nb < MinSize
    BY <1>1 DEF TopSize, MinSize
  <2>2. CutTop(g, nb) = Nothing(g)
    BY <2>1 DEF CutTop
  <2> QED BY <1>1, <2>2
<1>2. CASE g.top # None
  <2> DEFINE s == g.size[g.top]
  <2>1. s \in Nat /\ g.top \in Nat
    <3>1. Frame(g, D)
      BY DEF Good
    <3>2. Chain(D, g.size, g.first, g.top, g.pos) /\ g.top \in D
      BY <1>2, <3>1, Standing
    <3> DEFINE size == g.size
               t == g.top
               f == g.first
               pos == g.pos
    <3>3. Chain(D, size, f, t, pos) /\ t \in D
      BY <3>2
    <3> HIDE DEF size, t, f, pos
    <3>4. size[t] \in Nat /\ t \in Nat
      BY <3>3, ChainTypes
    <3> QED BY <3>4 DEF size, t
  <2>2. TopSize(g) = s
    BY <1>2 DEF TopSize
  <2> HIDE DEF s
  <2>3. CASE s - nb < 16
    <3>1. CutTop(g, nb) = Nothing(g)
      BY <2>2, <2>3 DEF CutTop, MinSize
    <3> QED BY <3>1, <2>1, <2>3 DEF s
  <2>4. CASE s - nb >= 16
    <3>1. Hands(g, D, CutTop(g, nb), nb)
      BY <1>2, <2>4, CutsTop DEF s
    <3>2. CutTop(g, nb).mem = Mem(g.top)
      <4>1. ~(TopSize(g) - nb < MinSize)
        BY <2>1, <2>2, <2>4 DEF MinSize
      <4> QED BY <4>1 DEF CutTop, Got
    <3>3. Mem(g.top) # None
      BY <2>1, Constants DEF Mem
    <3> QED BY <3>1, <3>2, <3>3
  <2> QED BY <2>1, <2>3, <2>4
<1> QED BY <1>1, <1>2

LEMMA FromsTop ==
  ASSUME NEW h, NEW C, Good(h, C), NEW nb \in Nat, nb >= 16, nb % 8 = 0
  PROVE  Answers(h, C, FromTop(h, nb), nb)
<1>1. CASE TopSize(h) - nb < MinSize
  <2>1. PICK D : Extended(h, C, ExtendTop(h, nb), D, nb)
    BY Extends
  <2> DEFINE g == ExtendTop(h, nb)
  <2>2. FromTop(h, nb) = CutTop(g, nb)
    BY <1>1, Zenon DEF FromTop
  <2>3. /\ Good(g, D) /\ SameUse(h, C, g, D)
        /\ (g.top # None /\ g.size[g.top] - nb >= 16) \/ NoRoom(h, nb)
    BY <2>1 DEF Extended
  <2> HIDE DEF g
  <2>4. CASE CutTop(g, nb) = Nothing(g) /\ ~(g.top # None /\ g.size[g.top] - nb >= 16)
    <3>1. NoRoom(h, nb)
      BY <2>3, <2>4
    <3>2. Hands(h, C, Nothing(g), nb)
      BY <2>3, HandsNothing
    <3> QED BY <2>2, <2>4, <3>1, <3>2 DEF Answers
  <2>5. CASE Hands(g, D, CutTop(g, nb), nb) /\ CutTop(g, nb).mem # None
    <3>1. Hands(h, C, CutTop(g, nb), nb)
      BY <2>3, <2>5, HandsAfter
    <3> QED BY <2>2, <2>5, <3>1 DEF Answers
  <2> QED BY <2>3, <2>4, <2>5, CutsOrNot
<1>2. CASE ~(TopSize(h) - nb < MinSize)
  <2>1. FromTop(h, nb) = CutTop(h, nb)
    BY <1>2, Zenon DEF FromTop
  <2>2. CASE CutTop(h, nb) = Nothing(h) /\ ~(h.top # None /\ h.size[h.top] - nb >= 16)
    <3>1. CASE h.top = None
      <4>1. TopSize(h) = 0
        BY <3>1 DEF TopSize
      <4> QED BY <4>1, <1>2 DEF MinSize
    <3>2. CASE h.top # None
      <4>1. CutTop(h, nb).mem # None
        <5>1. CutTop(h, nb).mem = Mem(h.top)
          BY <1>2 DEF CutTop, Got
        <5>2. h.top \in Nat
          <6>1. Frame(h, C)
            BY DEF Good
          <6>2. h.top \in C
            BY <3>2, <6>1, Standing
          <6>3. C \subseteq Start .. End
            BY <3>2, <6>1 DEF Frame, Solid, Chain
          <6> DEFINE t == h.top
          <6>4. t \in Start .. End
            BY <6>2, <6>3
          <6> HIDE DEF t
          <6>5. t \in Nat
            BY <6>4, Constants
          <6> QED BY <6>5 DEF t
        <5> QED BY <5>1, <5>2, Constants DEF Mem
      <4>2. Nothing(h).mem = None
        BY DEF Nothing
      <4> QED BY <4>1, <4>2, <2>2
    <3> QED BY <3>1, <3>2
  <2>3. CASE Hands(h, C, CutTop(h, nb), nb) /\ CutTop(h, nb).mem # None
    BY <2>1, <2>3 DEF Answers
  <2> QED BY <2>2, <2>3, CutsOrNot
<1> QED BY <1>1, <1>2

-----------------------------------------------------------------------------
(* The search of the lists *)

\* The sizes of the free chunks.
LEMMA FreeTypes ==
  ASSUME NEW h, NEW C, Good(h, C)
  PROVE  /\ SizesFit(h.size, FreeOf(h, C))
         /\ \A p \in FreeOf(h, C) : /\ p \in Nat /\ p # None /\ h.size[p] \in Nat
                                    /\ h.size[p] >= 16 /\ h.size[p] <= W32 \div 2
                                    /\ h.size[p] % 8 = 0
         /\ Lists(h.bins, h.marks, h.size, FreeOf(h, C))
<1>1. CASE C = {}
  <2>1. FreeOf(h, C) = {}
    BY <1>1 DEF FreeOf, FreeIn
  <2> QED BY <2>1 DEF Good, SizesFit
<1>2. CASE C # {}
  <2>1. PICK pos, base, top, first, size, pin, foot, bins, marks :
          Named(h, C, pos, base, top, first, size, pin, foot, bins, marks)
    BY <1>2, Opened DEF Good
  <2>2. h.size = size /\ FreeOf(h, C) = FreeIn(C, size, pin, top)
    BY <2>1, Made
  <2>3. Chain(C, size, first, top, pos)
    BY <2>1 DEF Named
  <2>4. \A p \in FreeIn(C, size, pin, top) : p \in C
    BY DEF FreeIn
  <2>5. \A p \in C : p \in Nat /\ size[p] \in Nat /\ size[p] >= 16 /\ size[p] <= End /\ size[p] % 8 = 0
    BY <2>3, ChainTypes
  <2>6. \A p \in FreeIn(C, size, pin, top) :
           p \in Nat /\ size[p] \in Nat /\ size[p] >= 16 /\ size[p] <= W32 \div 2 /\ size[p] % 8 = 0
    BY <2>4, <2>5, Constants
  <2>7. \A p \in FreeIn(C, size, pin, top) : p # None
    BY <2>6, Constants
  <2> QED BY <2>2, <2>6, <2>7 DEF Good, SizesFit
<1> QED BY <1>1, <1>2

\* What a walk over the list i comes to.
Fitting(bins, size, F, i, nb, p) ==
  IF p = None THEN \A k \in 1 .. Len(bins[i]) : size[bins[i][k]] < nb
  ELSE p \in F /\ size[p] >= nb /\ \E k \in 1 .. Len(bins[i]) : bins[i][k] = p

LEMMA LastFitIs ==
  ASSUME NEW h, NEW C, Good(h, C), NEW i \in Bins, NEW nb \in Nat
  PROVE  Fitting(h.bins, h.size, FreeOf(h, C), i, nb, LastFit(h, i, nb))
<1> DEFINE F == FreeOf(h, C)
           size == h.size
           bins == h.bins
           lst == bins[i]
           n == Len(lst)
           fits == {j \in DOMAIN h.bins[i] : h.size[h.bins[i][j]] >= nb}
<1>1. /\ Lists(bins, h.marks, size, F)
      /\ \A p \in F : p \in Nat /\ p # None /\ size[p] \in Nat
  BY FreeTypes
<1> HIDE DEF F, size, bins
<1>2. n \in Nat /\ DOMAIN lst = 1 .. n /\ \A k \in 1 .. n : lst[k] \in F
  BY <1>1, ListTypes
<1> HIDE DEF lst, n
<1>3. fits = {j \in 1 .. n : size[lst[j]] >= nb}
  BY <1>2 DEF size, bins, lst
<1>4. LastFit(h, i, nb) = IF fits = {} THEN None ELSE lst[Max(fits)]
  BY DEF LastFit, lst, bins
<1> HIDE DEF fits
<1>5. CASE fits = {}
  <2>1. LastFit(h, i, nb) = None
    BY <1>4, <1>5
  <2>2. \A k \in 1 .. n : size[lst[k]] < nb
    <3>1. \A k \in 1 .. n : ~(size[lst[k]] >= nb)
      BY <1>3, <1>5
    <3>2. \A k \in 1 .. n : size[lst[k]] \in Nat
      BY <1>1, <1>2
    <3> QED BY <3>1, <3>2
  <2> QED BY <2>1, <2>2 DEF Fitting, n, lst, bins, size
<1>6. CASE fits # {}
  <2> DEFINE m == Max(fits)
  <2>1. fits \subseteq 1 .. n
    BY <1>3
  <2>2. m \in fits
    BY <1>2, <1>6, <2>1, MaxIs
  <2>3. LastFit(h, i, nb) = lst[m]
    BY <1>4, <1>6
  <2> HIDE DEF m
  <2>4. m \in 1 .. n /\ size[lst[m]] >= nb
    BY <2>2, <1>3
  <2>5. lst[m] \in F /\ lst[m] # None
    BY <2>4, <1>1, <1>2
  <2> QED BY <2>3, <2>4, <2>5 DEF Fitting, n, lst, bins, size, F
<1> QED BY <1>5, <1>6

\* Take, where no other chunk is the last remainder.
LEMMA Takes ==
  ASSUME NEW h, NEW C, Good(h, C), NEW p \in FreeOf(h, C), NoOther(h.bins, p),
         NEW nb \in Nat, nb >= 16, nb % 8 = 0, h.size[p] >= nb
  PROVE  Answers(h, C, Take(h, p, nb), nb)
<1>1. p \in Nat /\ h.size[p] \in Nat
  BY FreeTypes
<1>2. Mem(p) # None
  BY <1>1, Constants DEF Mem
<1>3. CASE h.size[p] - nb >= MinSize
  <2>1. Take(h, p, nb) = TakePiece(h, p, nb)
    BY <1>3, Zenon DEF Take
  <2>2. h.size[p] - nb >= 16
    BY <1>3 DEF MinSize
  <2>3. Hands(h, C, TakePiece(h, p, nb), nb)
    BY <2>2, TakesPiece
  <2>4. TakePiece(h, p, nb).mem = Mem(p)
    BY DEF TakePiece, Got
  <2> QED BY <2>1, <2>3, <2>4, <1>2 DEF Answers
<1>4. CASE ~(h.size[p] - nb >= MinSize)
  <2>1. Take(h, p, nb) = TakeWhole(h, p)
    BY <1>4, Zenon DEF Take
  <2>2. Hands(h, C, TakeWhole(h, p), nb)
    BY TakesWhole
  <2>3. TakeWhole(h, p).mem = Mem(p)
    BY DEF TakeWhole, Got
  <2> QED BY <2>1, <2>2, <2>3, <1>2 DEF Answers
<1> QED BY <1>3, <1>4

\* Lists and marks are replaced, the chunks stay.
LEMMA Relisted ==
  ASSUME NEW h, NEW C, Good(h, C), NEW bins2, NEW marks2,
         Lists(bins2, marks2, h.size, FreeOf(h, C)), NEW g,
         g = HeapOf(h.pos, h.base, h.top, h.first, h.size, h.pin, h.foot, bins2, marks2)
  PROVE  /\ Good(g, C) /\ SameUse(h, C, g, C) /\ FreeOf(g, C) = FreeOf(h, C)
         /\ g.size = h.size /\ g.bins = bins2 /\ g.marks = marks2 /\ g.pos = h.pos
<1>1. /\ IsHeap(g) /\ g.pos = h.pos /\ g.base = h.base /\ g.top = h.top
      /\ g.first = h.first /\ g.size = h.size /\ g.pin = h.pin /\ g.foot = h.foot
      /\ g.bins = bins2 /\ g.marks = marks2
  BY Parts
<1>2. FreeOf(g, C) = FreeOf(h, C) /\ UsedOf(g, C) = UsedOf(h, C)
  BY <1>1 DEF FreeOf, UsedOf
<1>3. Frame(h, C)
  BY DEF Good
<1>4. Frame(g, C)
  BY <1>1, <1>3 DEF Frame, Solid
<1> QED BY <1>1, <1>2, <1>4 DEF Good, SameUse

\* Memory, or none: no free chunk is large enough, and the break can not move.
Full(size, F, nb) == \A p \in F : size[p] < nb
Serves(h, C, r, nb) ==
  Answers(h, C, r, nb) /\ (r.mem = None => Full(h.size, FreeOf(h, C), nb))

\* The chunks in front of idx are too small, the last remainder aside; those
\* from there on are large enough, or there is one to use at idx.
Ready(bins, size, F, idx, nb) ==
  /\ idx \in Nat /\ idx >= 2
  /\ \A p \in F : BinIndex(size[p]) < idx /\ size[p] >= nb => bins[Lr] = <<p>>
  /\ \/ \A p \in F : BinIndex(size[p]) >= idx => size[p] >= nb
     \/ \E p \in F : bins[Lr] # <<p>> /\ BinIndex(size[p]) = idx /\ size[p] >= nb

\* Blocks of bins behind are not in front.
LEMMA Blocks ==
  ASSUME NEW i \in Nat, NEW j \in Nat, i <= j
  PROVE  Block(i) \in Nat /\ Block(j) \in Nat /\ Block(i) <= Block(j)
BY DEF Block

\* What a scan finds: bins with a chunk to use, and none is missed.
Scanned(bins, size, F, idx, nb, fits) ==
  /\ fits \subseteq {i \in Bins : i >= idx}
  /\ \A i \in Bins : i >= idx /\ bins[i] # <<>> => i \in fits \/ idx \in fits
  /\ fits = {} => Full(size, F, nb)

LEMMA ScanFinds ==
  ASSUME NEW h, NEW C, Good(h, C), Len(h.bins[Lr]) = 0, NEW idx, NEW nb \in Nat,
         Ready(h.bins, h.size, FreeOf(h, C), idx, nb)
  PROVE  Scanned(h.bins, h.size, FreeOf(h, C), idx, nb, Fits(h, idx, nb))
<1> DEFINE F == FreeOf(h, C)
           size == h.size
           bins == h.bins
           marks == h.marks
           fits == Fits(h, idx, nb)
<1>1. /\ Lists(bins, marks, size, F)
      /\ \A p \in F : p \in Nat /\ p # None /\ size[p] \in Nat /\ size[p] >= 16
                      /\ size[p] <= W32 \div 2
      /\ Len(bins[Lr]) = 0
      /\ Ready(bins, size, F, idx, nb)
  BY FreeTypes
<1>2. /\ fits = {i \in Bins : i >= idx /\ Block(i) \in marks /\ LastFit(h, i, nb) # None}
      /\ \A i \in Bins : Fitting(bins, size, F, i, nb, LastFit(h, i, nb))
  BY LastFitIs DEF Fits
<1> HIDE DEF F, size, bins, marks, fits
<1>3. /\ idx \in Nat /\ idx >= 2 /\ Bins \subseteq Nat
      /\ \A p \in F : BinIndex(size[p]) \in Bins /\ BinIndex(size[p]) # Lr
  BY <1>1, BinsIs DEF Ready
<1>4. \A p \in F : bins[Lr] # <<p>>
  <2>1. ASSUME NEW p \in F, bins[Lr] = <<p>> PROVE FALSE
    <3>1. Len(<<p>>) = 1
      OBVIOUS
    <3> QED BY <1>1, <2>1, <3>1
  <2> QED BY <2>1
<1>5. \A p \in F : \E k \in 1 .. Len(bins[BinIndex(size[p])]) : bins[BinIndex(size[p])][k] = p
  BY <1>1, <1>4, ListOfSize
<1>6. \A i \in Bins : /\ bins[i] = <<>> <=> Len(bins[i]) = 0
                      /\ Len(bins[i]) \in Nat
                      /\ \A k \in 1 .. Len(bins[i]) : bins[i][k] \in F
  BY <1>1, ListTypes
<1>7. ASSUME NEW i \in Bins, i >= idx, NEW k \in 1 .. Len(bins[i]), size[bins[i][k]] >= nb
      PROVE  i \in fits
  <2>1. bins[i] # <<>> /\ size[bins[i][k]] \in Nat
    BY <1>1, <1>6
  <2>2. i # Lr
    BY <1>3, <1>7 DEF Lr
  <2>3. Block(i) \in marks
    BY <1>1, <2>1, <2>2 DEF Lists, Covered
  <2>4. ASSUME LastFit(h, i, nb) = None PROVE FALSE
    <3>1. size[bins[i][k]] < nb
      BY <1>2, <2>4 DEF Fitting
    <3> QED BY <3>1, <2>1, <1>7
  <2> QED BY <1>2, <1>7, <2>3, <2>4
<1>8. ASSUME NEW i \in Bins, i >= idx, bins[i] # <<>>
      PROVE  i \in fits \/ idx \in fits
  <2>1. CASE \A p \in F : BinIndex(size[p]) >= idx => size[p] >= nb
    <3>1. 1 \in 1 .. Len(bins[i]) /\ bins[i][1] \in F /\ i # Lr
      BY <1>3, <1>6, <1>8 DEF Lr
    <3>2. BinIndex(size[bins[i][1]]) = i
      BY <1>1, <3>1 DEF Lists, InBinOfSize
    <3>3. size[bins[i][1]] >= nb
      BY <2>1, <3>1, <3>2, <1>8
    <3> QED BY <1>7, <1>8, <3>1, <3>3
  <2>2. CASE \E p \in F : bins[Lr] # <<p>> /\ BinIndex(size[p]) = idx /\ size[p] >= nb
    <3>1. PICK p \in F : BinIndex(size[p]) = idx /\ size[p] >= nb
      BY <2>2
    <3>2. PICK k \in 1 .. Len(bins[idx]) : bins[idx][k] = p
      BY <1>5, <3>1
    <3>3. idx \in Bins /\ idx >= idx
      BY <1>3, <3>1
    <3> QED BY <1>7, <3>1, <3>2, <3>3
  <2> QED BY <1>1, <2>1, <2>2 DEF Ready
<1>9. ASSUME fits = {}, NEW p \in F, ~(size[p] < nb) PROVE FALSE
  <2>1. size[p] >= nb
    BY <1>1, <1>9
  <2>2. CASE BinIndex(size[p]) < idx
    BY <1>1, <1>4, <2>1, <2>2 DEF Ready
  <2>3. CASE ~(BinIndex(size[p]) < idx)
    <3> DEFINE j == BinIndex(size[p])
    <3>0. j \in Nat /\ ~(j < idx)
      BY <1>3, <2>3
    <3> HIDE DEF j
    <3>1. j >= idx
      BY <1>3, <3>0
    <3> USE DEF j
    <3>2. PICK k \in 1 .. Len(bins[BinIndex(size[p])]) : bins[BinIndex(size[p])][k] = p
      BY <1>5
    <3> QED BY <1>3, <1>7, <1>9, <2>1, <3>1, <3>2
  <2> QED BY <2>2, <2>3
<1>10. fits \subseteq {i \in Bins : i >= idx}
  BY <1>2
<1> QED BY <1>8, <1>9, <1>10 DEF Scanned, Full, F, size, bins, fits

\* Blocks the scan leaves behind have no chunk.
LEMMA StillCovered ==
  ASSUME NEW h, Covered(h.bins, h.marks), NEW size, NEW F, NEW idx \in Nat, NEW nb, NEW fits,
         Scanned(h.bins, size, F, idx, nb, fits), NEW cleared,
         \A b \in cleared : b \in Left(h, idx, fits) /\
            \A i \in Bins : Block(i) = b /\ i < idx => h.bins[i] = <<>>
  PROVE  Covered(h.bins, h.marks \ cleared)
<1> DEFINE bins == h.bins
<1>1. ASSUME NEW i \in Bins \ {Lr}, bins[i] # <<>>, Block(i) \in cleared PROVE FALSE
  <2>1. i \in Nat /\ fits \subseteq Bins /\ Bins \subseteq Nat
    BY BinsIs DEF Scanned
  <2>2. i >= idx
    BY <1>1, <2>1
  <2>3. i \in fits \/ idx \in fits
    BY <1>1, <2>2 DEF Scanned
  <2>4. Block(i) >= Block(idx) /\ \A j \in fits : Block(i) < Block(j)
    BY <1>1 DEF Left
  <2>5. Block(i) \in Nat /\ Block(idx) \in Nat
    BY <2>1, <2>2, Blocks
  <2> QED BY <2>3, <2>4, <2>5
<1> QED BY <1>1 DEF Covered

\* The scan: memory from the first list that has it, or from the top chunk.
LEMMA Scans ==
  ASSUME NEW h, NEW C, Good(h, C), Len(h.bins[Lr]) = 0, NEW idx,
         NEW nb \in Nat, nb >= 16, nb % 8 = 0,
         Ready(h.bins, h.size, FreeOf(h, C), idx, nb)
  PROVE  Serves(h, C, Scan(h, idx, nb), nb)
<1> DEFINE fits == Fits(h, idx, nb)
           cleared == {b \in Left(h, idx, fits) : \A i \in Bins :
                         Block(i) = b /\ i < idx => h.bins[i] = <<>>}
           marks2 == h.marks \ cleared
           g == [h EXCEPT !.marks = @ \ cleared]
<1>1. Scanned(h.bins, h.size, FreeOf(h, C), idx, nb, fits)
  BY ScanFinds
<1>2. Scan(h, idx, nb) = TakeFirst(g, fits, nb)
  BY DEF Scan, ScanFrom
<1>3. \A b \in cleared : b \in Left(h, idx, fits) /\
            \A i \in Bins : Block(i) = b /\ i < idx => h.bins[i] = <<>>
  OBVIOUS
<1>4. idx \in Nat /\ idx >= 2
  BY DEF Ready
<1>5. \A i \in Bins : i >= idx => Fitting(h.bins, h.size, FreeOf(h, C), i, nb, LastFit(h, i, nb))
                                /\ (i \in fits => LastFit(h, i, nb) # None)
  BY LastFitIs DEF Fits
<1> HIDE DEF fits, cleared
<1>6. Lists(h.bins, h.marks, h.size, FreeOf(h, C))
  BY FreeTypes
<1>7. Lists(h.bins, marks2, h.size, FreeOf(h, C))
  <2>1. Covered(h.bins, h.marks)
    BY <1>6 DEF Lists
  <2>2. Covered(h.bins, marks2)
    BY <2>1, <1>1, <1>3, <1>4, StillCovered
  <2> QED BY <1>6, <2>2 DEF Lists
<1>8. g = HeapOf(h.pos, h.base, h.top, h.first, h.size, h.pin, h.foot, h.bins, marks2)
  <2>1. IsHeap(h)
    BY DEF Good, Frame
  <2>2. g = [h EXCEPT !.marks = marks2]
    OBVIOUS
  <2> HIDE DEF g, marks2
  <2> QED BY <2>1, <2>2 DEF IsHeap, HeapOf
<1> HIDE DEF g, marks2
<1>9. /\ Good(g, C) /\ SameUse(h, C, g, C) /\ FreeOf(g, C) = FreeOf(h, C)
      /\ g.size = h.size /\ g.bins = h.bins /\ g.pos = h.pos
  BY <1>7, <1>8, Relisted
<1>10. CASE fits = {}
  <2>1. Scan(h, idx, nb) = FromTop(g, nb)
    BY <1>2, <1>10 DEF TakeFirst
  <2>2. Answers(g, C, FromTop(g, nb), nb)
    BY <1>9, FromsTop
  <2>3. Hands(h, C, FromTop(g, nb), nb)
    BY <1>9, <2>2, HandsAfter DEF Answers
  <2>4. NoRoom(g, nb) => NoRoom(h, nb)
    BY <1>9 DEF NoRoom
  <2>5. Full(h.size, FreeOf(h, C), nb)
    BY <1>1, <1>10 DEF Scanned
  <2> QED BY <2>1, <2>2, <2>3, <2>4, <2>5 DEF Serves, Answers
<1>11. CASE fits # {}
  <2> DEFINE i == Min(fits)
             p == LastFit(h, i, nb)
  <2>1. i \in fits /\ i \in Bins /\ i >= idx
    <3>1. fits \subseteq Nat /\ \A j \in fits : j \in Bins /\ j >= idx
      BY <1>1, BinsIs DEF Scanned
    <3> QED BY <3>1, <1>11, MinIs
  <2>2. LastFit(g, i, nb) = p
    BY <1>9 DEF LastFit
  <2>3. Scan(h, idx, nb) = Take(g, p, nb)
    BY <1>2, <1>11, <2>2 DEF TakeFirst
  <2> HIDE DEF i
  <2>4. p # None /\ Fitting(h.bins, h.size, FreeOf(h, C), i, nb, p)
    BY <1>5, <2>1
  <2> HIDE DEF p
  <2>5. p \in FreeOf(g, C) /\ g.size[p] >= nb
    BY <2>4, <1>9 DEF Fitting
  <2>6. NoOther(g.bins, p)
    <3>1. h.bins[Lr] = <<>>
      BY <1>6, BinsIs, ListTypes
    <3> QED BY <3>1, <1>9, Zenon DEF NoOther
  <2>7. Answers(g, C, Take(g, p, nb), nb) /\ Take(g, p, nb).mem # None
    <3>1. Answers(g, C, Take(g, p, nb), nb)
      BY <1>9, <2>5, <2>6, Takes
    <3>2. Take(g, p, nb).mem = Mem(p)
      BY DEF Take, TakePiece, TakeWhole, Got
    <3>3. p \in Nat
      BY <2>5, <1>9, FreeTypes
    <3> QED BY <3>1, <3>2, <3>3, Constants DEF Mem
  <2>8. Hands(h, C, Take(g, p, nb), nb)
    BY <1>9, <2>7, HandsAfter DEF Answers
  <2> QED BY <2>3, <2>7, <2>8 DEF Serves, Answers
<1> QED BY <1>10, <1>11

\* The last remainder goes to the list of its size: nothing is lost.
LEMMA LastToBin ==
  ASSUME NEW h, NEW C, Good(h, C), NEW p, h.bins[Lr] = <<p>>, NEW s, s = h.size[p],
         NEW g, g = Frontlink(ClearLastRemainder(h), p, s)
  PROVE  /\ p \in FreeOf(h, C)
         /\ Good(g, C) /\ SameUse(h, C, g, C) /\ FreeOf(g, C) = FreeOf(h, C)
         /\ g.size = h.size /\ g.pos = h.pos
         /\ Len(g.bins[Lr]) = 0
<1> DEFINE F == FreeOf(h, C)
           none == <<>>
           bins1 == [h.bins EXCEPT ![Lr] = none]
           g1 == ClearLastRemainder(h)
           bins2 == Linked(g1, p, s)
           marks2 == Marked(g1, s)
<1>1. Lists(h.bins, h.marks, h.size, F) /\ SizesFit(h.size, F) /\ IsHeap(h)
  BY FreeTypes DEF Good, Frame
<1>2. p \in F /\ Lists(bins1, h.marks, h.size, F \ {p})
  BY <1>1, ListsClearLr
<1>3. g1 = HeapOf(h.pos, h.base, h.top, h.first, h.size, h.pin, h.foot, bins1, h.marks)
  BY <1>1, SetLastRemainderIs
<1>4. bins1[Lr] = none /\ Len(none) = 0
  <2>1. Lr \in DOMAIN h.bins
    BY <1>1, BinsIs DEF Lists
  <2> QED BY <2>1
<1>5. g = Frontlink(g1, p, s)
  OBVIOUS
<1> HIDE DEF g1, bins1, none, F
<1>6. /\ IsHeap(g1) /\ g1.pos = h.pos /\ g1.base = h.base /\ g1.top = h.top
      /\ g1.first = h.first /\ g1.size = h.size /\ g1.pin = h.pin /\ g1.foot = h.foot
      /\ g1.bins = bins1 /\ g1.marks = h.marks
  BY <1>3, Parts
<1>7. /\ Lists(bins2, marks2, h.size, F)
      /\ bins2[Lr] = bins1[Lr]
  <2> DEFINE G == F \ {p}
  <2>1. G \cup {p} = F /\ p \notin G
    BY <1>2
  <2>2. Lists(bins1, h.marks, h.size, G)
    BY <1>2
  <2> HIDE DEF G
  <2>3. Lists(g1.bins, g1.marks, g1.size, G) /\ SizesFit(g1.size, G \cup {p}) /\ s = g1.size[p]
    BY <2>1, <2>2, <1>1, <1>6
  <2>4. Lists(bins2, marks2, g1.size, G \cup {p}) /\ bins2[Lr] = g1.bins[Lr]
    <3> HIDE DEF bins2, marks2
    <3> QED BY <2>1, <2>3, ListsFrontlink DEF bins2, marks2
  <2> QED BY <2>1, <2>4, <1>6, Zenon
<1>8. g = HeapOf(h.pos, h.base, h.top, h.first, h.size, h.pin, h.foot, bins2, marks2)
  <2>1. g = HeapOf(g1.pos, g1.base, g1.top, g1.first, g1.size, g1.pin, g1.foot, bins2, marks2)
    BY <1>5, <1>6, FrontlinkIs
  <2> HIDE DEF bins2, marks2
  <2> QED BY <2>1, <1>6, Zenon
<1> HIDE DEF bins2, marks2
<1>9. /\ Good(g, C) /\ SameUse(h, C, g, C) /\ FreeOf(g, C) = FreeOf(h, C)
      /\ g.size = h.size /\ g.bins = bins2 /\ g.pos = h.pos
  BY <1>7, <1>8, Relisted DEF F
<1>10. g.bins[Lr] = none
  BY <1>4, <1>7, <1>9, Zenon
<1>11. Len(g.bins[Lr]) = 0
  BY <1>4, <1>10, Zenon
<1> QED BY <1>2, <1>9, <1>11, Zenon DEF F

\* TryLast: the last remainder, or the scan with it in its bin.
LEMMA TriesLast ==
  ASSUME NEW h, NEW C, Good(h, C), NEW p, h.bins[Lr] = <<p>>, NEW idx,
         NEW nb \in Nat, nb >= 16, nb % 8 = 0,
         Ready(h.bins, h.size, FreeOf(h, C), idx, nb)
  PROVE  Serves(h, C, TryLast(h, p, idx, nb), nb)
<1> DEFINE s == h.size[p]
           g == Frontlink(ClearLastRemainder(h), p, s)
<1>1. /\ p \in FreeOf(h, C)
      /\ Good(g, C) /\ SameUse(h, C, g, C) /\ FreeOf(g, C) = FreeOf(h, C)
      /\ g.size = h.size /\ g.pos = h.pos
      /\ Len(g.bins[Lr]) = 0
  BY LastToBin
<1>2. /\ p \in Nat /\ s \in Nat
      /\ \A q \in FreeOf(h, C) : h.size[q] \in Nat
  BY <1>1, FreeTypes
<1>3. TryLast(h, p, idx, nb) = IF s >= nb THEN Take(h, p, nb) ELSE Scan(g, idx, nb)
  BY DEF TryLast
<1> HIDE DEF g
<1>4. CASE s >= nb
  <2>1. NoOther(h.bins, p)
    BY DEF NoOther
  <2>2. Answers(h, C, Take(h, p, nb), nb)
    BY <1>1, <1>4, <2>1, Takes
  <2>3. Take(h, p, nb).mem = Mem(p)
    BY DEF Take, TakePiece, TakeWhole, Got
  <2>4. Mem(p) # None
    BY <1>2, Constants DEF Mem
  <2>5. TryLast(h, p, idx, nb) = Take(h, p, nb)
    BY <1>3, <1>4, Zenon
  <2> QED BY <2>2, <2>3, <2>4, <2>5 DEF Serves
<1>5. CASE ~(s >= nb)
  <2> DEFINE F == FreeOf(h, C)
             size == h.size
             old == h.bins
             new == g.bins
  <2>1. Ready(old, size, F, idx, nb)
    OBVIOUS
  <2>2. \A q \in F : old[Lr] = <<q>> => ~(size[q] >= nb)
    BY <1>5
  <2> HIDE DEF F, size, old, new
  <2>3. \A q \in F : BinIndex(size[q]) < idx => ~(size[q] >= nb)
    BY <2>1, <2>2 DEF Ready
  <2>4. \A q \in F : new[Lr] # <<q>>
    <3>1. ASSUME NEW q \in F, new[Lr] = <<q>> PROVE FALSE
      <4>1. Len(<<q>>) = 1 /\ Len(new[Lr]) = 0
        BY <1>1 DEF new
      <4> QED BY <4>1, <3>1
    <3> QED BY <3>1
  <2>5. Ready(new, size, F, idx, nb)
    <3>1. idx \in Nat /\ idx >= 2
      BY <2>1 DEF Ready
    <3>2. \/ \A q \in F : BinIndex(size[q]) >= idx => size[q] >= nb
          \/ \E q \in F : BinIndex(size[q]) = idx /\ size[q] >= nb
      BY <2>1 DEF Ready
    <3>3. \A q \in F : BinIndex(size[q]) < idx /\ size[q] >= nb => new[Lr] = <<q>>
      BY <2>3
    <3>4. \/ \A q \in F : BinIndex(size[q]) >= idx => size[q] >= nb
          \/ \E q \in F : new[Lr] # <<q>> /\ BinIndex(size[q]) = idx /\ size[q] >= nb
      BY <3>2, <2>4, Zenon
    <3> QED BY <3>1, <3>3, <3>4 DEF Ready
  <2>6. Ready(g.bins, g.size, FreeOf(g, C), idx, nb)
    BY <2>5, <1>1 DEF new, size, F
  <2>7. Serves(g, C, Scan(g, idx, nb), nb)
    BY <1>1, <2>6, Scans
  <2>8. TryLast(h, p, idx, nb) = Scan(g, idx, nb)
    BY <1>3, <1>5, Zenon
  <2> DEFINE r == Scan(g, idx, nb)
  <2>9. Serves(g, C, r, nb)
    BY <2>7
  <2> HIDE DEF r
  <2>10. Hands(h, C, r, nb)
    BY <1>1, <2>9, HandsAfter DEF Serves, Answers
  <2>11. r.mem = None => NoRoom(h, nb) /\ Full(h.size, FreeOf(h, C), nb)
    BY <1>1, <2>9 DEF Serves, Answers, NoRoom, Full
  <2> QED BY <2>8, <2>10, <2>11 DEF Serves, Answers, r
<1> QED BY <1>4, <1>5

\* Search: the last remainder first, then the lists, then the top chunk.
LEMMA Searches ==
  ASSUME NEW h, NEW C, Good(h, C), NEW idx, NEW nb \in Nat, nb >= 16, nb % 8 = 0,
         Ready(h.bins, h.size, FreeOf(h, C), idx, nb)
  PROVE  Serves(h, C, Search(h, idx, nb), nb)
<1>1. CASE h.bins[Lr] = <<>>
  <2>1. Len(h.bins[Lr]) = 0
    BY <1>1
  <2>2. Search(h, idx, nb) = Scan(h, idx, nb)
    BY <1>1, Zenon DEF Search
  <2> QED BY <2>1, <2>2, Scans
<1>2. CASE h.bins[Lr] # <<>>
  <2> DEFINE p == h.bins[Lr][1]
  <2>1. h.bins[Lr] = <<p>>
    <3>1. Lists(h.bins, h.marks, h.size, FreeOf(h, C))
      BY FreeTypes
    <3> QED BY <3>1, <1>2, ListTypes
  <2>2. Search(h, idx, nb) = TryLast(h, p, idx, nb)
    BY <1>2, Zenon DEF Search
  <2> HIDE DEF p
  <2> QED BY <2>1, <2>2, TriesLast
<1> QED BY <1>1, <1>2

\* What the list of a size and the one behind it offer.
Offers(bins, size, F, i, nb, own, next) ==
  /\ Fitting(bins, size, F, i, nb, own)
  /\ Fitting(bins, size, F, i + 1, nb, next)

\* Where the search begins: bins with chunks that are too small are in front.
Begin(small, own, i) == IF small THEN i + 2 ELSE IF own = None THEN i + 1 ELSE i

LEMMA BeginReady ==
  ASSUME NEW bins, NEW marks, NEW size, NEW F, Lists(bins, marks, size, F),
         SizesFit(size, F), None \notin F, NEW nb \in Nat, nb >= 16, nb <= W32 \div 2,
         NEW i, i = BinIndex(nb), NEW own, NEW next, Offers(bins, size, F, i, nb, own, next),
         NEW small, small \in BOOLEAN, small => own = None /\ next = None
  PROVE  Ready(bins, size, F, Begin(small, own, i), nb)
<1> DEFINE idx == Begin(small, own, i)
<1>1. /\ i \in Bins /\ i \in Nat /\ i >= 2 /\ i + 1 \in Bins /\ i # Lr
  <2>1. nb <= nb
    OBVIOUS
  <2> QED BY <2>1, BinsIs, BinIndexOrder
<1>2. \A p \in F : size[p] \in Nat /\ size[p] >= 16 /\ BinIndex(size[p]) \in Nat
  <2>1. ASSUME NEW p \in F PROVE size[p] \in Nat /\ size[p] >= 16 /\ BinIndex(size[p]) \in Nat
    <3>1. size[p] \in Nat /\ size[p] >= 16
      BY DEF SizesFit
    <3> DEFINE s == size[p]
    <3> HIDE DEF s
    <3>2. s \in Nat => BinIndex(s) \in Nat
      <4>1. s \in Nat => s <= s
        OBVIOUS
      <4> QED BY <4>1, BinIndexOrder
    <3> QED BY <3>1, <3>2 DEF s
  <2> QED BY <2>1
<1>3. \A p \in F : size[p] >= nb => BinIndex(size[p]) >= i
  <2>1. ASSUME NEW p \in F, size[p] >= nb PROVE BinIndex(size[p]) >= i
    <3> DEFINE s == size[p]
    <3>1. s \in Nat /\ nb <= s
      BY <1>2, <2>1
    <3> HIDE DEF s
    <3>2. BinIndex(nb) <= BinIndex(s) /\ BinIndex(nb) \in Nat /\ BinIndex(s) \in Nat
      BY <3>1, BinIndexOrder
    <3> QED BY <3>2 DEF s
  <2> QED BY <2>1
<1>4. \A p \in F : BinIndex(size[p]) >= i + 1 => size[p] >= nb
  <2>1. ASSUME NEW p \in F, BinIndex(size[p]) >= i + 1, ~(size[p] >= nb) PROVE FALSE
    <3> DEFINE s == size[p]
    <3>1. s \in Nat /\ s <= nb /\ BinIndex(s) >= i + 1
      BY <1>2, <2>1
    <3> HIDE DEF s
    <3>2. BinIndex(s) <= BinIndex(nb) /\ BinIndex(nb) \in Nat /\ BinIndex(s) \in Nat
      BY <3>1, BinIndexOrder
    <3> QED BY <3>1, <3>2
  <2> QED BY <2>1
<1>5. ASSUME NEW j \in Bins, Fitting(bins, size, F, j, nb, None),
             NEW p \in F, BinIndex(size[p]) = j, size[p] >= nb
      PROVE  bins[Lr] = <<p>>
  <2>1. ASSUME bins[Lr] # <<p>> PROVE FALSE
    <3>1. PICK k \in 1 .. Len(bins[j]) : bins[j][k] = p
      BY <2>1, <1>5, ListOfSize
    <3>2. size[p] < nb
      BY <3>1, <1>5 DEF Fitting
    <3> QED BY <3>2, <1>2, <1>5
  <2> QED BY <2>1
<1>6. idx \in Nat /\ idx >= 2
  BY <1>1 DEF Begin
<1>7. CASE small = TRUE
  <2>1. own = None /\ next = None /\ idx = i + 2
    BY <1>7 DEF Begin
  <2>2. Fitting(bins, size, F, i, nb, None) /\ Fitting(bins, size, F, i + 1, nb, None)
    BY <2>1 DEF Offers
  <2>3. ASSUME NEW p \in F, BinIndex(size[p]) < idx, size[p] >= nb PROVE bins[Lr] = <<p>>
    <3>1. BinIndex(size[p]) = i \/ BinIndex(size[p]) = i + 1
      <4> DEFINE x == BinIndex(size[p])
      <4>1. x \in Nat /\ x >= i /\ x < i + 2
        BY <1>2, <1>3, <2>1, <2>3
      <4> HIDE DEF x
      <4>2. x = i \/ x = i + 1
        BY <4>1, <1>1
      <4> QED BY <4>2 DEF x
    <3> QED BY <3>1, <2>2, <2>3, <1>1, <1>5
  <2>4. \A p \in F : BinIndex(size[p]) >= idx => size[p] >= nb
    BY <1>1, <1>2, <1>4, <2>1
  <2> QED BY <1>6, <2>3, <2>4 DEF Ready
<1>8. CASE small = FALSE /\ own = None
  <2>1. idx = i + 1 /\ Fitting(bins, size, F, i, nb, None)
    BY <1>8 DEF Begin, Offers
  <2>3. ASSUME NEW p \in F, BinIndex(size[p]) < idx, size[p] >= nb PROVE bins[Lr] = <<p>>
    <3>1. BinIndex(size[p]) = i
      <4> DEFINE x == BinIndex(size[p])
      <4>1. x \in Nat /\ x >= i /\ x < i + 1
        BY <1>2, <1>3, <2>1, <2>3
      <4> HIDE DEF x
      <4>2. x = i
        BY <4>1, <1>1
      <4> QED BY <4>2 DEF x
    <3> QED BY <3>1, <2>1, <2>3, <1>1, <1>5
  <2>4. \A p \in F : BinIndex(size[p]) >= idx => size[p] >= nb
    BY <1>4, <2>1
  <2> QED BY <1>6, <2>3, <2>4 DEF Ready
<1>9. CASE small = FALSE /\ own # None
  <2>1. idx = i /\ own \in F /\ size[own] >= nb
        /\ \E k \in 1 .. Len(bins[i]) : bins[i][k] = own
    BY <1>9 DEF Begin, Offers, Fitting
  <2>2. PICK k \in 1 .. Len(bins[i]) : bins[i][k] = own
    BY <2>1
  <2>3. BinIndex(size[own]) = i
    BY <1>1, <2>2 DEF Lists, InBinOfSize
  <2>4. bins[Lr] # <<own>>
    <3>1. ASSUME bins[Lr] = <<own>> PROVE FALSE
      <4>1. 1 \in 1 .. Len(bins[Lr]) /\ bins[Lr][1] = own
        BY <3>1
      <4>2. Lr = i
        BY <4>1, <2>2, <1>1, BinsIs, SMTT(30) DEF Lists, OnePlace
      <4> QED BY <4>2, <1>1
    <3> QED BY <3>1
  <2>5. ASSUME NEW p \in F, BinIndex(size[p]) < idx, size[p] >= nb PROVE FALSE
    <3> DEFINE x == BinIndex(size[p])
    <3>1. x \in Nat /\ x >= i /\ x < i
      BY <1>2, <1>3, <2>1, <2>5
    <3> HIDE DEF x
    <3> QED BY <3>1, <1>1
  <2>6. \A p \in F : BinIndex(size[p]) < idx /\ size[p] >= nb => bins[Lr] = <<p>>
    BY <2>5
  <2>7. \E p \in F : bins[Lr] # <<p>> /\ BinIndex(size[p]) = idx /\ size[p] >= nb
    BY <2>1, <2>3, <2>4
  <2> QED BY <1>6, <2>6, <2>7 DEF Ready
<1> QED BY <1>7, <1>8, <1>9

\* memlib_malloc, for a padded size.
LEMMA MallocsOf ==
  ASSUME NEW h, NEW C, Good(h, C), NEW nb \in Nat, nb >= 16, nb % 8 = 0, nb <= W32 \div 2
  PROVE  Serves(h, C, MallocOf(h, nb), nb)
<1> DEFINE F == FreeOf(h, C)
           i == BinIndex(nb)
           own == LastFit(h, i, nb)
           next == LastFit(h, i + 1, nb)
           small == nb < MaxSmall - 8
<1>1. /\ Lists(h.bins, h.marks, h.size, F) /\ SizesFit(h.size, F) /\ None \notin F
      /\ \A p \in F : p \in Nat /\ h.size[p] \in Nat
  BY FreeTypes
<1>2. Offers(h.bins, h.size, F, i, nb, own, next)
  <2>1. i \in Bins /\ i + 1 \in Bins
    BY BinsIs
  <2> QED BY <2>1, LastFitIs DEF Offers
<1>3. MallocOf(h, nb) =
        IF own # None /\ (small \/ h.size[own] - nb < MinSize) THEN TakeWhole(h, own)
        ELSE IF small /\ next # None THEN TakeWhole(h, next)
        ELSE Search(h, Begin(small, own, i), nb)
  BY DEF MallocOf, MallocIn, Begin
<1>4. small \in BOOLEAN
  OBVIOUS
<1>5. i = BinIndex(nb)
  OBVIOUS
<1> HIDE DEF i, own, next, small
<1>6. ASSUME NEW p, p # None, p \in F /\ h.size[p] >= nb, MallocOf(h, nb) = TakeWhole(h, p)
      PROVE  Serves(h, C, MallocOf(h, nb), nb)
  <2>1. Hands(h, C, TakeWhole(h, p), nb)
    BY <1>6, TakesWhole
  <2>2. TakeWhole(h, p).mem = Mem(p)
    BY DEF TakeWhole, Got
  <2>3. Mem(p) # None
    BY <1>1, <1>6, Constants DEF Mem
  <2> QED BY <1>6, <2>1, <2>2, <2>3 DEF Serves, Answers
<1>7. CASE own # None /\ (small \/ h.size[own] - nb < MinSize)
  <2>1. MallocOf(h, nb) = TakeWhole(h, own)
    BY <1>3, <1>7, Zenon
  <2>2. own \in F /\ h.size[own] >= nb
    BY <1>2, <1>7 DEF Offers, Fitting
  <2> QED BY <1>6, <1>7, <2>1, <2>2
<1>8. CASE ~(own # None /\ (small \/ h.size[own] - nb < MinSize)) /\ small /\ next # None
  <2>1. MallocOf(h, nb) = TakeWhole(h, next)
    BY <1>3, <1>8, Zenon
  <2>2. next \in F /\ h.size[next] >= nb
    BY <1>2, <1>8 DEF Offers, Fitting
  <2> QED BY <1>6, <1>8, <2>1, <2>2
<1>9. CASE ~(own # None /\ (small \/ h.size[own] - nb < MinSize)) /\ ~(small /\ next # None)
  <2>1. MallocOf(h, nb) = Search(h, Begin(small, own, i), nb)
    BY <1>3, <1>9, Zenon
  <2>2. small => own = None /\ next = None
    BY <1>9, Zenon
  <2>3. Ready(h.bins, h.size, F, Begin(small, own, i), nb)
    BY <1>1, <1>2, <1>4, <1>5, <2>2, BeginReady
  <2> DEFINE idx == Begin(small, own, i)
  <2> HIDE DEF idx
  <2>4. Ready(h.bins, h.size, FreeOf(h, C), idx, nb)
    BY <2>3 DEF idx
  <2>5. Serves(h, C, Search(h, idx, nb), nb)
    BY <2>4, Searches
  <2> QED BY <2>1, <2>5 DEF idx
<1> QED BY <1>7, <1>8, <1>9, Zenon

\* request2size: the padded size holds the request and the word in front.
Fitted(bytes) == bytes \in Nat /\ bytes + 11 < W32 \div 2

LEMMA Padded ==
  ASSUME NEW bytes, Fitted(bytes)
  PROVE  /\ Request2Size(bytes) \in Nat /\ Request2Size(bytes) >= 16
         /\ Request2Size(bytes) % 8 = 0 /\ Request2Size(bytes) <= W32 \div 2
         /\ Request2Size(bytes) - 4 >= bytes
         /\ ~(Signed(bytes) < 0)
<1>1. bytes \in Nat /\ bytes + 11 < W32 \div 2 /\ W32 \in Nat
  BY Constants DEF Fitted
<1> DEFINE n == bytes + 11
<1>2. n \in Nat /\ n < W32 \div 2 /\ W32 \div 2 <= W32 /\ n < W32
  BY <1>1
<1>3. \A m \in Nat : m < W32 => m % W32 = m
  BY <1>1
<1>4. n % W32 = n /\ bytes % W32 = bytes
  BY <1>1, <1>2, <1>3
<1>5. Signed(n) = n /\ Signed(bytes) = bytes
  <2>1. ~(n >= W32 \div 2) /\ ~(bytes >= W32 \div 2)
    BY <1>1, <1>2
  <2> HIDE DEF n
  <2> QED BY <2>1, <1>4 DEF Signed
<1>6. Request2Size(bytes) = IF n < 23 THEN 16 ELSE (n \div 8) * 8
  <2>1. bytes + 4 + 7 = n
    BY <1>1
  <2> HIDE DEF n
  <2>2. Signed(n) < MinSize + 7 <=> n < 23
    BY <1>5 DEF MinSize
  <2> QED BY <2>1, <2>2 DEF Request2Size, MinSize
<1>7. /\ (n \div 8) * 8 \in Nat /\ (n \div 8) * 8 <= n /\ n < (n \div 8) * 8 + 8
      /\ ((n \div 8) * 8) % 8 = 0
  BY <1>2
<1> DEFINE r == (n \div 8) * 8
<1>8. r \in Nat /\ r <= n /\ n < r + 8 /\ r % 8 = 0 /\ n = bytes + 11
  BY <1>7
<1>9. n >= 23 => r >= 16
  <2> HIDE DEF r, n
  <2>1. n >= 23 => r > 15
    BY <1>2, <1>8
  <2> QED BY <2>1, <1>8
<1>10. n < 23 => 16 <= W32 \div 2 /\ 16 - 4 >= bytes
  <2>1. 16 <= W32 \div 2
    BY Constants
  <2> QED BY <2>1, <1>1
<1> HIDE DEF r, n
<1> QED BY <1>1, <1>2, <1>5, <1>6, <1>8, <1>9, <1>10 DEF r

-----------------------------------------------------------------------------
(* Release *)

\* The chunk q where the memory in front of p begins that is free with it.
Behind(C, size, pin, top, p, q) ==
  /\ q \in C \ {top} /\ pin[q] = TRUE /\ q <= p
  /\ q = p \/ (q \in FreeIn(C, size, pin, top) /\ q + size[q] = p /\ q < p)

\* The chunk in front of one whose tag says that it is free.
FrontOf(C, size, pin, top, p, y) ==
  y \in FreeIn(C, size, pin, top) /\ y \in C /\ y # top /\ pin[y] = TRUE /\ y + size[y] = p /\ y < p

LEMMA FrontIsFree ==
  ASSUME NEW C, NEW size, NEW first, NEW top, NEW pos, Chain(C, size, first, top, pos),
         NEW pin, NEW foot, Tags(C, size, pin, foot, first, top), NEW p \in C, pin[p] = FALSE
  PROVE  FrontOf(C, size, pin, top, p, p - foot[p])
<1> DEFINE y == p - foot[p]
<1>1. y \in C \ {top} /\ size[y] = foot[p] /\ foot[p] \in Nat
  BY DEF Tags
<1>2. p \in Nat /\ \A x \in C : x \in Nat /\ size[x] \in Nat /\ x < x + size[x]
  BY ChainTypes
<1>3. y + foot[p] = p
  BY <1>1, <1>2
<1> HIDE DEF y
<1>4. y + size[y] = p /\ y < p
  BY <1>1, <1>2, <1>3
<1>5. y \in FreeIn(C, size, pin, top)
  BY <1>1, <1>4 DEF FreeIn
<1>6. pin[y] = TRUE
  <2>1. pin[y] = TRUE \/ pin[y] = FALSE
    BY <1>1 DEF Tags
  <2>2. pin[y] = FALSE => pin[y + size[y]] = TRUE
    BY <1>1 DEF Tags
  <2> QED BY <2>1, <2>2, <1>4
<1> QED BY <1>1, <1>4, <1>5, <1>6 DEF y, FrontOf

\* A chunk free or in use.
LEMMA OneOf ==
  ASSUME NEW C, NEW size, NEW first, NEW top, NEW pos, Chain(C, size, first, top, pos),
         NEW pin, NEW foot, Tags(C, size, pin, foot, first, top), NEW x
  PROVE  /\ x \in FreeIn(C, size, pin, top) =>
              x \in C /\ x # top /\ x \in Nat /\ x \notin UsedIn(C, size, pin, top)
         /\ x \in UsedIn(C, size, pin, top) =>
              x \in C /\ x # top /\ x \in Nat /\ x \notin FreeIn(C, size, pin, top)
<1>1. \A y \in C : y \in Nat
  BY ChainTypes
<1>2. x \in FreeIn(C, size, pin, top) =>
        x \in C \ {top} /\ x \notin UsedIn(C, size, pin, top)
  BY ChunkFacts
<1>3. x \in UsedIn(C, size, pin, top) =>
        x \in C \ {top} /\ x \notin FreeIn(C, size, pin, top)
  BY ChunkFacts
<1> QED BY <1>1, <1>2, <1>3

LEMMA BackIs ==
  ASSUME NEW C, NEW size, NEW first, NEW top, NEW pos, Chain(C, size, first, top, pos),
         NEW pin, NEW foot, Tags(C, size, pin, foot, first, top),
         NEW p \in C, p # top, NEW q, q = IF pin[p] THEN p ELSE p - foot[p]
  PROVE  Behind(C, size, pin, top, p, q)
<1>1. pin[p] = TRUE \/ pin[p] = FALSE
  BY DEF Tags
<1>2. /\ p \in Nat
      /\ \A x \in C : x \in Nat /\ size[x] \in Nat /\ x < x + size[x]
  BY ChainTypes
<1>3. CASE pin[p] = TRUE
  <2>1. q = p
    BY <1>3, Zenon
  <2> QED BY <1>2, <1>3, <2>1 DEF Behind
<1>4. CASE pin[p] = FALSE
  <2>1. q = p - foot[p]
    BY <1>4, Zenon
  <2>2. FrontOf(C, size, pin, top, p, p - foot[p])
    BY <1>4, FrontIsFree
  <2>3. FrontOf(C, size, pin, top, p, q)
    BY <2>1, <2>2, Zenon
  <2>4. q <= p
    BY <1>2, <2>3 DEF FrontOf
  <2> QED BY <2>3, <2>4 DEF Behind, FrontOf
<1> QED BY <1>1, <1>3, <1>4

\* unlink, also of a chunk that is in no list.
LEMMA ListsWithout ==
  ASSUME NEW bins, NEW marks, NEW size, NEW F, Lists(bins, marks, size, F), NEW p
  PROVE  Lists([i \in Bins |-> Without(bins[i], p)], marks, size, F \ {p})
<1>1. CASE p \in F
  BY <1>1, ListsUnlink
<1>2. CASE p \notin F
  <2>1. ASSUME NEW i \in Bins PROVE Without(bins[i], p) = bins[i]
    <3>1. bins[i] \in Seq(F) /\ Distinct(bins[i]) /\ \A k \in 1 .. Len(bins[i]) : bins[i][k] \in F
      BY ListTypes
    <3>2. ~\E k \in 1 .. Len(bins[i]) : bins[i][k] = p
      BY <1>2, <3>1
    <3> QED BY <3>1, <3>2, WithoutIs
  <2>2. bins = [i \in Bins |-> bins[i]]
    BY DEF Lists
  <2>3. [i \in Bins |-> Without(bins[i], p)] = bins
    BY <2>1, <2>2
  <2>4. F \ {p} = F
    BY <1>2
  <2> QED BY <2>3, <2>4
<1> QED BY <1>1, <1>2

LEMMA NewTopIs ==
  ASSUME NEW h, IsHeap(h), NEW q, NEW end, NEW s, s = end - q
  PROVE  NewTop(h, q, end) =
           HeapOf(h.pos, h.base, q, h.first, Put(h.size, q, s), Put(h.pin, q, TRUE), h.foot,
                  [i \in Bins |-> Without(h.bins[i], q)], h.marks)
<1> DEFINE g1 == Unlink(h, q)
           g2 == [g1 EXCEPT !.top = q]
           bins2 == [i \in Bins |-> Without(h.bins[i], q)]
<1>1. NewTop(h, q, end) = SetHead(g2, q, s, TRUE)
  BY DEF NewTop
<1>2. g1 = HeapOf(h.pos, h.base, h.top, h.first, h.size, h.pin, h.foot, bins2, h.marks)
  BY UnlinkIs
<1> HIDE DEF g1, bins2
<1>3. /\ IsHeap(g1) /\ g1.pos = h.pos /\ g1.base = h.base /\ g1.top = h.top
      /\ g1.first = h.first /\ g1.size = h.size /\ g1.pin = h.pin /\ g1.foot = h.foot
      /\ g1.bins = bins2 /\ g1.marks = h.marks
  BY <1>2, Parts
<1>4. g2 = HeapOf(h.pos, h.base, q, h.first, h.size, h.pin, h.foot, bins2, h.marks)
  BY <1>3 DEF IsHeap, HeapOf
<1> HIDE DEF g2
<1>5. /\ IsHeap(g2) /\ g2.pos = h.pos /\ g2.base = h.base /\ g2.top = q
      /\ g2.first = h.first /\ g2.size = h.size /\ g2.pin = h.pin /\ g2.foot = h.foot
      /\ g2.bins = bins2 /\ g2.marks = h.marks
  BY <1>4, Parts
<1>6. SetHead(g2, q, s, TRUE) =
        HeapOf(g2.pos, g2.base, g2.top, g2.first, Put(g2.size, q, s), Put(g2.pin, q, TRUE),
               g2.foot, g2.bins, g2.marks)
  BY <1>5, SetHeadIs
<1> QED BY <1>1, <1>5, <1>6, Zenon DEF bins2

\* The chunk in front of the top chunk is released: both are the top chunk.
LEMMA NewTops ==
  ASSUME NEW h, NEW C, Good(h, C), NEW p \in UsedOf(h, C), p + h.size[p] = h.top,
         NEW g, g = NewTop(h, BackOf(h, p), h.top + TopSize(h))
  PROVE  \E D : Good(g, D) /\ LessUse(h, C, g, D, p) /\ g.top # None
<1>1. Frame(h, C) /\ C # {}
  BY DEF Good, UsedOf, UsedIn
<1>2. PICK pos, base, top, first, size, pin, foot, bins, marks :
        Named(h, C, pos, base, top, first, size, pin, foot, bins, marks)
  BY <1>1, Opened
<1> DEFINE F == FreeIn(C, size, pin, top)
           U == UsedIn(C, size, pin, top)
           q == BackOf(h, p)
<1>3. /\ h.size = size /\ h.bins = bins /\ h.pin = pin /\ h.top = top /\ h.pos = pos
      /\ FreeOf(h, C) = F /\ UsedOf(h, C) = U
      /\ h.marks = marks
  BY <1>2, Made
<1>4. Lists(bins, marks, size, F)
  BY <1>3 DEF Good
<1>5. /\ h = HeapOf(pos, base, top, first, size, pin, foot, bins, marks)
      /\ pos \in Start .. End /\ pos % 4 = 0 /\ base \in BOOLEAN
      /\ C \subseteq DOMAIN size /\ C \subseteq DOMAIN pin
      /\ top # None
      /\ Chain(C, size, first, top, pos)
      /\ Tags(C, size, pin, foot, first, top)
  BY <1>2 DEF Named
<1>6. /\ IsHeap(h) /\ h.pos = pos /\ h.base = base /\ h.top = top /\ h.first = first
      /\ h.size = size /\ h.pin = pin /\ h.foot = foot /\ h.bins = bins /\ h.marks = marks
  BY <1>5, Parts
<1>7. /\ top \in C /\ top \in Nat /\ size[top] \in Nat /\ top + size[top] = pos
      /\ pos \in Nat /\ top < pos
      /\ \A x \in C : x \in Nat /\ size[x] \in Nat /\ x < x + size[x]
      /\ \A x \in C : x # top => x < top
      /\ \A x, y \in C : x < y => x + size[x] <= y
  BY <1>5, ChainTypes
<1>8. h.top + TopSize(h) = pos
  BY <1>5, <1>6, <1>7 DEF TopSize
<1>9. p \in U /\ p \in C /\ p # top /\ p + size[p] = top
  BY <1>3 DEF UsedIn
<1>10. q = IF pin[p] THEN p ELSE p - foot[p]
  BY <1>6 DEF BackOf
<1> HIDE DEF q
<1>11. Behind(C, size, pin, top, p, q)
  BY <1>5, <1>9, <1>10, BackIs
<1> HIDE DEF F, U
<1>12. /\ q \in C /\ q # top /\ pin[q] = TRUE /\ q <= p /\ q \in Nat /\ q < top
       /\ q = p \/ (q \in F /\ q + size[q] = p /\ q < p)
  BY <1>7, <1>11 DEF Behind, F
<1> DEFINE s == pos - q
           size2 == Put(size, q, s)
           pin2 == Put(pin, q, TRUE)
           bins2 == [i \in Bins |-> Without(bins[i], q)]
           D == Outside(C, q, pos)
           G == F \ {q}
<1>13. g = HeapOf(pos, base, q, first, size2, pin2, foot, bins2, marks)
  <2>1. g = NewTop(h, q, pos)
    BY <1>8 DEF q
  <2> HIDE DEF s
  <2>2. NewTop(h, q, pos) =
          HeapOf(h.pos, h.base, q, h.first, Put(h.size, q, s), Put(h.pin, q, TRUE), h.foot,
                  [i \in Bins |-> Without(h.bins[i], q)], h.marks)
    BY <1>6, NewTopIs DEF s
  <2>3. [i \in Bins |-> Without(h.bins[i], q)] = bins2
    BY <1>6
  <2> HIDE DEF bins2
  <2> QED BY <1>6, <2>1, <2>2, <2>3, Zenon
<1>14. Lists(bins2, marks, size, G)
  BY <1>4, ListsWithout
<1> HIDE DEF bins2
<1>15. /\ DOMAIN size2 = DOMAIN size \cup {q} /\ size2[q] = pos - q
       /\ \A x \in DOMAIN size : x # q => size2[x] = size[x]
       /\ DOMAIN pin2 = DOMAIN pin \cup {q} /\ pin2[q] = TRUE
       /\ \A x \in DOMAIN pin : x # q => pin2[x] = pin[x]
  BY DEF Put
<1> HIDE DEF s, size2, pin2
<1>16. \A x \in C : ~(x >= pos)
  <2>1. ASSUME NEW x \in C PROVE x < pos /\ x \in Nat
    <3>1. x = top \/ x < top
      BY <1>7
    <3> QED BY <3>1, <1>7
  <2> QED BY <2>1, <1>7
<1>17. JoinSizes(C, size, q, pos, size2) /\ SameTags(C, pin, pin2)
  <2>1. \A x \in C : x < q \/ x >= pos => size2[x] = size[x]
    <3>1. \A x \in C : x < q => x # q
      BY <1>12
    <3> QED BY <3>1, <1>5, <1>15, <1>16
  <2>2. \A x \in C : pin2[x] = pin[x]
    BY <1>5, <1>12, <1>15
  <2> QED BY <1>15, <2>1, <2>2 DEF JoinSizes, SameTags
<1>18. Chain(D, size2, first, q, pos)
  <2>1. pos \in C \cup {pos} /\ q < pos
    BY <1>7, <1>12
  <2>2. Chain(D, size2, first, IF pos = pos THEN q ELSE top, pos)
    BY <1>5, <1>12, <1>17, <2>1, ChainMerge
  <2> QED BY <2>2
<1>19. /\ Tags(D, size2, pin2, foot, first, q)
       /\ FreeIn(D, size2, pin2, q) = {x \in F : x < q}
       /\ UsedIn(D, size2, pin2, q) = {x \in U : x < q}
  <2>1. /\ Chain(C, size, first, top, pos) /\ Tags(C, size, pin, foot, first, top)
        /\ q \in C /\ pin[q] = TRUE
    BY <1>5, <1>12
  <2>2. /\ Tags(D, size2, pin2, foot, first, q)
        /\ MergeUse(C, size, pin, top, q, pos, size2, pin2)
    BY <2>1, <1>17, TagsMergeTop
  <2> QED BY <2>2 DEF F, U, MergeUse
<1>20. \A x \in C : x > q => x = p \/ x = top
  BY <1>7, <1>9, <1>12
<1>21. /\ \A x \in F : x \in C /\ x # top /\ x # p /\ x \in Nat
       /\ \A x \in U : x \in C /\ x # top /\ x \in Nat /\ x \notin F
  <2>1. \A x : /\ x \in F => x \in C /\ x # top /\ x \in Nat /\ x \notin U
               /\ x \in U => x \in C /\ x # top /\ x \in Nat /\ x \notin F
    BY <1>5, OneOf DEF F, U
  <2> QED BY <2>1, <1>9
<1>22. {x \in F : x < q} = G
  BY <1>12, <1>20, <1>21
<1>23. {x \in U : x < q} = U \ {p}
  <2>1. q # p => q \notin U
    BY <1>12, <1>21
  <2>2. \A x \in U : x < q <=> x # p
    <3>1. ASSUME NEW x \in U, x # p PROVE x < q
      <4>1. x # q
        BY <2>1, <3>1
      <4>2. ~(x > q)
        BY <1>20, <1>21, <3>1
      <4> QED BY <4>1, <4>2, <1>12, <1>21
    <3>2. ~(p < q)
      BY <1>12, <1>7, <1>9
    <3> QED BY <3>1, <3>2
  <2> QED BY <2>2
<1> HIDE DEF D
<1>24. Lists(bins2, marks, size2, G)
  <2>1. \A x \in G : size2[x] = size[x]
    BY <1>5, <1>15, <1>21
  <2> HIDE DEF G
  <2> QED BY <1>14, <2>1, ListsAgree
<1>25. D \subseteq DOMAIN size2 /\ D \subseteq DOMAIN pin2 /\ q # None
  BY <1>5, <1>12, <1>15, Constants DEF D, Outside
<1>26. Named(g, D, pos, base, q, first, size2, pin2, foot, bins2, marks)
  BY <1>5, <1>13, <1>18, <1>19, <1>25 DEF Named
<1> DEFINE U2 == UsedIn(D, size2, pin2, q)
<1>27. /\ Good(g, D) /\ g.size = size2 /\ g.top = q
       /\ UsedOf(g, D) = U2
  <2> HIDE DEF U2, G
  <2>1. FreeIn(D, size2, pin2, q) = G
    BY <1>19, <1>22
  <2> QED BY <2>1, <1>24, <1>26, Made DEF U2
<1>28. LessUse(h, C, g, D, p)
  <2>1. \A x \in U : x # p => x \in DOMAIN size /\ x # q
    BY <1>5, <1>12, <1>21
  <2> QED BY <2>1, <1>3, <1>15, <1>19, <1>23, <1>27 DEF LessUse
<1> QED BY <1>25, <1>27, <1>28

\* What is trimmed from a top chunk of s bytes leaves a header.
LEMMA ExtraIs ==
  ASSUME NEW s \in Nat, s >= 16, s % 8 = 0, NEW extra,
         extra = ((s - MinSize + PageSize - 1) \div PageSize - 1) * PageSize
  PROVE  extra \in Int /\ extra % 8 = 0 /\ extra <= s - 16
<1> DEFINE n == s - MinSize + PageSize - 1
           k == n \div PageSize
           x == k * PageSize
<1>1. PageSize \in Nat \ {0} /\ PageSize >= 8 /\ PageSize % 8 = 0
  BY Constants
<1>2. n \in Nat /\ n = s - 17 + PageSize
  <2>1. n = s - 16 + PageSize - 1
    BY DEF MinSize
  <2> HIDE DEF n
  <2> QED BY <1>1, <2>1
<1> HIDE DEF n
<1>3. k \in Nat /\ x \in Nat /\ x <= n /\ x % 8 = 0
  <2>1. k \in Nat /\ x \in Nat /\ x <= n
    BY <1>1, <1>2, Divide
  <2> HIDE DEF k
  <2>2. x % 8 = 0
    BY <1>1, <2>1, Eights
  <2> QED BY <2>1, <2>2
<1>4. extra = x - PageSize
  <2>1. extra = (k - 1) * PageSize
    BY DEF n
  <2> HIDE DEF k
  <2>2. \A i \in Nat : (i - 1) * PageSize = i * PageSize - PageSize
    BY <1>1
  <2> QED BY <1>3, <2>1, <2>2
<1> HIDE DEF x
<1> QED BY <1>1, <1>2, <1>3, <1>4

\* memlib_trim: only the top chunk is smaller.
LEMMA Trims ==
  ASSUME NEW h, NEW C, Good(h, C), h.top # None
  PROVE  Good(TrimLarge(h), C) /\ SameUse(h, C, TrimLarge(h), C)
<1>1. Frame(h, C)
  BY DEF Good
<1>2. PICK pos, base, top, first, size, pin, foot, bins, marks :
        Named(h, C, pos, base, top, first, size, pin, foot, bins, marks)
  BY <1>1, Opened
<1> DEFINE F == FreeIn(C, size, pin, top)
           U == UsedIn(C, size, pin, top)
           s == TopSize(h)
           extra == ((s - MinSize + PageSize - 1) \div PageSize - 1) * PageSize
           less == -extra
           new == s - extra
           pos2 == pos + less
           size2 == Put(size, top, new)
           pin2 == Put(pin, top, TRUE)
           g == SetHead(Sbrk(h, less), h.top, new, TRUE)
<1>3. /\ h.size = size /\ h.bins = bins /\ h.pin = pin /\ h.top = top /\ h.pos = pos
      /\ FreeOf(h, C) = F /\ UsedOf(h, C) = U
      /\ h.marks = marks
  BY <1>2, Made
<1>4. Lists(bins, marks, size, F)
  BY <1>3 DEF Good
<1>5. /\ h = HeapOf(pos, base, top, first, size, pin, foot, bins, marks)
      /\ pos \in Start .. End /\ pos % 4 = 0 /\ base \in BOOLEAN
      /\ C \subseteq DOMAIN size /\ C \subseteq DOMAIN pin
      /\ top # None
      /\ Chain(C, size, first, top, pos)
      /\ Tags(C, size, pin, foot, first, top)
  BY <1>2 DEF Named
<1>6. /\ top \in C /\ top \in Nat /\ size[top] \in Nat /\ size[top] % 8 = 0 /\ size[top] >= 16
      /\ pin[top] = TRUE /\ pos \in Nat /\ pos % 8 = 0 /\ top + size[top] = pos /\ top >= Start
  BY <1>5, ChainTypes DEF Tags
<1>7. s = size[top] /\ s \in Nat
  BY <1>3, <1>5, <1>6 DEF TopSize
<1> HIDE DEF s
<1>8. Trim(h) = h \/ (Trim(h) = g /\ ~(extra < PageSize))
  <2>1. Trim(h) = IF extra < PageSize \/ h.pos # h.top + s THEN h ELSE g
    BY DEF Trim, s
  <2> QED BY <2>1, Zenon
<1>9. TrimLarge(h) = h \/ (TrimLarge(h) = g /\ ~(extra < PageSize))
  BY <1>8, Zenon DEF TrimLarge
<1>10. extra \in Int /\ extra % 8 = 0 /\ extra <= s - 16
  BY <1>6, <1>7, ExtraIs
<1> HIDE DEF extra
<1>11. CASE TrimLarge(h) = h
  BY <1>11 DEF SameUse
<1>12. CASE TrimLarge(h) = g /\ ~(extra < PageSize)
  <2>1. g = HeapOf(pos2, base, top, first, size2, pin2, foot, bins, marks)
    <3>1. /\ IsHeap(h) /\ h.pos = pos /\ h.base = base /\ h.top = top /\ h.first = first
          /\ h.size = size /\ h.pin = pin /\ h.foot = foot /\ h.bins = bins /\ h.marks = marks
      BY <1>5, Parts
    <3> DEFINE g1 == Sbrk(h, less)
    <3> HIDE DEF pos2, less, new
    <3>2. g1 = HeapOf(pos2, base, top, first, size, pin, foot, bins, marks)
      BY <3>1, SbrkIs DEF pos2
    <3> HIDE DEF g1
    <3>3. /\ IsHeap(g1) /\ g1.pos = pos2 /\ g1.base = base /\ g1.top = top /\ g1.first = first
          /\ g1.size = size /\ g1.pin = pin /\ g1.foot = foot /\ g1.bins = bins /\ g1.marks = marks
      BY <3>2, Parts
    <3>4. SetHead(g1, top, new, TRUE) =
            HeapOf(pos2, base, top, first, size2, pin2, foot, bins, marks)
      BY <3>3, SetHeadIs
    <3> QED BY <3>1, <3>4 DEF g1
  <2> HIDE DEF g, F, U
  <2>2. /\ pos2 \in Start .. End /\ pos2 % 4 = 0 /\ pos2 % 8 = 0 /\ pos2 - top >= 16
        /\ new = pos2 - top /\ new \in Nat
    <3>1. pos2 = pos - extra /\ new = s - extra
      BY <1>10, <1>6
    <3>2. extra >= 8
      BY <1>10, <1>12, Constants
    <3> HIDE DEF pos2, new
    <3> QED BY <3>1, <3>2, <1>5, <1>6, <1>7, <1>10, Constants
  <2> HIDE DEF pos2, new
  <2>3. /\ DOMAIN size2 = DOMAIN size \cup {top} /\ size2[top] = new
        /\ \A x \in DOMAIN size : x # top => size2[x] = size[x]
        /\ DOMAIN pin2 = DOMAIN pin \cup {top} /\ pin2[top] = TRUE
        /\ \A x \in DOMAIN pin : x # top => pin2[x] = pin[x]
    BY DEF Put
  <2> HIDE DEF size2, pin2
  <2>4. MovesTop(C, size, top, pos2, size2) /\ SameBut(C, size, top, size2)
        /\ SameTags(C, pin, pin2)
    BY <1>5, <1>6, <2>2, <2>3 DEF MovesTop, SameBut, SameTags
  <2>5. Chain(C, size2, first, top, pos2)
    BY <1>5, <2>2, <2>4, ChainMoves
  <2>6. /\ Tags(C, size2, pin2, foot, first, top)
        /\ FreeIn(C, size2, pin2, top) = F
        /\ UsedIn(C, size2, pin2, top) = U
    BY <1>5, <2>4, TagsMoves DEF F, U
  <2>7. Lists(bins, marks, size2, F)
    <3>1. \A x \in F : x \in C /\ x # top
      BY DEF F, FreeIn
    <3>2. \A x \in F : size2[x] = size[x]
      BY <3>1, <1>5, <2>3
    <3> QED BY <3>2, <1>4, ListsAgree
  <2>8. Named(g, C, pos2, base, top, first, size2, pin2, foot, bins, marks)
    BY <1>5, <2>1, <2>2, <2>3, <2>5, <2>6 DEF Named
  <2>9. /\ Good(g, C) /\ g.size = size2 /\ g.top = top
        /\ UsedOf(g, C) = U
    BY <2>6, <2>7, <2>8, Made
  <2>10. SameUse(h, C, g, C)
    <3>1. \A x \in U : x \in DOMAIN size /\ x # top
      BY <1>5 DEF U, UsedIn
    <3> QED BY <3>1, <1>3, <2>3, <2>9 DEF SameUse
  <2> QED BY <1>12, <2>9, <2>10
<1> QED BY <1>9, <1>11, <1>12

LEMMA FreesToTop ==
  ASSUME NEW h, NEW C, Good(h, C), NEW p \in UsedOf(h, C), p + h.size[p] = h.top
  PROVE  \E D : Good(FreeToTop(h, p), D) /\ LessUse(h, C, FreeToTop(h, p), D, p)
<1> DEFINE g == NewTop(h, BackOf(h, p), h.top + TopSize(h))
<1>1. PICK D : Good(g, D) /\ LessUse(h, C, g, D, p) /\ g.top # None
  BY NewTops
<1>2. FreeToTop(h, p) = TrimLarge(g)
  BY DEF FreeToTop
<1> HIDE DEF g
<1>3. Good(TrimLarge(g), D) /\ SameUse(g, D, TrimLarge(g), D)
  BY <1>1, Trims
<1> DEFINE r == TrimLarge(g)
<1> HIDE DEF r
<1>4. LessUse(h, C, r, D, p)
  <2>1. SameUse(g, D, r, D)
    BY <1>3 DEF r
  <2>2. \A x \in UsedOf(h, C) : x # p => x \in UsedOf(g, D) /\ g.size[x] = h.size[x]
    BY <1>1 DEF LessUse
  <2> QED BY <1>1, <2>1, <2>2 DEF LessUse, SameUse
<1> QED BY <1>2, <1>3, <1>4 DEF r

\* The chunk p is released: q is where the merged chunk begins, next the chunk
\* behind p, and e where the merged chunk ends.
Joining(C, size, pin, top, p, q, next, e) ==
  /\ p \in UsedIn(C, size, pin, top) /\ Behind(C, size, pin, top, p, q)
  /\ next = p + size[p] /\ next # top
  /\ e = IF pin[next + size[next]] = TRUE THEN next ELSE next + size[next]

\* The tags the release writes.
Merged(C, size, pin, foot, q, next, e, size2, pin2, foot2) ==
  /\ size2[q] = e - q /\ \A x \in C : x # q => size2[x] = size[x]
  /\ pin2[next] = FALSE /\ \A x \in C : x # next => pin2[x] = pin[x]
  /\ e \in DOMAIN foot2 /\ foot2[e] = e - q
  /\ \A a \in C : a # e /\ pin[a] = FALSE => a \in DOMAIN foot2 /\ foot2[a] = foot[a]

JoinedUse(C, size, pin, top, p, q, next, e, size2, pin2) ==
  /\ FreeIn(Outside(C, q, e), size2, pin2, top) = (FreeIn(C, size, pin, top) \ {q, next}) \cup {q}
  /\ UsedIn(Outside(C, q, e), size2, pin2, top) = UsedIn(C, size, pin, top) \ {p}

\* Where the chunks around the released one are.
Around(C, size, pin, top, p, q, next, e) ==
  /\ q \in C /\ q \in Nat /\ p \in C /\ p \in Nat /\ next \in C /\ next \in Nat
  /\ e \in C \ {top} /\ e \in Nat
  /\ q <= p /\ p < next /\ next <= e /\ pin[q] = TRUE /\ pin[e + size[e]] = TRUE
  /\ \/ pin[next + size[next]] = TRUE /\ e = next /\ next \notin FreeIn(C, size, pin, top)
     \/ /\ pin[next + size[next]] = FALSE /\ e = next + size[next] /\ next < e /\ pin[e] = FALSE
        /\ next \in FreeIn(C, size, pin, top)
  /\ \A x \in C : x < q \/ x >= e \/ x = q \/ x = p \/ x = next
  /\ q = p \/ q \in FreeIn(C, size, pin, top)

LEMMA AroundIs ==
  ASSUME NEW C, NEW size, NEW first, NEW top, NEW pos, Chain(C, size, first, top, pos),
         NEW pin, NEW foot, Tags(C, size, pin, foot, first, top),
         NEW p, NEW q, NEW next, NEW e, Joining(C, size, pin, top, p, q, next, e)
  PROVE  Around(C, size, pin, top, p, q, next, e)
<1> DEFINE F == FreeIn(C, size, pin, top)
           n2 == next + size[next]
<1>1. /\ \A x \in C : x \in Nat /\ size[x] \in Nat /\ x < x + size[x]
      /\ \A x \in C : x # top => x + size[x] \in C
      /\ \A x, y \in C : x < y => x + size[x] <= y
      /\ top \in C
  BY ChainTypes
<1>2. p \in C /\ p # top /\ p \in Nat /\ p \notin F /\ pin[p + size[p]] = TRUE
  <2>1. p \in UsedIn(C, size, pin, top)
    BY DEF Joining
  <2>2. p \in C /\ p # top /\ p \in Nat /\ p \notin F
    BY <2>1, OneOf
  <2> QED BY <2>1, <2>2 DEF UsedIn
<1>3. next \in C /\ next # top /\ next \in Nat /\ p < next /\ next = p + size[p]
  BY <1>1, <1>2 DEF Joining
<1>4. /\ q \in C /\ q \in Nat /\ pin[q] = TRUE /\ q <= p
      /\ q = p \/ (q \in F /\ q + size[q] = p /\ q < p)
  BY <1>1 DEF Joining, Behind
<1>5. n2 \in C /\ next < n2 /\ n2 \in Nat /\ (pin[n2] = TRUE \/ pin[n2] = FALSE)
  <2>1. n2 \in C /\ next < n2 /\ n2 \in Nat
    BY <1>1, <1>3
  <2> HIDE DEF n2
  <2> QED BY <2>1 DEF Tags
<1>6. e = IF pin[n2] = TRUE THEN next ELSE n2
  BY DEF Joining
<1>7. \A x \in C : x > q => x = p \/ x >= next
  <2>1. ASSUME NEW x \in C, x > q, x # p PROVE x >= next
    <3>1. x \in Nat /\ size[p] \in Nat /\ size[q] \in Nat
      BY <1>1, <1>2, <1>4
    <3>2. x > p
      <4>1. CASE q = p
        BY <2>1, <4>1
      <4>2. CASE q \in F /\ q + size[q] = p /\ q < p
        <5>1. q + size[q] <= x
          BY <1>1, <1>4, <2>1
        <5> QED BY <5>1, <4>2, <2>1, <3>1, <1>2
      <4> QED BY <4>1, <4>2, <1>4
    <3> QED BY <3>1, <3>2, <1>1, <1>2, <1>3
  <2> QED BY <2>1
<1>8. \A x \in C : x > next => x >= n2
  BY <1>1, <1>3, <1>5
<1> HIDE DEF n2
<1>9. CASE pin[n2] = TRUE
  <2>1. e = next
    BY <1>6, <1>9, Zenon
  <2>2. next \notin F
    BY <1>9 DEF F, FreeIn, n2
  <2>3. \A x \in C : x < q \/ x >= e \/ x = q \/ x = p \/ x = next
    <3>1. \A x \in C : x \in Nat /\ (x < q \/ x = q \/ x > q)
      BY <1>1, <1>4
    <3> QED BY <3>1, <1>7, <2>1
  <2> QED BY <1>2, <1>3, <1>4, <1>9, <2>1, <2>2, <2>3 DEF Around, F, n2
<1>10. CASE pin[n2] = FALSE
  <2>1. e = n2
    BY <1>6, <1>10
  <2>2. next \in F
    BY <1>3, <1>10 DEF F, FreeIn, n2
  <2>3. n2 # top /\ pin[n2 + size[n2]] = TRUE
    BY <1>5, <1>10 DEF Tags
  <2>4. \A x \in C : x < q \/ x >= e \/ x = q \/ x = p \/ x = next
    <3>1. \A x \in C : x \in Nat /\ (x < q \/ x = q \/ x > q) /\ (x < next \/ x = next \/ x > next)
      BY <1>1, <1>3, <1>4
    <3>2. \A x \in C : x >= next => x = next \/ x > next
      BY <1>1, <1>3
    <3> QED BY <3>1, <3>2, <1>7, <1>8, <2>1
  <2>5. next <= e /\ next < e /\ e \in C \ {top} /\ e \in Nat
    BY <1>3, <1>5, <2>1, <2>3
  <2>6. pin[e] = FALSE /\ pin[e + size[e]] = TRUE /\ e = next + size[next]
    BY <1>10, <2>1, <2>3 DEF n2
  <2>7. pin[next + size[next]] = FALSE
    BY <1>10 DEF n2
  <2> QED BY <1>2, <1>3, <1>4, <2>2, <2>4, <2>5, <2>6, <2>7 DEF Around, F
<1> QED BY <1>5, <1>9, <1>10

LEMMA Joined ==
  ASSUME NEW C, NEW size, NEW first, NEW top, NEW pos, Chain(C, size, first, top, pos),
         NEW pin, NEW foot, Tags(C, size, pin, foot, first, top),
         NEW p, NEW q, NEW next, NEW e, Joining(C, size, pin, top, p, q, next, e),
         NEW size2, NEW pin2, NEW foot2, Merged(C, size, pin, foot, q, next, e, size2, pin2, foot2)
  PROVE  /\ Chain(Outside(C, q, e), size2, first, top, pos)
         /\ Tags(Outside(C, q, e), size2, pin2, foot2, first, top)
         /\ JoinedUse(C, size, pin, top, p, q, next, e, size2, pin2)
<1> DEFINE F == FreeIn(C, size, pin, top)
           U == UsedIn(C, size, pin, top)
<1>1. Around(C, size, pin, top, p, q, next, e)
  BY AroundIs
<1>2. /\ q \in C /\ q \in Nat /\ p \in C /\ p \in Nat /\ next \in C /\ next \in Nat
      /\ e \in C \ {top} /\ e \in Nat
      /\ q <= p /\ p < next /\ next <= e /\ pin[q] = TRUE /\ pin[e + size[e]] = TRUE
      /\ \A x \in C : x < q \/ x >= e \/ x = q \/ x = p \/ x = next
      /\ q = p \/ q \in F
  BY <1>1 DEF Around
<1>3. \/ e = next /\ next \notin F
      \/ next < e /\ pin[e] = FALSE /\ next \in F
  BY <1>1 DEF Around
<1>4. /\ \A x \in C : x \in Nat
      /\ pos \in Nat /\ \A x \in C : x < pos
  <2>1. \A x \in C : x \in Nat /\ size[x] \in Nat /\ x < x + size[x] /\ x + size[x] <= pos
    BY ChainTypes
  <2>2. pos \in Nat
    BY ChainTypes
  <2> QED BY <2>1, <2>2
<1>5. q < e /\ e # pos
  BY <1>2, <1>4
<1>6. JoinSizes(C, size, q, e, size2)
  <2>1. \A x \in C : x < q \/ x >= e => x # q
    BY <1>2, <1>4, <1>5
  <2> QED BY <2>1 DEF Merged, JoinSizes
<1>7. JoinTags(C, pin, foot, q, e, pin2, foot2)
  <2>1. pin2[e] = FALSE
    <3>1. CASE e = next
      BY <3>1 DEF Merged
    <3>2. CASE next < e /\ pin[e] = FALSE
      BY <3>2, <1>2 DEF Merged
    <3> QED BY <3>1, <3>2, <1>3
  <2>2. \A x \in C : x <= q \/ x > e => x # next
    BY <1>2, <1>4
  <2> QED BY <2>1, <2>2 DEF Merged, JoinTags
<1>8. Chain(Outside(C, q, e), size2, first, top, pos)
  <2>1. Chain(Outside(C, q, e), size2, first, IF e = pos THEN q ELSE top, pos)
    <3>1. e \in C \cup {pos}
      BY <1>2
    <3> QED BY <3>1, <1>2, <1>5, <1>6, ChainMerge
  <2> QED BY <2>1, <1>5
<1>9. /\ Tags(Outside(C, q, e), size2, pin2, foot2, first, top)
      /\ JoinUse(C, size, pin, top, q, e, size2, pin2)
  BY <1>2, <1>5, <1>6, <1>7, TagsMergeMid
<1>10. \A x : /\ x \in F => x \in C /\ x # p /\ x \in Nat /\ x \notin U
              /\ x \in U => x \in C /\ x \in Nat /\ x \notin F
  <2>1. p \in U
    BY DEF Joining
  <2>2. \A x : /\ x \in F => x \in C /\ x \in Nat /\ x \notin U
               /\ x \in U => x \in C /\ x \in Nat /\ x \notin F
    BY OneOf
  <2> QED BY <2>1, <2>2
<1> HIDE DEF F, U
<1>11. {x \in F : x < q \/ x >= e} = F \ {q, next}
  <2>1. ASSUME NEW x \in F PROVE (x < q \/ x >= e) <=> x \notin {q, next}
    <3>1. x \in C /\ x \in Nat /\ x # p
      BY <1>10
    <3>2. ASSUME x < q \/ x >= e PROVE x # q /\ x # next
      <4>1. x # q
        BY <3>1, <3>2, <1>2, <1>5
      <4>2. x # next
        BY <3>1, <3>2, <1>2, <1>3
      <4> QED BY <4>1, <4>2
    <3> QED BY <3>1, <3>2, <1>2
  <2> QED BY <2>1
<1>12. {x \in U : x < q \/ x >= e} = U \ {p}
  <2>1. ASSUME NEW x \in U PROVE (x < q \/ x >= e) <=> x # p
    <3>1. x \in C /\ x \in Nat /\ x \notin F
      BY <1>10
    <3>2. ASSUME x # p PROVE x < q \/ x >= e
      <4>1. x # q
        BY <3>1, <3>2, <1>2
      <4>2. x = next => x >= e
        BY <3>1, <1>2, <1>3
      <4> QED BY <4>1, <4>2, <3>1, <3>2, <1>2
    <3>3. ~(p < q \/ p >= e)
      BY <1>2
    <3> QED BY <3>2, <3>3
  <2> QED BY <2>1
<1>13. JoinedUse(C, size, pin, top, p, q, next, e, size2, pin2)
  <2> DEFINE X == FreeIn(Outside(C, q, e), size2, pin2, top)
             Y == UsedIn(Outside(C, q, e), size2, pin2, top)
  <2>1. X = {x \in F : x < q \/ x >= e} \cup {q} /\ Y = {x \in U : x < q \/ x >= e}
    BY <1>9 DEF JoinUse, F, U
  <2>2. X = (F \ {q, next}) \cup {q} /\ Y = U \ {p}
    BY <2>1, <1>11, <1>12
  <2> QED BY <2>2 DEF JoinedUse, F, U
<1> QED BY <1>8, <1>9, <1>13

\* The lists when the neighbours of a released chunk have left them, and
\* whether the merged chunk is the last remainder.
Dropped(bins, p) == [i \in Bins |-> Without(bins[i], p)]
IsLast(bins, p, q) == q # p /\ bins[Lr] = <<q>>
BackLists(bins, p, q) == IF q # p /\ ~IsLast(bins, p, q) THEN Dropped(bins, q) ELSE bins
ForthLists(bins, q, next, islr, inuse) ==
  IF inuse THEN bins
  ELSE IF ~islr /\ bins[Lr] = <<next>> THEN [bins EXCEPT ![Lr] = <<q>>]
  ELSE Dropped(bins, next)
Becomes(bins, next, islr, inuse) == islr \/ (~inuse /\ bins[Lr] = <<next>>)

LEMMA ForwardIs ==
  ASSUME NEW h, IsHeap(h), NEW q, NEW next, NEW end, NEW islr, islr \in BOOLEAN,
         NEW inuse, inuse \in BOOLEAN, inuse = h.pin[end]
  PROVE  Forward(h, q, next, end, islr) =
           Insert(HeapOf(h.pos, h.base, h.top, h.first, h.size, h.pin, h.foot,
                         ForthLists(h.bins, q, next, islr, inuse), h.marks),
                  q, IF inuse THEN next ELSE end, Becomes(h.bins, next, islr, inuse))
<1> DEFINE with(b) == HeapOf(h.pos, h.base, h.top, h.first, h.size, h.pin, h.foot, b, h.marks)
<1>1. h = with(h.bins)
  BY DEF IsHeap
<1>2. LinkLastRemainder(h, q) = with([h.bins EXCEPT ![Lr] = <<q>>])
  BY SetLastRemainderIs
<1>3. Unlink(h, next) = with(Dropped(h.bins, next))
  BY UnlinkIs DEF Dropped
<1>4. Forward(h, q, next, end, islr) =
        IF inuse THEN Insert(h, q, next, islr)
        ELSE IF ~islr /\ h.bins[Lr] = <<next>>
        THEN Insert(LinkLastRemainder(h, q), q, end, TRUE)
        ELSE Insert(Unlink(h, next), q, end, islr)
  BY DEF Forward
<1> DEFINE last == h.bins[Lr] = <<next>>
           b1 == [h.bins EXCEPT ![Lr] = <<q>>]
           b2 == Dropped(h.bins, next)
<1>5. /\ ForthLists(h.bins, q, next, islr, inuse) =
           IF inuse THEN h.bins ELSE IF ~islr /\ last THEN b1 ELSE b2
      /\ Becomes(h.bins, next, islr, inuse) <=> (islr \/ (~inuse /\ last))
  BY DEF ForthLists, Becomes
<1>6. Becomes(h.bins, next, islr, inuse) \in BOOLEAN
  BY DEF Becomes
<1>7. (~islr /\ h.bins[Lr] = <<next>>) <=> (~islr /\ last)
  OBVIOUS
<1> HIDE DEF with, last, b1, b2
<1> DEFINE lr == Becomes(h.bins, next, islr, inuse)
           bb == ForthLists(h.bins, q, next, islr, inuse)
<1>8. CASE inuse = TRUE
  <2>1. Forward(h, q, next, end, islr) = Insert(h, q, next, islr)
    BY <1>4, <1>8, Zenon
  <2>2. bb = h.bins /\ lr = islr
    <3>1. bb = h.bins
      BY <1>5, <1>8, Zenon
    <3>2. lr <=> islr
      BY <1>5, <1>8, Zenon
    <3> QED BY <3>1, <3>2, <1>6
  <2>3. (IF inuse THEN next ELSE end) = next
    BY <1>8, Zenon
  <2> QED BY <1>1, <2>1, <2>2, <2>3, Zenon DEF with
<1>9. CASE inuse = FALSE /\ ~islr /\ last
  <2>1. Forward(h, q, next, end, islr) = Insert(LinkLastRemainder(h, q), q, end, TRUE)
    BY <1>4, <1>7, <1>9, Zenon
  <2>2. bb = b1 /\ lr = TRUE
    <3>1. bb = b1
      BY <1>5, <1>9, Zenon
    <3>2. lr
      BY <1>5, <1>9, Zenon
    <3> QED BY <3>1, <3>2, <1>6
  <2>3. (IF inuse THEN next ELSE end) = end
    BY <1>9, Zenon
  <2> QED BY <1>2, <2>1, <2>2, <2>3, Zenon DEF with, b1
<1>10. CASE inuse = FALSE /\ ~(~islr /\ last)
  <2>1. Forward(h, q, next, end, islr) = Insert(Unlink(h, next), q, end, islr)
    BY <1>4, <1>7, <1>10, Zenon
  <2>2. bb = b2 /\ lr = islr
    <3>1. bb = b2
      BY <1>5, <1>10, Zenon
    <3>2. lr <=> islr
      BY <1>5, <1>10, Zenon
    <3> QED BY <3>1, <3>2, <1>6
  <2>3. (IF inuse THEN next ELSE end) = end
    BY <1>10, Zenon
  <2> QED BY <1>3, <2>1, <2>2, <2>3, Zenon DEF with, b2
<1>11. inuse = TRUE \/ inuse = FALSE
  OBVIOUS
<1> QED BY <1>8, <1>9, <1>10, <1>11, Zenon

\* The last remainder is merged with the chunk in front.
LEMMA ListsReplaceLr ==
  ASSUME NEW bins, NEW marks, NEW size, NEW F, Lists(bins, marks, size, F),
         NEW n, bins[Lr] = <<n>>, NEW q, q \notin F
  PROVE  Lists([bins EXCEPT ![Lr] = <<q>>], marks, size, (F \ {n}) \cup {q})
<1> DEFINE none == <<>>
           c == [bins EXCEPT ![Lr] = none]
           one == <<q>>
           G == F \ {n}
<1>1. Lists(c, marks, size, G)
  BY ListsClearLr
<1>2. DOMAIN bins = Bins /\ Lr \in Bins /\ q \notin G
  BY BinsIs DEF Lists
<1>3. c[Lr] = none
  BY <1>2, Zenon
<1>4. Len(c[Lr]) = 0
  <2>1. Len(none) = 0
    OBVIOUS
  <2> HIDE DEF none, c
  <2> QED BY <2>1, <1>3
<1>5. [c EXCEPT ![Lr] = one] = [bins EXCEPT ![Lr] = one]
  BY <1>2
<1> HIDE DEF c, G
<1>6. Lists([c EXCEPT ![Lr] = one], marks, size, G \cup {q})
  BY <1>1, <1>2, <1>4, ListsSetLr DEF one
<1> QED BY <1>5, <1>6, Zenon DEF G, one

\* The lists without the neighbours of a released chunk.
Rejoined(bins, F, p, q, next, islr, inuse, b1, b2, G) ==
  /\ p \notin F /\ (q = p \/ q \in F) /\ next # q
  /\ inuse \in BOOLEAN /\ (inuse <=> next \notin F)
  /\ b1 = BackLists(bins, p, q) /\ (islr <=> IsLast(bins, p, q))
  /\ b2 = ForthLists(b1, q, next, islr, inuse)
  /\ G = (F \ {q, next}) \cup {q}

LEMMA JoinedLists ==
  ASSUME NEW bins, NEW marks, NEW size, NEW F, Lists(bins, marks, size, F),
         NEW p, NEW q, NEW next, NEW inuse, NEW islr, NEW b1, NEW b2, NEW G,
         Rejoined(bins, F, p, q, next, islr, inuse, b1, b2, G),
         NEW size2, SameBut(F, size, q, size2)
  PROVE  IF Becomes(b1, next, islr, inuse) THEN Lists(b2, marks, size2, G)
         ELSE Lists(b2, marks, size2, G \ {q})
<1> USE DEF Rejoined
<1>1. CASE islr
  <2>1. q \in F /\ bins[Lr] = <<q>> /\ b1 = bins
    BY <1>1, Zenon DEF IsLast, BackLists
  <2>2. Becomes(b1, next, islr, inuse)
    BY <1>1 DEF Becomes
  <2>3. b2 = IF inuse THEN bins ELSE Dropped(bins, next)
    BY <1>1, <2>1, Zenon DEF ForthLists
  <2>4. Lists(bins, marks, size2, F)
    BY <2>1, ListsResize
  <2>5. CASE inuse
    <3>1. b2 = bins
      BY <2>3, <2>5, Zenon
    <3>2. G = F
      BY <2>1, <2>5
    <3> QED BY <2>2, <2>4, <3>1, <3>2
  <2>6. CASE ~inuse
    <3>1. b2 = Dropped(bins, next)
      BY <2>3, <2>6, Zenon
    <3>2. G = F \ {next}
      BY <2>1
    <3> QED BY <2>2, <2>4, <3>1, <3>2, ListsWithout DEF Dropped
  <2> QED BY <2>5, <2>6
<1>2. CASE ~islr
  <2> DEFINE E == F \ {q}
  <2>1. Lists(b1, marks, size, E)
    <3>1. CASE q # p
      <4>1. b1 = Dropped(bins, q)
        BY <1>2, <3>1, Zenon DEF BackLists
      <4> QED BY <4>1, ListsWithout DEF Dropped
    <3>2. CASE q = p
      <4>1. b1 = bins
        BY <1>2, <3>2, Zenon DEF BackLists
      <4>2. E = F
        BY <3>2
      <4> QED BY <4>1, <4>2
    <3> QED BY <3>1, <3>2
  <2>2. Lists(b1, marks, size2, E)
    <3>1. \A x \in E : size2[x] = size[x]
      BY DEF SameBut
    <3> HIDE DEF E
    <3> QED BY <2>1, <3>1, ListsAgree
  <2>3. q \notin E /\ (next \in E <=> next \in F) /\ G = (E \ {next}) \cup {q}
        /\ G \ {q} = E \ {next} /\ (inuse => E \ {next} = E)
    OBVIOUS
  <2> HIDE DEF E
  <2>4. CASE inuse
    <3>1. b2 = b1
      BY <2>4, Zenon DEF ForthLists
    <3>2. ~Becomes(b1, next, islr, inuse)
      BY <1>2, <2>4 DEF Becomes
    <3> QED BY <2>2, <2>3, <2>4, <3>1, <3>2
  <2>5. CASE ~inuse /\ b1[Lr] = <<next>>
    <3>1. b2 = [b1 EXCEPT ![Lr] = <<q>>]
      BY <1>2, <2>5, Zenon DEF ForthLists
    <3>2. Becomes(b1, next, islr, inuse)
      BY <2>5 DEF Becomes
    <3>3. Lists([b1 EXCEPT ![Lr] = <<q>>], marks, size2, (E \ {next}) \cup {q})
      BY <2>2, <2>3, <2>5, ListsReplaceLr
    <3> QED BY <2>3, <3>1, <3>2, <3>3, Zenon
  <2>6. CASE ~inuse /\ b1[Lr] # <<next>>
    <3>1. b2 = Dropped(b1, next)
      BY <1>2, <2>6, Zenon DEF ForthLists
    <3>2. ~Becomes(b1, next, islr, inuse)
      BY <1>2, <2>6 DEF Becomes
    <3> QED BY <2>2, <2>3, <3>1, <3>2, ListsWithout DEF Dropped
  <2> QED BY <2>4, <2>5, <2>6
<1> QED BY <1>1, <1>2

LEMMA BackwardIs ==
  ASSUME NEW h, IsHeap(h), NEW p, NEW q, NEW next
  PROVE  Backward(h, p, q, next) =
           Forward(HeapOf(h.pos, h.base, h.top, h.first, h.size, h.pin, h.foot,
                          BackLists(h.bins, p, q), h.marks),
                   q, next, next + h.size[next], IsLast(h.bins, p, q))
<1> DEFINE with(b) == HeapOf(h.pos, h.base, h.top, h.first, h.size, h.pin, h.foot, b, h.marks)
           islr == IsLast(h.bins, p, q)
<1>1. Backward(h, p, q, next) =
        Forward(IF q # p /\ ~islr THEN Unlink(h, q) ELSE h, q, next, next + h.size[next], islr)
  BY DEF Backward, IsLast
<1>2. Unlink(h, q) = with(Dropped(h.bins, q)) /\ h = with(h.bins)
  BY UnlinkIs DEF Dropped, IsHeap
<1> HIDE DEF with
<1>3. (IF q # p /\ ~islr THEN Unlink(h, q) ELSE h) = with(BackLists(h.bins, p, q))
  BY <1>2, Zenon DEF BackLists
<1> QED BY <1>1, <1>3, Zenon DEF with

\* Insert, with the size of the merged chunk.
Span(q, e, s) == s = e - q /\ q + s = e

WithSpan(h, q, e, s) ==
  HeapOf(h.pos, h.base, h.top, h.first, Put(h.size, q, s), Put(h.pin, q, TRUE),
         Put(h.foot, e, s), h.bins, h.marks)

LEMMA InsertIs ==
  ASSUME NEW h, IsHeap(h), NEW q, NEW e, NEW s, Span(q, e, s), NEW lr, NEW g,
         g = WithSpan(h, q, e, s)
  PROVE  Insert(h, q, e, lr) = IF lr THEN g ELSE Frontlink(g, q, s)
<1> DEFINE g1 == SetHead(h, q, s, TRUE)
           g2 == SetFoot(g1, q, s)
           s2 == Put(h.size, q, s)
           p2 == Put(h.pin, q, TRUE)
<1>1. Insert(h, q, e, lr) = IF lr THEN g2 ELSE Frontlink(g2, q, s)
  BY DEF Insert, Span
<1>2. g1 = HeapOf(h.pos, h.base, h.top, h.first, s2, p2, h.foot, h.bins, h.marks)
  BY SetHeadIs
<1> HIDE DEF g1, s2, p2
<1>3. /\ IsHeap(g1) /\ g1.pos = h.pos /\ g1.base = h.base /\ g1.top = h.top
      /\ g1.first = h.first /\ g1.size = s2 /\ g1.pin = p2
      /\ g1.foot = h.foot /\ g1.bins = h.bins /\ g1.marks = h.marks
  BY <1>2, Parts
<1>4. g2 = HeapOf(h.pos, h.base, h.top, h.first, s2, p2, Put(h.foot, q + s, s), h.bins, h.marks)
  BY <1>3, SetFootIs
<1>5. g2 = g
  BY <1>4 DEF Span, s2, p2, WithSpan
<1> HIDE DEF g2
<1> QED BY <1>1, <1>5, Zenon

\* The end of a release: the merged chunk is the last remainder or in its list.
LEMMA Inserts ==
  ASSUME NEW g, NEW D, NEW pos, NEW base, NEW top, NEW first, NEW size, NEW pin, NEW foot,
         NEW bins, NEW marks,
         Named(g, D, pos, base, top, first, size, pin, foot, bins, marks),
         NEW q, q \in FreeIn(D, size, pin, top), NEW lr \in BOOLEAN,
         lr => Lists(bins, marks, size, FreeIn(D, size, pin, top)),
         ~lr => Lists(bins, marks, size, FreeIn(D, size, pin, top) \ {q}),
         NEW r, r = IF lr THEN g ELSE Frontlink(g, q, size[q])
  PROVE  Good(r, D) /\ r.size = size /\ UsedOf(r, D) = UsedIn(D, size, pin, top)
<1> DEFINE F == FreeIn(D, size, pin, top)
<1>1. CASE lr
  <2>1. r = g
    BY <1>1, Zenon
  <2> QED BY <1>1, <2>1, Made
<1>2. CASE ~lr
  <2> DEFINE G == F \ {q}
             s == size[q]
             bins2 == Linked(g, q, s)
             marks2 == Marked(g, s)
  <2>1. g = HeapOf(pos, base, top, first, size, pin, foot, bins, marks)
    BY DEF Named
  <2>2. /\ IsHeap(g) /\ g.pos = pos /\ g.base = base /\ g.top = top /\ g.first = first
        /\ g.size = size /\ g.pin = pin /\ g.foot = foot /\ g.bins = bins /\ g.marks = marks
    BY <2>1, Parts
  <2>3. Lists(bins, marks, size, G) /\ q \notin G /\ G \cup {q} = F
    BY <1>2
  <2>4. SizesFit(size, F)
    <3>1. SizesFit(size, D)
      BY ChunkFacts DEF Named
    <3> QED BY <3>1 DEF SizesFit, FreeIn
  <2> HIDE DEF F, G
  <2>5. Lists(g.bins, g.marks, g.size, G) /\ SizesFit(g.size, G \cup {q}) /\ s = g.size[q]
    BY <2>2, <2>3, <2>4
  <2>6. Lists(bins2, marks2, g.size, G \cup {q})
    <3> HIDE DEF bins2, marks2
    <3> QED BY <2>3, <2>5, ListsFrontlink DEF bins2, marks2
  <2>7. Frontlink(g, q, s) =
          HeapOf(g.pos, g.base, g.top, g.first, g.size, g.pin, g.foot, bins2, marks2)
    BY <2>2, FrontlinkIs
  <2>8. r = Frontlink(g, q, s)
    BY <1>2, Zenon
  <2> HIDE DEF bins2, marks2
  <2>9. r = HeapOf(pos, base, top, first, size, pin, foot, bins2, marks2)
    BY <2>2, <2>7, <2>8, Zenon
  <2>10. Named(r, D, pos, base, top, first, size, pin, foot, bins2, marks2)
    BY <2>9 DEF Named
  <2>11. Lists(bins2, marks2, size, F)
    BY <2>2, <2>3, <2>6
  <2> QED BY <2>10, <2>11, Made DEF F
<1> QED BY <1>1, <1>2

LEMMA FreesToBin ==
  ASSUME NEW h, NEW C, Good(h, C), NEW p \in UsedOf(h, C), NEW next, next = p + h.size[p],
         next # h.top, NEW r, r = FreeToBin(h, p, next)
  PROVE  \E D : Good(r, D) /\ LessUse(h, C, r, D, p)
<1>1. Frame(h, C) /\ C # {}
  BY DEF Good, UsedOf, UsedIn
<1>2. PICK pos, base, top, first, size, pin, foot, bins, marks :
        Named(h, C, pos, base, top, first, size, pin, foot, bins, marks)
  BY <1>1, Opened
<1> DEFINE F == FreeIn(C, size, pin, top)
           U == UsedIn(C, size, pin, top)
           q == BackOf(h, p)
           n == size[next]
           inuse == pin[next + n]
           e == IF inuse THEN next ELSE next + n
           s == e - q
           D == Outside(C, q, e)
           size1 == Put(size, next, n)
           pin1 == Put(pin, next, FALSE)
           size2 == Put(size1, q, s)
           pin2 == Put(pin1, q, TRUE)
           foot2 == Put(foot, e, s)
           islr == IsLast(bins, p, q)
           b1 == BackLists(bins, p, q)
           b2 == ForthLists(b1, q, next, islr, inuse)
           lr == Becomes(b1, next, islr, inuse)
           G == (F \ {q, next}) \cup {q}
           g == HeapOf(pos, base, top, first, size2, pin2, foot2, b2, marks)
<1>3. /\ h.size = size /\ h.bins = bins /\ h.pin = pin /\ h.top = top /\ h.pos = pos
      /\ FreeOf(h, C) = F /\ UsedOf(h, C) = U
      /\ h.marks = marks
  BY <1>2, Made
<1>4. Lists(bins, marks, size, F)
  BY <1>3 DEF Good
<1>5. /\ h = HeapOf(pos, base, top, first, size, pin, foot, bins, marks)
      /\ pos \in Start .. End /\ pos % 4 = 0 /\ base \in BOOLEAN
      /\ C \subseteq DOMAIN size /\ C \subseteq DOMAIN pin
      /\ top # None
      /\ Chain(C, size, first, top, pos)
      /\ Tags(C, size, pin, foot, first, top)
  BY <1>2 DEF Named
<1>6. /\ IsHeap(h) /\ h.pos = pos /\ h.base = base /\ h.top = top /\ h.first = first
      /\ h.size = size /\ h.pin = pin /\ h.foot = foot /\ h.bins = bins /\ h.marks = marks
  BY <1>5, Parts
<1>7. p \in U /\ p \in C /\ p # top /\ p \notin F /\ next = p + size[p] /\ next # top
  <2>1. p \in U
    BY <1>3
  <2>2. p \in C /\ p # top /\ p \notin F
    BY <2>1, <1>5, OneOf
  <2> QED BY <2>1, <2>2, <1>3
<1>8. q = IF pin[p] THEN p ELSE p - foot[p]
  BY <1>6 DEF BackOf
<1> HIDE DEF q
<1>9. Behind(C, size, pin, top, p, q)
  BY <1>5, <1>7, <1>8, BackIs
<1>10. next \in C /\ next + n \in C /\ next # next + n /\ inuse \in BOOLEAN
  <2>1. next \in C
    BY <1>5, <1>7, ChainTypes
  <2>2. next + n \in C /\ next < next + n /\ next \in Nat /\ n \in Nat
    BY <1>5, <1>7, <2>1, ChainTypes
  <2>3. inuse \in BOOLEAN
    BY <1>5, <2>2 DEF Tags
  <2> QED BY <2>1, <2>2, <2>3
<1>11. Joining(C, size, pin, top, p, q, next, e)
  <2>1. e = IF pin[next + size[next]] = TRUE THEN next ELSE next + size[next]
    <3>1. inuse = TRUE \/ inuse = FALSE
      BY <1>10
    <3> QED BY <3>1, Zenon
  <2> QED BY <2>1, <1>7, <1>9 DEF Joining
<1> HIDE DEF F, U, n, inuse, e, D
<1>12. Around(C, size, pin, top, p, q, next, e)
  BY <1>5, <1>11, AroundIs
<1>13. /\ q \in C /\ q \in Nat /\ next \in C /\ next \in Nat /\ e \in Nat /\ q < next /\ q < e
       /\ inuse <=> next \notin F
       /\ q = p \/ q \in F
       /\ e \in C /\ next <= e /\ pin[q] = TRUE
  <2>1. /\ q \in C /\ q \in Nat /\ p \in Nat /\ next \in C /\ next \in Nat /\ e \in C /\ e \in Nat
        /\ q <= p /\ p < next /\ next <= e /\ pin[q] = TRUE
        /\ q = p \/ q \in F
    BY <1>12 DEF Around, F
  <2>2. \/ inuse = TRUE /\ next \notin F
        \/ inuse = FALSE /\ next \in F
    BY <1>12 DEF Around, F, inuse, n
  <2>3. q < next /\ q < e
    BY <2>1
  <2>4. inuse <=> next \notin F
    BY <2>2, Zenon
  <2> QED BY <2>1, <2>3, <2>4
<1>14. s \in Nat /\ Span(q, e, s) /\ s = e - q
  <2>1. s \in Nat /\ q + s = e
    BY <1>13
  <2> HIDE DEF s
  <2> QED BY <2>1 DEF Span, s
<1> HIDE DEF s
<1>15. /\ DOMAIN size1 = DOMAIN size /\ \A x \in DOMAIN size : size1[x] = size[x]
       /\ DOMAIN pin1 = DOMAIN pin /\ pin1[next] = FALSE
       /\ \A x \in DOMAIN pin : x # next => pin1[x] = pin[x]
  BY <1>5, <1>10 DEF Put, n
<1>16. pin1[next + n] = inuse
  BY <1>5, <1>10, <1>15 DEF inuse
<1> DEFINE h0 == HeapOf(pos, base, top, first, size1, pin1, foot, bins, marks)
           h1 == HeapOf(pos, base, top, first, size1, pin1, foot, b1, marks)
           h2 == HeapOf(pos, base, top, first, size1, pin1, foot, b2, marks)
<1>17. r = Insert(h2, q, e, lr)
  <2>1. SetHead(h, next, h.size[next], FALSE) = h0
    <3>1. SetHead(h, next, n, FALSE) =
            HeapOf(h.pos, h.base, h.top, h.first, Put(h.size, next, n), Put(h.pin, next, FALSE),
                   h.foot, h.bins, h.marks)
      BY <1>6, SetHeadIs
    <3> QED BY <3>1, <1>6, Zenon DEF n
  <2>2. r = Backward(h0, p, q, next)
    BY <2>1, Zenon DEF FreeToBin, q
  <2> HIDE DEF h1, h2, size1, pin1, b1, b2, islr, lr
  <2> HIDE DEF h0
  <2>3. /\ IsHeap(h0) /\ h0.pos = pos /\ h0.base = base /\ h0.top = top /\ h0.first = first
        /\ h0.size = size1 /\ h0.pin = pin1 /\ h0.foot = foot /\ h0.bins = bins
        /\ h0.marks = marks
    BY Parts DEF h0
  <2>4. size1[next] = n
    BY <1>5, <1>10, <1>15 DEF n
  <2>5. r = Forward(h1, q, next, next + n, islr)
    <3>1. r = Forward(HeapOf(h0.pos, h0.base, h0.top, h0.first, h0.size, h0.pin, h0.foot,
                             BackLists(h0.bins, p, q), h0.marks),
                      q, next, next + h0.size[next], IsLast(h0.bins, p, q))
      BY <2>2, <2>3, BackwardIs
    <3> QED BY <3>1, <2>3, <2>4, Zenon DEF h1, b1, islr
  <2>6. /\ IsHeap(h1) /\ h1.pos = pos /\ h1.base = base /\ h1.top = top /\ h1.first = first
        /\ h1.size = size1 /\ h1.pin = pin1 /\ h1.foot = foot /\ h1.bins = b1
        /\ h1.marks = marks
    BY Parts DEF h1
  <2>7. islr \in BOOLEAN /\ inuse \in BOOLEAN /\ inuse = h1.pin[next + n]
    <3>1. islr \in BOOLEAN
      BY DEF islr, IsLast
    <3>2. inuse \in BOOLEAN
      BY <1>10
    <3> QED BY <3>1, <3>2, <1>16, <2>6
  <2> DEFINE end == next + n
  <2>8. e = IF inuse THEN next ELSE end
    BY DEF e
  <2> HIDE DEF end
  <2>9. Forward(h1, q, next, end, islr) =
           Insert(HeapOf(h1.pos, h1.base, h1.top, h1.first, h1.size, h1.pin, h1.foot,
                         ForthLists(h1.bins, q, next, islr, inuse), h1.marks),
                  q, IF inuse THEN next ELSE end, Becomes(h1.bins, next, islr, inuse))
    <3>1. inuse = h1.pin[end]
      BY <2>7 DEF end
    <3> QED BY <3>1, <2>6, <2>7, ForwardIs
  <2>10. ForthLists(h1.bins, q, next, islr, inuse) = b2 /\ Becomes(h1.bins, next, islr, inuse) = lr
    BY <2>6 DEF b2, lr
  <2> QED BY <2>5, <2>6, <2>8, <2>9, <2>10, Zenon DEF h2, end
<1> HIDE DEF h0, h1
<1>18. r = IF lr THEN g ELSE Frontlink(g, q, s)
  <2> HIDE DEF size1, pin1, b1, b2, islr, lr, size2, pin2, foot2
  <2> HIDE DEF h2
  <2>1. /\ IsHeap(h2) /\ h2.pos = pos /\ h2.base = base /\ h2.top = top /\ h2.first = first
        /\ h2.size = size1 /\ h2.pin = pin1 /\ h2.foot = foot /\ h2.bins = b2
        /\ h2.marks = marks
    BY Parts DEF h2
  <2>2. g = WithSpan(h2, q, e, s)
    BY <2>1, Zenon DEF g, size2, pin2, foot2, WithSpan
  <2> HIDE DEF g
  <2>3. Insert(h2, q, e, lr) = IF lr THEN g ELSE Frontlink(g, q, s)
    BY <2>1, <2>2, <1>14, InsertIs
  <2> QED BY <2>3, <1>17, Zenon
<1> HIDE DEF h2, g
<1>19. /\ DOMAIN size2 = DOMAIN size /\ size2[q] = s
       /\ \A x \in DOMAIN size : x # q => size2[x] = size[x]
  <2>1. DOMAIN size2 = DOMAIN size1 \cup {q} /\ size2[q] = s
        /\ \A x \in DOMAIN size1 : x # q => size2[x] = size1[x]
    BY DEF Put
  <2> HIDE DEF size1, size2
  <2> QED BY <2>1, <1>5, <1>13, <1>15
<1>20. /\ DOMAIN pin2 = DOMAIN pin /\ pin2[next] = FALSE
       /\ \A x \in DOMAIN pin : x # next => pin2[x] = pin[x]
  <2>1. DOMAIN pin2 = DOMAIN pin1 \cup {q} /\ pin2[q] = TRUE
        /\ \A x \in DOMAIN pin1 : x # q => pin2[x] = pin1[x]
    BY DEF Put
  <2> HIDE DEF pin1, pin2
  <2>2. q # next
    BY <1>13
  <2> QED BY <2>1, <2>2, <1>5, <1>13, <1>15
<1>21. /\ e \in DOMAIN foot2 /\ foot2[e] = s
       /\ \A x \in DOMAIN foot : x # e => x \in DOMAIN foot2 /\ foot2[x] = foot[x]
  BY DEF Put
<1> HIDE DEF size1, pin1, size2, pin2, foot2
<1>22. Merged(C, size, pin, foot, q, next, e, size2, pin2, foot2)
  <2>1. \A a \in C : pin[a] = FALSE => a \in DOMAIN foot
    BY <1>5 DEF Tags
  <2> QED BY <2>1, <1>5, <1>14, <1>19, <1>20, <1>21 DEF Merged
<1>23. /\ Chain(D, size2, first, top, pos)
       /\ Tags(D, size2, pin2, foot2, first, top)
       /\ JoinedUse(C, size, pin, top, p, q, next, e, size2, pin2)
  BY <1>5, <1>11, <1>22, Joined DEF D
<1>24. FreeIn(D, size2, pin2, top) = G /\ UsedIn(D, size2, pin2, top) = U \ {p}
  BY <1>23 DEF JoinedUse, D, F, U
<1>25. /\ lr => Lists(b2, marks, size2, G)
       /\ ~lr => Lists(b2, marks, size2, G \ {q})
  <2>1. SameBut(F, size, q, size2)
    <3>1. F \subseteq C
      BY DEF F, FreeIn
    <3> QED BY <3>1, <1>5, <1>19 DEF SameBut
  <2>2. Rejoined(bins, F, p, q, next, islr, inuse, b1, b2, G)
    <3>1. p \notin F /\ (q = p \/ q \in F) /\ next # q
          /\ inuse \in BOOLEAN /\ (inuse <=> next \notin F)
      BY <1>7, <1>10, <1>13
    <3> QED BY <3>1 DEF Rejoined
  <2> HIDE DEF b1, b2, islr, G
  <2>3. IF lr THEN Lists(b2, marks, size2, G) ELSE Lists(b2, marks, size2, G \ {q})
    BY <2>1, <2>2, <1>4, JoinedLists
  <2> HIDE DEF lr
  <2> QED BY <2>3
<1>26. q \in FreeIn(D, size2, pin2, top)
  BY <1>24
<1>27. lr \in BOOLEAN
  BY DEF Becomes
<1> HIDE DEF b1, b2, lr, G, islr
<1>28. Named(g, D, pos, base, top, first, size2, pin2, foot2, b2, marks)
  <2>1. D \subseteq C
    BY DEF D, Outside
  <2> QED BY <2>1, <1>5, <1>19, <1>20, <1>23 DEF Named, g
<1>29. r = IF lr THEN g ELSE Frontlink(g, q, size2[q])
  BY <1>18, <1>19, Zenon
<1> DEFINE X == FreeIn(D, size2, pin2, top)
<1>30. Good(r, D) /\ r.size = size2 /\ UsedOf(r, D) = UsedIn(D, size2, pin2, top)
  <2>1. lr => Lists(b2, marks, size2, X)
    BY <1>24, <1>25
  <2>2. ~lr => Lists(b2, marks, size2, X \ {q})
    BY <1>24, <1>25
  <2> QED BY <2>1, <2>2, <1>26, <1>27, <1>28, <1>29, Inserts, SMTT(30)
<1>31. LessUse(h, C, r, D, p)
  <2>1. \A x \in U : x # p => x \in DOMAIN size /\ x # q
    <3>1. \A x \in U : x \in C /\ x \notin F
      BY <1>5, OneOf DEF U, F
    <3> QED BY <3>1, <1>5, <1>13
  <2> QED BY <2>1, <1>3, <1>19, <1>24, <1>30 DEF LessUse
<1> QED BY <1>30, <1>31

\* Free: the chunk is free or part of a free one, or it has gone to the top chunk.
LEMMA Frees ==
  ASSUME NEW h, NEW C, Good(h, C), NEW p \in UsedOf(h, C)
  PROVE  \E D : Good(Free(h, Mem(p)), D) /\ LessUse(h, C, Free(h, Mem(p)), D, p)
<1>1. Frame(h, C) /\ C # {}
  BY DEF Good, UsedOf, UsedIn
<1>2. PICK pos, base, top, first, size, pin, foot, bins, marks :
        Named(h, C, pos, base, top, first, size, pin, foot, bins, marks)
  BY <1>1, Opened
<1>3. h.size = size /\ UsedOf(h, C) = UsedIn(C, size, pin, top)
  BY <1>2, Made
<1>4. p \in Nat
  <2>1. Chain(C, size, first, top, pos) /\ Tags(C, size, pin, foot, first, top)
    BY <1>2 DEF Named
  <2>2. p \in UsedIn(C, size, pin, top)
    BY <1>3
  <2> QED BY <2>1, <2>2, OneOf
<1>5. Chunk(Mem(p)) = p
  BY <1>4 DEF Chunk, Mem
<1> DEFINE next == p + h.size[p]
<1>6. Free(h, Mem(p)) = IF next = h.top THEN FreeToTop(h, p) ELSE FreeToBin(h, p, next)
  BY <1>5, Zenon DEF Free
<1>7. CASE next = h.top
  <2>1. \E D : Good(FreeToTop(h, p), D) /\ LessUse(h, C, FreeToTop(h, p), D, p)
    BY <1>7, FreesToTop
  <2> QED BY <2>1, <1>6, <1>7, Zenon
<1>8. CASE next # h.top
  <2> DEFINE r == FreeToBin(h, p, next)
  <2>1. next = p + h.size[p]
    OBVIOUS
  <2>2. r = FreeToBin(h, p, next)
    OBVIOUS
  <2> HIDE DEF r, next
  <2>3. \E D : Good(r, D) /\ LessUse(h, C, r, D, p)
    BY <2>1, <2>2, <1>8, FreesToBin
  <2> QED BY <2>2, <2>3, <1>6, <1>8, Zenon
<1> QED BY <1>7, <1>8, Zenon

-----------------------------------------------------------------------------
(* Requests and aligned requests *)

\* A request is padded to a size that holds it, or it is refused.
Refused(bytes) == Signed(bytes) < 0
Taken(bytes) == Fitted(bytes) \/ Refused(bytes)

LEMMA Mallocs ==
  ASSUME NEW h, NEW C, Good(h, C), NEW bytes, Taken(bytes)
  PROVE  /\ Hands(h, C, Malloc(h, bytes), Request2Size(bytes))
         /\ ~Refused(bytes) => Fitted(bytes) /\ Serves(h, C, Malloc(h, bytes), Request2Size(bytes))
<1>1. Malloc(h, bytes) = IF Refused(bytes) THEN Nothing(h) ELSE MallocOf(h, Request2Size(bytes))
  BY DEF Malloc, Refused
<1>2. CASE Refused(bytes)
  <2>1. SameUse(h, C, h, C)
    BY DEF SameUse
  <2>2. Hands(h, C, Nothing(h), Request2Size(bytes))
    BY <2>1, HandsNothing
  <2> QED BY <2>2, <1>1, <1>2
<1>3. CASE ~Refused(bytes)
  <2>1. Fitted(bytes)
    BY <1>3 DEF Taken
  <2> DEFINE nb == Request2Size(bytes)
  <2>2. nb \in Nat /\ nb >= 16 /\ nb % 8 = 0 /\ nb <= W32 \div 2
    BY <2>1, Padded
  <2> HIDE DEF nb
  <2>3. Serves(h, C, MallocOf(h, nb), nb)
    BY <2>2, MallocsOf
  <2>4. Hands(h, C, MallocOf(h, nb), nb)
    BY <2>3 DEF Serves, Answers
  <2>5. Malloc(h, bytes) = MallocOf(h, nb)
    BY <1>1, <1>3, Zenon DEF nb
  <2> QED BY <2>1, <2>3, <2>4, <2>5, Zenon DEF nb
<1> QED BY <1>2, <1>3

\* A chunk in use is cut in two, both in use.
CutUsed(C, size, pin, p, lead, size2, pin2) ==
  /\ size2[p] = lead /\ size2[p + lead] = size[p] - lead
  /\ DOMAIN size2 = DOMAIN size \cup {p, p + lead}
  /\ \A x \in DOMAIN size : x # p /\ x # p + lead => size2[x] = size[x]
  /\ pin2[p + lead] = TRUE
  /\ DOMAIN pin2 = DOMAIN pin \cup {p, p + lead}
  /\ \A x \in DOMAIN pin : x # p + lead => pin2[x] = pin[x]
TwoUsed(h, C, g, p, lead) ==
  /\ Good(g, C \cup {p + lead})
  /\ UsedOf(g, C \cup {p + lead}) = UsedOf(h, C) \cup {p + lead}
  /\ g.size[p] = lead /\ g.size[p + lead] = h.size[p] - lead
  /\ \A x \in UsedOf(h, C) : x # p => g.size[x] = h.size[x]
  /\ p + lead \notin C

LEMMA CutsUsed ==
  ASSUME NEW h, NEW C, NEW pos, NEW base, NEW top, NEW first, NEW size, NEW pin, NEW foot,
         NEW bins, NEW marks,
         Named(h, C, pos, base, top, first, size, pin, foot, bins, marks), Good(h, C),
         NEW p \in UsedIn(C, size, pin, top), NEW lead \in Nat, lead >= 16, lead % 8 = 0,
         size[p] - lead >= 16,
         NEW size2, NEW pin2, CutUsed(C, size, pin, p, lead, size2, pin2)
  PROVE  TwoUsed(h, C, HeapOf(pos, base, top, first, size2, pin2, foot, bins, marks), p, lead)
<1> DEFINE F == FreeIn(C, size, pin, top)
           U == UsedIn(C, size, pin, top)
           r == p + lead
           D == C \cup {r}
           g == HeapOf(pos, base, top, first, size2, pin2, foot, bins, marks)
<1>1. /\ h.size = size /\ h.bins = bins /\ h.pin = pin /\ h.top = top
      /\ FreeOf(h, C) = F /\ UsedOf(h, C) = U /\ h.marks = marks
  BY Made
<1>2. Lists(bins, marks, size, F)
  BY <1>1 DEF Good
<1>3. /\ pos \in Start .. End /\ pos % 4 = 0 /\ base \in BOOLEAN
      /\ C \subseteq DOMAIN size /\ C \subseteq DOMAIN pin
      /\ top # None
      /\ Chain(C, size, first, top, pos)
      /\ Tags(C, size, pin, foot, first, top)
  BY DEF Named
<1>4. p \in C /\ p # top /\ p \notin F /\ pin[p + size[p]] = TRUE
  <2>1. p \in C /\ p # top /\ p \notin F
    BY <1>3, OneOf
  <2> QED BY <2>1 DEF UsedIn
<1>5. p \in Nat /\ size[p] \in Nat /\ p < p + size[p] /\ p < r /\ r < p + size[p]
  <2>1. p \in Nat /\ size[p] \in Nat
    BY <1>3, <1>4, ChainTypes
  <2> QED BY <2>1
<1>6. CutSizes(C, size, p, lead, size2)
  <2>1. r \notin C
    <3>1. \A x, y \in C : x < y => x + size[x] <= y
      BY <1>3, ChainTypes
    <3> QED BY <3>1, <1>4, <1>5
  <2> QED BY <2>1, <1>3 DEF CutUsed, CutSizes
<1>7. Chain(D, size2, first, top, pos) /\ r \notin C
  <2>1. p \in C /\ top = IF p = top THEN p + lead ELSE top
    BY <1>4
  <2>2. /\ Chain(C \cup {p + lead}, size2, first, IF p = top THEN p + lead ELSE top, pos)
        /\ p + lead \notin C
    BY <2>1, <1>3, <1>6, ChainSplit
  <2> QED BY <2>1, <2>2, Zenon
<1>8. CutTags(C, size, pin, foot, p, lead, pin2, foot)
  <2>1. \A a \in C : pin[a] = FALSE => a \in DOMAIN foot /\ a # p + size[p]
    BY <1>3, <1>4 DEF Tags
  <2> QED BY <2>1, <1>3, <1>7 DEF CutTags, CutUsed
<1>9. Tags(D, size2, pin2, foot, first, top) /\ SplitUse(C, size, pin, top, p, lead, size2, pin2, top)
  <2>1. top = IF p = top THEN p + lead ELSE top
    BY <1>4
  <2> QED BY <2>1, <1>3, <1>4, <1>6, <1>7, <1>8, TagsSplit
<1>10. FreeIn(D, size2, pin2, top) = F /\ UsedIn(D, size2, pin2, top) = U \cup {r}
  BY <1>4, <1>9 DEF SplitUse
<1> HIDE DEF g
<1>11. Named(g, D, pos, base, top, first, size2, pin2, foot, bins, marks)
  <2>1. D \subseteq DOMAIN size2 /\ D \subseteq DOMAIN pin2
    BY <1>3 DEF CutUsed
  <2> QED BY <2>1, <1>3, <1>7, <1>9 DEF Named, g
<1>12. Lists(bins, marks, size2, F)
  <2>1. \A x \in F : size2[x] = size[x]
    <3>1. \A x \in F : x \in C
      BY DEF FreeIn
    <3> QED BY <3>1, <1>4, <1>6 DEF CutSizes
  <2> QED BY <2>1, <1>2, ListsAgree
<1>13. Good(g, D) /\ g.size = size2 /\ UsedOf(g, D) = U \cup {r}
  BY <1>10, <1>11, <1>12, Made
<1>14. \A x \in U : x \in C
  BY DEF UsedIn
<1> QED BY <1>1, <1>6, <1>7, <1>13, <1>14 DEF TwoUsed, CutSizes, g

\* The records a cut leaves, and the pieces at r and p.
LEMMA CutBehindIs ==
  ASSUME NEW h, IsHeap(h), NEW p, NEW lead, NEW r, NEW s
  PROVE  SetHeadSize(SetHead(h, r, s, TRUE), p, lead) =
           HeapOf(h.pos, h.base, h.top, h.first, Put(Put(h.size, r, s), p, lead),
                  Put(Put(h.pin, r, TRUE), p, Put(h.pin, r, TRUE)[p]), h.foot, h.bins, h.marks)
<1> DEFINE g == SetHead(h, r, s, TRUE)
           size1 == Put(h.size, r, s)
           pin1 == Put(h.pin, r, TRUE)
<1>1. g = HeapOf(h.pos, h.base, h.top, h.first, size1, pin1, h.foot, h.bins, h.marks)
  BY SetHeadIs
<1> HIDE DEF g, size1, pin1
<1>2. /\ IsHeap(g) /\ g.pos = h.pos /\ g.base = h.base /\ g.top = h.top /\ g.first = h.first
      /\ g.size = size1 /\ g.pin = pin1 /\ g.foot = h.foot /\ g.bins = h.bins
      /\ g.marks = h.marks
  BY <1>1, Parts
<1> DEFINE v == pin1[p]
<1>3. SetHeadSize(g, p, lead) = SetHead(g, p, lead, v)
  BY <1>2, Zenon DEF SetHeadSize
<1> HIDE DEF v
<1>4. SetHead(g, p, lead, v) =
        HeapOf(g.pos, g.base, g.top, g.first, Put(g.size, p, lead), Put(g.pin, p, v),
               g.foot, g.bins, g.marks)
  BY <1>2, SetHeadIs
<1> QED BY <1>2, <1>3, <1>4, Zenon DEF g, size1, pin1, v

TagAt(pin, r, s, pin2) == pin2 = [Put(pin, r, TRUE) EXCEPT ![r + s] = TRUE]

LEMMA CutAheadIs ==
  ASSUME NEW h, IsHeap(h), NEW p, NEW lead, NEW r, NEW s, NEW pin2, TagAt(h.pin, r, s, pin2)
  PROVE  SetHeadSize(SetInuseAt(SetHead(h, r, s, TRUE), r, s), p, lead) =
           HeapOf(h.pos, h.base, h.top, h.first, Put(Put(h.size, r, s), p, lead),
                  Put(pin2, p, pin2[p]), h.foot, h.bins, h.marks)
<1> DEFINE g == SetHead(h, r, s, TRUE)
           k == SetInuseAt(g, r, s)
           size1 == Put(h.size, r, s)
           pin1 == Put(h.pin, r, TRUE)
<1>1. g = HeapOf(h.pos, h.base, h.top, h.first, size1, pin1, h.foot, h.bins, h.marks)
  BY SetHeadIs
<1>2. pin2 = [pin1 EXCEPT ![r + s] = TRUE]
  BY DEF TagAt
<1> HIDE DEF size1, pin1
<1> HIDE DEF k, g
<1>3. /\ IsHeap(g) /\ g.pos = h.pos /\ g.base = h.base /\ g.top = h.top /\ g.first = h.first
      /\ g.size = size1 /\ g.pin = pin1 /\ g.foot = h.foot /\ g.bins = h.bins
      /\ g.marks = h.marks
  BY <1>1, Parts
<1>4. k = HeapOf(g.pos, g.base, g.top, g.first, g.size, [g.pin EXCEPT ![r + s] = TRUE],
                 g.foot, g.bins, g.marks)
  BY <1>3, SetInuseAtIs DEF k
<1>5. k = HeapOf(h.pos, h.base, h.top, h.first, size1, pin2, h.foot, h.bins, h.marks)
  BY <1>2, <1>3, <1>4, Zenon
<1>6. /\ IsHeap(k) /\ k.pos = h.pos /\ k.base = h.base /\ k.top = h.top /\ k.first = h.first
      /\ k.size = size1 /\ k.pin = pin2 /\ k.foot = h.foot /\ k.bins = h.bins
      /\ k.marks = h.marks
  BY <1>5, Parts
<1> DEFINE v == pin2[p]
<1>7. SetHeadSize(k, p, lead) = SetHead(k, p, lead, v)
  BY <1>6, Zenon DEF SetHeadSize
<1> HIDE DEF v
<1>8. SetHead(k, p, lead, v) =
        HeapOf(k.pos, k.base, k.top, k.first, Put(k.size, p, lead), Put(k.pin, p, v),
               k.foot, k.bins, k.marks)
  BY <1>6, SetHeadIs
<1> QED BY <1>6, <1>7, <1>8, Zenon DEF g, k, size1, v

\* Either way the chunk p is two chunks in use.
RestAt(h, p, lead, r, s) == r = p + lead /\ s = h.size[p] - lead

LEMMA CutsBehind ==
  ASSUME NEW h, NEW C, Good(h, C), NEW p \in UsedOf(h, C), NEW lead \in Nat, lead >= 16,
         lead % 8 = 0, h.size[p] - lead >= 16, NEW r, NEW s, RestAt(h, p, lead, r, s)
  PROVE  /\ TwoUsed(h, C, SetHeadSize(SetHead(h, r, s, TRUE), p, lead), p, lead)
         /\ TwoUsed(h, C, SetHeadSize(SetInuseAt(SetHead(h, r, s, TRUE), r, s), p, lead), p, lead)
<1>1. Frame(h, C) /\ C # {}
  BY DEF Good, UsedOf, UsedIn
<1>2. PICK pos, base, top, first, size, pin, foot, bins, marks :
        Named(h, C, pos, base, top, first, size, pin, foot, bins, marks)
  BY <1>1, Opened
<1>3. /\ IsHeap(h) /\ h.pos = pos /\ h.base = base /\ h.top = top /\ h.first = first
      /\ h.size = size /\ h.pin = pin /\ h.foot = foot /\ h.bins = bins /\ h.marks = marks
  <2>1. h = HeapOf(pos, base, top, first, size, pin, foot, bins, marks)
    BY <1>2 DEF Named
  <2> QED BY <2>1, Parts
<1>4. p \in UsedIn(C, size, pin, top)
  BY <1>2, Made
<1>5. /\ Chain(C, size, first, top, pos) /\ Tags(C, size, pin, foot, first, top)
      /\ C \subseteq DOMAIN size /\ C \subseteq DOMAIN pin
  BY <1>2 DEF Named
<1>6. p \in C /\ p # top /\ pin[p + size[p]] = TRUE /\ p + size[p] \in C /\ p \in Nat
      /\ size[p] \in Nat
  <2>1. p \in C /\ p # top
    BY <1>4, <1>5, OneOf
  <2> QED BY <2>1, <1>4, <1>5, ChainTypes DEF UsedIn
<1>7. r # p /\ r + s = p + size[p] /\ r = p + lead /\ s = size[p] - lead
  BY <1>3, <1>6 DEF RestAt
<1> DEFINE size2 == Put(Put(size, r, s), p, lead)
           pin1 == Put(pin, r, TRUE)
           over == [pin1 EXCEPT ![r + s] = TRUE]
<1>8. TwoPut(size2, size, r, s, p, lead)
  BY <1>7, PutTwice
<1> HIDE DEF size2
<1>9. DOMAIN pin1 = DOMAIN pin \cup {r} /\ pin1[r] = TRUE
      /\ \A x \in DOMAIN pin : x # r => pin1[x] = pin[x]
  BY DEF Put
<1> HIDE DEF pin1
<1>10. DOMAIN over = DOMAIN pin \cup {r} /\ over[r] = TRUE
       /\ \A x \in DOMAIN pin : x # r => over[x] = pin[x]
  BY <1>5, <1>6, <1>7, <1>9
<1> HIDE DEF over
<1>11. ASSUME NEW q1, DOMAIN q1 = DOMAIN pin \cup {r}, q1[r] = TRUE,
              \A x \in DOMAIN pin : x # r => q1[x] = pin[x]
       PROVE  TwoUsed(h, C, HeapOf(pos, base, top, first, size2, Put(q1, p, q1[p]), foot, bins, marks),
                      p, lead)
  <2> DEFINE pin2 == Put(q1, p, q1[p])
  <2>1. DOMAIN pin2 = DOMAIN q1 \cup {p} /\ \A x \in DOMAIN q1 : pin2[x] = q1[x]
    BY DEF Put
  <2> HIDE DEF pin2
  <2>2. CutUsed(C, size, pin, p, lead, size2, pin2)
    BY <2>1, <1>7, <1>8, <1>11 DEF CutUsed, TwoPut
  <2>3. size[p] - lead >= 16
    BY <1>3
  <2>4. TwoUsed(h, C, HeapOf(pos, base, top, first, size2, pin2, foot, bins, marks), p, lead)
    BY <1>2, <1>4, <2>2, <2>3, CutsUsed
  <2> QED BY <2>4 DEF pin2
<1>12. SetHeadSize(SetHead(h, r, s, TRUE), p, lead) =
         HeapOf(pos, base, top, first, size2, Put(pin1, p, pin1[p]), foot, bins, marks)
  <2>1. SetHeadSize(SetHead(h, r, s, TRUE), p, lead) =
           HeapOf(h.pos, h.base, h.top, h.first, Put(Put(h.size, r, s), p, lead),
                  Put(Put(h.pin, r, TRUE), p, Put(h.pin, r, TRUE)[p]), h.foot, h.bins, h.marks)
    BY <1>3, CutBehindIs
  <2> QED BY <2>1, <1>3, Zenon DEF size2, pin1
<1>13. SetHeadSize(SetInuseAt(SetHead(h, r, s, TRUE), r, s), p, lead) =
         HeapOf(pos, base, top, first, size2, Put(over, p, over[p]), foot, bins, marks)
  <2>1. TagAt(h.pin, r, s, over)
    BY <1>3, Zenon DEF over, pin1, TagAt
  <2>2. SetHeadSize(SetInuseAt(SetHead(h, r, s, TRUE), r, s), p, lead) =
           HeapOf(h.pos, h.base, h.top, h.first, Put(Put(h.size, r, s), p, lead),
                  Put(over, p, over[p]), h.foot, h.bins, h.marks)
    BY <2>1, <1>3, CutAheadIs
  <2> QED BY <2>2, <1>3, Zenon DEF size2
<1> QED BY <1>9, <1>10, <1>11, <1>12, <1>13

\* The chunk p of a heap keeps at least nb bytes, the others in use all they had.
Keeps(h, C, g, D, p, nb) ==
  /\ UsedOf(g, D) = UsedOf(h, C) /\ g.size[p] >= nb
  /\ \A x \in UsedOf(h, C) : x # p => g.size[x] = h.size[x]

LEMMA UsedTypes ==
  ASSUME NEW h, NEW C, Good(h, C), NEW p \in UsedOf(h, C)
  PROVE  /\ p \in C /\ p \in Nat /\ h.size[p] \in Nat /\ h.size[p] >= 16
         /\ p % 8 = 0 /\ h.size[p] % 8 = 0 /\ p \in DOMAIN h.size
<1>1. Frame(h, C) /\ C # {}
  BY DEF Good, UsedOf, UsedIn
<1>2. /\ Chain(C, h.size, h.first, h.top, h.pos) /\ C \subseteq DOMAIN h.size
      /\ Tags(C, h.size, h.pin, h.foot, h.first, h.top)
  BY <1>1, Standing
<1> DEFINE size == h.size
           pin == h.pin
           foot == h.foot
           top == h.top
           first == h.first
           pos == h.pos
<1>3. /\ Chain(C, size, first, top, pos) /\ C \subseteq DOMAIN size
      /\ Tags(C, size, pin, foot, first, top) /\ p \in UsedIn(C, size, pin, top)
  BY <1>2 DEF UsedOf
<1> HIDE DEF size, pin, foot, top, first, pos
<1>4. p \in C /\ p \in Nat
  BY <1>3, OneOf
<1>5. size[p] \in Nat /\ size[p] >= 16 /\ p % 8 = 0 /\ size[p] % 8 = 0
  BY <1>3, <1>4, ChainTypes
<1> QED BY <1>3, <1>4, <1>5 DEF size

LEMMA GivesTail ==
  ASSUME NEW h, NEW C, Good(h, C), NEW p \in UsedOf(h, C), NEW nb \in Nat, nb >= 16,
         nb % 8 = 0, h.size[p] >= nb
  PROVE  \E D : Good(GiveBackTail(h, p, nb), D) /\ Keeps(h, C, GiveBackTail(h, p, nb), D, p, nb)
<1> DEFINE rest == h.size[p] - nb
           r == p + nb
           g == SetHeadSize(SetHead(h, r, rest, TRUE), p, nb)
           f == Free(g, Mem(r))
           U == UsedOf(h, C)
<1>1. GiveBackTail(h, p, nb) = IF rest < MinSize THEN h ELSE f
  BY Zenon DEF GiveBackTail
<1>2. p \in C /\ p \in Nat /\ h.size[p] \in Nat
  BY UsedTypes
<1>3. CASE rest < MinSize
  <2>1. Keeps(h, C, h, C, p, nb)
    BY DEF Keeps
  <2> QED BY <2>1, <1>1, <1>3, Zenon
<1>4. CASE ~(rest < MinSize)
  <2>1. TwoUsed(h, C, g, p, nb)
    <3>1. RestAt(h, p, nb, r, rest)
      BY DEF RestAt
    <3>2. h.size[p] - nb >= 16
      BY <1>2, <1>4 DEF MinSize
    <3> HIDE DEF r, rest
    <3> QED BY <3>1, <3>2, CutsBehind
  <2>2. r # p
    BY <1>2
  <2> HIDE DEF g
  <2>3. /\ Good(g, C \cup {r}) /\ UsedOf(g, C \cup {r}) = U \cup {r} /\ g.size[p] = nb
        /\ \A x \in U : x # p => g.size[x] = h.size[x]
        /\ r \notin C
    BY <2>1 DEF TwoUsed
  <2> DEFINE D == C \cup {r}
  <2>4. Good(g, D) /\ r \in UsedOf(g, D)
    BY <2>3
  <2> HIDE DEF D, r
  <2>5. PICK E : Good(f, E) /\ LessUse(g, D, f, E, r)
    BY <2>4, Frees
  <2> HIDE DEF f
  <2>6. \A x \in U : x \in C
    BY UsedTypes
  <2>7. Keeps(h, C, f, E, p, nb)
    <3>1. UsedOf(f, E) = U
      BY <2>3, <2>5, <2>6 DEF LessUse, D
    <3>2. \A x \in U : f.size[x] = g.size[x]
      BY <2>3, <2>5, <2>6 DEF LessUse, D
    <3> QED BY <3>1, <3>2, <2>3 DEF Keeps
  <2> QED BY <2>5, <2>7, <1>1, <1>4, Zenon
<1> QED BY <1>3, <1>4, Zenon

\* The block at brk takes the place of the one at p.
Given(h, C, g, D, p, brk, nb) ==
  /\ UsedOf(g, D) = (UsedOf(h, C) \ {p}) \cup {brk} /\ brk \notin C /\ g.size[brk] >= nb
  /\ \A x \in UsedOf(h, C) : x # p => g.size[x] = h.size[x]

LEMMA GivesLead ==
  ASSUME NEW h, NEW C, Good(h, C), NEW p \in UsedOf(h, C), NEW nb \in Nat, nb >= 16,
         nb % 8 = 0, NEW lead \in Nat, lead >= 16, lead % 8 = 0, h.size[p] - lead >= nb,
         NEW brk, brk = p + lead
  PROVE  /\ GiveBackLead(h, p, brk, nb).mem = Mem(brk)
         /\ \E D : /\ Good(GiveBackLead(h, p, brk, nb).h, D)
                   /\ Given(h, C, GiveBackLead(h, p, brk, nb).h, D, p, brk, nb)
<1> DEFINE s == h.size[p] - lead
           g == SetHeadSize(SetInuseAt(SetHead(h, brk, s, TRUE), brk, s), p, lead)
           f == Free(g, Mem(p))
           r == GiveBackTail(f, brk, nb)
           U == UsedOf(h, C)
<1>1. p \in C /\ p \in Nat /\ h.size[p] \in Nat /\ \A x \in U : x \in C
  BY UsedTypes
<1>2. brk - p = lead /\ brk # p
  BY <1>1
<1>3. GiveBackLead(h, p, brk, nb) = Got(r, brk)
  BY <1>2, Zenon DEF GiveBackLead
<1>4. TwoUsed(h, C, g, p, lead)
  <2>1. RestAt(h, p, lead, brk, s)
    BY DEF RestAt
  <2>2. h.size[p] - lead >= 16
    BY <1>1
  <2> HIDE DEF s
  <2> QED BY <2>1, <2>2, CutsBehind
<1>5. s >= nb /\ s \in Int
  BY <1>1
<1> DEFINE D == C \cup {brk}
<1> HIDE DEF g
<1>6. /\ Good(g, D) /\ UsedOf(g, D) = U \cup {brk} /\ g.size[brk] = s
      /\ \A x \in U : x # p => g.size[x] = h.size[x]
      /\ brk \notin C
  BY <1>4 DEF TwoUsed
<1>7. p \in UsedOf(g, D)
  BY <1>6
<1> HIDE DEF D
<1>8. PICK E : Good(f, E) /\ LessUse(g, D, f, E, p)
  BY <1>6, <1>7, Frees
<1> HIDE DEF f
<1>9. /\ UsedOf(f, E) = (U \ {p}) \cup {brk} /\ f.size[brk] = s
      /\ \A x \in U : x # p => f.size[x] = h.size[x]
  <2>1. UsedOf(f, E) = (U \cup {brk}) \ {p}
    BY <1>6, <1>8 DEF LessUse
  <2>2. \A x \in U \cup {brk} : x # p => f.size[x] = g.size[x]
    BY <1>6, <1>8 DEF LessUse
  <2> QED BY <2>1, <2>2, <1>2, <1>6
<1>10. brk \in UsedOf(f, E) /\ f.size[brk] >= nb
  BY <1>5, <1>9
<1>11. PICK K : Good(r, K) /\ Keeps(f, E, r, K, brk, nb)
  BY <1>8, <1>10, GivesTail
<1> HIDE DEF r
<1>12. Given(h, C, r, K, p, brk, nb)
  <2>1. UsedOf(r, K) = (U \ {p}) \cup {brk} /\ r.size[brk] >= nb
    BY <1>9, <1>11 DEF Keeps
  <2>2. \A x \in U : x # p => r.size[x] = f.size[x]
    <3>1. \A x \in U : x # brk
      BY <1>1, <1>6
    <3> QED BY <3>1, <1>9, <1>11 DEF Keeps
  <2> QED BY <2>1, <2>2, <1>6, <1>9 DEF Given
<1>13. GiveBackLead(h, p, brk, nb).mem = Mem(brk) /\ GiveBackLead(h, p, brk, nb).h = r
  BY <1>3 DEF Got
<1> QED BY <1>11, <1>12, <1>13, Zenon

\* The aligned place is far enough behind the chunk for one in front of it,
\* and not farther than the request allowed for.
LEMMA PlaceIs ==
  ASSUME NEW p \in Nat, p % 8 = 0, NEW align \in Nat, align >= 16, align % 8 = 0,
         NEW brk, brk = Place(p, Chunk(Round(Mem(p), align)), align)
  PROVE  \E lead \in Nat : /\ brk = p + lead /\ lead >= 16 /\ lead % 8 = 0
                           /\ lead <= align + 8
<1> DEFINE x == Round(Mem(p), align)
           up == Chunk(x)
<1>1. Mem(p) = p + 8 /\ p + 8 \in Nat
  BY DEF Mem
<1>2. x \in Nat /\ x % 8 = 0 /\ p + 8 <= x /\ x < p + 8 + align
  BY <1>1, RoundUp
<1> HIDE DEF x
<1>3. up = x - 8
  BY DEF Chunk
<1> HIDE DEF up
<1> DEFINE d == x - 8 - p
<1>4. d \in Nat /\ d < align /\ d % 8 = 0 /\ up = p + d /\ up - p = d
  BY <1>2, <1>3
<1> HIDE DEF d
<1>5. brk = IF d < 16 THEN up + align ELSE up
  BY <1>4 DEF Place, MinSize, up, x
<1>6. CASE d < 16
  <2>1. d <= 8
    BY <1>4, <1>6
  <2>2. (d + align) % 8 = 0 /\ d + align \in Nat /\ d + align >= 16
    BY <1>4
  <2>3. brk = p + (d + align) /\ d + align <= align + 8
    BY <2>1, <1>4, <1>5, <1>6
  <2> QED BY <2>2, <2>3
<1>7. CASE ~(d < 16)
  BY <1>4, <1>5, <1>7
<1> QED BY <1>6, <1>7

\* What is handed out is a chunk in use that was not in use before.
LEMMA HandsOut ==
  ASSUME NEW h, NEW C, NEW r, NEW n, Hands(h, C, r, n), r.mem # None
  PROVE  \E D, p : /\ Good(r.h, D) /\ r.mem = Mem(p) /\ MoreUse(h, C, r.h, D, p)
                   /\ r.h.size[p] >= n /\ p \in UsedOf(r.h, D) /\ p \in D
<1>1. PICK D : Good(r.h, D) /\ \E p \in D : /\ r.mem = Mem(p) /\ MoreUse(h, C, r.h, D, p)
                                            /\ r.h.size[p] >= n
  BY DEF Hands
<1>2. PICK p \in D : r.mem = Mem(p) /\ MoreUse(h, C, r.h, D, p) /\ r.h.size[p] >= n
  BY <1>1
<1>3. p \in UsedOf(r.h, D)
  BY <1>2 DEF MoreUse
<1> QED BY <1>1, <1>2, <1>3

\* The numbers of an aligned request: the place, the size wanted, and the one
\* asked of the heap.
Aligning(align, nb, n) ==
  /\ align \in Nat /\ align >= 16 /\ align % 8 = 0
  /\ nb \in Nat /\ nb >= 16 /\ nb % 8 = 0
  /\ n \in Nat /\ n >= nb + align + 20

LEMMA Aligns ==
  ASSUME NEW h, NEW C, NEW m, NEW align, NEW nb, NEW n, Aligning(align, nb, n),
         Hands(h, C, m, n)
  PROVE  Hands(h, C, AlignIn(m, align, nb), nb)
<1>0. /\ align \in Nat /\ align >= 16 /\ align % 8 = 0
      /\ nb \in Nat /\ nb >= 16 /\ nb % 8 = 0
      /\ n \in Nat /\ n >= nb + align + 20
  BY DEF Aligning
<1>1. CASE m.mem = None
  <2>1. AlignIn(m, align, nb) = m
    BY <1>1 DEF AlignIn
  <2>2. Hands(h, C, m, nb)
    BY <1>1 DEF Hands
  <2> QED BY <2>1, <2>2
<1>2. CASE m.mem # None
  <2>1. PICK D, p : /\ Good(m.h, D) /\ m.mem = Mem(p) /\ MoreUse(h, C, m.h, D, p)
                    /\ m.h.size[p] >= n /\ p \in UsedOf(m.h, D) /\ p \in D
    BY <1>2, HandsOut
  <2> DEFINE g == m.h
             brk == Place(p, Chunk(Round(Mem(p), align)), align)
             tail == GiveBackTail(g, p, nb)
             ahead == GiveBackLead(g, p, brk, nb)
  <2>2. Good(g, D) /\ p \in UsedOf(g, D) /\ MoreUse(h, C, g, D, p) /\ g.size[p] >= n
    BY <2>1
  <2>3. Chunk(m.mem) = p /\ p \in Nat /\ p % 8 = 0 /\ g.size[p] \in Nat
    <3>1. p \in Nat /\ p % 8 = 0 /\ g.size[p] \in Nat
      BY <2>2, UsedTypes
    <3> QED BY <3>1, <2>1 DEF Chunk, Mem
  <2>4. AlignIn(m, align, nb) = IF m.mem % align = 0 THEN Got(tail, p) ELSE ahead
    BY <1>2, <2>1, <2>3, Zenon DEF AlignIn
  <2> HIDE DEF g
  <2>5. \A x \in UsedOf(h, C) : x # p /\ g.size[x] = h.size[x] /\ x \in UsedOf(g, D)
    BY <2>2 DEF MoreUse
  <2>6. UsedOf(g, D) = UsedOf(h, C) \cup {p} /\ p \notin UsedOf(h, C)
    BY <2>2 DEF MoreUse
  <2>7. CASE m.mem % align = 0
    <3>1. g.size[p] >= nb
      BY <1>0, <2>2, <2>3
    <3>2. PICK E : Good(tail, E) /\ Keeps(g, D, tail, E, p, nb)
      BY <1>0, <2>2, <3>1, GivesTail
    <3> HIDE DEF tail
    <3>3. MoreUse(h, C, tail, E, p) /\ tail.size[p] >= nb /\ p \in UsedOf(tail, E)
      BY <2>5, <2>6, <3>2 DEF Keeps, MoreUse
    <3>4. p \in E
      BY <3>2, <3>3, UsedTypes
    <3>5. Got(tail, p).h = tail /\ Got(tail, p).mem = Mem(p) /\ Mem(p) # None
      BY <2>1, <1>2 DEF Got
    <3>6. Hands(h, C, Got(tail, p), nb)
      BY <3>2, <3>3, <3>4, <3>5 DEF Hands
    <3> QED BY <2>4, <2>7, <3>6, Zenon
  <2>8. CASE m.mem % align # 0
    <3>1. PICK lead \in Nat : brk = p + lead /\ lead >= 16 /\ lead % 8 = 0 /\ lead <= align + 8
      BY <1>0, <2>3, PlaceIs
    <3> HIDE DEF brk
    <3>2. g.size[p] - lead >= nb
      BY <1>0, <2>2, <2>3, <3>1
    <3>3. /\ ahead.mem = Mem(brk)
          /\ \E E : Good(ahead.h, E) /\ Given(g, D, ahead.h, E, p, brk, nb)
      BY <1>0, <2>2, <3>1, <3>2, GivesLead
    <3> HIDE DEF ahead
    <3>4. PICK E : Good(ahead.h, E) /\ Given(g, D, ahead.h, E, p, brk, nb)
      BY <3>3
    <3>5. /\ UsedOf(ahead.h, E) = UsedOf(h, C) \cup {brk} /\ brk \notin UsedOf(h, C)
          /\ ahead.h.size[brk] >= nb
          /\ \A x \in UsedOf(h, C) : ahead.h.size[x] = h.size[x]
      <4>1. \A x \in UsedOf(h, C) : x \in D
        BY <2>2, <2>5, UsedTypes
      <4>2. UsedOf(ahead.h, E) = (UsedOf(g, D) \ {p}) \cup {brk} /\ brk \notin D
            /\ ahead.h.size[brk] >= nb
            /\ \A x \in UsedOf(g, D) : x # p => ahead.h.size[x] = g.size[x]
        BY <3>4 DEF Given
      <4> QED BY <2>5, <2>6, <4>1, <4>2
    <3>6. MoreUse(h, C, ahead.h, E, brk)
      BY <3>5 DEF MoreUse
    <3>7. brk \in E
      BY <3>4, <3>5, UsedTypes
    <3>8. Mem(brk) # None
      BY <2>3, <3>1, Constants DEF Mem
    <3>9. Hands(h, C, ahead, nb)
      BY <3>3, <3>4, <3>5, <3>6, <3>7, <3>8 DEF Hands
    <3> QED BY <2>4, <2>8, <3>9, Zenon
  <2> QED BY <2>7, <2>8
<1> QED BY <1>1, <1>2

\* The sum of an aligned request, which is not to wrap.
Sum(align, bytes) == Request2Size(bytes) + Max({align, MinSize}) + MinSize
Alignable(align, bytes) ==
  /\ align \in Nat /\ (align <= 16 \/ align % 8 = 0) /\ Taken(bytes)
  /\ ~Refused(bytes) /\ align > 8 => Sum(align, bytes) < W32 /\ Taken(Sum(align, bytes))

LEMMA Memaligns ==
  ASSUME NEW h, NEW C, Good(h, C), NEW align, NEW bytes, Alignable(align, bytes)
  PROVE  Hands(h, C, Memalign(h, align, bytes), Request2Size(bytes))
<1> DEFINE nb == Request2Size(bytes)
           a == Max({align, MinSize})
           n == Sum(align, bytes)
<1>1. Memalign(h, align, bytes) = IF Refused(bytes) THEN Nothing(h)
                                  ELSE IF align <= 8 THEN Malloc(h, bytes)
                                  ELSE AlignedIn(h, a, nb)
  BY DEF Memalign, Refused
<1>2. align \in Nat /\ Taken(bytes)
  BY DEF Alignable
<1>3. CASE Refused(bytes)
  <2>1. SameUse(h, C, h, C)
    BY DEF SameUse
  <2>2. Hands(h, C, Nothing(h), nb)
    BY <2>1, HandsNothing
  <2> QED BY <2>2, <1>1, <1>3
<1>4. CASE ~Refused(bytes) /\ align <= 8
  <2>1. Hands(h, C, Malloc(h, bytes), nb)
    BY <1>2, Mallocs
  <2> QED BY <2>1, <1>1, <1>4
<1>5. CASE ~Refused(bytes) /\ ~(align <= 8)
  <2>1. Memalign(h, align, bytes) = AlignedIn(h, a, nb)
    BY <1>1, <1>5
  <2>2. a \in Nat /\ a >= 16 /\ a % 8 = 0
    <3>1. CASE align <= 16
      <4>1. Max({align, MinSize}) = 16
        BY <1>2, <3>1 DEF Max, MinSize
      <4> QED BY <4>1
    <3>2. CASE ~(align <= 16)
      <4>1. Max({align, MinSize}) = align
        BY <1>2, <3>2 DEF Max, MinSize
      <4> QED BY <4>1, <3>2, <1>2 DEF Alignable
    <3> QED BY <3>1, <3>2
  <2>3. nb \in Nat /\ nb >= 16 /\ nb % 8 = 0
    BY <1>2, <1>5, Padded DEF Taken
  <2>4. n < W32 /\ Taken(n)
    BY <1>2, <1>5 DEF Alignable
  <2>5. n = nb + a + 16
    BY DEF Sum, MinSize
  <2> HIDE DEF a, nb, n
  <2>6. n \in Nat /\ n % W32 = n /\ (nb + a + MinSize) % W32 = n
    <3>1. n \in Nat
      BY <2>2, <2>3, <2>5
    <3> QED BY <3>1, <2>4, <2>5, Constants DEF MinSize
  <2>7. AlignedIn(h, a, nb) = AlignIn(Malloc(h, n), a, nb)
    BY <2>6, Zenon DEF AlignedIn
  <2>8. Hands(h, C, Malloc(h, n), Request2Size(n))
    BY <2>4, Mallocs
  <2> DEFINE m == Malloc(h, n)
             k == Request2Size(n)
  <2>9. CASE Refused(n)
    <3>1. m.mem = None
      BY <2>9 DEF Malloc, Nothing, Refused
    <3> HIDE DEF m
    <3>2. AlignIn(m, a, nb) = m
      BY <3>1 DEF AlignIn
    <3>3. Hands(h, C, m, nb)
      BY <2>8, <3>1 DEF Hands, m
    <3> QED BY <2>1, <2>7, <3>2, <3>3 DEF m, nb
  <2>10. CASE ~Refused(n)
    <3>1. k \in Nat /\ k - 4 >= n
      BY <2>4, <2>10, Padded DEF Taken
    <3> HIDE DEF k, m
    <3>2. Aligning(a, nb, k)
      BY <2>2, <2>3, <2>5, <3>1 DEF Aligning
    <3>3. Hands(h, C, AlignIn(m, a, nb), nb)
      BY <2>8, <3>2, Aligns DEF m, k
    <3> QED BY <2>1, <2>7, <3>3 DEF m, nb
  <2> QED BY <2>9, <2>10
<1> QED BY <1>3, <1>4, <1>5

-----------------------------------------------------------------------------
(* The end of a call: the headers a walk meets are those of the chunks. *)

\* One more step of the walk, from the headers on marks.
Walk(K, size, first, top, on) ==
  [a \in K |-> \/ a = first
               \/ \E q \in K \ {top} : q + size[q] = a /\ q < a /\ on[q]]

Met(K, size, first, top) ==
  {a \in K : (CHOOSE on : on = Walk(K, size, first, top, on))[a]}
Ground(h) == DOMAIN h.size \cap (Start .. End)

LEMMA WalkedIs ==
  ASSUME NEW h
  PROVE  Walked(h) = Met(Ground(h), h.size, h.first, h.top)
BY DEF Walked, Walk, Met, Ground

OnGround(C, K) == C \subseteq K /\ K \subseteq Start .. End

LEMMA WalkMeets ==
  ASSUME NEW C, NEW size, NEW first, NEW top, NEW pos, Chain(C, size, first, top, pos),
         NEW K, OnGround(C, K)
  PROVE  Met(K, size, first, top) = C
<1> USE DEF OnGround
<1> DEFINE w == [a \in K |-> a \in C]
           on == CHOOSE f : f = Walk(K, size, first, top, f)
<1>1. \A a \in K : a \in Nat
  BY Constants
<1>2. /\ first \in C /\ top \in C
      /\ \A p \in C \ {top} : p + size[p] \in C
      /\ \A p \in C \ {first} : \E q \in C \ {top} : q + size[q] = p
      /\ \A p \in C : size[p] \in Nat /\ size[p] >= 16
  BY DEF Chain
<1>3. ASSUME NEW a \in K
      PROVE  a \in C <=> (a = first \/ \E q \in K \ {top} : q + size[q] = a /\ q < a /\ q \in C)
  <2>1. ASSUME a \in C, a # first
        PROVE  \E q \in K \ {top} : q + size[q] = a /\ q < a /\ q \in C
    <3>1. PICK q \in C \ {top} : q + size[q] = a
      BY <1>2, <2>1
    <3>2. q \in Nat /\ size[q] \in Nat /\ size[q] >= 16
      BY <1>1, <1>2
    <3>3. q < a
      BY <3>1, <3>2
    <3> QED BY <3>1, <3>3
  <2> QED BY <2>1, <1>2
<1>4. w = Walk(K, size, first, top, w)
  <2>1. \A q \in K : w[q] = (q \in C)
    OBVIOUS
  <2>2. w = [a \in K |-> w[a]]
    OBVIOUS
  <2> HIDE DEF w
  <2> DEFINE v == Walk(K, size, first, top, w)
  <2>3. /\ v = [a \in K |-> v[a]]
        /\ \A a \in K : v[a] = (\/ a = first
                               \/ \E q \in K \ {top} : q + size[q] = a /\ q < a /\ w[q])
    BY DEF Walk
  <2> HIDE DEF v
  <2>4. ASSUME NEW a \in K PROVE w[a] = v[a]
    <3>1. (\E q \in K \ {top} : q + size[q] = a /\ q < a /\ w[q])
            <=> \E q \in K \ {top} : q + size[q] = a /\ q < a /\ q \in C
      BY <2>1, Zenon
    <3>2. (a \in C) = (\/ a = first
                      \/ \E q \in K \ {top} : q + size[q] = a /\ q < a /\ w[q])
      BY <3>1, <1>3
    <3> QED BY <3>2, <2>1, <2>3
  <2> QED BY <2>2, <2>3, <2>4 DEF v
<1>5. on = Walk(K, size, first, top, on)
  <2> HIDE DEF w
  <2> QED BY <1>4, Zenon
<1> HIDE DEF on
<1>6. \A a \in K : on[a] = (a = first \/ \E q \in K \ {top} : q + size[q] = a /\ q < a /\ on[q])
  <2>1. \A a \in K : Walk(K, size, first, top, on)[a] =
             (a = first \/ \E q \in K \ {top} : q + size[q] = a /\ q < a /\ on[q])
    BY DEF Walk
  <2> DEFINE v == Walk(K, size, first, top, on)
  <2> HIDE DEF v
  <2>2. \A a \in K : v[a] =
             (a = first \/ \E q \in K \ {top} : q + size[q] = a /\ q < a /\ on[q])
    BY <2>1 DEF v
  <2>3. on = v
    BY <1>5 DEF v
  <2> QED BY <2>2, <2>3, Zenon
<1> DEFINE T == {a \in K : ~(on[a] <=> a \in C)}
<1>7. ASSUME T # {} PROVE FALSE
  <2>1. T \subseteq Nat
    BY <1>1
  <2> HIDE DEF T
  <2>2. PICK a \in T : \A b \in T : a <= b
    BY <1>7, <2>1, LeastNumber
  <2>3. a \in K /\ a \in Nat /\ ~(on[a] <=> a \in C)
    BY <1>1, <2>2 DEF T
  <2>4. \A q \in K : q < a => (on[q] <=> q \in C)
    <3>1. \A q \in K : q < a => q \notin T
      BY <1>1, <2>2, <2>3
    <3> QED BY <3>1 DEF T
  <2>5. (\E q \in K \ {top} : q + size[q] = a /\ q < a /\ on[q])
          <=> \E q \in K \ {top} : q + size[q] = a /\ q < a /\ q \in C
    BY <2>4, Zenon
  <2>6. on[a] <=> a \in C
    BY <1>3, <1>6, <2>3, <2>5, Zenon
  <2> QED BY <2>3, <2>6, Zenon
<1>8. \A a \in K : on[a] <=> a \in C
  BY <1>7
<1>9. {a \in K : on[a]} = C
  BY <1>8
<1> QED BY <1>9 DEF on, Met

\* Headers that are kept, and those dropped.
LEMMA ChainKept ==
  ASSUME NEW C, NEW size, NEW first, NEW top, NEW pos, Chain(C, size, first, top, pos),
         NEW size2, \A x \in C : size2[x] = size[x]
  PROVE  Chain(C, size2, first, top, pos)
BY DEF Chain

FeetKept(C, pin, foot, foot2) ==
  \A a \in C : pin[a] = FALSE => /\ a \in DOMAIN foot => a \in DOMAIN foot2
                                 /\ foot2[a] = foot[a]

LEMMA TagsKept ==
  ASSUME NEW C, NEW size, NEW first, NEW top, NEW pos, Chain(C, size, first, top, pos),
         NEW pin, NEW foot, Tags(C, size, pin, foot, first, top),
         NEW size2, \A x \in C : size2[x] = size[x], NEW pin2, SameTags(C, pin, pin2),
         NEW foot2, FeetKept(C, pin, foot, foot2)
  PROVE  /\ Tags(C, size2, pin2, foot2, first, top)
         /\ FreeIn(C, size2, pin2, top) = FreeIn(C, size, pin, top)
         /\ UsedIn(C, size2, pin2, top) = UsedIn(C, size, pin, top)
<1>1. first \in C /\ top \in C /\ \A p \in C \ {top} : p + size[p] \in C
  BY DEF Chain
<1>2. \A p \in C \ {top} : pin2[p + size2[p]] = pin[p + size[p]]
  BY <1>1 DEF SameTags
<1>3. ASSUME NEW a \in C, pin2[a] = FALSE
      PROVE  /\ pin2[a + size2[a]] = TRUE
             /\ a \in DOMAIN foot2 /\ foot2[a] \in Nat /\ a - foot2[a] \in C \ {top}
             /\ size2[a - foot2[a]] = foot2[a]
  <2>1. pin[a] = FALSE
    BY <1>3 DEF SameTags
  <2>2. /\ pin[a + size[a]] = TRUE
        /\ a \in DOMAIN foot /\ foot[a] \in Nat /\ a - foot[a] \in C \ {top}
        /\ size[a - foot[a]] = foot[a]
    BY <2>1 DEF Tags
  <2>3. a \in DOMAIN foot2 /\ foot2[a] = foot[a]
    BY <2>1, <2>2 DEF FeetKept
  <2>4. a # top
    BY <2>1 DEF Tags
  <2>5. pin2[a + size2[a]] = TRUE
    BY <1>2, <2>2, <2>4
  <2> QED BY <2>2, <2>3, <2>5
<1>4. Tags(C, size2, pin2, foot2, first, top)
  <2>1. \A p \in C : pin2[p] \in BOOLEAN
    BY DEF Tags, SameTags
  <2>2. pin2[first] = TRUE /\ pin2[top] = TRUE
    BY <1>1 DEF Tags, SameTags
  <2> QED BY <1>3, <2>1, <2>2 DEF Tags
<1> QED BY <1>2, <1>4 DEF FreeIn, UsedIn

Keeping(h, size, pin, foot) == [h EXCEPT !.size = size, !.pin = pin, !.foot = foot]

LEMMA KeepingIs ==
  ASSUME NEW h, IsHeap(h), NEW size, NEW pin, NEW foot
  PROVE  Keeping(h, size, pin, foot) =
           HeapOf(h.pos, h.base, h.top, h.first, size, pin, foot, h.bins, h.marks)
<1> DEFINE g1 == [h EXCEPT !.size = size]
           g2 == [g1 EXCEPT !.pin = pin]
<1>1. Keeping(h, size, pin, foot) = [g2 EXCEPT !.foot = foot]
  BY DEF Keeping
<1>2. g1 = HeapOf(h.pos, h.base, h.top, h.first, size, h.pin, h.foot, h.bins, h.marks)
  BY DEF IsHeap, HeapOf
<1> HIDE DEF g1
<1>3. /\ IsHeap(g1) /\ g1.pos = h.pos /\ g1.base = h.base /\ g1.top = h.top
      /\ g1.first = h.first /\ g1.size = size /\ g1.pin = h.pin /\ g1.foot = h.foot
      /\ g1.bins = h.bins /\ g1.marks = h.marks
  BY <1>2, Parts
<1>4. g2 = HeapOf(h.pos, h.base, h.top, h.first, size, pin, h.foot, h.bins, h.marks)
  BY <1>3 DEF IsHeap, HeapOf
<1> HIDE DEF g2
<1>5. /\ IsHeap(g2) /\ g2.pos = h.pos /\ g2.base = h.base /\ g2.top = h.top
      /\ g2.first = h.first /\ g2.size = size /\ g2.pin = pin /\ g2.foot = h.foot
      /\ g2.bins = h.bins /\ g2.marks = h.marks
  BY <1>4, Parts
<1>6. [g2 EXCEPT !.foot = foot] =
        HeapOf(h.pos, h.base, h.top, h.first, size, pin, foot, h.bins, h.marks)
  BY <1>5 DEF IsHeap, HeapOf
<1> QED BY <1>1, <1>6

\* Nothing but the chunks has a header when a call returns.
Clean(h, C) == Good(h, C) /\ DOMAIN h.size = C /\ DOMAIN h.pin = C

LEMMA Settles ==
  ASSUME NEW h, NEW C, Good(h, C)
  PROVE  /\ Clean(Settled(h), C)
         /\ UsedOf(Settled(h), C) = UsedOf(h, C) /\ FreeOf(Settled(h), C) = FreeOf(h, C)
         /\ \A x \in C : Settled(h).size[x] = h.size[x]
<1> DEFINE K == Ground(h)
           at == Walked(h)
           size2 == [a \in at |-> h.size[a]]
           pin2 == [a \in at |-> h.pin[a]]
           foot2 == [a \in {p \in DOMAIN h.foot : p \in at /\ ~h.pin[p]} |-> h.foot[a]]
           g == Settled(h)
<1>1. IsHeap(h) /\ Frame(h, C)
  BY DEF Good, Frame
<1>2. g = HeapOf(h.pos, h.base, h.top, h.first, size2, pin2, foot2, h.bins, h.marks)
  <2>1. g = Keeping(h, size2, pin2, foot2)
    BY DEF Settled, Keeping
  <2> HIDE DEF g, size2, pin2, foot2
  <2> QED BY <2>1, <1>1, KeepingIs
<1> HIDE DEF g
<1>3. at = C
  <2>1. at = Met(K, h.size, h.first, h.top)
    BY WalkedIs
  <2>2. CASE h.top = None
    <3>1. K = {} /\ C = {}
      BY <1>1, <2>2 DEF Frame, Ground
    <3> QED BY <2>1, <3>1 DEF Met
  <2>3. CASE h.top # None
    <3>1. /\ Chain(C, h.size, h.first, h.top, h.pos) /\ C \subseteq DOMAIN h.size
          /\ C \subseteq Start .. End
      BY <1>1, <2>3, Standing DEF Chain
    <3> DEFINE size == h.size
               first == h.first
               top == h.top
               pos == h.pos
    <3>2. Chain(C, size, first, top, pos) /\ OnGround(C, K)
      BY <3>1 DEF Ground, OnGround
    <3> HIDE DEF size, first, top, pos, K
    <3>3. Met(K, size, first, top) = C
      BY <3>2, WalkMeets
    <3> QED BY <2>1, <3>3, Zenon DEF size, first, top
  <2> QED BY <2>2, <2>3
<1> HIDE DEF at, K
<1>4. /\ DOMAIN size2 = C /\ DOMAIN pin2 = C
      /\ \A x \in C : size2[x] = h.size[x] /\ pin2[x] = h.pin[x]
      /\ \A x \in C : x \in DOMAIN h.foot /\ h.pin[x] = FALSE => x \in DOMAIN foot2 /\ foot2[x] = h.foot[x]
  BY <1>3
<1> HIDE DEF size2, pin2, foot2
<1>5. /\ IsHeap(g) /\ g.pos = h.pos /\ g.base = h.base /\ g.top = h.top /\ g.first = h.first
      /\ g.size = size2 /\ g.pin = pin2 /\ g.foot = foot2 /\ g.bins = h.bins
      /\ g.marks = h.marks
  BY <1>2, Parts
<1>6. CASE h.top = None
  <2>1. C = {} /\ h.pos \in Start .. End /\ h.pos % 4 = 0 /\ h.base \in BOOLEAN
    BY <1>1, <1>6 DEF Frame
  <2>2. Frame(g, C)
    BY <2>1, <1>4, <1>5, <1>6 DEF Frame
  <2>3. FreeOf(g, C) = {} /\ UsedOf(g, C) = {} /\ FreeOf(h, C) = {} /\ UsedOf(h, C) = {}
    BY <2>1 DEF FreeOf, UsedOf, FreeIn, UsedIn
  <2>4. Lists(h.bins, h.marks, h.size, {})
    BY <2>3 DEF Good
  <2>5. Lists(h.bins, h.marks, size2, {})
    <3>1. \A x \in {} : size2[x] = h.size[x]
      OBVIOUS
    <3> DEFINE bins == h.bins
               marks == h.marks
               size == h.size
               F == {}
    <3>2. Lists(bins, marks, size, F) /\ \A x \in F : size2[x] = size[x]
      BY <2>4, <3>1
    <3> HIDE DEF bins, marks, size, F
    <3>3. Lists(bins, marks, size2, F)
      BY <3>2, ListsAgree
    <3> QED BY <3>3 DEF bins, marks, F
  <2> QED BY <2>1, <2>2, <2>3, <2>5, <1>4, <1>5 DEF Good, Clean, g
<1>7. CASE h.top # None
  <2>1. PICK pos, base, top, first, size, pin, foot, bins, marks :
          Named(h, C, pos, base, top, first, size, pin, foot, bins, marks)
    BY <1>1, <1>7, Opened
  <2>2. h = HeapOf(pos, base, top, first, size, pin, foot, bins, marks)
    BY <2>1 DEF Named
  <2>3. /\ h.pos = pos /\ h.base = base /\ h.top = top /\ h.first = first
        /\ h.size = size /\ h.pin = pin /\ h.foot = foot /\ h.bins = bins /\ h.marks = marks
    BY <2>2, Parts
  <2>4. /\ pos \in Start .. End /\ pos % 4 = 0 /\ base \in BOOLEAN
        /\ top # None
        /\ Chain(C, size, first, top, pos)
        /\ Tags(C, size, pin, foot, first, top)
    BY <2>1 DEF Named
  <2>5. /\ \A x \in C : size2[x] = size[x]
        /\ SameTags(C, pin, pin2) /\ FeetKept(C, pin, foot, foot2)
    <3>1. \A a \in C : pin[a] = FALSE => a \in DOMAIN foot
      BY <2>4 DEF Tags
    <3> QED BY <3>1, <1>4, <2>3 DEF SameTags, FeetKept
  <2>6. Chain(C, size2, first, top, pos)
    BY <2>4, <2>5, ChainKept
  <2>7. /\ Tags(C, size2, pin2, foot2, first, top)
        /\ FreeIn(C, size2, pin2, top) = FreeIn(C, size, pin, top)
        /\ UsedIn(C, size2, pin2, top) = UsedIn(C, size, pin, top)
    BY <2>4, <2>5, TagsKept
  <2>8. Named(g, C, pos, base, top, first, size2, pin2, foot2, bins, marks)
    <3>1. g = HeapOf(pos, base, top, first, size2, pin2, foot2, bins, marks)
      BY <1>2, <2>3, Zenon
    <3> QED BY <3>1, <2>4, <2>6, <2>7, <1>4 DEF Named
  <2>9. FreeOf(h, C) = FreeIn(C, size, pin, top) /\ UsedOf(h, C) = UsedIn(C, size, pin, top)
    BY <2>1, Made
  <2>10. Lists(bins, marks, size2, FreeIn(C, size, pin, top))
    <3> DEFINE F == FreeIn(C, size, pin, top)
    <3>1. \A x \in F : x \in C
      BY DEF FreeIn
    <3>2. Lists(bins, marks, size, F)
      BY <2>3, <2>9 DEF Good
    <3> HIDE DEF F
    <3>3. Lists(bins, marks, size2, F)
      BY <3>1, <3>2, <2>5, ListsAgree
    <3> QED BY <3>3 DEF F
  <2>11. Good(g, C) /\ UsedOf(g, C) = UsedOf(h, C) /\ FreeOf(g, C) = FreeOf(h, C)
    BY <2>7, <2>8, <2>9, <2>10, Made
  <2> QED BY <2>11, <1>4, <1>5 DEF Clean, g
<1> QED BY <1>6, <1>7

-----------------------------------------------------------------------------
(* The invariant *)

\* The blocks handed out are the chunks in use, each large enough.
Held(L, U, size) ==
  /\ L \subseteq [mem : Nat, bytes : Nat]
  /\ \A b \in L : Chunk(b.mem) \in U /\ b.bytes <= size[Chunk(b.mem)] - 4
  /\ \A b, c \in L : b.mem = c.mem => b = c
  /\ \A p \in U : \E b \in L : b.mem = Mem(p)

IInv ==
  /\ Clean(heap, DOMAIN heap.size)
  /\ Held(live, UsedOf(heap, DOMAIN heap.size), heap.size)
  /\ result \in Nat \cup {None}

\* What is asked for: requests whose padded size does not wrap, or that are
\* refused, and alignments up to 16 or multiples of eight.
PaddingFits ==
  \A n \in Requests : Taken(n) /\ \A a \in Alignments : Alignable(a, n)

\* One block more, and one block less.
Block1(m, n) == [mem |-> m, bytes |-> n]

LEMMA HeldMore ==
  ASSUME NEW L, NEW U, NEW size, Held(L, U, size), NEW p \in Nat, p \notin U,
         NEW size2, SameBut(U, size, p, size2), NEW n \in Nat, n <= size2[p] - 4
  PROVE  Held(L \cup {Block1(Mem(p), n)}, U \cup {p}, size2)
<1> DEFINE b0 == Block1(Mem(p), n)
           M == L \cup {b0}
           V == U \cup {p}
<1>1. b0 \in [mem : Nat, bytes : Nat] /\ b0.mem = Mem(p) /\ b0.bytes = n
  BY DEF Block1, Mem
<1>2. Mem(p) \in Nat /\ Chunk(Mem(p)) = p
  BY DEF Mem, Chunk
<1> HIDE DEF b0
<1>3. \A b \in L : Chunk(b.mem) \in U /\ b.bytes <= size[Chunk(b.mem)] - 4 /\ b.mem # Mem(p)
  BY <1>2 DEF Held
<1>4. M \subseteq [mem : Nat, bytes : Nat]
  BY <1>1 DEF Held
<1>5. \A b \in M : Chunk(b.mem) \in V /\ b.bytes <= size2[Chunk(b.mem)] - 4
  <2>1. ASSUME NEW b \in L PROVE Chunk(b.mem) \in V /\ b.bytes <= size2[Chunk(b.mem)] - 4
    <3> DEFINE c == Chunk(b.mem)
    <3>1. c \in U /\ b.bytes <= size[c] - 4
      BY <1>3
    <3> HIDE DEF c
    <3>2. size2[c] = size[c]
      BY <3>1 DEF SameBut
    <3> QED BY <3>1, <3>2 DEF c
  <2>2. Chunk(b0.mem) = p
    BY <1>1, <1>2
  <2> QED BY <2>1, <2>2, <1>1
<1>6. \A b, c \in M : b.mem = c.mem => b = c
  BY <1>1, <1>3 DEF Held
<1>7. \A x \in V : \E b \in M : b.mem = Mem(x)
  BY <1>1 DEF Held
<1> QED BY <1>4, <1>5, <1>6, <1>7 DEF Held, b0

LEMMA HeldLess ==
  ASSUME NEW L, NEW U, NEW size, Held(L, U, size), NEW b0 \in L, U \subseteq Nat,
         NEW size2, SameBut(U, size, Chunk(b0.mem), size2)
  PROVE  Held(L \ {b0}, U \ {Chunk(b0.mem)}, size2)
<1> DEFINE p == Chunk(b0.mem)
           M == L \ {b0}
           V == U \ {p}
<1>1. \A b \in L : b.mem \in Nat /\ Chunk(b.mem) = b.mem - 8 /\ Mem(Chunk(b.mem)) = b.mem
  BY DEF Held, Chunk, Mem
<1>2. \A b \in M : Chunk(b.mem) # p
  <2>1. ASSUME NEW b \in M, Chunk(b.mem) = p PROVE FALSE
    <3>1. b.mem = b0.mem /\ b \in L /\ b # b0
      BY <2>1, <1>1
    <3> QED BY <3>1 DEF Held
  <2> QED BY <2>1
<1>3. ASSUME NEW b \in M PROVE Chunk(b.mem) \in V /\ b.bytes <= size2[Chunk(b.mem)] - 4
  <2> DEFINE c == Chunk(b.mem)
  <2>1. c \in U /\ b.bytes <= size[c] - 4 /\ c # p
    BY <1>2 DEF Held
  <2> HIDE DEF c
  <2>2. size2[c] = size[c]
    BY <2>1 DEF SameBut
  <2> QED BY <2>1, <2>2 DEF c
<1>4. \A x \in V : \E b \in M : b.mem = Mem(x)
  <2>1. ASSUME NEW x \in V PROVE \E b \in M : b.mem = Mem(x)
    <3>1. PICK b \in L : b.mem = Mem(x)
      BY DEF Held
    <3>2. Chunk(Mem(x)) = x
      BY DEF Chunk, Mem
    <3>3. b # b0
      BY <3>1, <3>2
    <3> QED BY <3>1, <3>3
  <2> QED BY <2>1
<1>5. M \subseteq [mem : Nat, bytes : Nat] /\ \A b, c \in M : b.mem = c.mem => b = c
  BY DEF Held
<1> QED BY <1>3, <1>4, <1>5 DEF Held

\* What a call leaves: the heap h2, the blocks L2 and the answer m.
State(h, L, m) ==
  /\ Clean(h, DOMAIN h.size) /\ Held(L, UsedOf(h, DOMAIN h.size), h.size)
  /\ m \in Nat \cup {None}

LEMMA Holds ==
  ASSUME NEW h, NEW C, Good(h, C), NEW L, Held(L, UsedOf(h, C), h.size), NEW m \in Nat \cup {None}
  PROVE  State(Settled(h), L, m)
<1> DEFINE g == Settled(h)
           U == UsedOf(h, C)
<1>1. Clean(g, C) /\ UsedOf(g, C) = U /\ \A x \in C : g.size[x] = h.size[x]
  BY Settles
<1> HIDE DEF g
<1>2. DOMAIN g.size = C
  BY <1>1 DEF Clean
<1>3. \A x \in U : g.size[x] = h.size[x]
  BY <1>1, UsedTypes
<1> HIDE DEF U
<1>4. Held(L, U, g.size)
  <2> DEFINE s == h.size
             t == g.size
  <2>1. Held(L, U, s) /\ \A x \in U : t[x] = s[x]
    BY <1>3 DEF U
  <2> HIDE DEF s, t
  <2>2. \A b \in L : Chunk(b.mem) \in U /\ b.bytes <= t[Chunk(b.mem)] - 4
    BY <2>1 DEF Held
  <2> QED BY <2>1, <2>2 DEF Held, t
<1> QED BY <1>1, <1>2, <1>4 DEF State, g

LEMMA Returns ==
  ASSUME NEW h, NEW C, Good(h, C), NEW L, Held(L, UsedOf(h, C), h.size), NEW r, NEW bytes \in Nat,
         NEW nb, Hands(h, C, r, nb), r.mem # None => nb \in Nat /\ bytes <= nb - 4
  PROVE  State(Settled(r.h), IF r.mem = None THEN L ELSE L \cup {Block1(r.mem, bytes)}, r.mem)
<1> DEFINE U == UsedOf(h, C)
           size == h.size
<1>1. CASE r.mem = None
  <2>1. PICK D : Good(r.h, D) /\ SameUse(h, C, r.h, D)
    BY <1>1 DEF Hands
  <2> DEFINE g == r.h
             t == g.size
  <2>2. UsedOf(g, D) = U /\ \A x \in U : t[x] = size[x]
    BY <2>1 DEF SameUse
  <2>3. Held(L, U, size)
    OBVIOUS
  <2>4. Good(g, D)
    BY <2>1
  <2> HIDE DEF g, t, U, size
  <2>5. \A b \in L : Chunk(b.mem) \in U /\ b.bytes <= t[Chunk(b.mem)] - 4
    BY <2>2, <2>3 DEF Held
  <2>6. Held(L, UsedOf(g, D), g.size)
    BY <2>2, <2>3, <2>5 DEF Held, t
  <2>7. State(Settled(g), L, None)
    BY <2>4, <2>6, Holds
  <2> QED BY <2>7, <1>1 DEF g
<1>2. CASE r.mem # None
  <2>1. PICK D, p : /\ Good(r.h, D) /\ r.mem = Mem(p) /\ MoreUse(h, C, r.h, D, p)
                    /\ r.h.size[p] >= nb /\ p \in UsedOf(r.h, D) /\ p \in D
    BY <1>2, HandsOut
  <2> DEFINE g == r.h
             t == g.size
             M == L \cup {Block1(Mem(p), bytes)}
  <2>2. /\ UsedOf(g, D) = U \cup {p} /\ p \notin U /\ SameBut(U, size, p, t)
        /\ Good(g, D) /\ p \in UsedOf(g, D) /\ t[p] >= nb
    BY <2>1 DEF MoreUse, SameBut
  <2>3. p \in Nat /\ t[p] \in Nat
    BY <2>2, UsedTypes
  <2>4. Held(L, U, size) /\ bytes <= t[p] - 4
    BY <1>2, <2>2, <2>3
  <2> HIDE DEF g, t, U, size
  <2>5. Held(M, U \cup {p}, t)
    BY <2>2, <2>3, <2>4, HeldMore
  <2> HIDE DEF M
  <2>6. Held(M, UsedOf(g, D), g.size)
    BY <2>2, <2>5 DEF t
  <2>7. Mem(p) \in Nat \cup {None}
    BY <2>3 DEF Mem
  <2>8. State(Settled(g), M, Mem(p))
    BY <2>2, <2>6, <2>7, Holds
  <2> QED BY <2>8, <2>1, <1>2, Zenon DEF g, M
<1> QED BY <1>1, <1>2

LEMMA Releases ==
  ASSUME NEW h, NEW C, Good(h, C), NEW L, Held(L, UsedOf(h, C), h.size), NEW b0 \in L
  PROVE  State(Settled(Free(h, b0.mem)), L \ {b0}, None)
<1> DEFINE p == Chunk(b0.mem)
           g == Free(h, Mem(p))
           U == UsedOf(h, C)
           size == h.size
<1>1. p \in U /\ Mem(p) = b0.mem
  BY DEF Held, Chunk, Mem
<1>2. U \subseteq Nat
  BY UsedTypes
<1>3. PICK D : Good(g, D) /\ LessUse(h, C, g, D, p)
  BY <1>1, Frees
<1> DEFINE t == g.size
<1> HIDE DEF g
<1>4. UsedOf(g, D) = U \ {p} /\ SameBut(U, size, p, t)
  BY <1>3 DEF LessUse, SameBut
<1>5. Held(L, U, size)
  OBVIOUS
<1> HIDE DEF U, size, t
<1>6. Held(L \ {b0}, U \ {p}, t)
  BY <1>2, <1>4, <1>5, HeldLess
<1>7. Held(L \ {b0}, UsedOf(g, D), g.size)
  BY <1>4, <1>6 DEF t
<1>8. State(Settled(g), L \ {b0}, None)
  BY <1>3, <1>7, Holds
<1> QED BY <1>1, <1>8 DEF g

\* A call that hands something out was not refused: the padded size is larger
\* than the request by the word in front of it.
LEMMA MallocStep ==
  ASSUME PaddingFits, IInv, NEW n \in Requests, CallMalloc(n)
  PROVE  State(heap', live', result')
<1> DEFINE C == DOMAIN heap.size
           r == Malloc(heap, n)
           nb == Request2Size(n)
<1>1. /\ Good(heap, C) /\ Held(live, UsedOf(heap, C), heap.size)
  BY DEF IInv, Clean
<1>2. Taken(n) /\ n \in Nat
  BY Constants DEF PaddingFits
<1>3. Hands(heap, C, r, nb)
  BY <1>1, <1>2, Mallocs
<1>4. r.mem # None => nb \in Nat /\ n <= nb - 4
  <2>1. Refused(n) => r.mem = None
    BY DEF Refused, Malloc, Nothing
  <2>2. ~Refused(n) => nb \in Nat /\ nb - 4 >= n
    BY <1>2, Padded DEF Taken
  <2> HIDE DEF r, nb
  <2> QED BY <2>1, <2>2, <1>2
<1>5. /\ heap' = Settled(r.h) /\ result' = r.mem
      /\ live' = IF r.mem = None THEN live ELSE live \cup {Block1(r.mem, n)}
  BY DEF CallMalloc, Return, Block1
<1> HIDE DEF r, nb, C
<1>6. State(Settled(r.h), IF r.mem = None THEN live ELSE live \cup {Block1(r.mem, n)}, r.mem)
  BY <1>1, <1>2, <1>3, <1>4, Returns
<1> QED BY <1>5, <1>6

LEMMA MemalignStep ==
  ASSUME PaddingFits, IInv, NEW a \in Alignments, NEW n \in Requests, CallMemalign(a, n)
  PROVE  State(heap', live', result')
<1> DEFINE C == DOMAIN heap.size
           r == Memalign(heap, a, n)
           nb == Request2Size(n)
<1>1. /\ Good(heap, C) /\ Held(live, UsedOf(heap, C), heap.size)
  BY DEF IInv, Clean
<1>2. Alignable(a, n) /\ Taken(n) /\ n \in Nat
  BY Constants DEF PaddingFits
<1>3. Hands(heap, C, r, nb)
  BY <1>1, <1>2, Memaligns
<1>4. r.mem # None => nb \in Nat /\ n <= nb - 4
  <2>1. Refused(n) => r.mem = None
    BY DEF Refused, Memalign, Nothing
  <2>2. ~Refused(n) => nb \in Nat /\ nb - 4 >= n
    BY <1>2, Padded DEF Taken
  <2> HIDE DEF r, nb
  <2> QED BY <2>1, <2>2, <1>2
<1>5. /\ heap' = Settled(r.h) /\ result' = r.mem
      /\ live' = IF r.mem = None THEN live ELSE live \cup {Block1(r.mem, n)}
  BY DEF CallMemalign, Return, Block1
<1> HIDE DEF r, nb, C
<1>6. State(Settled(r.h), IF r.mem = None THEN live ELSE live \cup {Block1(r.mem, n)}, r.mem)
  BY <1>1, <1>2, <1>3, <1>4, Returns
<1> QED BY <1>5, <1>6

LEMMA FreeStep ==
  ASSUME IInv, NEW b \in live, CallFree(b)
  PROVE  State(heap', live', result')
<1> DEFINE C == DOMAIN heap.size
<1>1. /\ Good(heap, C) /\ Held(live, UsedOf(heap, C), heap.size)
  BY DEF IInv, Clean
<1>2. heap' = Settled(Free(heap, b.mem)) /\ result' = None /\ live' = live \ {b}
  BY DEF CallFree
<1> HIDE DEF C
<1>3. State(Settled(Free(heap, b.mem)), live \ {b}, None)
  BY <1>1, Releases
<1> QED BY <1>2, <1>3

LEMMA IInvInit == Init => IInv
<1> SUFFICES ASSUME Init PROVE IInv
  OBVIOUS
<1> DEFINE none == <<>>
           bins == [i \in Bins |-> <<>>]
           base == FALSE
           marks == {}
<1>1. heap = HeapOf(Start, base, None, None, none, none, none, bins, marks)
  BY DEF Init, HeapOf
<1>2. DOMAIN none = {} /\ base \in BOOLEAN
  OBVIOUS
<1> HIDE DEF none, bins, base, marks
<1>3. /\ IsHeap(heap) /\ heap.pos = Start /\ heap.base = base /\ heap.top = None
      /\ heap.size = none /\ heap.pin = none /\ heap.bins = bins /\ heap.marks = marks
  BY <1>1, Parts
<1>4. Frame(heap, {})
  <2>1. Start \in Start .. End /\ Start % 4 = 0
    BY Constants
  <2> QED BY <2>1, <1>2, <1>3 DEF Frame
<1>5. FreeOf(heap, {}) = {} /\ UsedOf(heap, {}) = {}
  BY DEF FreeOf, UsedOf, FreeIn, UsedIn
<1>6. Good(heap, {})
  <2>1. Lists(bins, {}, none, {})
    BY ListsEmpty DEF bins
  <2> QED BY <2>1, <1>3, <1>4, <1>5 DEF Good, marks
<1>7. Clean(heap, {}) /\ DOMAIN heap.size = {}
  BY <1>2, <1>3, <1>6 DEF Clean
<1>8. Held(live, {}, heap.size) /\ result \in Nat \cup {None}
  BY DEF Init, Held
<1> QED BY <1>5, <1>7, <1>8 DEF IInv

LEMMA IInvNext ==
  ASSUME PaddingFits, IInv, [Next]_vars
  PROVE  IInv'
<1>1. CASE Next
  <2>1. State(heap', live', result')
    BY <1>1, MallocStep, MemalignStep, FreeStep DEF Next
  <2> QED BY <2>1 DEF State, IInv
<1>2. CASE UNCHANGED vars
  BY <1>2 DEF vars, IInv
<1> QED BY <1>1, <1>2

\* The invariant holds of every heap the calls can make, whatever the arena,
\* the sizes and the order of the calls.
THEOREM HeapInvariant ==
  ASSUME PaddingFits
  PROVE  Spec => []IInv
<1>1. Init => IInv
  BY IInvInit
<1>2. IInv /\ [Next]_vars => IInv'
  BY IInvNext
<1> QED BY <1>1, <1>2, PTL DEF Spec

\* As many blocks as chunks in use.
LEMMA SameNumber ==
  ASSUME NEW L, NEW U, NEW size, Held(L, U, size), IsFiniteSet(U), U \subseteq Nat
  PROVE  {Chunk(b.mem) : b \in L} = U /\ Cardinality(L) = Cardinality(U)
<1> DEFINE f == [b \in L |-> Chunk(b.mem)]
<1>1. \A b \in L : b.mem \in Nat /\ Chunk(b.mem) = b.mem - 8 /\ Chunk(b.mem) \in U
  BY DEF Held, Chunk
<1>2. \A b, c \in L : Chunk(b.mem) = Chunk(c.mem) => b = c
  <2>1. \A b, c \in L : Chunk(b.mem) = Chunk(c.mem) => b.mem = c.mem
    BY <1>1
  <2> QED BY <2>1 DEF Held
<1>3. \A p \in U : \E b \in L : Chunk(b.mem) = p
  <2>1. \A p \in U : Chunk(Mem(p)) = p
    BY DEF Chunk, Mem
  <2> QED BY <2>1 DEF Held
<1>4. f \in [L -> U] /\ \A b \in L : f[b] = Chunk(b.mem)
  BY <1>1
<1> HIDE DEF f
<1>5. f \in Injection(L, U)
  BY <1>2, <1>4 DEF Injection, IsInjective
<1>6. f \in Surjection(L, U)
  BY <1>3, <1>4 DEF Surjection
<1>7. Cardinality(L) = Cardinality(U)
  BY <1>5, <1>6, FS_Injection
<1>8. {Chunk(b.mem) : b \in L} = U
  BY <1>1, <1>3
<1> QED BY <1>7, <1>8

\* A list is no longer than there are chunks to list.
LEMMA ListsFit ==
  ASSUME NEW F, IsFiniteSet(F), NEW s \in Seq(F), Distinct(s)
  PROVE  Len(s) \in Nat /\ Cardinality(F) \in Nat /\ Len(s) <= Cardinality(F)
<1> DEFINE S == 1 .. Len(s)
<1>1. Len(s) \in Nat /\ s \in [S -> F]
  BY LenProperties
<1>2. s \in Injection(S, F)
  BY <1>1 DEF Injection, IsInjective, Distinct
<1>3. Cardinality(S) <= Cardinality(F)
  <2> HIDE DEF S
  <2> QED BY <1>2, FS_Injection
<1>4. Cardinality(S) = Len(s)
  <2>1. Cardinality(1 .. Len(s)) = IF 1 > Len(s) THEN 0 ELSE Len(s) - 1 + 1
    BY <1>1, FS_Interval, SMTT(30)
  <2> QED BY <2>1, <1>1
<1>5. Cardinality(F) \in Nat
  BY FS_CardinalityType
<1> QED BY <1>1, <1>3, <1>4, <1>5

PlacesIn(bins, n, p) ==
  {u \in Bins \X (1 .. n) : u[2] <= Len(bins[u[1]]) /\ bins[u[1]][u[2]] = p}

LEMMA PlacedOnce ==
  ASSUME NEW bins, NEW marks, NEW size, NEW F, Lists(bins, marks, size, F), IsFiniteSet(F),
         NEW p \in F
  PROVE  Cardinality(PlacesIn(bins, Cardinality(F), p)) = 1
<1> DEFINE n == Cardinality(F)
<1>1. PICK i \in Bins : \E k \in 1 .. Len(bins[i]) : bins[i][k] = p
  BY DEF Lists, HasPlace
<1>2. PICK k \in 1 .. Len(bins[i]) : bins[i][k] = p
  BY <1>1
<1>3. Len(bins[i]) \in Nat /\ n \in Nat /\ Len(bins[i]) <= n
  BY ListTypes, ListsFit
<1> HIDE DEF n
<1> DEFINE u == <<i, k>>
<1>4. k \in 1 .. n /\ k <= Len(bins[i])
  BY <1>3
<1>5. u \in PlacesIn(bins, n, p)
  BY <1>2, <1>4 DEF PlacesIn
<1>6. ASSUME NEW v \in PlacesIn(bins, n, p) PROVE v = u
  <2>1. PICK j \in Bins, l \in 1 .. n : v = <<j, l>>
    BY DEF PlacesIn
  <2>2. l <= Len(bins[j]) /\ bins[j][l] = p
    BY <2>1, <1>6 DEF PlacesIn
  <2>3. l \in 1 .. Len(bins[j])
    <3>1. Len(bins[j]) \in Nat
      BY ListTypes
    <3> QED BY <3>1, <2>2, <1>3
  <2>4. i = j /\ k = l
    BY <1>2, <2>2, <2>3 DEF Lists, OnePlace
  <2> QED BY <2>1, <2>4
<1> HIDE DEF u
<1>7. PlacesIn(bins, n, p) = {u}
  BY <1>5, <1>6
<1> QED BY <1>7, FS_Singleton DEF n

\* The chunks of the properties are those of the invariant.
LEMMA ChunksAre ==
  ASSUME IInv
  PROVE  InUse = UsedOf(heap, DOMAIN heap.size) /\ FreeChunks = FreeOf(heap, DOMAIN heap.size)
<1> DEFINE C == DOMAIN heap.size
<1>1. Good(heap, C) /\ Frame(heap, C)
  BY DEF IInv, Clean, Good
<1>2. CASE C = {}
  BY <1>2 DEF InUse, FreeChunks, Chunks, UsedOf, FreeOf, UsedIn, FreeIn
<1>3. CASE C # {}
  <2>1. /\ Chain(C, heap.size, heap.first, heap.top, heap.pos)
        /\ Tags(C, heap.size, heap.pin, heap.foot, heap.first, heap.top)
    BY <1>1, <1>3, Standing
  <2>2. \A p \in C \ {heap.top} : p + heap.size[p] \in C
    BY <2>1 DEF Chain
  <2>3. \A p \in C \ {heap.top} : heap.pin[p + heap.size[p]] \in BOOLEAN
    BY <2>1, <2>2 DEF Tags
  <2> HIDE DEF C
  <2> DEFINE tag(p) == heap.pin[p + heap.size[p]]
  <2>4. \A p \in C \ {heap.top} : tag(p) = TRUE \/ tag(p) = FALSE
    BY <2>3, Zenon
  <2>5. \A p \in C \ {heap.top} : tag(p) <=> tag(p) = TRUE
    BY <2>4, Zenon
  <2>6. \A p \in C \ {heap.top} : ~tag(p) <=> tag(p) = FALSE
    BY <2>4, Zenon
  <2> QED BY <2>5, <2>6 DEF InUse, FreeChunks, Chunks, UsedOf, FreeOf, UsedIn, FreeIn, C
<1> QED BY <1>2, <1>3

LEMMA FewChunks ==
  ASSUME NEW h, NEW C, Good(h, C)
  PROVE  /\ IsFiniteSet(UsedOf(h, C)) /\ UsedOf(h, C) \subseteq Nat
         /\ IsFiniteSet(FreeOf(h, C))
<1>1. C \subseteq Start .. End
  <2>1. CASE h.top = None
    BY <2>1 DEF Good, Frame
  <2>2. CASE h.top # None
    BY <2>2, Standing DEF Good, Chain
  <2> QED BY <2>1, <2>2
<1> DEFINE arena == Start .. End
           U == UsedOf(h, C)
           F == FreeOf(h, C)
<1>2. IsFiniteSet(arena) /\ arena \subseteq Nat
  BY Constants, FS_Interval
<1>3. U \subseteq arena /\ F \subseteq arena
  BY <1>1 DEF UsedOf, FreeOf, UsedIn, FreeIn
<1> HIDE DEF arena, U, F
<1>4. IsFiniteSet(U) /\ IsFiniteSet(F)
  BY <1>2, <1>3, FS_Subset
<1> QED BY <1>2, <1>3, <1>4 DEF U, F

LEMMA Types ==
  ASSUME IInv
  PROVE  TypeOK
<1> DEFINE C == DOMAIN heap.size
<1>1. Good(heap, C) /\ Frame(heap, C) /\ DOMAIN heap.pin = DOMAIN heap.size
      /\ result \in Nat \cup {None}
  BY DEF IInv, Clean, Good
<1>2. heap.pos \in Start .. End /\ heap.base \in BOOLEAN
  BY <1>1 DEF Frame
<1>3. heap.marks \subseteq {Block(i) : i \in Bins}
  BY <1>1 DEF Good, Lists, Covered
<1>4. ASSUME heap.top # None
      PROVE  /\ heap.first % 8 = 0 /\ heap.top \in DOMAIN heap.size
             /\ heap.top + TopSize(heap) = heap.pos
             /\ \A p \in DOMAIN heap.size : heap.size[p] % 8 = 0 /\ heap.size[p] >= MinSize
  <2>1. Chain(C, heap.size, heap.first, heap.top, heap.pos)
    BY <1>1, <1>4, Standing
  <2> QED BY <2>1, <1>4 DEF Chain, TopSize, MinSize
<1> QED BY <1>1, <1>2, <1>3, <1>4 DEF TypeOK

LEMMA BlocksMatch ==
  ASSUME IInv
  PROVE  BlocksAreChunks
<1> DEFINE U == UsedOf(heap, DOMAIN heap.size)
           size == heap.size
<1>1. Held(live, U, size) /\ IsFiniteSet(U) /\ U \subseteq Nat
  BY FewChunks DEF IInv, Clean
<1>2. InUse = U
  BY ChunksAre
<1> HIDE DEF U, size
<1>3. {Chunk(b.mem) : b \in live} = U /\ Cardinality(live) = Cardinality(U)
  BY <1>1, SameNumber
<1>4. \A b \in live : b.bytes <= size[Chunk(b.mem)] - 4
  BY <1>1 DEF Held
<1> QED BY <1>2, <1>3, <1>4 DEF BlocksAreChunks, UsableSize, size

\* What the tags say of one free chunk.
LEMMA FreeAlone ==
  ASSUME NEW C, NEW size, NEW first, NEW top, NEW pos, Chain(C, size, first, top, pos),
         NEW pin, NEW foot, Tags(C, size, pin, foot, first, top),
         NEW p \in FreeIn(C, size, pin, top)
  PROVE  /\ p + size[p] \in DOMAIN foot /\ foot[p + size[p]] = size[p]
         /\ p + size[p] \notin FreeIn(C, size, pin, top) \cup {top}
<1> DEFINE a == p + size[p]
           y == a - foot[a]
<1>1. p \in C /\ p # top /\ pin[a] = FALSE /\ a \in C
  BY DEF FreeIn, Chain
<1>2. /\ pin[a + size[a]] = TRUE /\ a \in DOMAIN foot /\ foot[a] \in Nat
      /\ y \in C \ {top} /\ size[y] = foot[a] /\ pin[top] = TRUE
  BY <1>1 DEF Tags
<1>3. p \in Nat /\ size[p] \in Nat /\ a \in Nat
  BY <1>1, ChainTypes
<1>4. y + size[y] = a
  BY <1>2, <1>3
<1>5. a \notin FreeIn(C, size, pin, top) \cup {top}
  BY <1>1, <1>2 DEF FreeIn
<1>6. y = p
  <2>1. y \in Nat /\ size[y] \in Nat /\ size[y] >= 16 /\ size[p] >= 16
        /\ \A u, v \in C : u < v => u + size[u] <= v
    BY <1>1, <1>2, ChainTypes
  <2>2. y < p => y + size[y] <= p
    BY <1>1, <1>2, <2>1
  <2>3. p < y => p + size[p] <= y
    BY <1>1, <1>2, <2>1
  <2>4. p < a /\ y < a
    <3> HIDE DEF y
    <3> QED BY <1>3, <1>4, <2>1
  <2> HIDE DEF y, a
  <2> QED BY <1>3, <1>4, <2>1, <2>2, <2>3, <2>4 DEF a
<1> QED BY <1>2, <1>5, <1>6

LEMMA ListsMatch ==
  ASSUME IInv
  PROVE  FreeListsExact /\ MarksCover
<1> DEFINE C == DOMAIN heap.size
           F == FreeOf(heap, C)
           bins == heap.bins
           marks == heap.marks
           size == heap.size
<1>1. Good(heap, C)
  BY DEF IInv, Clean
<1>2. Lists(bins, marks, size, F) /\ IsFiniteSet(F) /\ FreeChunks = F
  BY <1>1, FewChunks, ChunksAre DEF Good
<1>3. \A p \in F : /\ p + size[p] \in DOMAIN heap.foot /\ heap.foot[p + size[p]] = size[p]
                   /\ p + size[p] \notin F \cup {heap.top}
  <2>1. CASE C = {}
    BY <2>1 DEF FreeOf, FreeIn
  <2>2. CASE C # {}
    <3> DEFINE pin == heap.pin
               foot == heap.foot
               top == heap.top
               first == heap.first
               pos == heap.pos
    <3>1. /\ Chain(C, size, first, top, pos) /\ Tags(C, size, pin, foot, first, top)
          /\ F = FreeIn(C, size, pin, top)
      BY <1>1, <2>2, Standing DEF Good, FreeOf
    <3> HIDE DEF C, F, size, pin, foot, top, first, pos
    <3>2. ASSUME NEW p \in F
          PROVE  /\ p + size[p] \in DOMAIN foot /\ foot[p + size[p]] = size[p]
                 /\ p + size[p] \notin F \cup {top}
      BY <3>1, FreeAlone
    <3> QED BY <3>2 DEF foot, top
  <2> QED BY <2>1, <2>2
<1> HIDE DEF C, F
<1> HIDE DEF bins, marks, size
<1>4. \A p \in F : Cardinality(PlacesIn(bins, Cardinality(F), p)) = 1
  BY <1>2, PlacedOnce
<1>5. ASSUME NEW p \in F
      PROVE  bins[Lr] = <<p>> \/ \E j \in DOMAIN bins[BinIndex(size[p])] :
                                    bins[BinIndex(size[p])][j] = p
  <2> DEFINE i == BinIndex(size[p])
  <2>1. ASSUME bins[Lr] # <<p>> PROVE \E j \in DOMAIN bins[i] : bins[i][j] = p
    <3>1. \E k \in 1 .. Len(bins[i]) : bins[i][k] = p
      BY <1>2, <2>1, ListOfSize
    <3>2. i \in Bins
      <4>1. SizesFit(size, F)
        BY <1>1, FreeTypes DEF F, size
      <4> QED BY <4>1, BinsIs DEF SizesFit
    <3> HIDE DEF i
    <3>3. DOMAIN bins[i] = 1 .. Len(bins[i])
      BY <1>2, <3>2, ListTypes
    <3> QED BY <3>1, <3>3
  <2> QED BY <2>1
<1>6. \A i \in Bins : /\ \A j \in DOMAIN bins[i] : bins[i][j] \in F
                      /\ DOMAIN bins[i] = 1 .. Len(bins[i]) /\ Len(bins[i]) \in Nat
  BY <1>2, ListTypes
<1>7. ASSUME NEW i \in Bins, i >= MaxSmall \div 8, NEW j \in 1 .. Len(bins[i]) - 1
      PROVE  size[bins[i][j]] >= size[bins[i][j + 1]]
  <2>1. i # Lr
    <3> DEFINE m == MaxSmall \div 8
    <3>1. m \in Nat /\ m >= 2 /\ i >= m
      BY <1>7, Constants
    <3>2. i \in Int
      BY DEF Bins
    <3> HIDE DEF m
    <3> QED BY <3>1, <3>2 DEF Lr
  <2>2. j \in 1 .. Len(bins[i]) /\ j + 1 \in 1 .. Len(bins[i]) /\ j < j + 1
    BY <1>6
  <2>3. size[bins[i][j + 1]] <= size[bins[i][j]]
    BY <1>2, <1>7, <2>1, <2>2 DEF Lists, SmallestLast
  <2>4. bins[i][j] \in F /\ bins[i][j + 1] \in F
    BY <1>6, <2>2
  <2>5. \A p \in F : size[p] \in Nat
    BY <1>1, FreeTypes DEF F, size
  <2> QED BY <2>3, <2>4, <2>5
<1>8. MarksCover
  BY <1>2 DEF MarksCover, Lists, Covered, bins, marks
<1>9. \A p \in F : Places(p) = PlacesIn(bins, Cardinality(F), p)
  BY <1>2 DEF Places, PlacesIn, bins
<1>10. FreeListsExact
  <2>1. \A p \in FreeChunks :
           /\ Cardinality(Places(p)) = 1
           /\ heap.bins[Lr] = <<p>> \/ \E j \in DOMAIN heap.bins[BinIndex(heap.size[p])] :
                                          heap.bins[BinIndex(heap.size[p])][j] = p
           /\ p + heap.size[p] \in DOMAIN heap.foot
           /\ heap.foot[p + heap.size[p]] = heap.size[p]
           /\ p + heap.size[p] \notin FreeChunks \cup {heap.top}
    BY <1>2, <1>3, <1>4, <1>5, <1>9 DEF bins, size
  <2>2. \A i \in Bins : \A j \in DOMAIN heap.bins[i] : heap.bins[i][j] \in FreeChunks
    BY <1>2, <1>6 DEF bins
  <2>3. \A i \in Bins : i >= MaxSmall \div 8 =>
           \A j \in 1 .. Len(heap.bins[i]) - 1 :
              heap.size[heap.bins[i][j]] >= heap.size[heap.bins[i][j + 1]]
    BY <1>7 DEF bins, size
  <2> QED BY <2>1, <2>2, <2>3 DEF FreeListsExact
<1> QED BY <1>8, <1>10

\* TypeOK holds in every state: the chunks stay multiples of eight bytes that
\* end at the break, and the marks are those of blocks there are.
THEOREM HeapTypes ==
  ASSUME PaddingFits
  PROVE  Spec => []TypeOK
<1>1. Spec => []IInv
  BY HeapInvariant
<1>2. IInv => TypeOK
  BY Types
<1> QED BY <1>1, <1>2, PTL

\* Whatever is allocated and released in whatever order, chunks, lists and
\* marks fit together: memory in use is nobody else's and of a usable size, each
\* free chunk is in one place of the right list and merged with its neighbours,
\* and no list the search skips has a chunk.
THEOREM HeapStaysInShape ==
  ASSUME PaddingFits
  PROVE  Spec => []HeapInShape
<1>1. Spec => []IInv
  BY HeapInvariant
<1>2. IInv => HeapInShape
  BY BlocksMatch, ListsMatch DEF HeapInShape
<1> QED BY <1>1, <1>2, PTL

\* No call that is not refused fails while a free chunk is large enough or the
\* break can be moved far enough.
THEOREM HeapFailsOnlyWhenFull ==
  ASSUME PaddingFits
  PROVE  Spec => FailsOnlyWhenFull
<1> DEFINE Fair == \A n \in Requests : Signed(n) >= 0 /\ CallMalloc(n) /\ result' = None =>
                     LET nb == Request2Size(n) IN
                     /\ \A p \in FreeChunks : heap.size[p] < nb
                     /\ heap.pos + Round(nb + MinSize, PageSize) + PageSize > End
<1>1. Spec => []IInv
  BY HeapInvariant
<1>2. IInv /\ [Next]_vars => [Fair]_vars
  <2> SUFFICES ASSUME IInv, [Next]_vars,
                      NEW n \in Requests, Signed(n) >= 0, CallMalloc(n), result' = None
               PROVE  /\ \A p \in FreeChunks : heap.size[p] < Request2Size(n)
                      /\ heap.pos + Round(Request2Size(n) + MinSize, PageSize) + PageSize > End
    OBVIOUS
  <2> DEFINE C == DOMAIN heap.size
             r == Malloc(heap, n)
             nb == Request2Size(n)
  <2>1. Good(heap, C)
    BY DEF IInv, Clean
  <2>2. Taken(n) /\ ~Refused(n)
    <3>1. n \in Int /\ W32 \in Nat
      BY Constants
    <3>2. Signed(n) \in Int
      BY <3>1, Constants DEF Signed
    <3> QED BY <3>2 DEF PaddingFits, Refused
  <2>3. Serves(heap, C, r, nb)
    BY <2>1, <2>2, Mallocs
  <2>4. r.mem = None
    BY DEF CallMalloc, Return
  <2> HIDE DEF r, nb, C
  <2>5. NoRoom(heap, nb) /\ Full(heap.size, FreeOf(heap, C), nb)
    BY <2>3, <2>4 DEF Serves, Answers
  <2>6. FreeChunks = FreeOf(heap, C)
    BY ChunksAre DEF C
  <2> QED BY <2>5, <2>6 DEF NoRoom, Full, nb
<1> HIDE DEF Fair
<1>3. Spec => [][Fair]_vars
  BY <1>1, <1>2, PTL DEF Spec
<1> QED BY <1>3 DEF FailsOnlyWhenFull, Fair
=============================================================================
