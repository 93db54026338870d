--------------------------- MODULE EnvStoreProofs ---------------------------
(***************************************************************************)
(* Proofs about the environment: the buffer stays in shape, and the buffer *)
(* with its save in the flash implements EnvPromise, for every size of the *)
(* buffer, length of the items and number of flash blocks.                 *)
(***************************************************************************)
EXTENDS EnvStore, FiniteSets, FiniteSetTheorems, SequenceTheorems,
        WellFoundedInduction, TLAPS

-----------------------------------------------------------------------------
(* The natural numbers are well ordered *)

\* A set of natural numbers has a smallest.
LEMMA Smallest ==
  ASSUME NEW T, T \subseteq Nat, T # {}
  PROVE  \E x \in T : \A y \in T : x <= y
<1> DEFINE R == StrictSubsetOrdering(Nat)
           F == FiniteSubsetsOf(Nat)
           I == {0 .. x : x \in T}
<1>1. IsWellFoundedOn(R, F)  BY FS_StrictSubsetOrderingWellFounded
<1>2. I \subseteq F
  <2>1. \A x \in T : IsFiniteSet(0 .. x)  BY FS_Interval
  <2> QED  BY <2>1 DEF FiniteSubsetsOf
<1>3. \E a \in I : \A b \in I : ~(<<b, a>> \in R)
  <2>1. I # {}  OBVIOUS
  <2> HIDE DEF R, F, I
  <2> QED  BY <1>1, <1>2, <2>1, WFMin
<1>4. PICK x \in T : \A b \in I : ~(<<b, 0 .. x>> \in R)  BY <1>3
<1>5. ASSUME NEW y \in T, y < x PROVE FALSE
  <2>1. 0 .. y \in SUBSET Nat /\ 0 .. x \in SUBSET Nat /\ 0 .. y \subseteq 0 .. x
    BY <1>5
  <2>2. x \in 0 .. x /\ x \notin 0 .. y  BY <1>5
  <2>3. <<0 .. y, 0 .. x>> \in R  BY <2>1, <2>2 DEF StrictSubsetOrdering
  <2> QED  BY <1>4, <2>3
<1>6. \A y \in T : x <= y  BY <1>5
<1> QED  BY <1>6

\* Least is the smallest of a set of numbers that has one.
LEMMA LeastIs ==
  ASSUME NEW S, S \subseteq Nat, NEW x \in S, \A y \in S : x <= y
  PROVE  Least(S) = x
<1>1. Least(S) \in S /\ \A y \in S : Least(S) <= y  BY DEF Least
<1>2. Least(S) <= x /\ x <= Least(S) /\ x \in Nat /\ Least(S) \in Nat  BY <1>1
<1> QED  BY <1>2

LEMMA LeastOf ==
  ASSUME NEW S, S \subseteq Nat, S # {}
  PROVE  Least(S) \in S /\ \A y \in S : Least(S) <= y
BY Smallest DEF Least

-----------------------------------------------------------------------------
(* Writing into the buffer *)

LEMMA LeastRoom == ASSUME NEW at \in Nat
  PROVE  /\ at <= Size => Least({at, Size}) = at
         /\ at > Size => Least({at, Size}) = Size
<1>1. Size \in Nat  BY EnvAssumption
<1>2. CASE at <= Size
  <2>1. Least({at, Size}) = at  BY <1>1, <1>2, LeastIs
  <2> QED  BY <2>1, <1>2, <1>1
<1>3. CASE at > Size
  <2>1. Least({at, Size}) = Size  BY <1>1, <1>3, LeastIs
  <2> QED  BY <2>1, <1>3, <1>1
<1> QED  BY <1>1, <1>2, <1>3

\* What a copy writes and what it leaves.
LEMMA StoreIs ==
  ASSUME NEW d \in Buffer, NEW at \in Nat, NEW s \in Seq(Byte)
  PROVE  /\ Store(d, at, s) \in Buffer
         /\ at <= Size => \A i \in 1 .. Size :
              Store(d, at, s)[i] = IF i <= at THEN d[i]
                                   ELSE IF i <= at + Len(s) THEN s[i - at] ELSE d[i]
<1>1. Size \in Nat \ {0} /\ Len(s) \in Nat  BY EnvAssumption
<1> DEFINE m == Least({at, Size})
           a == SubSeq(d, 1, m)
           c == SubSeq(d, at + Len(s) + 1, Size)
           b == a \o s
           w == b \o c
<1>2. m \in 0 .. Size /\ (at <= Size => m = at) /\ (at > Size => m = Size)
  BY <1>1, LeastRoom
<1> HIDE DEF m
<1>3. \A i \in 1 .. Size : d[i] \in Byte  BY DEF Buffer
<1>4. /\ a \in Seq(Byte) /\ Len(a) = m
      /\ \A i \in 1 .. m : a[i] = d[i]
  <2>1. \A i \in 1 .. m : d[i] \in Byte  BY <1>1, <1>2, <1>3
  <2>2. /\ a \in Seq(Byte) /\ Len(a) = IF 1 <= m THEN m - 1 + 1 ELSE 0
        /\ \A i \in 1 .. m - 1 + 1 : a[i] = d[1 + i - 1]
    <3>1. 1 \in Int /\ m \in Int  BY <1>2
    <3> QED  BY <2>1, <3>1, SubSeqProperties
  <2> HIDE DEF a
  <2> QED  BY <2>2, <1>2, <1>1
<1> DEFINE f == at + Len(s) + 1
<1>5. /\ c \in Seq(Byte)
      /\ Len(c) = IF f <= Size THEN Size - f + 1 ELSE 0
      /\ \A i \in 1 .. Size - f + 1 : c[i] = d[f + i - 1]
  <2>1. f \in Int /\ f >= 1 /\ Size \in Int  BY <1>1
  <2>2. \A i \in f .. Size : d[i] \in Byte  BY <2>1, <1>1, <1>3
  <2> HIDE DEF f
  <2>3. /\ SubSeq(d, f, Size) \in Seq(Byte)
        /\ Len(SubSeq(d, f, Size)) = IF f <= Size THEN Size - f + 1 ELSE 0
        /\ \A i \in 1 .. Size - f + 1 : SubSeq(d, f, Size)[i] = d[f + i - 1]
    BY <2>1, <2>2, SubSeqProperties
  <2> QED  BY <2>3 DEF f
<1> HIDE DEF a, c
<1>6. /\ b \in Seq(Byte) /\ Len(b) = m + Len(s)
      /\ \A i \in 1 .. m + Len(s) : b[i] = IF i <= m THEN a[i] ELSE s[i - m]
  <2>1. /\ b \in Seq(Byte) /\ Len(b) = Len(a) + Len(s)
        /\ \A i \in 1 .. Len(a) + Len(s) : b[i] = IF i <= Len(a) THEN a[i] ELSE s[i - Len(a)]
    BY <1>4, ConcatProperties
  <2> QED  BY <2>1, <1>4
<1> HIDE DEF b
<1>7. /\ w \in Seq(Byte) /\ Len(w) = m + Len(s) + Len(c)
      /\ \A i \in 1 .. m + Len(s) + Len(c) :
           w[i] = IF i <= m + Len(s) THEN b[i] ELSE c[i - (m + Len(s))]
  <2>1. /\ w \in Seq(Byte) /\ Len(w) = Len(b) + Len(c)
        /\ \A i \in 1 .. Len(b) + Len(c) : w[i] = IF i <= Len(b) THEN b[i] ELSE c[i - Len(b)]
    BY <1>5, <1>6, ConcatProperties
  <2> QED  BY <2>1, <1>6
<1> HIDE DEF w
<1>8. Len(w) >= Size /\ Len(c) \in Nat
  <2>1. Len(c) \in Nat  BY <1>1, <1>5
  <2>2. Len(w) = m + Len(s) + Len(c)  BY <1>7
  <2>3. CASE f <= Size  BY <2>1, <2>2, <2>3, <1>1, <1>2, <1>5
  <2>4. CASE f > Size /\ at <= Size  BY <2>1, <2>2, <2>4, <1>1, <1>2
  <2>5. CASE at > Size  BY <2>1, <2>2, <2>5, <1>1, <1>2
  <2> QED  BY <2>3, <2>4, <2>5, <1>1
<1>9. \A i \in 1 .. Size : w[i] \in Byte
  <2>1. \A i \in 1 .. Len(w) : w[i] \in Byte  BY <1>7
  <2> QED  BY <2>1, <1>8, <1>1, <1>7, <1>2
<1> DEFINE x == SubSeq(w, 1, Size)
<1>10. /\ x \in Seq(Byte) /\ Len(x) = Size
       /\ \A i \in 1 .. Size : x[i] = w[i]
  <2>1. /\ x \in Seq(Byte) /\ Len(x) = IF 1 <= Size THEN Size - 1 + 1 ELSE 0
        /\ \A i \in 1 .. Size - 1 + 1 : x[i] = w[1 + i - 1]
    <3>1. 1 \in Int /\ Size \in Int  BY <1>1
    <3> QED  BY <1>9, <3>1, SubSeqProperties
  <2> HIDE DEF x
  <2> QED  BY <2>1, <1>1
<1>11. x = Store(d, at, s)  BY DEF Store, x, w, b, a, c, m
<1> HIDE DEF x
<1>12. x \in Buffer  BY <1>1, <1>10 DEF Buffer
<1>13. ASSUME at <= Size, NEW i \in 1 .. Size
       PROVE  x[i] = IF i <= at THEN d[i]
                     ELSE IF i <= at + Len(s) THEN s[i - at] ELSE d[i]
  <2>1. m = at /\ x[i] = w[i]  BY <1>2, <1>13, <1>10
  <2>2. i <= m + Len(s) + Len(c)  BY <1>1, <1>13, <1>7, <1>8, <1>2
  <2>3. w[i] = IF i <= m + Len(s) THEN b[i] ELSE c[i - (m + Len(s))]
    BY <2>2, <1>7, <1>1, <1>2, <1>8
  <2>4. CASE i <= at  BY <2>1, <2>3, <2>4, <1>6, <1>4, <1>1, <1>2
  <2>5. CASE i > at /\ i <= at + Len(s)  BY <2>1, <2>3, <2>5, <1>6, <1>1, <1>2
  <2>6. CASE i > at + Len(s)
    <3>1. i - (m + Len(s)) \in 1 .. Size - f + 1  BY <2>6, <2>1, <1>1, <1>2
    <3>2. c[i - (m + Len(s))] = d[f + (i - (m + Len(s))) - 1]  BY <3>1, <1>5
    <3>3. f + (i - (m + Len(s))) - 1 = i  BY <2>1, <1>1
    <3> QED  BY <3>2, <3>3, <2>1, <2>3, <2>6, <1>1
  <2> QED  BY <2>4, <2>5, <2>6, <1>1
<1> QED  BY <1>11, <1>12, <1>13
-----------------------------------------------------------------------------
(* Items without a gap *)

KeyAt(d, i) == d[i][1]
ValueAt(d, i) == d[i][2]
NthAt(d, i) == d[i][3]

\* A whole item lies behind offset p and ends before t.
WholeAt(d, t, p, k, v) ==
  LET n == TextLen(k, v) IN
  /\ p \in 0 .. t /\ p + n + 1 <= t
  /\ p # 0 => d[p] = NUL
  /\ \A m \in 1 .. n : d[p + m] = <<k, v, m>>
  /\ d[p + n + 1] = NUL

\* The first t bytes are whole items with nothing between them, one for a key.
Woven(d, t) ==
  /\ t \in 0 .. Size - 1
  /\ \A i \in 1 .. t : d[i] # NUL =>
       /\ NthAt(d, i) \in 1 .. TextLen(KeyAt(d, i), ValueAt(d, i))
       /\ WholeAt(d, t, i - NthAt(d, i), KeyAt(d, i), ValueAt(d, i))
  /\ \A i \in 1 .. t - 1 : d[i] = NUL => d[i + 1] # NUL
  /\ t > 0 => d[1] # NUL /\ d[t] = NUL
  /\ \A i, j \in 1 .. t :
       d[i] # NUL /\ d[j] # NUL /\ NthAt(d, i) = 1 /\ NthAt(d, j) = 1
         /\ KeyAt(d, i) = KeyAt(d, j) => i = j

ZeroFrom(d, t) == \A i \in 1 .. Size : i > t => d[i] = NUL

\* A buffer as the code leaves it, when everything has fitted.
Good(e) == /\ e \in [data : Buffer, tail : Nat]
           /\ Woven(e.data, e.tail) /\ ZeroFrom(e.data, e.tail)

\* A byte that is not zero is a byte of the text of an item.
LEMMA ByteIs ==
  ASSUME NEW d \in Buffer, NEW i \in 1 .. Size, d[i] # NUL
  PROVE  /\ KeyAt(d, i) \in Keys /\ ValueAt(d, i) \in Values /\ NthAt(d, i) \in Nat
         /\ d[i] = <<KeyAt(d, i), ValueAt(d, i), NthAt(d, i)>>
<1>1. d[i] \in Keys \X Values \X Nat  BY DEF Buffer, Byte
<1> QED  BY <1>1 DEF KeyAt, ValueAt, NthAt

LEMMA NotNul == \A k, v, j : <<k, v, j>> # NUL
BY DEF NUL

LEMMA TextLenType == \A k : \A v \in Values : TextLen(k, v) \in Nat /\ TextLen(k, v) >= 3
BY EnvAssumption DEF TextLen

\* The items start where a first byte is.
LEMMA StartsAre ==
  ASSUME NEW e, Good(e)
  PROVE  ItemStarts(e) = {p \in 0 .. e.tail - 1 : e.data[p + 1] # NUL /\ NthAt(e.data, p + 1) = 1}
<1> DEFINE d == e.data
           t == e.tail
<1>1. Size \in Nat /\ d \in Buffer /\ t \in 0 .. Size - 1 /\ Woven(d, t)
  BY EnvAssumption DEF Good, Woven
<1> HIDE DEF d, t
<1>2. ASSUME NEW p \in 0 .. t - 1, d[p + 1] # NUL, p > 0 => d[p] = NUL
      PROVE  NthAt(d, p + 1) = 1
  <2> DEFINE n == NthAt(d, p + 1)
  <2>1. p + 1 \in 1 .. t /\ p + 1 \in 1 .. Size  BY <1>1
  <2>2. /\ n \in 1 .. TextLen(KeyAt(d, p + 1), ValueAt(d, p + 1))
        /\ WholeAt(d, t, p + 1 - n, KeyAt(d, p + 1), ValueAt(d, p + 1))
    BY <2>1, <1>1, <1>2 DEF Woven
  <2>3. TextLen(KeyAt(d, p + 1), ValueAt(d, p + 1)) \in Nat
    BY <2>1, <1>1, <1>2, ByteIs, TextLenType
  <2> HIDE DEF n
  <2>4. ASSUME n # 1 PROVE FALSE
    <3>1. n - 1 \in 1 .. TextLen(KeyAt(d, p + 1), ValueAt(d, p + 1))  BY <2>2, <2>3, <2>4
    <3>2. d[p + 1 - n + (n - 1)] = <<KeyAt(d, p + 1), ValueAt(d, p + 1), n - 1>>
      BY <3>1, <2>2 DEF WholeAt
    <3>3. p + 1 - n + (n - 1) = p  BY <2>2, <2>3
    <3>4. p > 0  BY <2>2, <2>3, <2>4 DEF WholeAt
    <3> QED  BY <3>2, <3>3, <3>4, <1>2, NotNul
  <2> QED  BY <2>4 DEF n
<1>3. ASSUME NEW p \in 0 .. t - 1, d[p + 1] # NUL, NthAt(d, p + 1) = 1
      PROVE  p > 0 => d[p] = NUL
  <2>1. p + 1 \in 1 .. t  BY <1>1
  <2>2. WholeAt(d, t, p + 1 - 1, KeyAt(d, p + 1), ValueAt(d, p + 1))
    BY <2>1, <1>1, <1>3 DEF Woven
  <2>3. p + 1 - 1 = p  OBVIOUS
  <2> QED  BY <2>2, <2>3 DEF WholeAt
<1>4. \A p \in 0 .. t - 1 : \A q \in 1 .. p - 1 : d[q] # NUL \/ d[q + 1] # NUL
  BY <1>1 DEF Woven
<1>5. ItemStarts(e) = {p \in 0 .. Size - 1 :
         /\ d[p + 1] # NUL /\ p < t /\ (p > 0 => d[p] = NUL)
         /\ \A q \in 1 .. p - 1 : d[q] # NUL \/ d[q + 1] # NUL}
  BY DEF ItemStarts, d, t
<1>6. ItemStarts(e) = {p \in 0 .. t - 1 : d[p + 1] # NUL /\ NthAt(d, p + 1) = 1}
  <2>1. ASSUME NEW p \in ItemStarts(e)
        PROVE  p \in 0 .. t - 1 /\ d[p + 1] # NUL /\ NthAt(d, p + 1) = 1
    <3>1. p \in 0 .. t - 1 /\ d[p + 1] # NUL /\ (p > 0 => d[p] = NUL)  BY <1>5, <1>1
    <3> QED  BY <3>1, <1>2
  <2>2. ASSUME NEW p \in 0 .. t - 1, d[p + 1] # NUL, NthAt(d, p + 1) = 1
        PROVE  p \in ItemStarts(e)
    <3>1. p > 0 => d[p] = NUL  BY <2>2, <1>3
    <3>2. p \in 0 .. Size - 1 /\ p < t  BY <1>1
    <3> QED  BY <3>1, <3>2, <2>2, <1>4, <1>5
  <2> QED  BY <2>1, <2>2
<1> QED  BY <1>6 DEF d, t

\* An item is as long as its text and the terminator.
LEMMA LengthIs ==
  ASSUME NEW e, Good(e), NEW p \in ItemStarts(e)
  PROVE  LET k == KeyAt(e.data, p + 1)
             v == ValueAt(e.data, p + 1)
         IN /\ k \in Keys /\ v \in Values
            /\ e.data[p + 1] = <<k, v, 1>>
            /\ ItemLen(e, p) = TextLen(k, v) + 1
            /\ WholeAt(e.data, e.tail, p, k, v)
<1> DEFINE d == e.data
           t == e.tail
           k == KeyAt(d, p + 1)
           v == ValueAt(d, p + 1)
           n == TextLen(k, v)
<1>1. Size \in Nat /\ d \in Buffer /\ t \in 0 .. Size - 1 /\ Woven(d, t)
  BY EnvAssumption DEF Good, Woven
<1>2. p \in 0 .. t - 1 /\ d[p + 1] # NUL /\ NthAt(d, p + 1) = 1  BY StartsAre
<1> HIDE DEF d, t
<1>3. p + 1 \in 1 .. t /\ p + 1 \in 1 .. Size /\ p + 1 - 1 = p  BY <1>1, <1>2
<1>4. k \in Keys /\ v \in Values /\ d[p + 1] = <<k, v, 1>>  BY <1>1, <1>2, <1>3, ByteIs
<1>5. WholeAt(d, t, p, k, v)  BY <1>1, <1>2, <1>3 DEF Woven
<1>6. n \in Nat /\ n >= 3  BY <1>4, TextLenType
<1> HIDE DEF n
<1>7. ItemLen(e, p) = n + 1
  <2> DEFINE S == {i \in p .. Size : i = Size \/ d[i + 1] = NUL}
  <2>1. S \subseteq Nat  BY <1>1, <1>2
  <2>2. p + n \in S  BY <1>1, <1>2, <1>5, <1>6 DEF WholeAt, n
  <2>3. \A i \in S : p + n <= i
    <3> SUFFICES ASSUME NEW i \in S, i < p + n PROVE FALSE
      BY <1>1, <1>2, <1>6
    <3>1. i \in p .. p + n - 1  BY <1>1, <1>2, <1>6
    <3>2. i # Size  BY <3>1, <1>1, <1>2, <1>5, <1>6 DEF WholeAt, n
    <3>3. i + 1 - p \in 1 .. n /\ p + (i + 1 - p) = i + 1  BY <3>1, <1>2, <1>6
    <3>4. d[p + (i + 1 - p)] = <<k, v, i + 1 - p>>  BY <3>3, <1>5 DEF WholeAt, n
    <3> QED  BY <3>2, <3>3, <3>4, NotNul
  <2>4. Least(S) = p + n
    <3> HIDE DEF S
    <3> QED  BY <2>1, <2>2, <2>3, LeastIs
  <2>5. ItemLen(e, p) = Least(S) + 1 - p  BY DEF ItemLen, d
  <2> QED  BY <2>4, <2>5, <1>2, <1>6
<1> QED  BY <1>4, <1>5, <1>7 DEF d, t, n

\* The tail found by searching is the one the writer had.
LEMMA TailIs ==
  ASSUME NEW e, Good(e)
  PROVE  TailOf(e.data) = e.tail
<1> DEFINE d == e.data
           t == e.tail
           text == {i \in 1 .. Size : d[i] # NUL}
<1>1. Size \in Nat /\ d \in Buffer /\ t \in 0 .. Size - 1 /\ Woven(d, t) /\ ZeroFrom(d, t)
  BY EnvAssumption DEF Good, Woven
<1> HIDE DEF d, t
<1>2. TailOf(d) = IF text = {} THEN 0
                  ELSE Least({Size, (CHOOSE i \in text : \A j \in text : j <= i) + 1})
  BY DEF TailOf
<1>3. CASE t = 0
  <2>1. text = {}  BY <1>1, <1>3 DEF ZeroFrom
  <2> QED  BY <2>1, <1>2, <1>3 DEF d, t
<1>4. CASE t > 0
  <2>1. d[1] # NUL /\ d[t] = NUL  BY <1>1, <1>4 DEF Woven
  <2>2. t - 1 \in 1 .. t - 1  BY <2>1, <1>1, <1>4
  <2>3. d[t - 1] # NUL
    <3>1. d[t - 1] = NUL => d[t - 1 + 1] # NUL  BY <2>2, <1>1 DEF Woven
    <3>2. t - 1 + 1 = t  BY <1>1
    <3> QED  BY <3>1, <3>2, <2>1
  <2>4. t - 1 \in text  BY <2>2, <2>3, <1>1
  <2>5. \A j \in text : j <= t - 1
    <3> SUFFICES ASSUME NEW j \in text, j >= t PROVE FALSE
      BY <1>1
    <3>1. CASE j = t  BY <3>1, <2>1
    <3>2. CASE j > t  BY <3>2, <1>1 DEF ZeroFrom
    <3> QED  BY <3>1, <3>2, <1>1
  <2> DEFINE c == CHOOSE i \in text : \A j \in text : j <= i
  <2>6. c \in text /\ \A j \in text : j <= c  BY <2>4, <2>5
  <2>7. c = t - 1
    <3>1. c <= t - 1 /\ t - 1 <= c /\ c \in Nat  BY <2>4, <2>5, <2>6
    <3> HIDE DEF c
    <3> QED  BY <3>1, <1>1
  <2>8. TailOf(d) = Least({Size, c + 1})  BY <2>4, <1>2
  <2> HIDE DEF c
  <2>9. {Size, c + 1} = {t, Size}  BY <2>7, <1>1
  <2>10. TailOf(d) = t  BY <2>8, <2>9, <1>1, LeastRoom
  <2> QED  BY <2>10 DEF d, t
<1> QED  BY <1>1, <1>3, <1>4
-----------------------------------------------------------------------------
(* Taking an item out *)

\* d1 is d without its item of L bytes behind offset p, up to the new tail.
Closed(d, t, p, L, d1) ==
  /\ d1 \in Buffer
  /\ \A i \in 1 .. Size : d1[i] = IF i > p /\ i <= t - L THEN d[i + L] ELSE d[i]

LEMMA GapCloses ==
  ASSUME NEW e, Good(e), NEW p \in ItemStarts(e)
  PROVE  Closed(e.data, e.tail, p, ItemLen(e, p), CloseGap(e, p))
<1> DEFINE d == e.data
           t == e.tail
           L == ItemLen(e, p)
           after == p + L
           s == SubSeq(d, after + 1, t)
<1>1. Size \in Nat /\ d \in Buffer /\ t \in 0 .. Size - 1 /\ Woven(d, t)
  BY EnvAssumption DEF Good, Woven
<1>2. p \in 0 .. t - 1  BY StartsAre
<1>3. PICK k \in Keys, v \in Values : L = TextLen(k, v) + 1 /\ WholeAt(d, t, p, k, v)
  BY LengthIs
<1>4. L \in Nat /\ L >= 4 /\ after <= t /\ d[after] = NUL
  <2>1. TextLen(k, v) \in Nat /\ TextLen(k, v) >= 3  BY TextLenType
  <2> HIDE DEF d, t
  <2>2. p + TextLen(k, v) + 1 <= t /\ d[p + TextLen(k, v) + 1] = NUL
    BY <1>3 DEF WholeAt
  <2>3. L = TextLen(k, v) + 1  BY <1>3
  <2> HIDE DEF L
  <2>4. p + TextLen(k, v) + 1 = after  BY <2>1, <2>3, <1>2
  <2> QED  BY <2>1, <2>2, <2>3, <2>4
<1>5. CloseGap(e, p) = IF after \in ItemStarts(e) THEN Store(d, p, s) ELSE d
  BY DEF CloseGap
<1>6. after \in ItemStarts(e) <=> after < t
  <2>1. ItemStarts(e) = {q \in 0 .. t - 1 : d[q + 1] # NUL /\ NthAt(d, q + 1) = 1}
    BY StartsAre
  <2> HIDE DEF d, t, L
  <2>2. ASSUME after < t PROVE d[after + 1] # NUL /\ NthAt(d, after + 1) = 1
    <3>1. after \in 1 .. t - 1 /\ after + 1 \in 1 .. t /\ after + 1 \in 1 .. Size
      BY <2>2, <1>1, <1>2, <1>4
    <3>2. d[after + 1] # NUL  BY <3>1, <1>1, <1>4 DEF Woven
    <3> DEFINE n == NthAt(d, after + 1)
               w == TextLen(KeyAt(d, after + 1), ValueAt(d, after + 1))
    <3>3. n \in 1 .. w /\ WholeAt(d, t, after + 1 - n, KeyAt(d, after + 1), ValueAt(d, after + 1))
      BY <3>1, <3>2, <1>1 DEF Woven
    <3>4. w \in Nat  BY <3>1, <3>2, <1>1, ByteIs, TextLenType
    <3>5. ASSUME n # 1 PROVE FALSE
      <4>1. \A m \in 1 .. w : d[after + 1 - n + m] = <<KeyAt(d, after + 1), ValueAt(d, after + 1), m>>
        BY <3>3 DEF WholeAt
      <4> HIDE DEF n, w
      <4>2. n - 1 \in 1 .. w  BY <3>3, <3>4, <3>5
      <4>3. after + 1 - n + (n - 1) = after  BY <3>1, <4>2, <3>3, <3>4
      <4> QED  BY <4>1, <4>2, <4>3, <1>4, NotNul
    <3> QED  BY <3>2, <3>5
  <2> QED  BY <2>1, <2>2, <1>1, <1>2, <1>4
<1> HIDE DEF d, t, L
<1>7. CASE after < t
  <2>1. \A i \in after + 1 .. t : d[i] \in Byte  BY <1>1, <1>2, <1>4 DEF Buffer
  <2>2. /\ s \in Seq(Byte) /\ Len(s) = t - after
        /\ \A i \in 1 .. t - after : s[i] = d[after + i]
    <3>1. after + 1 \in Int /\ t \in Int  BY <1>1, <1>2, <1>4
    <3> DEFINE f == after + 1
    <3> HIDE DEF f
    <3>2. /\ SubSeq(d, f, t) \in Seq(Byte)
          /\ Len(SubSeq(d, f, t)) = IF f <= t THEN t - f + 1 ELSE 0
          /\ \A i \in 1 .. t - f + 1 : SubSeq(d, f, t)[i] = d[f + i - 1]
      BY <2>1, <3>1, SubSeqProperties DEF f
    <3>3. s = SubSeq(d, f, t)  BY DEF f
    <3> HIDE DEF s
    <3> QED  BY <3>2, <3>3, <1>7, <1>1, <1>2, <1>4 DEF f
  <2> HIDE DEF s
  <2>3. p \in Nat /\ p <= Size  BY <1>1, <1>2
  <2>4. /\ Store(d, p, s) \in Buffer
        /\ \A i \in 1 .. Size :
             Store(d, p, s)[i] = IF i <= p THEN d[i]
                                 ELSE IF i <= p + Len(s) THEN s[i - p] ELSE d[i]
    BY <2>2, <2>3, <1>1, StoreIs
  <2> DEFINE d1 == Store(d, p, s)
  <2> HIDE DEF d1
  <2>5. ASSUME NEW i \in 1 .. Size
        PROVE  d1[i] = IF i > p /\ i <= t - L THEN d[i + L] ELSE d[i]
    <3>1. d1[i] = IF i <= p THEN d[i] ELSE IF i <= p + Len(s) THEN s[i - p] ELSE d[i]
      BY <2>4 DEF d1
    <3>2. p + Len(s) = t - L  BY <2>2, <1>1, <1>2, <1>4
    <3>3. CASE i > p /\ i <= t - L
      <4>1. i - p \in 1 .. t - after /\ after + (i - p) = i + L  BY <3>3, <1>1, <1>2, <1>4
      <4> QED  BY <3>1, <3>2, <3>3, <4>1, <2>2, <1>2
    <3> QED  BY <3>1, <3>2, <3>3, <1>1, <1>2
  <2>6. CloseGap(e, p) = d1  BY <1>5, <1>6, <1>7 DEF d1
  <2>7. d1 \in Buffer  BY <2>4 DEF d1
  <2>8. Closed(d, t, p, L, d1)  BY <2>5, <2>7 DEF Closed
  <2> QED  BY <2>6, <2>8 DEF d, t, L
<1>8. CASE after = t
  <2>1. CloseGap(e, p) = d  BY <1>5, <1>6, <1>8, <1>1
  <2>2. t - L = p  BY <1>8, <1>1, <1>2, <1>4
  <2>3. Closed(d, t, p, L, d)  BY <2>2, <1>1, <1>2 DEF Closed
  <2> QED  BY <2>1, <2>3 DEF d, t, L
<1> QED  BY <1>1, <1>2, <1>4, <1>7, <1>8

\* What is left are the items of the other keys, still without a gap.
LEMMA StillWoven ==
  ASSUME NEW d \in Buffer, NEW t, Woven(d, t), NEW p \in 0 .. t - 1,
         NEW k \in Keys, NEW v \in Values, WholeAt(d, t, p, k, v), NEW d1,
         Closed(d, t, p, TextLen(k, v) + 1, d1)
  PROVE  LET t1 == t - (TextLen(k, v) + 1) IN
         /\ Woven(d1, t1)
         /\ \A i \in 1 .. t1 : d1[i] # NUL => KeyAt(d1, i) # k
         /\ \A i \in 1 .. t1 : d1[i] # NUL => \E j \in 1 .. t : d[j] = d1[i]
         /\ \A j \in 1 .. t : d[j] # NUL /\ KeyAt(d, j) # k => \E i \in 1 .. t1 : d1[i] = d[j]
<1> DEFINE n == TextLen(k, v)
           L == n + 1
           t1 == t - L
<1>1. Size \in Nat /\ t \in 0 .. Size - 1 /\ n \in Nat /\ n >= 3
  BY EnvAssumption, TextLenType DEF Woven
<1>2. /\ p + L <= t /\ (p # 0 => d[p] = NUL) /\ d[p + L] = NUL
      /\ \A m \in 1 .. n : d[p + m] = <<k, v, m>>
  <2>1. p + n + 1 <= t /\ d[p + n + 1] = NUL /\ (p # 0 => d[p] = NUL)
        /\ \A m \in 1 .. n : d[p + m] = <<k, v, m>>
    BY DEF WholeAt
  <2> HIDE DEF n
  <2>2. p + n + 1 = p + L  BY <1>1
  <2> QED  BY <2>1, <2>2
<1>3. /\ d1 \in Buffer
      /\ \A i \in 1 .. Size : d1[i] = IF i > p /\ i <= t1 THEN d[i + L] ELSE d[i]
  BY DEF Closed
<1> HIDE DEF n
<1>4. t1 \in 0 .. Size - 1 /\ p <= t1  BY <1>1, <1>2
\* Where the byte i of the new buffer was, and where a byte has gone.
<1> DEFINE Was(i) == IF i > p THEN i + L ELSE i
<1>5. ASSUME NEW i \in 1 .. t1
      PROVE  d1[i] = d[Was(i)] /\ Was(i) \in 1 .. t /\ Was(i) \notin p + 1 .. p + L
  BY <1>1, <1>3, <1>4
\* A byte in front of the item belongs to an item in front of it.
<1>6. ASSUME NEW i \in 1 .. t, d[i] # NUL, i \notin p + 1 .. p + L
      PROVE  LET q == i - NthAt(d, i)
                 w == TextLen(KeyAt(d, i), ValueAt(d, i))
             IN /\ NthAt(d, i) \in 1 .. w /\ w \in Nat
                /\ WholeAt(d, t, q, KeyAt(d, i), ValueAt(d, i))
                /\ i <= p => q + w + 1 <= p
                /\ i > p => q >= p + L
  <2> DEFINE q == i - NthAt(d, i)
             w == TextLen(KeyAt(d, i), ValueAt(d, i))
             a == KeyAt(d, i)
             b == ValueAt(d, i)
  <2>1. NthAt(d, i) \in 1 .. w /\ WholeAt(d, t, q, a, b)  BY <1>6 DEF Woven
  <2>2. i \in 1 .. Size  BY <1>1
  <2>3. w \in Nat /\ NthAt(d, i) \in Nat  BY <2>2, <1>6, ByteIs, TextLenType
  <2>4. /\ q \in 0 .. t /\ q + w + 1 <= t
        /\ \A m \in 1 .. w : d[q + m] = <<a, b, m>>
        /\ d[q + w + 1] = NUL
        /\ (q # 0 => d[q] = NUL)
    BY <2>1 DEF WholeAt
  <2> DEFINE c == NthAt(d, i)
  <2>5. c \in 1 .. w /\ c \in Nat /\ q = i - c  BY <2>1, <2>3
  <2> HIDE DEF c, w, q, a, b
  <2>6. ASSUME i <= p, q + w + 1 > p PROVE FALSE
    <3> DEFINE m == p + 1 - q
    <3>1. m \in 2 .. w + 1 /\ q + m = p + 1  BY <2>3, <2>4, <2>5, <2>6, <1>1
    <3>2. d[p + 1] = <<k, v, 1>>
      <4>1. 1 \in 1 .. n  BY <1>1
      <4> QED  BY <4>1, <1>2
    <3> HIDE DEF m
    <3>3. CASE m = w + 1
      <4>1. d[p + 1] = NUL
        <5>1. q + w + 1 = p + 1  BY <3>1, <3>3, <2>3, <2>4
        <5> QED  BY <5>1, <2>4
      <4> QED  BY <4>1, <3>2, NotNul
    <3>4. CASE m # w + 1
      <4>1. m \in 1 .. w  BY <3>1, <3>4, <2>3
      <4>2. d[p + 1] = <<a, b, m>>  BY <4>1, <3>1, <2>4
      <4>3. m = 1  BY <4>2, <3>2
      <4> QED  BY <4>3, <3>1
    <3> QED  BY <3>3, <3>4
  <2>7. ASSUME i > p, q < p + L PROVE FALSE
    <3>1. i > p + L  BY <2>7, <1>1, <1>2, <1>6
    <3> DEFINE m == p + L - q
    <3>2. m \in 1 .. w /\ q + m = p + L  BY <3>1, <2>3, <2>4, <2>5, <2>7, <1>1
    <3> HIDE DEF m
    <3>3. d[p + L] = <<a, b, m>>  BY <3>2, <2>4
    <3> QED  BY <3>3, <1>2, NotNul
  <2>8. (i <= p => q + w + 1 <= p) /\ (i > p => q >= p + L)
    BY <2>6, <2>7, <2>3, <2>4, <1>1
  <2> QED  BY <2>1, <2>3, <2>8 DEF q, w, a, b
<1> DEFINE Good1(i) == LET w == TextLen(KeyAt(d1, i), ValueAt(d1, i)) IN
             /\ NthAt(d1, i) \in 1 .. w
             /\ WholeAt(d1, t1, i - NthAt(d1, i), KeyAt(d1, i), ValueAt(d1, i))
<1>7. ASSUME NEW i \in 1 .. t1, d1[i] # NUL PROVE Good1(i)
  <2> DEFINE j == Was(i)
             c == NthAt(d, j)
             a == KeyAt(d, j)
             b == ValueAt(d, j)
             w == TextLen(a, b)
             q == j - c
             q1 == i - c
  <2>1. d1[i] = d[j] /\ j \in 1 .. t /\ j \notin p + 1 .. p + L /\ d[j] # NUL
    BY <1>5, <1>7
  <2>2. c = NthAt(d1, i) /\ a = KeyAt(d1, i) /\ b = ValueAt(d1, i)
    BY <2>1 DEF NthAt, KeyAt, ValueAt
  <2> HIDE DEF j
  <2>3. /\ c \in 1 .. w /\ w \in Nat /\ WholeAt(d, t, q, a, b)
        /\ j <= p => q + w + 1 <= p
        /\ j > p => q >= p + L
    BY <2>1, <1>6
  <2>4. /\ q \in 0 .. t /\ q + w + 1 <= t
        /\ \A m \in 1 .. w : d[q + m] = <<a, b, m>>
        /\ d[q + w + 1] = NUL
        /\ (q # 0 => d[q] = NUL)
    BY <2>3 DEF WholeAt
  <2> HIDE DEF c, a, b, w
  <2>5. CASE i <= p
    <3>1. j = i /\ q1 = q /\ q + w + 1 <= p  BY <2>1, <2>3, <2>5 DEF j
    <3>2. \A x \in 1 .. p : d1[x] = d[x]  BY <1>1, <1>3, <1>4
    <3>3. \A m \in 1 .. w : d1[q + m] = d[q + m]
      <4> TAKE m \in 1 .. w
      <4>1. q + m \in 1 .. p  BY <3>1, <2>3, <2>4, <1>1
      <4> QED  BY <4>1, <3>2
    <3>4. d1[q + w + 1] = d[q + w + 1]
      <4>1. q + w + 1 \in 1 .. p  BY <3>1, <2>3, <2>4, <1>1
      <4> QED  BY <4>1, <3>2
    <3>5. q # 0 => d1[q] = d[q]
      <4>1. q # 0 => q \in 1 .. p  BY <3>1, <2>3, <2>4, <1>1
      <4> QED  BY <4>1, <3>2
    <3>6. q \in 0 .. t1 /\ q + w + 1 <= t1  BY <3>1, <2>3, <2>4, <1>1, <1>4
    <3> HIDE DEF q, q1
    <3>7. WholeAt(d1, t1, q, a, b)
      BY <3>3, <3>4, <3>5, <3>6, <2>4 DEF WholeAt, w
    <3> QED  BY <3>1, <3>7, <2>2, <2>3 DEF w, q1
  <2>6. CASE i > p
    <3>1. j = i + L /\ q1 + L = q /\ q >= p + L  BY <2>1, <2>3, <2>6, <1>1 DEF j
    <3>2. q1 \in Nat /\ q1 >= p  BY <3>1, <2>3, <2>4, <1>1
    <3>3. \A x \in p + 1 .. t1 : d1[x] = d[x + L]  BY <1>1, <1>3, <1>4
    <3> HIDE DEF q1, q
    <3>4. q1 + w + 1 <= t1  BY <3>1, <3>2, <2>3, <2>4, <1>1
    <3>5. \A m \in 1 .. w : d1[q1 + m] = d[q + m]
      <4> TAKE m \in 1 .. w
      <4>1. q1 + m \in p + 1 .. t1 /\ q1 + m + L = q + m
        BY <3>1, <3>2, <3>4, <2>3, <2>4, <1>1, <1>4
      <4> QED  BY <4>1, <3>3
    <3>6. d1[q1 + w + 1] = d[q + w + 1]
      <4>1. q1 + w + 1 \in p + 1 .. t1 /\ q1 + w + 1 + L = q + w + 1
        BY <3>1, <3>2, <3>4, <2>3, <2>4, <1>1, <1>4
      <4> QED  BY <4>1, <3>3
    <3>7. q1 # 0 => d1[q1] = NUL
      <4>1. CASE q1 = p
        <5>1. p # 0 => d1[p] = d[p]  BY <1>1, <1>3
        <5> QED  BY <4>1, <5>1, <1>2
      <4>2. CASE q1 > p
        <5>1. q1 \in p + 1 .. t1 /\ q1 + L = q /\ q # 0
          BY <3>1, <3>2, <3>4, <4>2, <2>3, <2>4, <1>1, <1>4
        <5>2. d1[q1] = d[q]  BY <5>1, <3>3
        <5> QED  BY <5>1, <5>2, <2>4
      <4> QED  BY <3>2, <4>1, <4>2, <1>1
    <3>8. q1 \in 0 .. t1  BY <3>2, <3>4, <2>3, <1>1, <1>4
    <3>9. WholeAt(d1, t1, q1, a, b)
      BY <3>4, <3>5, <3>6, <3>7, <3>8, <2>4 DEF WholeAt, w
    <3> QED  BY <3>9, <2>2, <2>3 DEF w, q1
  <2> QED  BY <2>5, <2>6, <1>4
<1>8. ASSUME NEW i \in 1 .. t1 - 1, d1[i] = NUL PROVE d1[i + 1] # NUL
  <2>1. i \in 1 .. t1 /\ i + 1 \in 1 .. t1  BY <1>4
  <2>2. d1[i] = d[Was(i)] /\ d1[i + 1] = d[Was(i + 1)]  BY <2>1, <1>5
  <2>3. \A x \in 1 .. t - 1 : d[x] = NUL => d[x + 1] # NUL  BY DEF Woven
  <2>4. CASE i + 1 <= p
    <3>1. Was(i) = i /\ Was(i + 1) = i + 1 /\ i \in 1 .. t - 1  BY <2>4, <2>1, <1>1, <1>4
    <3> QED  BY <3>1, <2>2, <2>3, <1>8
  <2>5. CASE i = p
    <3>1. Was(i + 1) = p + L + 1 /\ p + L \in 1 .. t - 1  BY <2>5, <2>1, <1>1, <1>4
    <3> QED  BY <3>1, <2>2, <2>3, <1>2
  <2>6. CASE i > p
    <3>1. Was(i) = i + L /\ Was(i + 1) = i + L + 1 /\ i + L \in 1 .. t - 1
      BY <2>6, <2>1, <1>1, <1>4
    <3> QED  BY <3>1, <2>2, <2>3, <1>8
  <2> QED  BY <2>4, <2>5, <2>6, <1>4
<1>9. ASSUME t1 > 0 PROVE d1[1] # NUL /\ d1[t1] = NUL
  <2>1. 1 \in 1 .. t1 /\ t1 \in 1 .. t1  BY <1>4, <1>9
  <2>2. d1[1] = d[Was(1)] /\ d1[t1] = d[Was(t1)]  BY <2>1, <1>5
  <2>3. d[1] # NUL /\ d[t] = NUL /\ \A x \in 1 .. t - 1 : d[x] = NUL => d[x + 1] # NUL
    BY <1>1, <1>4, <1>9 DEF Woven
  <2>4. d[Was(1)] # NUL
    <3>1. CASE p = 0
      <4>1. Was(1) = p + L + 1 /\ p + L \in 1 .. t - 1  BY <3>1, <1>9, <1>1, <1>4
      <4> QED  BY <4>1, <2>3, <1>2
    <3>2. CASE p > 0
      <4>1. Was(1) = 1  BY <3>2
      <4> QED  BY <4>1, <2>3
    <3> QED  BY <3>1, <3>2
  <2>5. d[Was(t1)] = NUL
    <3>1. CASE t1 = p
      <4>1. Was(t1) = p /\ p # 0  BY <3>1, <1>9
      <4> QED  BY <4>1, <1>2
    <3>2. CASE t1 > p
      <4>1. Was(t1) = t  BY <3>2, <1>1
      <4> QED  BY <4>1, <2>3
    <3> QED  BY <3>1, <3>2, <1>4
  <2> QED  BY <2>2, <2>4, <2>5
<1>10. ASSUME NEW i \in 1 .. t1, NEW j \in 1 .. t1, d1[i] # NUL, d1[j] # NUL,
              NthAt(d1, i) = 1, NthAt(d1, j) = 1, KeyAt(d1, i) = KeyAt(d1, j)
       PROVE  i = j
  <2>1. /\ d1[i] = d[Was(i)] /\ Was(i) \in 1 .. t
        /\ d1[j] = d[Was(j)] /\ Was(j) \in 1 .. t
    BY <1>5
  <2>2. /\ NthAt(d1, i) = NthAt(d, Was(i)) /\ KeyAt(d1, i) = KeyAt(d, Was(i))
        /\ NthAt(d1, j) = NthAt(d, Was(j)) /\ KeyAt(d1, j) = KeyAt(d, Was(j))
    BY <2>1 DEF NthAt, KeyAt
  <2>3. Was(i) = Was(j)
    <3> DEFINE x == Was(i)
               y == Was(j)
    <3> HIDE DEF x, y
    <3>1. /\ x \in 1 .. t /\ y \in 1 .. t /\ d[x] # NUL /\ d[y] # NUL
          /\ NthAt(d, x) = 1 /\ NthAt(d, y) = 1 /\ KeyAt(d, x) = KeyAt(d, y)
      BY <2>1, <2>2, <1>10 DEF x, y
    <3>2. x = y  BY <3>1 DEF Woven
    <3> QED  BY <3>2 DEF x, y
  <2> QED  BY <2>3, <1>1, <1>4
<1>11. Woven(d1, t1)
  BY <1>4, <1>7, <1>8, <1>9, <1>10 DEF Woven
<1>12. ASSUME NEW i \in 1 .. t1, d1[i] # NUL, KeyAt(d1, i) = k PROVE FALSE
  <2> DEFINE j == Was(i)
             c == NthAt(d, j)
             a == KeyAt(d, j)
             b == ValueAt(d, j)
             w == TextLen(a, b)
             q == j - c
  <2>1. d1[i] = d[j] /\ j \in 1 .. t /\ j \notin p + 1 .. p + L /\ d[j] # NUL
    BY <1>5, <1>12
  <2>2. a = k  BY <2>1, <1>12 DEF KeyAt
  <2> HIDE DEF j
  <2>3. /\ c \in 1 .. w /\ w \in Nat /\ WholeAt(d, t, q, a, b)
        /\ j <= p => q + w + 1 <= p
        /\ j > p => q >= p + L
    BY <2>1, <1>6
  <2>4. /\ q \in 0 .. t /\ q + w + 1 <= t
        /\ \A m \in 1 .. w : d[q + m] = <<a, b, m>>
    BY <2>3 DEF WholeAt
  <2> HIDE DEF c, a, b, w, q
  <2>5. d[q + 1] = <<k, b, 1>> /\ q + 1 \in 1 .. t
    <3>1. 1 \in 1 .. w  BY <2>3
    <3>2. d[q + 1] = <<a, b, 1>>  BY <3>1, <2>4
    <3> QED  BY <3>2, <2>2, <2>3, <2>4, <1>1
  <2>6. d[p + 1] = <<k, v, 1>> /\ p + 1 \in 1 .. t
    <3>1. 1 \in 1 .. n  BY <1>1
    <3> QED  BY <3>1, <1>2, <1>1
  <2>7. q + 1 = p + 1
    <3>1. /\ d[q + 1] # NUL /\ d[p + 1] # NUL
          /\ NthAt(d, q + 1) = 1 /\ NthAt(d, p + 1) = 1
          /\ KeyAt(d, q + 1) = KeyAt(d, p + 1)
      BY <2>5, <2>6, NotNul DEF NthAt, KeyAt
    <3> DEFINE x == q + 1
               y == p + 1
    <3> HIDE DEF x, y
    <3>2. /\ x \in 1 .. t /\ y \in 1 .. t /\ d[x] # NUL /\ d[y] # NUL
          /\ NthAt(d, x) = 1 /\ NthAt(d, y) = 1 /\ KeyAt(d, x) = KeyAt(d, y)
      BY <2>5, <2>6, <3>1 DEF x, y
    <3>3. x = y  BY <3>2 DEF Woven
    <3> QED  BY <3>3 DEF x, y
  <2> QED  BY <2>1, <2>3, <2>4, <2>7, <1>1
<1>13. ASSUME NEW i \in 1 .. t1, d1[i] # NUL PROVE \E j \in 1 .. t : d[j] = d1[i]
  BY <1>5
<1>14. ASSUME NEW j \in 1 .. t, d[j] # NUL, KeyAt(d, j) # k
       PROVE  \E i \in 1 .. t1 : d1[i] = d[j]
  <2>1. j \notin p + 1 .. p + L
    <3> SUFFICES ASSUME j \in p + 1 .. p + L PROVE FALSE
      OBVIOUS
    <3>1. CASE j = p + L  BY <3>1, <1>14, <1>2
    <3>2. CASE j # p + L
      <4>1. j - p \in 1 .. n /\ p + (j - p) = j  BY <3>2, <1>1
      <4>2. d[j] = <<k, v, j - p>>  BY <4>1, <1>2
      <4> QED  BY <4>2, <1>14 DEF KeyAt
    <3> QED  BY <3>1, <3>2
  <2>2. CASE j <= p
    <3>1. j \in 1 .. t1 /\ Was(j) = j  BY <2>2, <1>1, <1>4
    <3> QED  BY <3>1, <1>5
  <2>3. CASE j > p + L
    <3>1. j - L \in 1 .. t1 /\ Was(j - L) = j  BY <2>3, <1>1, <1>4
    <3> QED  BY <3>1, <1>5
  <2> QED  BY <2>1, <2>2, <2>3, <1>1
<1> HIDE DEF t1
<1>15. /\ Woven(d1, t1)
       /\ \A i \in 1 .. t1 : d1[i] # NUL => KeyAt(d1, i) # k
       /\ \A i \in 1 .. t1 : d1[i] # NUL => \E j \in 1 .. t : d[j] = d1[i]
       /\ \A j \in 1 .. t : d[j] # NUL /\ KeyAt(d, j) # k => \E i \in 1 .. t1 : d1[i] = d[j]
  BY <1>11, <1>12, <1>13, <1>14
<1> QED  BY <1>15 DEF t1, n
-----------------------------------------------------------------------------
(* Adding an item *)

\* d2 is d with an item of k and v behind offset t.
Added(d, t, k, v, d2) ==
  /\ d2 \in Buffer
  /\ \A i \in 1 .. t : d2[i] = d[i]
  /\ \A m \in 1 .. TextLen(k, v) : d2[t + m] = <<k, v, m>>
  /\ d2[t + TextLen(k, v) + 1] = NUL

LEMMA AddedWoven ==
  ASSUME NEW d \in Buffer, NEW t, Woven(d, t), NEW k \in Keys, NEW v \in Values,
         \A i \in 1 .. t : d[i] # NUL => KeyAt(d, i) # k,
         t + TextLen(k, v) + 1 < Size, NEW d2, Added(d, t, k, v, d2)
  PROVE  Woven(d2, t + TextLen(k, v) + 1)
<1> DEFINE n == TextLen(k, v)
           t2 == t + n + 1
<1>1. Size \in Nat /\ t \in Nat /\ n \in Nat /\ n >= 3 /\ t2 < Size
  BY EnvAssumption, TextLenType DEF Woven
<1>2. /\ d2 \in Buffer
      /\ \A i \in 1 .. t : d2[i] = d[i]
      /\ \A m \in 1 .. n : d2[t + m] = <<k, v, m>>
      /\ d2[t2] = NUL
  BY DEF Added
<1>3. t > 0 => d[1] # NUL /\ d[t] = NUL  BY DEF Woven
<1> HIDE DEF n
<1>4. t2 \in 0 .. Size - 1 /\ t2 > t  BY <1>1
<1>5. ASSUME NEW i \in t + 1 .. t + n PROVE d2[i] = <<k, v, i - t>>
  <2>1. i - t \in 1 .. n /\ t + (i - t) = i  BY <1>1
  <2> QED  BY <2>1, <1>2
<1>6. ASSUME NEW i \in 1 .. t2, d2[i] # NUL
      PROVE  LET w == TextLen(KeyAt(d2, i), ValueAt(d2, i)) IN
             /\ NthAt(d2, i) \in 1 .. w
             /\ WholeAt(d2, t2, i - NthAt(d2, i), KeyAt(d2, i), ValueAt(d2, i))
  <2> DEFINE c == NthAt(d2, i)
             a == KeyAt(d2, i)
             b == ValueAt(d2, i)
             w == TextLen(a, b)
             q == i - c
  <2>1. CASE i <= t
    <3>1. i \in 1 .. t /\ d2[i] = d[i] /\ d[i] # NUL  BY <2>1, <1>2, <1>6, <1>1
    <3>2. c = NthAt(d, i) /\ a = KeyAt(d, i) /\ b = ValueAt(d, i)
      BY <3>1 DEF NthAt, KeyAt, ValueAt
    <3>3. c \in 1 .. w /\ WholeAt(d, t, q, a, b)  BY <3>1, <3>2 DEF Woven
    <3>4. w \in Nat
      <4>1. i \in 1 .. Size  BY <3>1, <1>1
      <4> QED  BY <4>1, <3>1, <3>2, ByteIs, TextLenType
    <3>5. /\ q \in 0 .. t /\ q + w + 1 <= t
          /\ \A m \in 1 .. w : d[q + m] = <<a, b, m>>
          /\ d[q + w + 1] = NUL
          /\ (q # 0 => d[q] = NUL)
      BY <3>3 DEF WholeAt
    <3> HIDE DEF c, a, b, w, q
    <3>6. \A m \in 1 .. w : d2[q + m] = <<a, b, m>>
      <4> TAKE m \in 1 .. w
      <4>1. q + m \in 1 .. t  BY <3>4, <3>5, <1>1
      <4> QED  BY <4>1, <1>2, <3>5
    <3>7. d2[q + w + 1] = NUL
      <4>1. q + w + 1 \in 1 .. t  BY <3>4, <3>5, <1>1
      <4> QED  BY <4>1, <1>2, <3>5
    <3>8. q # 0 => d2[q] = NUL
      <4>1. q # 0 => q \in 1 .. t  BY <3>5, <1>1
      <4> QED  BY <4>1, <1>2, <3>5
    <3>9. q \in 0 .. t2 /\ q + w + 1 <= t2  BY <3>4, <3>5, <1>1
    <3>10. WholeAt(d2, t2, q, a, b)  BY <3>6, <3>7, <3>8, <3>9 DEF WholeAt, w
    <3> QED  BY <3>3, <3>10 DEF c, a, b, w, q
  <2>2. CASE i > t
    <3>1. i # t2  BY <1>2, <1>6
    <3>2. i \in t + 1 .. t + n  BY <3>1, <2>2, <1>1
    <3>3. d2[i] = <<k, v, i - t>>  BY <3>2, <1>5
    <3>4. c = i - t /\ a = k /\ b = v  BY <3>3 DEF NthAt, KeyAt, ValueAt
    <3>5. q = t /\ w = n /\ c \in 1 .. n  BY <3>2, <3>4, <1>1 DEF n
    <3>6. WholeAt(d2, t2, t, k, v)
      <4>1. t \in 0 .. t2 /\ t + n + 1 <= t2  BY <1>1
      <4>2. t # 0 => d2[t] = NUL
        <5>1. t # 0 => t \in 1 .. t /\ t > 0  BY <1>1
        <5> QED  BY <5>1, <1>2, <1>3
      <4> QED  BY <4>1, <4>2, <1>2 DEF WholeAt, n
    <3> HIDE DEF c, a, b, q
    <3> QED  BY <3>4, <3>5, <3>6 DEF c, a, b, q
  <2> QED  BY <2>1, <2>2, <1>1
<1>7. ASSUME NEW i \in 1 .. t2 - 1, d2[i] = NUL PROVE d2[i + 1] # NUL
  <2>1. CASE i < t
    <3>1. i \in 1 .. t /\ i + 1 \in 1 .. t /\ i \in 1 .. t - 1  BY <2>1, <1>1
    <3>2. d[i] = NUL /\ d2[i + 1] = d[i + 1]  BY <3>1, <1>2, <1>7
    <3> QED  BY <3>1, <3>2 DEF Woven
  <2>2. CASE i = t
    <3>1. i + 1 \in t + 1 .. t + n  BY <2>2, <1>1
    <3> QED  BY <3>1, <1>5, NotNul
  <2>3. CASE i > t
    <3>1. i \in t + 1 .. t + n  BY <2>3, <1>1
    <3> QED  BY <3>1, <1>5, <1>7, NotNul
  <2> QED  BY <2>1, <2>2, <2>3, <1>1
<1>8. d2[1] # NUL
  <2>1. CASE t = 0
    <3>1. 1 \in t + 1 .. t + n  BY <2>1, <1>1
    <3> QED  BY <3>1, <1>5, NotNul
  <2>2. CASE t > 0
    <3>1. 1 \in 1 .. t  BY <2>2, <1>1
    <3> QED  BY <3>1, <2>2, <1>2, <1>3
  <2> QED  BY <2>1, <2>2, <1>1
<1>9. ASSUME NEW i \in 1 .. t2, NEW j \in 1 .. t2, d2[i] # NUL, d2[j] # NUL,
             NthAt(d2, i) = 1, NthAt(d2, j) = 1, KeyAt(d2, i) = KeyAt(d2, j)
      PROVE  i = j
  <2>1. \A x \in 1 .. t2 : d2[x] # NUL /\ NthAt(d2, x) = 1 /\ KeyAt(d2, x) = k => x = t + 1
    <3> TAKE x \in 1 .. t2
    <3> HAVE d2[x] # NUL /\ NthAt(d2, x) = 1 /\ KeyAt(d2, x) = k
    <3>1. CASE x <= t
      <4>1. x \in 1 .. t /\ d2[x] = d[x]  BY <3>1, <1>2, <1>1
      <4> QED  BY <4>1 DEF KeyAt
    <3>2. CASE x > t
      <4>1. x \in t + 1 .. t + n  BY <3>2, <1>2, <1>1
      <4>2. NthAt(d2, x) = x - t  BY <4>1, <1>5 DEF NthAt
      <4> QED  BY <4>1, <4>2, <1>1
    <3> QED  BY <3>1, <3>2, <1>1
  <2>2. \A x \in 1 .. t2 : d2[x] # NUL /\ KeyAt(d2, x) # k => x \in 1 .. t /\ d2[x] = d[x]
    <3> TAKE x \in 1 .. t2
    <3> HAVE d2[x] # NUL /\ KeyAt(d2, x) # k
    <3>1. CASE x <= t  BY <3>1, <1>2, <1>1
    <3>2. CASE x > t
      <4>1. x \in t + 1 .. t + n  BY <3>2, <1>2, <1>1
      <4>2. KeyAt(d2, x) = k  BY <4>1, <1>5 DEF KeyAt
      <4> QED  BY <4>2
    <3> QED  BY <3>1, <3>2, <1>1
  <2>3. CASE KeyAt(d2, i) = k  BY <2>3, <2>1, <1>9
  <2>4. CASE KeyAt(d2, i) # k
    <3>1. i \in 1 .. t /\ j \in 1 .. t /\ d2[i] = d[i] /\ d2[j] = d[j]  BY <2>4, <2>2, <1>9
    <3>2. /\ d[i] # NUL /\ d[j] # NUL /\ NthAt(d, i) = 1 /\ NthAt(d, j) = 1
          /\ KeyAt(d, i) = KeyAt(d, j)
      BY <3>1, <1>9 DEF NthAt, KeyAt
    <3> QED  BY <3>1, <3>2 DEF Woven
  <2> QED  BY <2>3, <2>4
<1> HIDE DEF t2
<1>10. Woven(d2, t2)  BY <1>4, <1>6, <1>7, <1>8, <1>9, <1>2 DEF Woven
<1> QED  BY <1>10 DEF t2, n

LEMMA TextIs ==
  ASSUME NEW k \in Keys, NEW v \in Values, NEW n \in Nat
  PROVE  /\ Text(k, v, n) \in Seq(Byte) /\ Len(Text(k, v, n)) = n
         /\ \A m \in 1 .. n : Text(k, v, n)[m] = <<k, v, m>>
<1>1. \A m \in 1 .. n : <<k, v, m>> \in Byte  BY DEF Byte
<1>2. Text(k, v, n) \in [1 .. n -> Byte]  BY <1>1 DEF Text
<1>3. \A m \in 1 .. n : Text(k, v, n)[m] = <<k, v, m>>  BY DEF Text
<1> QED  BY <1>2, <1>3

LEMMA NulsAre ==
  ASSUME NEW n \in Nat
  PROVE  /\ Nuls(n) \in Seq(Byte) /\ Len(Nuls(n)) = n
         /\ \A m \in 1 .. n : Nuls(n)[m] = NUL
<1>1. Nuls(n) \in [1 .. n -> Byte]  BY DEF Nuls, Byte
<1>2. \A m \in 1 .. n : Nuls(n)[m] = NUL  BY DEF Nuls
<1> QED  BY <1>1, <1>2

LEMMA LeastPair ==
  ASSUME NEW a \in Nat, NEW b \in Nat
  PROVE  /\ Least({a, b}) \in Nat /\ Least({a, b}) <= a /\ Least({a, b}) <= b
         /\ a <= b => Least({a, b}) = a
         /\ Least({a, b}) \in {a, b}
<1>1. Least({a, b}) \in {a, b} /\ \A y \in {a, b} : Least({a, b}) <= y  BY LeastOf
<1> QED  BY <1>1

\* Writing an item adds it when it fits, and wipes what an old one of orglen
\* bytes has left; when it does not fit, the tail leaves the buffer.
LEMMA WriteIs ==
  ASSUME NEW d \in Buffer, NEW t \in Nat, t < Size - 1, NEW orglen \in Nat,
         NEW k \in Keys, NEW v \in Values
  PROVE  LET e == WriteItem(d, t, orglen, k, v) IN
         /\ e \in [data : Buffer, tail : Nat]
         /\ e.tail = t + TextLen(k, v) + 1
         /\ e.tail < Size =>
              /\ Added(d, t, k, v, e.data)
              /\ ZeroFrom(d, t + orglen) => ZeroFrom(e.data, e.tail)
<1> DEFINE n == TextLen(k, v)
           newlen == n + 1
           room == Size - t - 1
           s == Text(k, v, Least({newlen, room}) - 1)
           text == s \o Nuls(1)
           zeros == IF newlen < orglen THEN orglen - newlen ELSE 1
           d1 == Store(d, t, text)
           d2 == Store(d1, t + newlen, Nuls(zeros))
<1>1. Size \in Nat /\ n \in Nat /\ n >= 3  BY EnvAssumption, TextLenType
<1>2. WriteItem(d, t, orglen, k, v) = [data |-> d2, tail |-> t + newlen]
  BY DEF WriteItem
<1> HIDE DEF n
<1>3. newlen \in Nat /\ room \in Nat /\ room >= 1 /\ zeros \in Nat  BY <1>1
<1> HIDE DEF newlen, room
<1> DEFINE l == Least({newlen, room})
<1>4. l \in Nat /\ l >= 1 /\ (newlen <= room => l = newlen)
  BY <1>1, <1>3, LeastPair DEF newlen
<1> HIDE DEF l
<1>5. s \in Seq(Byte) /\ Len(s) = l - 1 /\ \A m \in 1 .. l - 1 : s[m] = <<k, v, m>>
  <2>1. l - 1 \in Nat  BY <1>4
  <2> QED  BY <2>1, TextIs DEF l
<1> HIDE DEF s
<1>6. /\ text \in Seq(Byte) /\ Len(text) = l
      /\ \A m \in 1 .. l : text[m] = IF m <= l - 1 THEN <<k, v, m>> ELSE NUL
  <2>1. Nuls(1) \in Seq(Byte) /\ Len(Nuls(1)) = 1 /\ \A m \in 1 .. 1 : Nuls(1)[m] = NUL
    BY NulsAre
  <2> DEFINE z == Nuls(1)
  <2> HIDE DEF z
  <2>2. z \in Seq(Byte) /\ Len(z) = 1 /\ z[1] = NUL  BY <2>1 DEF z
  <2>3. /\ s \o z \in Seq(Byte) /\ Len(s \o z) = Len(s) + Len(z)
        /\ \A i \in 1 .. Len(s) + Len(z) :
             (s \o z)[i] = IF i <= Len(s) THEN s[i] ELSE z[i - Len(s)]
    BY <2>2, <1>5, ConcatProperties
  <2>4. Len(s) + Len(z) = l  BY <2>2, <1>5, <1>4
  <2> DEFINE y == s \o z
  <2> HIDE DEF y
  <2>5. /\ y \in Seq(Byte) /\ Len(y) = l
        /\ \A i \in 1 .. l : y[i] = IF i <= l - 1 THEN s[i] ELSE z[i - (l - 1)]
    BY <2>3, <2>4, <1>5 DEF y
  <2>6. \A m \in 1 .. l : y[m] = IF m <= l - 1 THEN <<k, v, m>> ELSE NUL
    <3> TAKE m \in 1 .. l
    <3>1. CASE m <= l - 1  BY <3>1, <2>5, <1>4, <1>5
    <3>2. CASE m = l
      <4>1. m - (l - 1) = 1 /\ ~(m <= l - 1)  BY <3>2, <1>4
      <4> QED  BY <4>1, <2>5, <2>2
    <3> QED  BY <3>1, <3>2, <1>4
  <2> QED  BY <2>5, <2>6 DEF y, z
<1> HIDE DEF text
<1>7. /\ d1 \in Buffer
      /\ \A i \in 1 .. Size : d1[i] = IF i <= t THEN d[i]
                                      ELSE IF i <= t + l THEN text[i - t] ELSE d[i]
  <2>1. t <= Size  BY <1>1
  <2> QED  BY <2>1, <1>6, StoreIs
<1> HIDE DEF d1, zeros
<1>8. /\ d2 \in Buffer
      /\ t + newlen <= Size => \A i \in 1 .. Size :
           d2[i] = IF i <= t + newlen THEN d1[i]
                   ELSE IF i <= t + newlen + zeros THEN Nuls(zeros)[i - (t + newlen)] ELSE d1[i]
  <2>1. Nuls(zeros) \in Seq(Byte) /\ Len(Nuls(zeros)) = zeros  BY <1>3, NulsAre
  <2> DEFINE z == Nuls(zeros)
             at == t + newlen
  <2> HIDE DEF z
  <2>2. at \in Nat  BY <1>3
  <2> HIDE DEF at
  <2>3. /\ Store(d1, at, z) \in Buffer
        /\ at <= Size => \A i \in 1 .. Size :
              Store(d1, at, z)[i] = IF i <= at THEN d1[i]
                                    ELSE IF i <= at + Len(z) THEN z[i - at] ELSE d1[i]
    BY <2>1, <2>2, <1>7, StoreIs DEF z
  <2> QED  BY <2>1, <2>3 DEF z, at
<1> HIDE DEF d2
<1>9. ASSUME t + newlen < Size
      PROVE  Added(d, t, k, v, d2) /\ (ZeroFrom(d, t + orglen) => ZeroFrom(d2, t + newlen))
  <2>1. l = newlen /\ l = n + 1  BY <1>9, <1>1, <1>3, <1>4 DEF newlen, room
  <2>2. \A i \in 1 .. t + newlen : d2[i] = d1[i]  BY <1>8, <1>9, <1>3, <1>1
  <2>3. \A i \in 1 .. t : d2[i] = d[i]  BY <2>2, <1>7, <1>9, <1>3, <1>1
  <2>4. \A m \in 1 .. n : d2[t + m] = <<k, v, m>>
    <3> TAKE m \in 1 .. n
    <3>1. t + m \in 1 .. t + newlen /\ t + m \in 1 .. Size /\ ~(t + m <= t) /\ t + m <= t + l
          /\ t + m - t = m /\ m \in 1 .. l /\ m <= l - 1
      BY <2>1, <1>9, <1>1, <1>3
    <3>2. d2[t + m] = d1[t + m] /\ d1[t + m] = text[t + m - t]  BY <3>1, <2>2, <1>7
    <3> QED  BY <3>1, <3>2, <1>6
  <2>5. d2[t + n + 1] = NUL
    <3>1. t + l \in 1 .. t + newlen /\ t + l \in 1 .. Size /\ ~(t + l <= t) /\ t + l <= t + l
          /\ t + l - t = l /\ l \in 1 .. l /\ ~(l <= l - 1) /\ t + l = t + n + 1
      BY <2>1, <1>9, <1>1, <1>3
    <3>2. d2[t + l] = d1[t + l] /\ d1[t + l] = text[t + l - t]  BY <3>1, <2>2, <1>7
    <3>3. text[l] = NUL  BY <3>1, <1>6
    <3> QED  BY <3>1, <3>2, <3>3
  <2>6. Added(d, t, k, v, d2)  BY <2>3, <2>4, <2>5, <1>8 DEF Added, n
  <2>7. ASSUME ZeroFrom(d, t + orglen), NEW i \in 1 .. Size, i > t + newlen
        PROVE  d2[i] = NUL
    <3>1. d1[i] = d[i]  BY <2>1, <2>7, <1>7, <1>3, <1>1
    <3>2. CASE i <= t + newlen + zeros
      <4>1. i - (t + newlen) \in 1 .. zeros /\ ~(i <= t + newlen) /\ t + newlen <= Size
        BY <3>2, <2>7, <1>9, <1>3, <1>1
      <4>2. d2[i] = Nuls(zeros)[i - (t + newlen)]  BY <4>1, <3>2, <1>8
      <4> QED  BY <4>1, <4>2, <1>3, NulsAre
    <3>3. CASE i > t + newlen + zeros
      <4>1. ~(i <= t + newlen) /\ ~(i <= t + newlen + zeros) /\ t + newlen <= Size
        BY <3>3, <2>7, <1>9, <1>3, <1>1
      <4>2. d2[i] = d[i]  BY <4>1, <3>1, <1>8
      <4>3. i > t + orglen  BY <3>3, <2>7, <1>3, <1>1 DEF zeros
      <4> QED  BY <4>2, <4>3, <2>7 DEF ZeroFrom
    <3> QED  BY <3>2, <3>3, <1>3, <1>1
  <2> QED  BY <2>6, <2>7 DEF ZeroFrom
<1>10. t + newlen \in Nat /\ t + newlen = t + n + 1  BY <1>1, <1>3 DEF newlen
<1> DEFINE e == [data |-> d2, tail |-> t + newlen]
<1>11. e \in [data : Buffer, tail : Nat] /\ e.data = d2 /\ e.tail = t + newlen
  BY <1>8, <1>10
<1> HIDE DEF e
<1>12. e = WriteItem(d, t, orglen, k, v)  BY <1>2 DEF e
<1> QED  BY <1>9, <1>10, <1>11, <1>12 DEF n
-----------------------------------------------------------------------------
(* env_set and env_clear *)

LEMMA ItemFound ==
  ASSUME NEW e, Good(e), NEW k, ItemsOf(e, k) # {}
  PROVE  Least(ItemsOf(e, k)) \in ItemStarts(e)
         /\ KeyAt(e.data, Least(ItemsOf(e, k)) + 1) = k
<1>1. ItemsOf(e, k) = {p \in ItemStarts(e) : e.data[p + 1][1] = k}  BY DEF ItemsOf
<1>2. ItemStarts(e) \subseteq 0 .. Size - 1  BY DEF ItemStarts
<1>3. Size \in Nat  BY EnvAssumption
<1> DEFINE S == ItemsOf(e, k)
<1> HIDE DEF S
<1>4. S \subseteq Nat /\ S # {}  BY <1>1, <1>2, <1>3 DEF S
<1>5. Least(S) \in S  BY <1>4, LeastOf
<1> QED  BY <1>5, <1>1 DEF S, KeyAt

LEMMA NoItem ==
  ASSUME NEW e, Good(e), NEW k, ItemsOf(e, k) = {}, NEW i \in 1 .. e.tail, e.data[i] # NUL
  PROVE  KeyAt(e.data, i) # k
<1> DEFINE d == e.data
           t == e.tail
           a == KeyAt(d, i)
           b == ValueAt(d, i)
           c == NthAt(d, i)
           w == TextLen(a, b)
           q == i - c
<1>1. Size \in Nat /\ d \in Buffer /\ t \in 0 .. Size - 1 /\ Woven(d, t)
  BY EnvAssumption DEF Good, Woven
<1>2. ItemStarts(e) = {p \in 0 .. t - 1 : d[p + 1] # NUL /\ NthAt(d, p + 1) = 1}
  BY StartsAre
<1>3. ItemsOf(e, k) = {p \in ItemStarts(e) : KeyAt(d, p + 1) = k}  BY DEF ItemsOf, KeyAt
<1>4. i \in 1 .. t /\ d[i] # NUL  OBVIOUS
<1> HIDE DEF d, t
<1>5. c \in 1 .. w /\ WholeAt(d, t, q, a, b)  BY <1>1, <1>4 DEF Woven
<1>6. w \in Nat
  <2>1. i \in 1 .. Size  BY <1>1, <1>4
  <2> QED  BY <2>1, <1>1, <1>4, ByteIs, TextLenType
<1>7. q \in 0 .. t /\ q + w + 1 <= t /\ \A m \in 1 .. w : d[q + m] = <<a, b, m>>
  BY <1>5 DEF WholeAt
<1> HIDE DEF a, b, c, w, q
<1>8. d[q + 1] = <<a, b, 1>> /\ q \in 0 .. t - 1
  <2>1. 1 \in 1 .. w  BY <1>5, <1>6
  <2> QED  BY <2>1, <1>5, <1>6, <1>7, <1>1
<1>9. d[q + 1] # NUL /\ NthAt(d, q + 1) = 1 /\ KeyAt(d, q + 1) = a
  BY <1>8, NotNul DEF NthAt, KeyAt
<1>10. a # k  BY <1>2, <1>3, <1>8, <1>9
<1> QED  BY <1>10 DEF a, d

\* The buffer holds an item of k and v.
Begins(e, k, v) == \E i \in 1 .. e.tail : e.data[i] = <<k, v, 1>>

\* An item of the key is taken out before the new one is written:
\* up to the tail t, d holds the other items of e.
Without(e, k, t, d) ==
  /\ Woven(d, t) /\ d \in Buffer
  /\ \A i \in 1 .. t : d[i] # NUL => KeyAt(d, i) # k
  /\ \A i \in 1 .. t : d[i] # NUL => \E j \in 1 .. e.tail : e.data[j] = d[i]
  /\ \A j \in 1 .. e.tail : e.data[j] # NUL /\ KeyAt(e.data, j) # k =>
       \E i \in 1 .. t : d[i] = e.data[j]

LEMMA TakenOut ==
  ASSUME NEW e, Good(e), NEW k, ItemsOf(e, k) # {}
  PROVE  LET p == Least(ItemsOf(e, k))
             L == ItemLen(e, p)
         IN /\ L \in Nat /\ L >= 4 /\ e.tail - L \in Nat /\ e.tail - L < Size - 1
            /\ Without(e, k, e.tail - L, CloseGap(e, p))
            /\ ZeroFrom(CloseGap(e, p), e.tail)
<1> DEFINE p == Least(ItemsOf(e, k))
           L == ItemLen(e, p)
           d == e.data
           t == e.tail
           d1 == CloseGap(e, p)
           v == ValueAt(d, p + 1)
           k1 == KeyAt(d, p + 1)
<1>1. p \in ItemStarts(e) /\ k1 = k  BY ItemFound
<1> HIDE DEF p
<1>2. /\ k1 \in Keys /\ v \in Values /\ L = TextLen(k1, v) + 1
      /\ WholeAt(d, t, p, k1, v)
  BY <1>1, LengthIs
<1>3. Closed(d, t, p, L, d1)  BY <1>1, GapCloses
<1>4. p \in 0 .. t - 1  BY <1>1, StartsAre
<1>5. Size \in Nat /\ d \in Buffer /\ t \in 0 .. Size - 1 /\ Woven(d, t) /\ ZeroFrom(d, t)
  BY EnvAssumption DEF Good, Woven
<1> HIDE DEF d, t, k1, v, L, d1
<1>6. k \in Keys /\ WholeAt(d, t, p, k, v) /\ Closed(d, t, p, TextLen(k, v) + 1, d1)
  BY <1>1, <1>2, <1>3
<1>7. L = TextLen(k, v) + 1 /\ TextLen(k, v) \in Nat /\ TextLen(k, v) >= 3
  BY <1>1, <1>2, TextLenType
<1>8. t - L \in Nat /\ L \in Nat /\ L >= 4 /\ t - L < Size - 1
  <2>1. p + TextLen(k, v) + 1 <= t  BY <1>6 DEF WholeAt
  <2> QED  BY <2>1, <1>7, <1>4, <1>5
<1>9. /\ Woven(d1, t - L)
      /\ \A i \in 1 .. t - L : d1[i] # NUL => KeyAt(d1, i) # k
      /\ \A i \in 1 .. t - L : d1[i] # NUL => \E j \in 1 .. t : d[j] = d1[i]
      /\ \A j \in 1 .. t : d[j] # NUL /\ KeyAt(d, j) # k => \E i \in 1 .. t - L : d1[i] = d[j]
  <2>1. v \in Values  BY <1>2
  <2> DEFINE t1 == t - (TextLen(k, v) + 1)
  <2> HIDE DEF t1
  <2>2. /\ Woven(d1, t1)
        /\ \A i \in 1 .. t1 : d1[i] # NUL => KeyAt(d1, i) # k
        /\ \A i \in 1 .. t1 : d1[i] # NUL => \E j \in 1 .. t : d[j] = d1[i]
        /\ \A j \in 1 .. t : d[j] # NUL /\ KeyAt(d, j) # k => \E i \in 1 .. t1 : d1[i] = d[j]
    BY <2>1, <1>4, <1>5, <1>6, StillWoven DEF t1
  <2>3. t1 = t - L  BY <1>7 DEF t1
  <2> QED  BY <2>2, <2>3
<1>10. d1 \in Buffer /\ ZeroFrom(d1, t)
  <2>1. d1 \in Buffer /\ \A i \in 1 .. Size : d1[i] = IF i > p /\ i <= t - L THEN d[i + L] ELSE d[i]
    BY <1>3 DEF Closed
  <2>2. \A i \in 1 .. Size : i > t => d1[i] = d[i]  BY <2>1, <1>8, <1>5
  <2> QED  BY <2>1, <2>2, <1>5 DEF ZeroFrom
<1>11. Without(e, k, t - L, d1)  BY <1>9, <1>10 DEF Without, d, t
<1> QED  BY <1>8, <1>10, <1>11 DEF d, t, L, d1, p

\* What env_set does: the old item of the key gives way to the new one, or the
\* buffer has no room and stays, or the tail leaves it.
LEMMA SetIs ==
  ASSUME NEW e, Good(e), NEW k \in Keys, NEW v \in Values
  PROVE  LET f == EnvSet(e, k, v) IN
         /\ f \in [data : Buffer, tail : Nat]
         /\ f.tail < Size => Good(f)
         /\ f.tail < Size =>
              \/ f = e
              \/ \A a \in Keys, b \in Values :
                   Begins(f, a, b) <=> IF a = k THEN b = v ELSE Begins(e, a, b)
<1> DEFINE found == ItemsOf(e, k) # {}
           p == Least(ItemsOf(e, k))
           L == IF found THEN ItemLen(e, p) ELSE 0
           t == e.tail - L
           d == IF found THEN CloseGap(e, p) ELSE e.data
           f == EnvSet(e, k, v)
<1>1. f = IF t >= Size - 1 THEN [e EXCEPT !.data = d] ELSE WriteItem(d, t, L, k, v)
  BY DEF EnvSet
<1>2. /\ Size \in Nat /\ e.data \in Buffer /\ e.tail \in 0 .. Size - 1 /\ Woven(e.data, e.tail)
      /\ ZeroFrom(e.data, e.tail) /\ e = [data |-> e.data, tail |-> e.tail]
  BY EnvAssumption DEF Good, Woven
<1>3. CASE ~found /\ t >= Size - 1
  <2>1. d = e.data  BY <1>3
  <2>2. f = e  BY <1>1, <1>2, <1>3, <2>1
  <2> HIDE DEF f
  <2>3. Good(f)  BY <2>2
  <2>4. f \in [data : Buffer, tail : Nat]  BY <2>3 DEF Good
  <2> QED  BY <2>2, <2>3, <2>4 DEF f
<1>4. CASE found \/ t < Size - 1
  <2>1. L \in Nat /\ t \in Nat /\ t < Size - 1 /\ t + L = e.tail
    <3>1. CASE found  BY <3>1, <1>2, TakenOut
    <3>2. CASE ~found  BY <3>2, <1>2, <1>4
    <3> QED  BY <3>1, <3>2
  <2>2. Without(e, k, t, d) /\ ZeroFrom(d, t + L)
    <3>1. CASE found
      <4>1. Without(e, k, t, d) /\ ZeroFrom(d, e.tail)  BY <3>1, TakenOut
      <4> HIDE DEF L, t, d
      <4> QED  BY <4>1, <2>1
    <3>2. CASE ~found
      <4>1. d = e.data /\ t = e.tail  BY <3>2, <1>2
      <4>2. \A i \in 1 .. e.tail : e.data[i] # NUL => KeyAt(e.data, i) # k  BY <3>2, NoItem
      <4> HIDE DEF d, t, L
      <4> QED  BY <4>1, <4>2, <2>1, <1>2 DEF Without
    <3> QED  BY <3>1, <3>2
  <2> HIDE DEF L, t, d, found
  <2>3. f = WriteItem(d, t, L, k, v)  BY <1>1, <1>2, <2>1
  <2> HIDE DEF f
  <2>4. d \in Buffer /\ Woven(d, t)  BY <2>2 DEF Without
  <2>5. /\ f \in [data : Buffer, tail : Nat]
        /\ f.tail = t + TextLen(k, v) + 1
        /\ f.tail < Size =>
             /\ Added(d, t, k, v, f.data)
             /\ ZeroFrom(d, t + L) => ZeroFrom(f.data, f.tail)
    BY <2>1, <2>3, <2>4, WriteIs
  <2>6. ASSUME f.tail < Size
        PROVE  /\ Good(f)
               /\ \A a \in Keys, b \in Values :
                    Begins(f, a, b) <=> IF a = k THEN b = v ELSE Begins(e, a, b)
    <3> DEFINE d2 == f.data
               t2 == f.tail
               n == TextLen(k, v)
    <3>1. Added(d, t, k, v, d2) /\ ZeroFrom(d2, t2)  BY <2>2, <2>5, <2>6
    <3>2. t2 = t + n + 1 /\ n \in Nat /\ n >= 3  BY <2>5, TextLenType
    <3>3. Woven(d2, t2)
      <4>1. \A i \in 1 .. t : d[i] # NUL => KeyAt(d, i) # k  BY <2>2 DEF Without
      <4>2. t + n + 1 < Size  BY <3>2, <2>6
      <4>3. Woven(d2, t + n + 1)  BY <4>1, <4>2, <3>1, <2>4, AddedWoven
      <4> QED  BY <4>3, <3>2
    <3>4. Good(f)  BY <3>1, <3>3, <2>5 DEF Good
    <3>5. /\ \A i \in 1 .. t : d2[i] = d[i]
          /\ \A m \in 1 .. n : d2[t + m] = <<k, v, m>>
          /\ d2[t + n + 1] = NUL
      BY <3>1 DEF Added
    <3> HIDE DEF d2, t2, n
    <3>6. ASSUME NEW i \in 1 .. t2, d2[i] # NUL
          PROVE  \/ i \in 1 .. t /\ d2[i] = d[i]
                 \/ i - t \in 1 .. n /\ d2[i] = <<k, v, i - t>>
      <4>1. CASE i <= t  BY <4>1, <3>5, <2>1
      <4>2. CASE i > t
        <5>1. i # t + n + 1  BY <3>5, <3>6
        <5>2. i - t \in 1 .. n /\ t + (i - t) = i  BY <5>1, <4>2, <3>2, <2>1
        <5> QED  BY <5>2, <3>5
      <4> QED  BY <4>1, <4>2, <2>1
    <3>7. ASSUME NEW a \in Keys, NEW b \in Values, a = k
          PROVE  (\E i \in 1 .. t2 : d2[i] = <<a, b, 1>>) <=> b = v
      <4>1. ASSUME NEW i \in 1 .. t2, d2[i] = <<a, b, 1>> PROVE b = v
        <5>1. d2[i] # NUL  BY <4>1, NotNul
        <5>2. CASE i \in 1 .. t /\ d2[i] = d[i]
          <6>1. d[i] # NUL /\ KeyAt(d, i) = k  BY <5>2, <5>1, <4>1, <3>7 DEF KeyAt
          <6> QED  BY <6>1, <5>2, <2>2 DEF Without
        <5>3. CASE i - t \in 1 .. n /\ d2[i] = <<k, v, i - t>>
          BY <5>3, <4>1
        <5> QED  BY <5>1, <5>2, <5>3, <3>6
      <4>2. ASSUME b = v PROVE \E i \in 1 .. t2 : d2[i] = <<a, b, 1>>
        <5>1. 1 \in 1 .. n /\ t + 1 \in 1 .. t2  BY <3>2, <2>1
        <5>2. d2[t + 1] = <<k, v, 1>>  BY <5>1, <3>5
        <5> QED  BY <5>1, <5>2, <4>2, <3>7
      <4> QED  BY <4>1, <4>2
    <3>8. ASSUME NEW a \in Keys, NEW b \in Values, a # k
          PROVE  (\E i \in 1 .. t2 : d2[i] = <<a, b, 1>>) <=> Begins(e, a, b)
      <4>1. ASSUME NEW i \in 1 .. t2, d2[i] = <<a, b, 1>> PROVE Begins(e, a, b)
        <5>1. d2[i] # NUL  BY <4>1, NotNul
        <5>2. CASE i \in 1 .. t /\ d2[i] = d[i]
          <6>1. PICK j \in 1 .. e.tail : e.data[j] = d[i]  BY <5>1, <5>2, <2>2 DEF Without
          <6> QED  BY <6>1, <5>2, <4>1 DEF Begins
        <5>3. CASE i - t \in 1 .. n /\ d2[i] = <<k, v, i - t>>
          BY <5>3, <4>1, <3>8
        <5> QED  BY <5>1, <5>2, <5>3, <3>6
      <4>2. ASSUME NEW j \in 1 .. e.tail, e.data[j] = <<a, b, 1>>
            PROVE  \E i \in 1 .. t2 : d2[i] = <<a, b, 1>>
        <5>1. e.data[j] # NUL /\ KeyAt(e.data, j) # k  BY <4>2, <3>8, NotNul DEF KeyAt
        <5>2. PICK i \in 1 .. t : d[i] = e.data[j]  BY <5>1, <2>2 DEF Without
        <5>3. i \in 1 .. t2 /\ d2[i] = d[i]  BY <5>2, <3>5, <3>2, <2>1
        <5> QED  BY <5>2, <5>3, <4>2
      <4> QED  BY <4>1, <4>2 DEF Begins
    <3>9. \A a \in Keys, b \in Values :
            Begins(f, a, b) <=> IF a = k THEN b = v ELSE Begins(e, a, b)
      BY <3>7, <3>8 DEF Begins, d2, t2
    <3> QED  BY <3>4, <3>9
  <2> QED  BY <2>5, <2>6 DEF f
<1> QED
  <2>1. found \/ t < Size - 1 \/ (~found /\ t >= Size - 1)
    <3>1. CASE ~found  BY <3>1, <1>2
    <3> QED  BY <3>1
  <2> QED  BY <2>1, <1>3, <1>4

\* Only the bytes up to the tail count.
LEMMA SameWoven ==
  ASSUME NEW d \in Buffer, NEW t, Woven(d, t), NEW d2, \A i \in 1 .. t : d2[i] = d[i]
  PROVE  Woven(d2, t)
<1>1. t \in 0 .. Size - 1 /\ Size \in Nat  BY EnvAssumption DEF Woven
<1>2. ASSUME NEW i \in 1 .. t, d2[i] # NUL
      PROVE  LET w == TextLen(KeyAt(d2, i), ValueAt(d2, i)) IN
             /\ NthAt(d2, i) \in 1 .. w
             /\ WholeAt(d2, t, i - NthAt(d2, i), KeyAt(d2, i), ValueAt(d2, i))
  <2> DEFINE a == KeyAt(d, i)
             b == ValueAt(d, i)
             c == NthAt(d, i)
             w == TextLen(a, b)
             q == i - c
  <2>1. i \in 1 .. Size /\ d[i] # NUL /\ d2[i] = d[i]  BY <1>1, <1>2
  <2>2. c = NthAt(d2, i) /\ a = KeyAt(d2, i) /\ b = ValueAt(d2, i)
    BY <2>1 DEF NthAt, KeyAt, ValueAt
  <2>3. c \in 1 .. w /\ WholeAt(d, t, q, a, b)  BY <2>1 DEF Woven
  <2>4. w \in Nat  BY <2>1, ByteIs, TextLenType
  <2>5. /\ q \in 0 .. t /\ q + w + 1 <= t
        /\ \A m \in 1 .. w : d[q + m] = <<a, b, m>>
        /\ d[q + w + 1] = NUL
        /\ (q # 0 => d[q] = NUL)
    BY <2>3 DEF WholeAt
  <2> HIDE DEF a, b, c, w, q
  <2>6. \A m \in 1 .. w : q + m \in 1 .. t  BY <2>4, <2>5, <1>1
  <2>7. q + w + 1 \in 1 .. t /\ (q # 0 => q \in 1 .. t)  BY <2>4, <2>5, <1>1
  <2>8. WholeAt(d2, t, q, a, b)  BY <2>5, <2>6, <2>7 DEF WholeAt, w
  <2> QED  BY <2>2, <2>3, <2>8 DEF w, q
<1>3. ASSUME NEW i \in 1 .. t - 1, d2[i] = NUL PROVE d2[i + 1] # NUL
  <2>1. i \in 1 .. t /\ i + 1 \in 1 .. t  BY <1>1
  <2> QED  BY <2>1, <1>3 DEF Woven
<1>4. ASSUME t > 0 PROVE d2[1] # NUL /\ d2[t] = NUL
  <2>1. 1 \in 1 .. t /\ t \in 1 .. t  BY <1>1, <1>4
  <2> QED  BY <2>1, <1>4 DEF Woven
<1>5. ASSUME NEW i \in 1 .. t, NEW j \in 1 .. t, d2[i] # NUL, d2[j] # NUL,
             NthAt(d2, i) = 1, NthAt(d2, j) = 1, KeyAt(d2, i) = KeyAt(d2, j)
      PROVE  i = j
  <2>1. /\ d[i] # NUL /\ d[j] # NUL /\ NthAt(d, i) = 1 /\ NthAt(d, j) = 1
        /\ KeyAt(d, i) = KeyAt(d, j)
    BY <1>5 DEF NthAt, KeyAt
  <2> QED  BY <2>1 DEF Woven
<1> QED  BY <1>1, <1>2, <1>3, <1>4, <1>5 DEF Woven

\* What env_clear does: the item of the key is gone.
LEMMA ClearIs ==
  ASSUME NEW e, Good(e), NEW k \in Keys
  PROVE  LET f == EnvClear(e, k) IN
         /\ Good(f)
         /\ \A a \in Keys, b \in Values : Begins(f, a, b) <=> a # k /\ Begins(e, a, b)
<1> DEFINE p == Least(ItemsOf(e, k))
           L == ItemLen(e, p)
           t == e.tail - L
           d == CloseGap(e, p)
           d2 == Store(d, t, Nuls(L))
           f == EnvClear(e, k)
<1>1. f = IF ItemsOf(e, k) = {} THEN e ELSE [data |-> d2, tail |-> t]  BY DEF EnvClear
<1>2. /\ Size \in Nat /\ e.data \in Buffer /\ e.tail \in 0 .. Size - 1 /\ Woven(e.data, e.tail)
      /\ ZeroFrom(e.data, e.tail)
  BY EnvAssumption DEF Good, Woven
<1>3. CASE ItemsOf(e, k) = {}
  <2>1. f = e  BY <1>1, <1>3
  <2> HIDE DEF f
  <2>2. \A i \in 1 .. e.tail : e.data[i] # NUL => KeyAt(e.data, i) # k  BY <1>3, NoItem
  <2>3. ASSUME NEW b \in Values PROVE ~Begins(e, k, b)
    <3>1. ASSUME NEW i \in 1 .. e.tail, e.data[i] = <<k, b, 1>> PROVE FALSE
      BY <3>1, <2>2, NotNul DEF KeyAt
    <3> QED  BY <3>1 DEF Begins
  <2> QED  BY <2>1, <2>3 DEF f
<1>4. CASE ItemsOf(e, k) # {}
  <2>1. /\ L \in Nat /\ L >= 4 /\ t \in Nat /\ t < Size - 1
        /\ Without(e, k, t, d) /\ ZeroFrom(d, e.tail)
    BY <1>4, TakenOut
  <2>2. t + L = e.tail  BY <2>1, <1>2
  <2>3. f = [data |-> d2, tail |-> t]  BY <1>1, <1>4
  <2> HIDE DEF f, d, t, L
  <2>4. Nuls(L) \in Seq(Byte) /\ Len(Nuls(L)) = L /\ \A m \in 1 .. L : Nuls(L)[m] = NUL
    BY <2>1, NulsAre
  <2> DEFINE z == Nuls(L)
  <2> HIDE DEF z
  <2>5. /\ d2 \in Buffer
        /\ \A i \in 1 .. Size : d2[i] = IF i <= t THEN d[i]
                                        ELSE IF i <= t + L THEN z[i - t] ELSE d[i]
    <3>1. t <= Size /\ d \in Buffer  BY <2>1, <1>2 DEF Without
    <3>2. z \in Seq(Byte) /\ Len(z) = L  BY <2>4 DEF z
    <3>3. /\ Store(d, t, z) \in Buffer
          /\ \A i \in 1 .. Size : Store(d, t, z)[i] = IF i <= t THEN d[i]
                                        ELSE IF i <= t + Len(z) THEN z[i - t] ELSE d[i]
      BY <3>1, <3>2, <2>1, StoreIs
    <3> QED  BY <3>2, <3>3 DEF z
  <2> HIDE DEF d2
  <2>6. \A i \in 1 .. t : d2[i] = d[i]  BY <2>5, <2>1, <1>2
  <2>7. ZeroFrom(d2, t)
    <3> SUFFICES ASSUME NEW i \in 1 .. Size, i > t PROVE d2[i] = NUL
      BY DEF ZeroFrom
    <3>1. CASE i <= t + L
      <4>1. i - t \in 1 .. L  BY <3>1, <2>1
      <4> QED  BY <4>1, <3>1, <2>5, <2>4, <2>1 DEF z
    <3>2. CASE i > t + L
      BY <3>2, <2>5, <2>1, <2>2 DEF ZeroFrom
    <3> QED  BY <3>1, <3>2, <2>1
  <2>8. Woven(d2, t)  BY <2>6, <2>1, <2>5, SameWoven DEF Without
  <2>9. f.data = d2 /\ f.tail = t /\ f \in [data : Buffer, tail : Nat]
    BY <2>3, <2>1, <2>5
  <2>10. Good(f)  BY <2>7, <2>8, <2>9 DEF Good
  <2>11. ASSUME NEW a \in Keys, NEW b \in Values
         PROVE  (\E i \in 1 .. t : d2[i] = <<a, b, 1>>) <=> a # k /\ Begins(e, a, b)
    <3>1. ASSUME NEW i \in 1 .. t, d2[i] = <<a, b, 1>> PROVE a # k /\ Begins(e, a, b)
      <4>1. d[i] = <<a, b, 1>> /\ d[i] # NUL  BY <3>1, <2>6, NotNul
      <4>2. KeyAt(d, i) # k  BY <4>1, <2>1 DEF Without
      <4>3. a # k  BY <4>1, <4>2 DEF KeyAt
      <4>4. PICK j \in 1 .. e.tail : e.data[j] = d[i]  BY <4>1, <2>1 DEF Without
      <4> QED  BY <4>1, <4>3, <4>4 DEF Begins
    <3>2. ASSUME a # k, NEW j \in 1 .. e.tail, e.data[j] = <<a, b, 1>>
          PROVE  \E i \in 1 .. t : d2[i] = <<a, b, 1>>
      <4>1. e.data[j] # NUL /\ KeyAt(e.data, j) # k  BY <3>2, NotNul DEF KeyAt
      <4>2. PICK i \in 1 .. t : d[i] = e.data[j]  BY <4>1, <2>1 DEF Without
      <4> QED  BY <4>2, <3>2, <2>6
    <3> QED  BY <3>1, <3>2 DEF Begins
  <2> QED  BY <2>9, <2>10, <2>11 DEF Begins, f
<1> QED  BY <1>3, <1>4
-----------------------------------------------------------------------------
(* The map of a buffer *)

LEMMA MapIs ==
  ASSUME NEW e, Good(e), NEW k \in Keys
  PROVE  /\ \A v \in Values : Begins(e, k, v) => MapOf(e)[k] = v
         /\ (\A v \in Values : ~Begins(e, k, v)) => MapOf(e)[k] = None
<1> DEFINE d == e.data
           t == e.tail
           mine == {p \in ItemStarts(e) : d[p + 1][1] = k}
<1>1. Size \in Nat /\ d \in Buffer /\ t \in 0 .. Size - 1 /\ Woven(d, t)
  BY EnvAssumption DEF Good, Woven
<1>2. ItemStarts(e) = {p \in 0 .. t - 1 : d[p + 1] # NUL /\ NthAt(d, p + 1) = 1}
  BY StartsAre
<1>3. MapOf(e)[k] = IF mine = {} THEN None ELSE d[Least(mine) + 1][2]
  BY DEF MapOf
<1>4. ASSUME NEW p \in mine
      PROVE  p + 1 \in 1 .. t /\ d[p + 1] = <<k, d[p + 1][2], 1>> /\ d[p + 1][2] \in Values
  <2>1. p \in 0 .. t - 1 /\ d[p + 1] # NUL /\ NthAt(d, p + 1) = 1 /\ KeyAt(d, p + 1) = k
    BY <1>2 DEF KeyAt
  <2> HIDE DEF d, t, mine
  <2>2. p + 1 \in 1 .. t /\ p + 1 \in 1 .. Size  BY <2>1, <1>1
  <2>3. d[p + 1] = <<KeyAt(d, p + 1), ValueAt(d, p + 1), NthAt(d, p + 1)>>
        /\ ValueAt(d, p + 1) \in Values
    BY <2>1, <2>2, <1>1, ByteIs
  <2> QED  BY <2>1, <2>2, <2>3 DEF ValueAt
<1>5. ASSUME NEW v \in Values, NEW i \in 1 .. t, d[i] = <<k, v, 1>>
      PROVE  MapOf(e)[k] = v
  <2>1. i - 1 \in mine
    <3>1. d[i] # NUL /\ NthAt(d, i) = 1 /\ d[i][1] = k  BY <1>5, NotNul DEF NthAt
    <3>2. i - 1 \in 0 .. t - 1 /\ i - 1 + 1 = i  BY <1>1
    <3> HIDE DEF d, t
    <3> QED  BY <3>1, <3>2, <1>2
  <2>2. mine \subseteq Nat  BY <1>1, <1>2
  <2> DEFINE p == Least(mine)
  <2>3. p \in mine
    <3> HIDE DEF mine
    <3> QED  BY <2>1, <2>2, LeastOf
  <2> HIDE DEF p
  <2>4. p + 1 \in 1 .. t /\ d[p + 1] = <<k, d[p + 1][2], 1>>  BY <2>3, <1>4
  <2> DEFINE j == p + 1
             b == d[p + 1][2]
  <2> HIDE DEF d, t, mine, j, b
  <2>5. j \in 1 .. t /\ d[j] = <<k, b, 1>>  BY <2>4 DEF j, b
  <2>6. d[i] = <<k, v, 1>> /\ i \in 1 .. t  BY <1>5 DEF d, t
  <2>7. /\ d[i] # NUL /\ d[j] # NUL /\ NthAt(d, i) = 1 /\ NthAt(d, j) = 1
        /\ KeyAt(d, i) = KeyAt(d, j)
    BY <2>5, <2>6, NotNul DEF NthAt, KeyAt
  <2>8. i = j  BY <2>5, <2>6, <2>7, <1>1 DEF Woven
  <2>9. b = v  BY <2>5, <2>6, <2>8
  <2>10. MapOf(e)[k] = b  BY <2>1, <1>3 DEF b, p
  <2> QED  BY <2>9, <2>10
<1>6. ASSUME \A v \in Values : ~Begins(e, k, v)
      PROVE  MapOf(e)[k] = None
  <2>1. ASSUME NEW p \in mine PROVE FALSE
    <3>1. p + 1 \in 1 .. t /\ d[p + 1] = <<k, d[p + 1][2], 1>> /\ d[p + 1][2] \in Values
      BY <2>1, <1>4
    <3>2. Begins(e, k, d[p + 1][2])  BY <3>1 DEF Begins
    <3> QED  BY <3>1, <3>2, <1>6
  <2> QED  BY <2>1, <1>3
<1> QED  BY <1>5, <1>6 DEF Begins

\* A map has a value or None for every key.
LEMMA MapType ==
  ASSUME NEW e \in [data : Buffer, tail : Nat]
  PROVE  MapOf(e) \in [Keys -> Values \cup {None}]
<1> DEFINE d == e.data
           mine(k) == {p \in ItemStarts(e) : d[p + 1][1] = k}
<1>1. Size \in Nat /\ d \in Buffer  BY EnvAssumption
<1>2. MapOf(e) = [k \in Keys |-> IF mine(k) = {} THEN None ELSE d[Least(mine(k)) + 1][2]]
  BY DEF MapOf
<1>3. ASSUME NEW k \in Keys, mine(k) # {}
      PROVE  d[Least(mine(k)) + 1][2] \in Values
  <2>1. mine(k) \subseteq {p \in 0 .. Size - 1 : d[p + 1] # NUL}  BY DEF ItemStarts
  <2> DEFINE S == mine(k)
             p == Least(S)
  <2>2. p \in S
    <3>1. S \subseteq Nat  BY <2>1, <1>1
    <3> HIDE DEF S
    <3> QED  BY <3>1, <1>3, LeastOf DEF S
  <2> HIDE DEF p
  <2>3. p \in 0 .. Size - 1 /\ d[p + 1] # NUL  BY <2>1, <2>2
  <2>4. p + 1 \in 1 .. Size  BY <2>3, <1>1
  <2>5. ValueAt(d, p + 1) \in Values  BY <2>3, <2>4, <1>1, ByteIs
  <2> QED  BY <2>5 DEF ValueAt, p
<1> HIDE DEF mine
<1> QED  BY <1>2, <1>3

\* The map after env_set and env_clear.
LEMMA MapAfterSet ==
  ASSUME NEW e, Good(e), NEW k \in Keys, NEW v \in Values, EnvSet(e, k, v).tail < Size
  PROVE  MapOf(EnvSet(e, k, v)) \in {MapOf(e), [MapOf(e) EXCEPT ![k] = v]}
<1> DEFINE f == EnvSet(e, k, v)
<1>1. /\ Good(f)
      /\ \/ f = e
         \/ \A a \in Keys, b \in Values :
              Begins(f, a, b) <=> IF a = k THEN b = v ELSE Begins(e, a, b)
  BY SetIs
<1> HIDE DEF f
<1>2. MapOf(f) \in [Keys -> Values \cup {None}] /\ MapOf(e) \in [Keys -> Values \cup {None}]
  BY <1>1, MapType DEF Good
<1>3. CASE \A a \in Keys, b \in Values :
             Begins(f, a, b) <=> IF a = k THEN b = v ELSE Begins(e, a, b)
  <2>1. MapOf(f)[k] = v
    <3>1. Begins(f, k, v)  BY <1>3
    <3> QED  BY <3>1, <1>1, MapIs
  <2>2. ASSUME NEW a \in Keys, a # k PROVE MapOf(f)[a] = MapOf(e)[a]
    <3>1. \A b \in Values : Begins(f, a, b) <=> Begins(e, a, b)  BY <2>2, <1>3
    <3>2. CASE \E b \in Values : Begins(e, a, b)
      <4>1. PICK b \in Values : Begins(e, a, b)  BY <3>2
      <4>2. MapOf(e)[a] = b  BY <4>1, MapIs
      <4>3. MapOf(f)[a] = b  BY <4>1, <3>1, <1>1, MapIs
      <4> QED  BY <4>2, <4>3
    <3>3. CASE \A b \in Values : ~Begins(e, a, b)
      <4>1. MapOf(e)[a] = None  BY <3>3, MapIs
      <4>2. MapOf(f)[a] = None  BY <3>1, <3>3, <1>1, MapIs
      <4> QED  BY <4>1, <4>2
    <3> QED  BY <3>2, <3>3
  <2>3. MapOf(f) = [MapOf(e) EXCEPT ![k] = v]
    <3> DEFINE x == MapOf(f)
               y == MapOf(e)
    <3> HIDE DEF x, y
    <3>1. /\ x \in [Keys -> Values \cup {None}] /\ y \in [Keys -> Values \cup {None}]
          /\ x[k] = v /\ \A a \in Keys : a # k => x[a] = y[a]
      BY <1>2, <2>1, <2>2 DEF x, y
    <3>2. x = [y EXCEPT ![k] = v]  BY <3>1
    <3> QED  BY <3>2 DEF x, y
  <2> QED  BY <2>3 DEF f
<1> QED  BY <1>1, <1>3 DEF f

LEMMA MapAfterClear ==
  ASSUME NEW e, Good(e), NEW k \in Keys
  PROVE  MapOf(EnvClear(e, k)) = [MapOf(e) EXCEPT ![k] = None]
<1> DEFINE f == EnvClear(e, k)
<1>1. Good(f) /\ \A a \in Keys, b \in Values : Begins(f, a, b) <=> a # k /\ Begins(e, a, b)
  BY ClearIs
<1> HIDE DEF f
<1>2. MapOf(f) \in [Keys -> Values \cup {None}] /\ MapOf(e) \in [Keys -> Values \cup {None}]
  BY <1>1, MapType DEF Good
<1>3. MapOf(f)[k] = None  BY <1>1, MapIs
<1>4. ASSUME NEW a \in Keys, a # k PROVE MapOf(f)[a] = MapOf(e)[a]
  <2>1. \A b \in Values : Begins(f, a, b) <=> Begins(e, a, b)  BY <1>1, <1>4
  <2>2. CASE \E b \in Values : Begins(e, a, b)
    <3>1. PICK b \in Values : Begins(e, a, b)  BY <2>2
    <3>2. MapOf(e)[a] = b  BY <3>1, MapIs
    <3>3. MapOf(f)[a] = b  BY <3>1, <2>1, <1>1, MapIs
    <3> QED  BY <3>2, <3>3
  <2>3. CASE \A b \in Values : ~Begins(e, a, b)
    <3>1. MapOf(e)[a] = None  BY <2>3, MapIs
    <3>2. MapOf(f)[a] = None  BY <2>1, <2>3, <1>1, MapIs
    <3> QED  BY <3>1, <3>2
  <2> QED  BY <2>2, <2>3
<1> DEFINE x == MapOf(f)
           y == MapOf(e)
<1> HIDE DEF x, y
<1>5. /\ x \in [Keys -> Values \cup {None}] /\ y \in [Keys -> Values \cup {None}]
      /\ x[k] = None /\ \A a \in Keys : a # k => x[a] = y[a]
  BY <1>2, <1>3, <1>4 DEF x, y
<1>6. x = [y EXCEPT ![k] = None]  BY <1>5
<1> QED  BY <1>6 DEF x, y, f

-----------------------------------------------------------------------------
(* The default environment *)

\* The recursion of load_default defines what it seems to define.
LEMMA LoadedIs ==
  /\ Loaded[0] = Empty
  /\ \A n \in 1 .. Len(DefaultItems) :
       Loaded[n] = EnvSet(Loaded[n - 1], DefaultItems[n][1], DefaultItems[n][2])
<1> DEFINE N == Len(DefaultItems)
           Step(e, n) == EnvSet(e, DefaultItems[n][1], DefaultItems[n][2])
           Is(g, n) == g = [m \in 0 .. n |-> IF m = 0 THEN Empty ELSE Step(g[m - 1], m)]
           Unbuilt == {n \in 0 .. N : ~\E g : Is(g, n)}
<1>1. N \in Nat  BY EnvAssumption
<1> HIDE DEF N, Step
<1>2. \E g : Is(g, 0)
  <2>1. Is([m \in 0 .. 0 |-> Empty], 0)  OBVIOUS
  <2> QED  BY <2>1
<1>3. ASSUME NEW n \in Nat, NEW g, Is(g, n) PROVE \E h : Is(h, n + 1)
  <2> DEFINE h == [m \in 0 .. n + 1 |-> IF m <= n THEN g[m] ELSE Step(g[n], n + 1)]
  <2>1. \A m \in 0 .. n + 1 : h[m] = IF m = 0 THEN Empty ELSE Step(h[m - 1], m)
    <3> TAKE m \in 0 .. n + 1
    <3>1. CASE m = 0
      <4>1. h[m] = g[m] /\ 0 \in 0 .. n  BY <3>1
      <4> QED  BY <4>1, <3>1, <1>3
    <3>2. CASE m \in 1 .. n
      <4>1. h[m] = g[m] /\ h[m - 1] = g[m - 1] /\ m # 0 /\ m \in 0 .. n  BY <3>2
      <4> QED  BY <4>1, <1>3
    <3>3. CASE m = n + 1
      <4>1. h[m] = Step(g[n], n + 1) /\ h[m - 1] = g[n] /\ m # 0  BY <3>3
      <4> QED  BY <4>1, <3>3
    <3> QED  BY <3>1, <3>2, <3>3
  <2>2. h = [m \in 0 .. n + 1 |-> h[m]]  OBVIOUS
  <2> HIDE DEF h
  <2>3. Is(h, n + 1)  BY <2>1, <2>2
  <2> QED  BY <2>3
<1> HIDE DEF Is
<1>4. Unbuilt = {}
  <2> SUFFICES ASSUME Unbuilt # {} PROVE FALSE
    OBVIOUS
  <2>1. Unbuilt \subseteq Nat  BY <1>1
  <2>2. PICK n \in Unbuilt : \A m \in Unbuilt : n <= m
    <3> HIDE DEF Unbuilt
    <3> QED  BY <2>1, Smallest
  <2>3. n # 0 /\ n \in 0 .. N  BY <1>2
  <2>4. n - 1 \in 0 .. N /\ n - 1 \in Nat /\ ~(n <= n - 1) /\ n - 1 + 1 = n  BY <2>3, <1>1
  <2>5. n - 1 \notin Unbuilt  BY <2>2, <2>4
  <2>6. PICK g : Is(g, n - 1)  BY <2>4, <2>5
  <2>7. \E h : Is(h, n)  BY <2>4, <2>6, <1>3
  <2> QED  BY <2>7
<1>5. \E g : Is(g, N)  BY <1>1, <1>4
<1>6. Is(Loaded, N)
  <2>1. Loaded = CHOOSE g : Is(g, N)  BY DEF Loaded, Is, Step, N
  <2> QED  BY <2>1, <1>5
<1>7. Loaded = [m \in 0 .. N |-> IF m = 0 THEN Empty ELSE Step(Loaded[m - 1], m)]
  BY <1>6 DEF Is
<1>8. /\ Loaded[0] = Empty
      /\ \A n \in 1 .. N : Loaded[n] = Step(Loaded[n - 1], n)
  BY <1>1, <1>7
<1> QED  BY <1>8 DEF N, Step
LEMMA EmptyGood == Good(Empty)
<1>1. Size \in Nat \ {0}  BY EnvAssumption
<1>2. /\ Nuls(Size) \in Buffer /\ Empty.data = Nuls(Size) /\ Empty.tail = 0
      /\ Empty \in [data : Buffer, tail : Nat]
      /\ \A i \in 1 .. Size : Nuls(Size)[i] = NUL
  BY DEF Nuls, Buffer, Byte, Empty
<1>3. Woven(Nuls(Size), 0) /\ ZeroFrom(Nuls(Size), 0)  BY <1>1, <1>2 DEF Woven, ZeroFrom
<1> QED  BY <1>2, <1>3 DEF Good

\* The default environment is in shape.
LEMMA DefaultGood == Good(LoadDefault)
<1> DEFINE N == Len(DefaultItems)
           Bad == {n \in 0 .. N : ~Good(Loaded[n])}
<1>1. N \in Nat /\ \A n \in 1 .. N : DefaultItems[n] \in Keys \X Values  BY EnvAssumption
<1>2. Bad = {}
  <2> SUFFICES ASSUME Bad # {} PROVE FALSE
    OBVIOUS
  <2>1. Bad \subseteq Nat  BY <1>1
  <2>2. PICK n \in Bad : \A m \in Bad : n <= m
    <3> HIDE DEF Bad
    <3> QED  BY <2>1, Smallest
  <2>3. n \in 1 .. N  BY LoadedIs, EmptyGood, <1>1
  <2>4. n - 1 \in 0 .. N /\ ~(n <= n - 1) /\ n \in 0 .. N  BY <2>3, <1>1
  <2>5. Good(Loaded[n - 1])  BY <2>2, <2>4
  <2>6. Loaded[n] = EnvSet(Loaded[n - 1], DefaultItems[n][1], DefaultItems[n][2])
    BY <2>3, LoadedIs
  <2>7. DefaultItems[n][1] \in Keys /\ DefaultItems[n][2] \in Values  BY <2>3, <1>1
  <2>8. Loaded[n].tail < Size  BY <2>4, DefaultsFit
  <2> HIDE DEF Bad, N
  <2>9. Good(Loaded[n])  BY <2>5, <2>6, <2>7, <2>8, SetIs
  <2> QED  BY <2>9 DEF Bad
<1>3. N \in 0 .. N  BY <1>1
<1> QED  BY <1>2, <1>3 DEF LoadDefault

-----------------------------------------------------------------------------
(* The invariant *)

ImageLen == Size \div FlashBlocks

LEMMA Blocks ==
  /\ ImageLen \in Nat /\ FlashBlocks * ImageLen = Size
  /\ \A n \in 0 .. FlashBlocks - 1 :
       /\ n * ImageLen \in Nat /\ n * ImageLen + ImageLen = (n + 1) * ImageLen
       /\ n * ImageLen + ImageLen <= Size
<1>1. Size \in Nat /\ FlashBlocks \in Nat \ {0} /\ Size % FlashBlocks = 0  BY EnvAssumption
<1>2. ImageLen \in Nat  BY <1>1 DEF ImageLen
<1>3. FlashBlocks * ImageLen = Size
  <2>1. Size = (FlashBlocks * (Size \div FlashBlocks)) + (Size % FlashBlocks)  BY <1>1
  <2> QED  BY <2>1, <1>1 DEF ImageLen
<1> DEFINE L == ImageLen
<1> HIDE DEF L
<1>4. ASSUME NEW n \in 0 .. FlashBlocks - 1
      PROVE  n * L \in Nat /\ n * L + L = (n + 1) * L /\ n * L + L <= FlashBlocks * L
  <2>1. L \in Nat  BY <1>2 DEF L
  <2>2. n \in Nat /\ n + 1 <= FlashBlocks  BY <1>1
  <2>3. n * L \in Nat /\ n * L + L = (n + 1) * L  BY <2>1, <2>2
  <2>4. FlashBlocks - (n + 1) \in Nat  BY <2>2, <1>1
  <2>5. (FlashBlocks - (n + 1)) * L \in Nat  BY <2>4, <2>1
  <2>6. FlashBlocks * L = (n + 1) * L + (FlashBlocks - (n + 1)) * L  BY <2>1, <2>2, <1>1
  <2>7. (n + 1) * L \in Nat /\ FlashBlocks * L \in Nat  BY <2>1, <2>2, <1>1
  <2> QED  BY <2>3, <2>5, <2>6, <2>7
<1> QED  BY <1>2, <1>3, <1>4 DEF L

\* While it fits, the environment is in shape.
InShape == Sane => Good(env)

\* The CRC in the flash is that of a buffer in shape, if one was ever saved.
CrcGood == flash.crc # None => Good([data |-> flash.crc, tail |-> TailOf(flash.crc)])

\* A save that has lost none has copied its first blocks, and with the first the
\* CRC.
SaveCopies ==
  pc = "save" =>
    /\ Sane /\ saved = FALSE
    /\ ~lost => /\ next > 0 => flash.crc = env.data
                /\ \A i \in 1 .. next * ImageLen : flash.data[i] = env.data[i]

IInv == TypeOK /\ InShape /\ CrcGood /\ SaveCopies

\* A buffer in shape is as env_get and find_env_tail expect it.
LEMMA ShapeOf == InShape => BufferInShape
<1> SUFFICES ASSUME Good(env) PROVE PackedToTail /\ OneWholeItemPerKey
  BY DEF InShape, BufferInShape
<1>1. Size \in Nat /\ env.data \in Buffer /\ env.tail \in 0 .. Size - 1 /\ Woven(env.data, env.tail)
      /\ ZeroFrom(env.data, env.tail)
  BY EnvAssumption DEF Good, Woven
<1>2. PackedToTail
  <2>1. \A i \in 1 .. env.tail - 1 : env.data[i] # NUL \/ env.data[i + 1] # NUL
    BY <1>1 DEF Woven
  <2> QED  BY <2>1, <1>1, TailIs DEF PackedToTail, ZeroFrom
<1>3. ItemStarts(env) = {p \in 0 .. env.tail - 1 :
                           env.data[p + 1] # NUL /\ NthAt(env.data, p + 1) = 1}
  BY StartsAre
<1>4. ASSUME NEW p \in ItemStarts(env), NEW q \in ItemStarts(env),
             env.data[p + 1][1] = env.data[q + 1][1]
      PROVE  p = q
  <2> DEFINE d == env.data
             t == env.tail
             x == p + 1
             y == q + 1
  <2>1. /\ p \in Int /\ q \in Int /\ x \in 1 .. t /\ y \in 1 .. t
        /\ d[x] # NUL /\ d[y] # NUL /\ NthAt(d, x) = 1 /\ NthAt(d, y) = 1
    BY <1>1, <1>3
  <2>2. KeyAt(d, x) = KeyAt(d, y)  BY <1>4 DEF KeyAt
  <2>3. Woven(d, t)  BY <1>1
  <2> HIDE DEF d, t, x, y
  <2>4. x = y  BY <2>1, <2>2, <2>3 DEF Woven
  <2> QED  BY <2>1, <2>4 DEF x, y
<1>5. ASSUME NEW p \in ItemStarts(env)
      PROVE  LET first == env.data[p + 1] IN
             ItemLen(env, p) = TextLen(first[1], first[2]) + 1
  BY LengthIs DEF KeyAt, ValueAt
<1> QED  BY <1>2, <1>4, <1>5 DEF OneWholeItemPerKey

LEMMA SaneGood == ASSUME NEW e, Good(e) PROVE e.tail < Size
<1>1. e.tail \in 0 .. Size - 1 /\ Size \in Nat  BY EnvAssumption DEF Good, Woven
<1> QED  BY <1>1

LEMMA ImageOf == ASSUME NEW e, Good(e) PROVE [data |-> e.data, tail |-> TailOf(e.data)] = e
<1>1. TailOf(e.data) = e.tail  BY TailIs
<1>2. e \in [data : Buffer, tail : Nat]  BY DEF Good
<1> QED  BY <1>1, <1>2

LEMMA InitInv == Init => IInv
<1> SUFFICES ASSUME Init PROVE IInv
  OBVIOUS
<1>1. Good(env)  BY DefaultGood DEF Init
<1>2. flash = [crc |-> None, data |-> Nuls(Size)] /\ pc = "run" /\ next = 0 /\ saved = FALSE
      /\ lost = FALSE
  BY DEF Init, Blank
<1>3. Nuls(Size) \in Buffer
  <2>1. Size \in Nat  BY EnvAssumption
  <2> QED  BY <2>1 DEF Nuls, Buffer, Byte
<1>4. TypeOK
  <2>1. env \in [data : Buffer, tail : Nat]  BY <1>1 DEF Good
  <2>2. flash \in [crc : Buffer \cup {None}, data : Buffer]  BY <1>2, <1>3
  <2>3. next \in 0 .. FlashBlocks  BY <1>2, EnvAssumption
  <2> QED  BY <2>1, <2>2, <2>3, <1>2 DEF TypeOK
<1>5. InShape /\ CrcGood /\ SaveCopies  BY <1>1, <1>2 DEF InShape, CrcGood, SaveCopies
<1> QED  BY <1>4, <1>5 DEF IInv

\* What a block of the image holds after it was written.
LEMMA BlockCopied ==
  ASSUME NEW f \in Buffer, NEW d \in Buffer, NEW at \in Nat, NEW len \in Nat, at + len <= Size
  PROVE  LET g == Store(f, at, SubSeq(d, at + 1, at + len)) IN
         /\ g \in Buffer
         /\ \A i \in 1 .. Size : g[i] = IF i > at /\ i <= at + len THEN d[i] ELSE f[i]
<1> DEFINE s == SubSeq(d, at + 1, at + len)
<1>1. Size \in Nat  BY EnvAssumption
<1>2. /\ s \in Seq(Byte) /\ Len(s) = len
      /\ \A i \in 1 .. len : s[i] = d[at + i]
  <2>1. \A i \in at + 1 .. at + len : d[i] \in Byte  BY <1>1 DEF Buffer
  <2> DEFINE a == at + 1
             b == at + len
  <2>2. a \in Int /\ b \in Int  OBVIOUS
  <2> HIDE DEF a, b
  <2>3. /\ SubSeq(d, a, b) \in Seq(Byte)
        /\ Len(SubSeq(d, a, b)) = IF a <= b THEN b - a + 1 ELSE 0
        /\ \A i \in 1 .. b - a + 1 : SubSeq(d, a, b)[i] = d[a + i - 1]
    BY <2>1, <2>2, SubSeqProperties DEF a, b
  <2>4. s = SubSeq(d, a, b)  BY DEF a, b
  <2> HIDE DEF s
  <2>5. b - a + 1 = len /\ (IF a <= b THEN b - a + 1 ELSE 0) = len  BY DEF a, b
  <2>6. \A i \in 1 .. len : a + i - 1 = at + i  BY DEF a
  <2> QED  BY <2>3, <2>4, <2>5, <2>6
<1> HIDE DEF s
<1>3. /\ Store(f, at, s) \in Buffer
      /\ \A i \in 1 .. Size : Store(f, at, s)[i] =
            IF i <= at THEN f[i] ELSE IF i <= at + len THEN s[i - at] ELSE f[i]
  <2>1. at <= Size  BY <1>1
  <2> QED  BY <2>1, <1>2, StoreIs, ZenonT(60)
<1> DEFINE g == Store(f, at, s)
<1> HIDE DEF g
<1>4. ASSUME NEW i \in 1 .. Size
      PROVE  g[i] = IF i > at /\ i <= at + len THEN d[i] ELSE f[i]
  <2>1. g[i] = IF i <= at THEN f[i] ELSE IF i <= at + len THEN s[i - at] ELSE f[i]
    BY <1>3 DEF g
  <2>2. CASE i > at /\ i <= at + len
    <3>1. i - at \in 1 .. len /\ at + (i - at) = i  BY <2>2
    <3> QED  BY <2>1, <2>2, <3>1, <1>2
  <2> QED  BY <2>1, <2>2
<1> QED  BY <1>3, <1>4 DEF g, s

\* What a block adds to the flash.
LEMMA BlockStoredIs ==
  ASSUME IInv, pc = "save", next < FlashBlocks
  PROVE  /\ BlockStored \in [crc : Buffer \cup {None}, data : Buffer]
         /\ BlockStored.crc = IF next = 0 THEN env.data ELSE flash.crc
         /\ ~lost => \A i \in 1 .. (next + 1) * ImageLen : BlockStored.data[i] = env.data[i]
<1> DEFINE len == Size \div FlashBlocks
           at == next * len
<1>1. BlockStored = [crc |-> IF next = 0 THEN env.data ELSE flash.crc,
                     data |-> Store(flash.data, at, SubSeq(env.data, at + 1, at + len))]
  BY DEF BlockStored
<1>2. len = ImageLen  BY DEF ImageLen
<1>3. /\ flash.data \in Buffer /\ flash.crc \in Buffer \cup {None} /\ env.data \in Buffer
      /\ next \in 0 .. FlashBlocks /\ Size \in Nat /\ FlashBlocks \in Nat
  BY EnvAssumption DEF IInv, TypeOK
<1>4. next \in 0 .. FlashBlocks - 1  BY <1>3
<1> HIDE DEF len
<1>5. at \in Nat /\ len \in Nat /\ at + len <= Size /\ at + len = (next + 1) * len
  BY <1>2, <1>4, Blocks
<1>6. ~lost => \A i \in 1 .. at : flash.data[i] = env.data[i]
  BY <1>2 DEF IInv, SaveCopies
<1> HIDE DEF at
<1> DEFINE g == Store(flash.data, at, SubSeq(env.data, at + 1, at + len))
<1>7. g \in Buffer /\ \A i \in 1 .. Size : g[i] = IF i > at /\ i <= at + len THEN env.data[i]
                                                 ELSE flash.data[i]
  <2> DEFINE f == flash.data
             d == env.data
  <2>1. f \in Buffer /\ d \in Buffer  BY <1>3
  <2> HIDE DEF f, d
  <2>2. LET h == Store(f, at, SubSeq(d, at + 1, at + len)) IN
        /\ h \in Buffer
        /\ \A i \in 1 .. Size : h[i] = IF i > at /\ i <= at + len THEN d[i] ELSE f[i]
    BY <2>1, <1>5, BlockCopied
  <2> QED  BY <2>2 DEF f, d
<1>8. BlockStored = [crc |-> IF next = 0 THEN env.data ELSE flash.crc, data |-> g]  BY <1>1
<1> HIDE DEF g
<1>9. ASSUME ~lost, NEW i \in 1 .. at + len
      PROVE  g[i] = env.data[i]
  <2>1. i \in 1 .. Size  BY <1>5, <1>3
  <2> QED  BY <2>1, <1>5, <1>6, <1>7, <1>9
<1>10. (next + 1) * ImageLen = at + len  BY <1>2, <1>5
<1> QED  BY <1>3, <1>7, <1>8, <1>9, <1>10

\* Whatever blocks are read, what verifies is the buffer whose CRC was stored.
LEMMA Restarted ==
  ASSUME TypeOK, Restart
  PROVE  \/ env' = [data |-> flash.crc, tail |-> TailOf(flash.crc)] /\ flash.crc # None
         \/ env' = LoadDefault
<1>1. SUFFICES ASSUME NEW moved \in SUBSET (0 .. FlashBlocks - 1),
                      Verified(ReadFlash(moved)),
                      env' = [data |-> ReadFlash(moved).data, tail |-> TailOf(ReadFlash(moved).data)]
               PROVE  env' = [data |-> flash.crc, tail |-> TailOf(flash.crc)] /\ flash.crc # None
  BY DEF Restart
<1> DEFINE img == ReadFlash(moved)
<1>2. /\ img.crc = IF 0 \in moved THEN flash.crc ELSE None
      /\ img.data \in Buffer
  <2>1. \A i \in 1 .. Size : NUL \in Byte /\ flash.data[i] \in Byte
    BY DEF TypeOK, Buffer, Byte
  <2> QED  BY <2>1 DEF ReadFlash, Buffer
<1>3. img.crc = img.data  BY <1>1 DEF Verified
<1> HIDE DEF img
<1>4. img.crc # None  BY <1>2, <1>3, NoneAssumption
<1>5. img.data = flash.crc  BY <1>2, <1>3, <1>4
<1> QED  BY <1>1, <1>4, <1>3, <1>5 DEF img

LEMMA StepInv == IInv /\ [Next]_vars => IInv'
<1> SUFFICES ASSUME IInv, [Next]_vars PROVE IInv'
  OBVIOUS
<1>1. /\ env \in [data : Buffer, tail : Nat]
      /\ flash \in [crc : Buffer \cup {None}, data : Buffer]
      /\ pc \in {"run", "save"} /\ next \in 0 .. FlashBlocks /\ saved \in BOOLEAN
      /\ lost \in BOOLEAN
      /\ FlashBlocks \in Nat \ {0} /\ Size \in Nat \ {0}
  BY EnvAssumption DEF IInv, TypeOK
<1>2. (Sane => Good(env)) /\ CrcGood /\ SaveCopies /\ TypeOK  BY DEF IInv, InShape
<1>3. ASSUME NEW k \in Keys, NEW v \in Values, SetVar(k, v) PROVE IInv'
  <2>1. /\ pc = "run" /\ Sane /\ env' = EnvSet(env, k, v) /\ saved' = FALSE
        /\ UNCHANGED <<flash, pc, next, lost>>
    BY <1>3 DEF SetVar
  <2>2. env' \in [data : Buffer, tail : Nat] /\ (env'.tail < Size => Good(env'))
    BY <2>1, <1>2, SetIs
  <2>3. TypeOK'  BY <2>1, <2>2, <1>1 DEF TypeOK
  <2>4. InShape' /\ CrcGood' /\ SaveCopies'
    BY <2>1, <2>2, <1>2 DEF InShape, Sane, CrcGood, SaveCopies
  <2> QED  BY <2>3, <2>4 DEF IInv
<1>4. ASSUME NEW k \in Keys, ClearVar(k) PROVE IInv'
  <2>1. /\ pc = "run" /\ Sane /\ env' = EnvClear(env, k) /\ saved' = FALSE
        /\ UNCHANGED <<flash, pc, next, lost>>
    BY <1>4 DEF ClearVar
  <2>2. Good(env')  BY <2>1, <1>2, ClearIs
  <2>3. env' \in [data : Buffer, tail : Nat]  BY <2>2 DEF Good
  <2>4. TypeOK'  BY <2>1, <2>3, <1>1 DEF TypeOK
  <2>5. InShape' /\ CrcGood' /\ SaveCopies'
    BY <2>1, <2>2, <1>2 DEF InShape, CrcGood, SaveCopies
  <2> QED  BY <2>4, <2>5 DEF IInv
<1>5. CASE SaveStart
  <2>1. /\ Sane /\ pc' = "save" /\ next' = 0 /\ saved' = FALSE /\ env' = env /\ flash' = flash
        /\ lost' = lost
    BY <1>5 DEF SaveStart
  <2>2. TypeOK'
    <3>1. next' \in 0 .. FlashBlocks  BY <2>1, <1>1
    <3> QED  BY <2>1, <3>1, <1>1 DEF TypeOK
  <2>3. InShape' /\ CrcGood'  BY <2>1, <1>2 DEF InShape, Sane, CrcGood
  <2>4. SaveCopies'
    <3>1. next' * ImageLen = 0  BY <2>1, Blocks
    <3>2. Sane'  BY <2>1 DEF Sane
    <3> QED  BY <2>1, <3>1, <3>2 DEF SaveCopies
  <2> QED  BY <2>2, <2>3, <2>4 DEF IInv
<1>6. CASE SaveBlock
  <2>1. /\ pc = "save" /\ next < FlashBlocks /\ next' = next + 1
        /\ env' = env /\ pc' = pc /\ saved' = saved
        /\ (flash' = BlockStored /\ lost' = lost) \/ (lost' = TRUE /\ flash' = flash)
    BY <1>6 DEF SaveBlock
  <2>2. Sane /\ Good(env) /\ saved = FALSE  BY <2>1, <1>2 DEF SaveCopies
  <2>3. next' \in 0 .. FlashBlocks  BY <2>1, <1>1
  <2>4. InShape' /\ Sane'  BY <2>1, <2>2 DEF InShape, Sane
  <2>5. CASE flash' = BlockStored /\ lost' = lost
    <3>1. /\ flash' \in [crc : Buffer \cup {None}, data : Buffer]
          /\ flash'.crc = IF next = 0 THEN env.data ELSE flash.crc
          /\ ~lost => \A i \in 1 .. next' * ImageLen : flash'.data[i] = env.data[i]
      BY <2>1, <2>5, BlockStoredIs
    <3>2. TypeOK'  BY <2>1, <2>3, <2>5, <3>1, <1>1 DEF TypeOK
    <3>3. CrcGood'
      <4>1. [data |-> env.data, tail |-> TailOf(env.data)] = env  BY <2>2, ImageOf
      <4>2. CASE next = 0
        <5>1. Good([data |-> flash'.crc, tail |-> TailOf(flash'.crc)])
          BY <2>2, <3>1, <4>1, <4>2
        <5> QED  BY <5>1 DEF CrcGood
      <4>3. CASE next # 0
        <5>1. flash'.crc = flash.crc  BY <3>1, <4>3
        <5> QED  BY <5>1, <1>2 DEF CrcGood
      <4> QED  BY <4>2, <4>3
    <3>4. ~lost => flash'.crc = env.data
      <4>1. next > 0 \/ next = 0  BY <1>1
      <4> QED  BY <2>1, <3>1, <4>1, <1>2 DEF SaveCopies
    <3>5. SaveCopies'  BY <2>1, <2>2, <2>4, <2>5, <3>1, <3>4 DEF SaveCopies
    <3> QED  BY <2>4, <3>2, <3>3, <3>5 DEF IInv
  <2>6. CASE lost' = TRUE /\ flash' = flash
    <3>1. TypeOK'  BY <2>1, <2>3, <2>6, <1>1 DEF TypeOK
    <3>2. CrcGood'  BY <2>6, <1>2 DEF CrcGood
    <3>3. SaveCopies'  BY <2>1, <2>2, <2>4, <2>6 DEF SaveCopies
    <3> QED  BY <2>4, <3>1, <3>2, <3>3 DEF IInv
  <2> QED  BY <2>1, <2>5, <2>6
<1>7. CASE SaveFails \/ SaveReturns
  <2>1. pc' = "run" /\ next' = 0 /\ saved' \in BOOLEAN /\ env' = env /\ flash' = flash
        /\ lost' = FALSE
    BY <1>7 DEF SaveFails, SaveReturns
  <2>2. TypeOK'
    <3>1. next' \in 0 .. FlashBlocks  BY <2>1, <1>1
    <3>2. lost' \in BOOLEAN  BY <2>1
    <3> QED  BY <2>1, <3>1, <3>2, <1>1 DEF TypeOK
  <2>3. InShape' /\ CrcGood' /\ SaveCopies'
    BY <2>1, <1>2 DEF InShape, Sane, CrcGood, SaveCopies
  <2> QED  BY <2>2, <2>3 DEF IInv
<1>8. CASE Restart
  <2>1. pc' = "run" /\ next' = 0 /\ saved' = FALSE /\ lost' = FALSE /\ flash' = flash
    BY <1>8 DEF Restart
  <2>2. Good(env')
    <3>1. CASE env' = [data |-> flash.crc, tail |-> TailOf(flash.crc)] /\ flash.crc # None
      BY <3>1, <1>2 DEF CrcGood
    <3>2. CASE env' = LoadDefault  BY <3>2, DefaultGood
    <3> QED  BY <3>1, <3>2, <1>2, <1>8, Restarted
  <2>3. env' \in [data : Buffer, tail : Nat]  BY <2>2 DEF Good
  <2>4. TypeOK'
    <3>1. next' \in 0 .. FlashBlocks  BY <2>1, <1>1
    <3> QED  BY <2>1, <2>3, <3>1, <1>1 DEF TypeOK
  <2>5. InShape' /\ CrcGood' /\ SaveCopies'
    BY <2>1, <2>2, <1>2 DEF InShape, CrcGood, SaveCopies
  <2> QED  BY <2>4, <2>5 DEF IInv
<1>9. CASE UNCHANGED vars
  BY <1>9 DEF vars, IInv, TypeOK, InShape, Sane, CrcGood, SaveCopies
<1> QED  BY <1>3, <1>4, <1>5, <1>6, <1>7, <1>8, <1>9 DEF Next

\* The variables have their types, whatever is set, cleared, saved or lost:
\* a walk, a copy or the search for the tail never leaves the buffer's shape.
THEOREM TypeCorrect == Spec => []TypeOK
<1>1. IInv => TypeOK  BY DEF IInv
<1> QED  BY <1>1, InitInv, StepInv, PTL DEF Spec

\* While everything has fitted, the buffer is packed up to its tail, a search
\* finds that tail, and each key has at most one item, a whole one
\* (env_set.c:55-238): for every size, item length and default environment.
THEOREM Shaped == Spec => []BufferInShape
<1>1. IInv => BufferInShape  BY ShapeOf DEF IInv
<1> QED  BY <1>1, InitInv, StepInv, PTL DEF Spec
-----------------------------------------------------------------------------
(* The promise *)

\* The map a restart can find, as the promise sees it.
LEMMA TheMap ==
  ASSUME NEW e
  PROVE  (CHOOSE m \in {MapOf(x) : x \in {e}} : TRUE) = MapOf(e)
<1> DEFINE v == MapOf(e)
<1>1. {MapOf(x) : x \in {e}} = {v}  BY Zenon
<1> HIDE DEF v
<1>2. (CHOOSE m \in {v} : TRUE) = v  OBVIOUS
<1> QED  BY <1>1, <1>2 DEF v

LEMMA ImageMapIs ==
  /\ ImageMap = IF flash.crc = None THEN None
                ELSE MapOf([data |-> flash.crc, tail |-> TailOf(flash.crc)])
  /\ ImageMap' = IF flash'.crc = None THEN None
                 ELSE MapOf([data |-> flash'.crc, tail |-> TailOf(flash'.crc)])
BY TheMap DEF ImageMap

LEMMA SameBuffer ==
  ASSUME NEW f \in Buffer, NEW d \in Buffer, \A i \in 1 .. Size : f[i] = d[i]
  PROVE  f = d
<1>1. f = [i \in 1 .. Size |-> f[i]] /\ d = [i \in 1 .. Size |-> d[i]]  BY DEF Buffer
<1>2. [i \in 1 .. Size |-> f[i]] = [i \in 1 .. Size |-> d[i]]  BY Zenon
<1> QED  BY <1>1, <1>2

LEMMA InitPromised == Init => Promise!Init
<1> SUFFICES ASSUME Init PROVE Promise!Init
  OBVIOUS
<1>1. env = LoadDefault /\ flash = [crc |-> None, data |-> Nuls(Size)] /\ saved = FALSE
  BY DEF Init, Blank
<1>2. Sane  BY <1>1, DefaultGood, SaneGood DEF Sane
<1>3. ~Verified(flash)
  <2>1. Nuls(Size) \in Buffer  BY InitInv DEF IInv, TypeOK, Init, Blank
  <2> QED  BY <1>1, <2>1, NoneAssumption DEF Verified
<1>4. ImageMap = None /\ lost = FALSE  BY <1>1, ImageMapIs DEF Init
<1> QED  BY <1>1, <1>2, <1>3, <1>4 DEF Promise!Init, DefaultMap

\* The image and whether it is whole change with the flash only.
LEMMA SameFlash ==
  ASSUME flash' = flash
  PROVE  ImageMap' = ImageMap /\ Verified(flash)' = Verified(flash)
BY DEF ImageMap, Verified

LEMMA StepPromised ==
  IInv /\ IInv' /\ [Next]_vars => [Promise!Next]_<<MapOf(env), ImageMap, Verified(flash), saved, lost, ~Sane>>
<1> SUFFICES ASSUME IInv, IInv', Next
             PROVE  Promise!Next
  BY SameFlash DEF vars, Sane
<1> USE DEF Promise!Next
<1>1. (Sane => Good(env)) /\ CrcGood /\ SaveCopies /\ TypeOK  BY DEF IInv, InShape
<1>2. ASSUME NEW k \in Keys, NEW v \in Values, SetVar(k, v) PROVE Promise!Next
  <2>1. Sane /\ env' = EnvSet(env, k, v) /\ saved' = FALSE /\ flash' = flash /\ lost' = lost
    BY <1>2 DEF SetVar
  <2>2. ImageMap' = ImageMap /\ Verified(flash)' = Verified(flash)  BY <2>1, SameFlash
  <2>3. CASE Sane'
    <3>1. MapOf(env)' \in {MapOf(env), [MapOf(env) EXCEPT ![k] = v]}
      BY <2>1, <2>3, <1>1, MapAfterSet DEF Sane
    <3>2. CASE MapOf(env)' = MapOf(env)
      BY <2>1, <2>2, <2>3, <3>2 DEF Promise!Refuse, Promise!Working
    <3>3. CASE MapOf(env)' = [MapOf(env) EXCEPT ![k] = v]
      <4>1. \E a \in Keys, b \in Values \cup {None} :
              MapOf(env)' = [MapOf(env) EXCEPT ![a] = b]
        BY <3>3
      <4> QED  BY <2>1, <2>2, <2>3, <4>1 DEF Promise!Edit, Promise!Working
    <3> QED  BY <3>1, <3>2, <3>3
  <2>4. CASE ~Sane'
    <3>1. MapOf(env)' \in [Keys -> Values \cup {None}]
      <4>1. env' \in [data : Buffer, tail : Nat]  BY <2>1, <1>1, SetIs
      <4> QED  BY <4>1, MapType
    <3> QED  BY <2>1, <2>2, <2>4, <3>1 DEF Promise!Overrun, Promise!Maps
  <2> QED  BY <2>3, <2>4
<1>3. ASSUME NEW k \in Keys, ClearVar(k) PROVE Promise!Next
  <2>1. Sane /\ env' = EnvClear(env, k) /\ saved' = FALSE /\ flash' = flash /\ lost' = lost
    BY <1>3 DEF ClearVar
  <2>2. ImageMap' = ImageMap /\ Verified(flash)' = Verified(flash)  BY <2>1, SameFlash
  <2>3. Sane'  BY <2>1, <1>1, ClearIs, SaneGood DEF Sane
  <2>4. MapOf(env)' = [MapOf(env) EXCEPT ![k] = None]  BY <2>1, <1>1, MapAfterClear
  <2>5. \E a \in Keys, b \in Values \cup {None} :
          MapOf(env)' = [MapOf(env) EXCEPT ![a] = b]
    BY <2>4
  <2> QED  BY <2>1, <2>2, <2>3, <2>5 DEF Promise!Edit, Promise!Working
<1>4. CASE SaveStart \/ SaveFails
  <2>1. saved' = FALSE /\ env' = env /\ flash' = flash /\ lost' \in {lost, FALSE}
    BY <1>4 DEF SaveStart, SaveFails
  <2>2. Sane  BY <1>4, <1>1 DEF SaveStart, SaveFails, SaveCopies
  <2>3. /\ ImageMap' = ImageMap /\ Verified(flash)' = Verified(flash)
        /\ MapOf(env)' = MapOf(env) /\ Sane'
    BY <2>1, <2>2, SameFlash DEF Sane
  <2> QED  BY <2>1, <2>2, <2>3 DEF Promise!Refuse, Promise!Working
<1>5. CASE SaveBlock
  <2>1. /\ pc = "save" /\ next < FlashBlocks /\ env' = env /\ saved' = saved
        /\ (flash' = BlockStored /\ lost' = lost) \/ (lost' = TRUE /\ flash' = flash)
    BY <1>5 DEF SaveBlock
  <2>2. /\ Sane /\ Good(env) /\ Sane' /\ saved = FALSE
        /\ ~lost => (next > 0 => flash.crc = env.data)
    BY <2>1, <1>1 DEF SaveCopies, Sane
  <2>3. env.data # None /\ Verified(flash)' \in BOOLEAN /\ lost \in BOOLEAN /\ next \in Nat
    BY <1>1, NoneAssumption, EnvAssumption DEF TypeOK, Verified
  <2>4. flash.crc = env.data => ImageMap = MapOf(env)
    BY <2>2, <2>3, ImageOf, ImageMapIs
  <2>5. CASE flash' = BlockStored /\ lost' = lost
    <3>1. flash'.crc = IF next = 0 THEN env.data ELSE flash.crc
      BY <2>1, <2>5, BlockStoredIs
    <3>2. ImageMap' = IF flash'.crc = None THEN None
                      ELSE MapOf([data |-> flash'.crc, tail |-> TailOf(flash'.crc)])
      BY ImageMapIs
    <3>3. CASE next = 0
      <4>1. ImageMap' = MapOf(env)  BY <2>2, <2>3, <3>1, <3>2, <3>3, ImageOf
      <4> QED  BY <2>1, <2>2, <2>3, <2>5, <4>1 DEF Promise!WriteImage, Promise!Working
    <3>4. CASE next # 0
      <4>1. ImageMap' = ImageMap  BY <3>1, <3>2, <3>4, ImageMapIs
      <4>2. ImageMap' = MapOf(env) \/ lost'  BY <2>2, <2>3, <2>4, <2>5, <3>4, <4>1
      <4> QED  BY <2>1, <2>2, <2>3, <2>5, <4>1, <4>2 DEF Promise!WriteImage, Promise!Working
    <3> QED  BY <3>3, <3>4
  <2>6. CASE lost' = TRUE /\ flash' = flash
    <3>1. ImageMap' = ImageMap  BY <2>6, SameFlash
    <3> QED  BY <2>1, <2>2, <2>3, <2>6, <3>1 DEF Promise!WriteImage, Promise!Working
  <2> QED  BY <2>1, <2>5, <2>6
<1>6. CASE SaveReturns
  <2>1. /\ pc = "save" /\ next = FlashBlocks /\ saved' = TRUE /\ lost' = FALSE
        /\ env' = env /\ flash' = flash
    BY <1>6 DEF SaveReturns
  <2>2. Sane /\ Good(env)  BY <2>1, <1>1 DEF SaveCopies
  <2>3. ASSUME ~lost PROVE ImageMap = MapOf(env) /\ Verified(flash)
    <3>1. /\ flash.crc = env.data
          /\ \A i \in 1 .. next * ImageLen : flash.data[i] = env.data[i]
      BY <2>1, <2>3, <1>1, EnvAssumption DEF SaveCopies
    <3>2. next * ImageLen = Size  BY <2>1, Blocks
    <3>3. flash.data \in Buffer /\ env.data \in Buffer  BY <1>1 DEF TypeOK
    <3>4. \A i \in 1 .. Size : flash.data[i] = env.data[i]  BY <3>1, <3>2
    <3>5. flash.data = env.data  BY <3>3, <3>4, SameBuffer
    <3>6. flash.crc # None  BY <3>1, <3>3, NoneAssumption
    <3> QED  BY <2>2, <3>1, <3>5, <3>6, ImageOf, ImageMapIs DEF Verified
  <2>4. /\ ImageMap' = ImageMap /\ Verified(flash)' = Verified(flash)
        /\ MapOf(env)' = MapOf(env) /\ Sane'
    BY <2>1, <2>2, SameFlash DEF Sane
  <2> QED  BY <2>1, <2>2, <2>3, <2>4 DEF Promise!SaveDone, Promise!Working
<1>7. CASE Restart
  <2>1. saved' = FALSE /\ lost' = FALSE /\ flash' = flash  BY <1>7 DEF Restart
  <2>2. ImageMap' = ImageMap /\ Verified(flash)' = Verified(flash)  BY <2>1, SameFlash
  <2>3. Good(env') /\ MapOf(env)' \in {DefaultMap, ImageMap}
    <3>1. CASE env' = [data |-> flash.crc, tail |-> TailOf(flash.crc)] /\ flash.crc # None
      <4>1. Good(env')  BY <3>1, <1>1 DEF CrcGood
      <4>2. MapOf(env)' = ImageMap  BY <3>1, ImageMapIs
      <4> QED  BY <4>1, <4>2
    <3>2. CASE env' = LoadDefault
      <4>1. MapOf(env)' = DefaultMap  BY <3>2 DEF DefaultMap
      <4> QED  BY <3>2, <4>1, DefaultGood
    <3> QED  BY <3>1, <3>2, <1>1, <1>7, Restarted
  <2>4. Sane'  BY <2>3, SaneGood DEF Sane
  <2>5. MapOf(env)' # None
    <3>1. MapOf(env)' \in [Keys -> Values \cup {None}]
      <4>1. env' \in [data : Buffer, tail : Nat]  BY <2>3 DEF Good
      <4> QED  BY <4>1, MapType
    <3> QED  BY <3>1, NoneAssumption
  <2> QED  BY <2>1, <2>2, <2>3, <2>4, <2>5 DEF Promise!Restart
<1> QED  BY <1>2, <1>3, <1>4, <1>5, <1>6, <1>7 DEF Next

\* The packed buffer, its save block by block and the restart implement a map
\* with one saved image (env_set.c:154-582), also when the driver loses blocks
\* it reports: the refinement, step by step, for every size, number of blocks,
\* item length and default environment.
THEOREM Kept == Spec => KeepsPromise
<1>1. Init => Promise!Init  BY InitPromised
<1>2. IInv /\ IInv' /\ [Next]_vars => [Promise!Next]_<<MapOf(env), ImageMap, Verified(flash), saved, lost, ~Sane>>
  BY StepPromised
<1> QED  BY <1>1, <1>2, InitInv, StepInv, PTL DEF Spec, KeepsPromise, Promise!Spec
=============================================================================
