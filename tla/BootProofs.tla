----------------------------- MODULE BootProofs -----------------------------
(***************************************************************************)
(* Proofs about the boot, for every memory, every set of images that may   *)
(* be on the card and every environment it may store.                      *)
(***************************************************************************)
EXTENDS Boot, TLAPS

-----------------------------------------------------------------------------
(* Images and memory *)

ImageCell(i, p, j) == [img |-> i, part |-> <<p, j>>]

\* What the headers of an image tell.
LEMMA ImageFacts ==
  ASSUME NEW i \in DOMAIN Images
  PROVE  LET x == Images[i] IN
         /\ i # NoImage /\ x.android \in BOOLEAN
         /\ x.k \in Nat /\ x.k > 0 /\ x.r \in Nat /\ x.load \in Nat /\ x.rd \in Nat
         /\ Area \in Nat /\ Top \in Nat /\ Area + 1 + x.k + x.r <= Top
<1> DEFINE x == Images[i]
<1>1. /\ x.android \in BOOLEAN /\ {x.k, x.r, x.load, x.rd} \subseteq Nat
      /\ x.k > 0 /\ Area + 1 + x.k + x.r \in Cells
  BY BootAssumption
<1> QED BY <1>1, BootAssumption DEF Cells

\* The parts of one kind.
Kinds == {"android", "header", "kernel", "ramdisk"}
Pieces == {ImageCell(i, p, j) : i \in DOMAIN Images, p \in Kinds, j \in Nat}
Run(i, p, n) == [j \in 1 .. n |-> [img |-> i, part |-> <<p, j>>]]

LEMMA RunIs ==
  ASSUME NEW i \in DOMAIN Images, NEW p \in Kinds, NEW n \in Nat
  PROVE  /\ Run(i, p, n) \in Seq(Pieces) /\ Len(Run(i, p, n)) = n
         /\ \A j \in 1 .. n : Run(i, p, n)[j] = ImageCell(i, p, j)
<1> DEFINE f == Run(i, p, n)
<1>1. \A j \in 1 .. n : f[j] = ImageCell(i, p, j)
  BY DEF ImageCell, Run
<1>2. \A j \in 1 .. n : ImageCell(i, p, j) \in Pieces
  BY DEF Pieces
<1>3. f = [j \in 1 .. n |-> f[j]]
  BY DEF Run
<1> HIDE DEF f
<1>4. f \in Seq(Pieces)
  BY <1>1, <1>2, <1>3
<1>5. Len(f) = n
  BY <1>3
<1> QED BY <1>1, <1>4, <1>5 DEF f

\* c is a with b behind it.
Joins(S, c, a, b) ==
  /\ c \in Seq(S) /\ Len(c) = Len(a) + Len(b)
  /\ \A j \in 1 .. Len(a) : c[j] = a[j]
  /\ \A j \in 1 .. Len(b) : c[Len(a) + j] = b[j]

LEMMA Joined ==
  ASSUME NEW S, NEW s \in Seq(S), NEW t \in Seq(S)
  PROVE  Joins(S, s \o t, s, t)
BY DEF Joins

\* What lies where in an image of four parts, two of a single cell.
Four(d, a, h, k, r) ==
  /\ Len(d) = 2 + Len(k) + Len(r) /\ DOMAIN d = 1 .. 2 + Len(k) + Len(r)
  /\ d[1] = a[1] /\ d[2] = h[1]
  /\ \A j \in 1 .. Len(k) : d[2 + j] = k[j]
  /\ \A j \in 1 .. Len(r) : d[2 + Len(k) + j] = r[j]

LEMMA JoinedFour ==
  ASSUME NEW S, NEW a \in Seq(S), NEW h \in Seq(S), NEW k \in Seq(S), NEW r \in Seq(S),
         Len(a) = 1, Len(h) = 1,
         NEW d, d = ((a \o h) \o k) \o r
  PROVE  Four(d, a, h, k, r)
<1> DEFINE b == a \o h
           c == b \o k
<1>1. b \in Seq(S) /\ Joins(S, b, a, h)
  BY Joined
<1> HIDE DEF b
<1>2. c \in Seq(S) /\ Joins(S, c, b, k)
  BY <1>1, Joined
<1>3. d = c \o r
  BY DEF b
<1> HIDE DEF c
<1>4. Joins(S, d, c, r)
  BY <1>2, <1>3, Joined
<1>5. Len(b) = 2 /\ b[1] = a[1] /\ b[2] = h[1]
  BY <1>1 DEF Joins
<1>6. Len(c) = 2 + Len(k) /\ c[1] = a[1] /\ c[2] = h[1]
  BY <1>2, <1>5 DEF Joins
<1>7. \A j \in 1 .. Len(k) : c[2 + j] = k[j]
  BY <1>2, <1>5 DEF Joins
<1>8. d[1] = c[1] /\ d[2] = c[2] /\ \A j \in 1 .. Len(k) : d[2 + j] = c[2 + j]
  BY <1>4, <1>6 DEF Joins
<1>9. \A j \in 1 .. Len(r) : d[2 + Len(k) + j] = r[j]
  BY <1>4, <1>6 DEF Joins
<1>10. d \in Seq(S) /\ Len(d) = 2 + Len(k) + Len(r)
  BY <1>4, <1>6 DEF Joins
<1>11. DOMAIN d = 1 .. 2 + Len(k) + Len(r)
  BY <1>10
<1> QED BY <1>6, <1>7, <1>8, <1>9, <1>10, <1>11 DEF Four

\* The order of the cells of an image.
LEMMA Layout ==
  ASSUME NEW i \in DOMAIN Images
  PROVE  LET x == Images[i]
             s == CellsOf(i)
         IN /\ x.android =>
                 /\ Len(s) = 2 + x.k + x.r /\ DOMAIN s = 1 .. 2 + x.k + x.r
                 /\ s[1] = ImageCell(i, "android", 1) /\ s[2] = ImageCell(i, "header", 1)
                 /\ \A j \in 1 .. x.k : s[2 + j] = ImageCell(i, "kernel", j)
                 /\ \A j \in 1 .. x.r : s[2 + x.k + j] = ImageCell(i, "ramdisk", j)
            /\ ~x.android =>
                 /\ Len(s) = 1 + x.k /\ DOMAIN s = 1 .. 1 + x.k
                 /\ s[1] = ImageCell(i, "header", 1)
                 /\ \A j \in 1 .. x.k : s[1 + j] = ImageCell(i, "kernel", j)
<1> DEFINE x == Images[i]
           s == CellsOf(i)
           a == Run(i, "android", 1)
           h == Run(i, "header", 1)
           k == Run(i, "kernel", x.k)
           r == Run(i, "ramdisk", x.r)
<1>1. x.android \in BOOLEAN /\ x.k \in Nat /\ x.r \in Nat
  BY ImageFacts
<1>2. a \in Seq(Pieces) /\ Len(a) = 1 /\ a[1] = ImageCell(i, "android", 1)
  <2>1. PICK n \in Nat : n = 1
    OBVIOUS
  <2>2. /\ Run(i, "android", n) \in Seq(Pieces) /\ Len(Run(i, "android", n)) = n
        /\ \A j \in 1 .. n : Run(i, "android", n)[j] = ImageCell(i, "android", j)
    BY RunIs DEF Kinds
  <2> QED BY <2>1, <2>2
<1>3. h \in Seq(Pieces) /\ Len(h) = 1 /\ h[1] = ImageCell(i, "header", 1)
  <2>1. PICK n \in Nat : n = 1
    OBVIOUS
  <2>2. /\ Run(i, "header", n) \in Seq(Pieces) /\ Len(Run(i, "header", n)) = n
        /\ \A j \in 1 .. n : Run(i, "header", n)[j] = ImageCell(i, "header", j)
    BY RunIs DEF Kinds
  <2> QED BY <2>1, <2>2
<1>4. k \in Seq(Pieces) /\ Len(k) = x.k /\ \A j \in 1 .. x.k : k[j] = ImageCell(i, "kernel", j)
  BY <1>1, RunIs DEF Kinds
<1>5. r \in Seq(Pieces) /\ Len(r) = x.r /\ \A j \in 1 .. x.r : r[j] = ImageCell(i, "ramdisk", j)
  BY <1>1, RunIs DEF Kinds
<1>6. x.android => s = ((a \o h) \o k) \o r
  BY DEF CellsOf, Run
<1>7. ~x.android => s = ((<<>> \o h) \o k) \o <<>>
  BY DEF CellsOf, Run
<1> HIDE DEF a, h, k, r, s, x
<1>8. CASE x.android
  <2>1. Four(s, a, h, k, r)
    BY <1>2, <1>3, <1>4, <1>5, <1>6, <1>8, JoinedFour
  <2>2. \A j \in 1 .. x.k : s[2 + j] = ImageCell(i, "kernel", j)
    BY <1>4, <2>1 DEF Four
  <2>3. \A j \in 1 .. x.r : s[2 + x.k + j] = ImageCell(i, "ramdisk", j)
    BY <1>4, <1>5, <2>1 DEF Four
  <2> QED BY <1>2, <1>3, <1>4, <1>5, <1>8, <2>1, <2>2, <2>3 DEF Four, s, x
<1>9. CASE ~x.android
  <2>1. s = h \o k
    BY <1>3, <1>4, <1>7, <1>9
  <2>2. Joins(Pieces, s, h, k)
    BY <1>3, <1>4, <2>1, Joined
  <2>3. s \in Seq(Pieces) /\ Len(s) = 1 + x.k /\ s[1] = h[1]
    BY <1>1, <1>3, <1>4, <2>2 DEF Joins
  <2>4. \A j \in 1 .. x.k : s[1 + j] = k[j]
    BY <1>1, <1>3, <1>4, <2>2 DEF Joins
  <2>5. DOMAIN s = 1 .. 1 + x.k
    BY <2>3
  <2> QED BY <1>3, <1>4, <1>9, <2>3, <2>4, <2>5 DEF s, x
<1> QED BY <1>1, <1>8, <1>9 DEF x

\* Where a cell that memcpy has written comes from.
LEMMA CopiedSome ==
  ASSUME NEW m, NEW to \in Nat, NEW from \in Nat, NEW n \in Nat,
         NEW c \in Cells, c \in Span(to, n)
  PROVE  /\ \E b \in Span(from, n) : Copy(m, to, from, n)[c] = m[b]
         /\ ~(to > from /\ to < from + n) => Copy(m, to, from, n)[c] = m[from + (c - to)]
<1> DEFINE up == to > from /\ to < from + n
           b == IF up THEN from + ((c - to) % (to - from)) ELSE from + (c - to)
<1>1. Copy(m, to, from, n)[c] = IF c \in Span(to, n) THEN m[b] ELSE m[c]
  BY DEF Copy
<1>2. ~up => b = from + (c - to)
  OBVIOUS
<1>3. b \in Span(from, n)
  <2>2. c \in Nat /\ to <= c /\ c <= to + n - 1
    BY BootAssumption DEF Span, Cells
  <2>3. CASE up
    <3> DEFINE g == to - from
               d == c - to
    <3>1. g \in Nat \ {0} /\ d \in Nat /\ from + g <= from + n - 1
      BY <2>2, <2>3
    <3>2. d % g \in 0 .. g - 1
      <4> HIDE DEF d, g
      <4> QED BY <3>1
    <3>3. b = from + (d % g)
      BY <2>3
    <3> HIDE DEF b, d, g
    <3> QED BY <3>1, <3>2, <3>3 DEF Span
  <2>4. CASE ~up
    BY <2>2, <2>4 DEF Span
  <2> QED BY <2>3, <2>4
<1> HIDE DEF b
<1> QED BY <1>1, <1>2, <1>3

\* What memcpy does when it is safe.
Moves(new, m, to, from, n) == \A j \in 1 .. n : new[to + j - 1] = m[from + j - 1]

LEMMA CopiedWhole ==
  ASSUME NEW m, NEW to \in Nat, NEW from \in Nat, NEW n \in Nat,
         Span(to, n) \subseteq Cells, ~(to > from /\ to < from + n)
  PROVE  Moves(Copy(m, to, from, n), m, to, from, n)
<1>1. SUFFICES ASSUME NEW j \in 1 .. n
               PROVE  Copy(m, to, from, n)[to + j - 1] = m[from + j - 1]
  BY DEF Moves
<1>2. to + j - 1 \in Span(to, n)
  BY DEF Span
<1>3. PICK c \in Cells : c = to + j - 1 /\ c \in Span(to, n)
  BY <1>2
<1>4. Copy(m, to, from, n)[c] = m[from + (c - to)]
  BY <1>3, CopiedSome
<1>5. from + (c - to) = from + j - 1
  BY <1>3
<1> QED BY <1>3, <1>4, <1>5

LEMMA CopiedNot ==
  ASSUME NEW m, NEW to, NEW from, NEW n, NEW c \in Cells, c \notin Span(to, n)
  PROVE  Copy(m, to, from, n)[c] = m[c]
BY DEF Copy

\* The cells of an image have its name, and lie in the memory when it is read.
LEMMA Held ==
  ASSUME NEW i \in DOMAIN Images, NEW j \in DOMAIN CellsOf(i)
  PROVE  /\ CellsOf(i)[j].img = i
         /\ Area + j - 1 \in Cells /\ Holding(i)[Area + j - 1] = CellsOf(i)[j]
<1> DEFINE x == Images[i]
           s == CellsOf(i)
<1>1. j \in Nat /\ j > 0 /\ j <= 2 + x.k + x.r
  BY Layout, ImageFacts, SMTT(60)
<1>2. Area + j - 1 \in Cells /\ (Area + j - 1) - Area + 1 = j
  BY <1>1, ImageFacts DEF Cells
<1>3. Holding(i)[Area + j - 1] = s[j]
  <2>1. Holding(i) = [c \in Cells |-> IF c - Area + 1 \in DOMAIN s THEN s[c - Area + 1] ELSE Bare(c)]
    BY ImageFacts DEF Holding
  <2> HIDE DEF s
  <2> QED BY <1>2, <2>1 DEF s
<1>4. s[j].img = i
  <2>1. \A p, n : ImageCell(i, p, n).img = i
    BY DEF ImageCell
  <2>2. CASE x.android
    <3>1. j \in {1, 2} \/ j - 2 \in 1 .. x.k \/ j - 2 - x.k \in 1 .. x.r
      BY <1>1, ImageFacts
    <3>2. j = 2 + (j - 2) /\ j = 2 + x.k + (j - 2 - x.k)
      BY <1>1, ImageFacts
    <3> HIDE DEF s
    <3> QED BY <2>1, <2>2, <3>1, <3>2, Layout DEF s
  <2>3. CASE ~x.android
    <3>1. j = 1 \/ j - 1 \in 1 .. x.k
      BY <1>1, <2>3, ImageFacts, Layout, SMTT(60)
    <3>2. j = 1 + (j - 1)
      BY <1>1
    <3> HIDE DEF s
    <3> QED BY <2>1, <2>3, <3>1, <3>2, Layout DEF s
  <2> QED BY <2>2, <2>3, ImageFacts
<1> QED BY <1>2, <1>3, <1>4

\* What a cell holds that is no part of an image.
Apart == {Blank, Tags, Own}

LEMMA HeldOrBare ==
  ASSUME NEW i \in DOMAIN Images \cup {NoImage}, NEW c \in Cells
  PROVE  Holding(i)[c] \in Apart \/ Holding(i)[c].img \in DOMAIN Images
<1>1. CASE i = NoImage
  BY <1>1 DEF Holding, Bare, Apart
<1>2. CASE i # NoImage /\ c - Area + 1 \in DOMAIN CellsOf(i)
  BY <1>2, Held DEF Holding
<1>3. CASE i # NoImage /\ c - Area + 1 \notin DOMAIN CellsOf(i)
  BY <1>3 DEF Holding, Bare, Apart
<1> QED BY <1>1, <1>2, <1>3

-----------------------------------------------------------------------------
(* The inductive invariant *)

Positions == {"start", "modules", "read", "android", "image", "exit", "tags", "cache",
              "kernel", "returned", "exception", "reset"}
Arguments == {"none", "short", "long", "cut"}
Envs == [src : {"none", "default", "saved"}, bootargs : Arguments,
         initrd : DOMAIN Images \cup {NoImage}, sized : BOOLEAN, mmz : BOOLEAN,
         crc : BOOLEAN]

Types ==
  /\ pc \in Positions /\ todo \in Seq(Modules)
  /\ driver \in BOOLEAN /\ card \in BOOLEAN /\ power \in BOOLEAN /\ ops \in BOOLEAN
  /\ irqOn \in BOOLEAN /\ cache \in BOOLEAN /\ odd \in BOOLEAN
  /\ hwFailed \in BOOLEAN /\ arrived \in BOOLEAN
  /\ dirty \subseteq Cached /\ image \in Cells
  /\ onCard \in [image : DOMAIN Images, env : CardEnvs] /\ env \in Envs
  /\ kernel \in DOMAIN Images \cup {NoImage}
  /\ pc \in {"start", "modules", "read", "android"} => env.bootargs # "cut"

\* The environment is the last module; a driver that is waited for no more
\* is set.
Queue ==
  /\ \A j \in 1 .. Len(todo) : todo[j] = "env" <=> j = Len(todo)
  /\ pc = "modules" /\ todo # <<>> =>
       /\ driver \/ \E j \in 1 .. Len(todo) : todo[j] = "himci"
       /\ ops \/ \E j \in 1 .. Len(todo) : todo[j] = "mmc_unif"
  /\ pc = "start" => todo = <<>> /\ ~card
  /\ pc # "start" /\ todo = <<>> /\ ~hwFailed /\ onCard.env.valid => env.src = "saved"
  /\ pc \notin {"start", "modules"} => todo = <<>>

\* A card that has been found has had the cache switched off, and without it
\* nothing is kept back.
Coherent ==
  /\ card => ~cache
  /\ ~cache => dirty = {}

\* Interrupts, cache and power are switched off in time.
Quiet ==
  /\ pc \in {"tags", "cache", "kernel"} => ~irqOn
  /\ pc = "kernel" => ~cache
  /\ pc = "reset" => ~power

\* Only images have parts.
Contents ==
  /\ DOMAIN mem = Cells
  /\ \A c \in Cells : mem[c] \in Apart \/ mem[c].img \in DOMAIN Images

\* What has arrived completely lies where the card holds it.
Received ==
  pc = "android" /\ arrived =>
    \A j \in DOMAIN CellsOf(onCard.image) : mem[Area + j - 1] = CellsOf(onCard.image)[j]

\* An image whose ramdisk can be moved without harm.
Movable ==
  LET x == Images[onCard.image] IN
  /\ arrived /\ x.android /\ env.bootargs = "short"
  /\ Area \notin Span(x.rd, x.r)
  /\ x.rd \notin RamdiskSource(x) + 1 .. RamdiskSource(x) + x.r - 1

Placed ==
  LET x == Images[onCard.image] IN
  /\ env.initrd = onCard.image /\ Span(x.rd, x.r) \subseteq Cells
  /\ \A j \in 1 .. x.r : mem[x.rd + j - 1] = ImageCell(onCard.image, "ramdisk", j)

RamdiskMoved ==
  LET x == Images[onCard.image] IN
  /\ pc = "image" /\ Movable =>
       Placed /\ (IsPart(image, "header") => mem[image].img = onCard.image)
  /\ pc \in {"exit", "tags"} /\ Movable /\ Span(x.rd, x.r) \cap Span(x.load, x.k) = {}
       => Placed
  /\ /\ pc \in {"cache", "kernel"} /\ Movable
     /\ Span(x.rd, x.r) \cap (Span(x.load, x.k) \cup TagCells(env)) = {}
     => Placed

\* The kernel whose entry has been taken lies where it wants to be.
KernelMoved ==
  LET x == Images[kernel] IN
  /\ pc \in {"exit", "tags", "cache", "kernel"} =>
       kernel \in DOMAIN Images /\ Span(x.load, x.k) \subseteq Cells
  /\ /\ pc \in {"exit", "tags", "cache", "kernel"}
     /\ pc \in {"cache", "kernel"} => Span(x.load, x.k) \cap TagCells(env) = {}
     /\ x.load \notin image + 2 .. image + x.k
     => \A j \in 1 .. x.k : mem[x.load + j - 1] = ImageCell(kernel, "kernel", j)

Sums ==
  /\ pc = "tags" => env.crc
  /\ pc \in {"cache", "kernel"} /\ ~(odd /\ env.mmz) => env.crc

\* What the loader promises while no image has been moved over it.
Promised == Quiet /\ RamdiskMoved /\ KernelMoved /\ Sums

IInv ==
  /\ Types /\ Queue /\ Coherent /\ Contents /\ Received
  /\ Intact => Promised

-----------------------------------------------------------------------------
(* What every step does to the types *)

SavedEnv ==
  [src |-> "saved", bootargs |-> onCard.env.bootargs, initrd |-> NoImage,
   sized |-> onCard.env.sized, mmz |-> onCard.env.mmz, crc |-> TRUE]

\* The environments that env_init and check_android_image leave.
LEMMA EnvTypes ==
  ASSUME Types
  PROVE  /\ Default \in Envs /\ Default.bootargs # "cut"
         /\ SavedEnv \in Envs /\ SavedEnv.bootargs # "cut" /\ SavedEnv.src = "saved"
         /\ onCard.image \in DOMAIN Images
<1>1. onCard.env \in [valid : BOOLEAN, bootargs : {"none", "short", "long"},
                      sized : BOOLEAN, mmz : BOOLEAN]
  BY BootAssumption DEF Types
<1>2. Default \in Envs
  BY DEF Default, Envs, Arguments
<1> QED BY <1>1, <1>2 DEF Types, Default, SavedEnv, Envs, Arguments

LEMMA InitrdTypes ==
  ASSUME env \in Envs, env.bootargs # "cut", NEW i \in DOMAIN Images \cup {NoImage}
  PROVE  WithInitrd(i) \in Envs
<1>1. CASE env.bootargs = "none"
  BY <1>1 DEF WithInitrd
<1>2. CASE env.bootargs = "short"
  BY <1>2 DEF WithInitrd, Envs
<1>3. CASE env.bootargs = "long"
  BY <1>3 DEF WithInitrd, Envs, Arguments
<1> QED BY <1>1, <1>2, <1>3 DEF Envs, Arguments

\* Whatever the order of the linker, the environment is initialised last.
LEMMA Linked ==
  ASSUME NEW s \in ByPriority
  PROVE  /\ s \in Seq(Modules) /\ Len(s) = 4
         /\ \A j \in 1 .. Len(s) : s[j] = "env" <=> j = Len(s)
         /\ \E j \in 1 .. Len(s) : s[j] = "himci"
         /\ \E j \in 1 .. Len(s) : s[j] = "mmc_unif"
<1>1. /\ s \in [1 .. 4 -> Modules]
      /\ \A a, b \in 1 .. 4 : s[a] = s[b] => a = b
      /\ \A a, b \in 1 .. 4 : a < b => Priority[s[a]] <= Priority[s[b]]
  BY DEF ByPriority, IsInjective
<1>2. s \in Seq(Modules) /\ Len(s) = 4
  <2>1. PICK n \in Nat : n = 4
    OBVIOUS
  <2>2. s = [j \in 1 .. n |-> s[j]] /\ \A j \in 1 .. n : s[j] \in Modules
    BY <1>1, <2>1
  <2>3. s \in Seq(Modules)
    BY <2>2
  <2>4. Len(s) = n
    BY <2>2
  <2> QED BY <2>1, <2>3, <2>4
<1>3. s[1] \in Modules /\ s[2] \in Modules /\ s[3] \in Modules /\ s[4] \in Modules
  BY <1>1
<1>4. s[1] # s[2] /\ s[1] # s[3] /\ s[1] # s[4] /\ s[2] # s[3] /\ s[2] # s[4] /\ s[3] # s[4]
  BY <1>1
<1>5. \A m \in Modules : m = s[1] \/ m = s[2] \/ m = s[3] \/ m = s[4]
  BY <1>3, <1>4 DEF Modules
<1>6. \A j \in 1 .. 3 : s[j] # "env"
  <2>1. SUFFICES ASSUME NEW j \in 1 .. 3, s[j] = "env" PROVE FALSE
    OBVIOUS
  <2>2. Priority[s[j]] <= Priority[s[4]] /\ s[j] # s[4]
    BY <1>1
  <2>3. Priority["env"] = 2 /\ \A m \in Modules : m # "env" => Priority[m] = 1
    BY DEF Priority, Modules
  <2> QED BY <1>3, <2>1, <2>2, <2>3
<1>7. \A j \in 1 .. 4 : s[j] = "env" <=> j = 4
  <2>1. s[4] = "env"
    <3>1. "env" \in Modules
      BY DEF Modules
    <3> QED BY <1>5, <1>6, <3>1
  <2> QED BY <1>6, <2>1
<1>8. ASSUME NEW m \in Modules PROVE \E j \in 1 .. 4 : s[j] = m
  BY <1>5
<1> QED BY <1>2, <1>7, <1>8 DEF Modules

LEMMA TypesStep ==
  ASSUME Types, Contents, [Next]_vars
  PROVE  Types'
<1>1. CASE Start
  <2>1. todo' \in Seq(Modules)
    BY <1>1, Linked DEF Start
  <2> QED BY <1>1, <2>1 DEF Types, Start, Positions
<1>2. CASE InitModule
  <2>0. pc = "modules" /\ env.bootargs # "cut"
    BY <1>2 DEF InitModule, Types
  <2>1. todo' \in Seq(Modules)
    BY <1>2 DEF Types, InitModule
  <2>2. UNCHANGED <<pc, power, irqOn, onCard, image, kernel, odd, arrived>>
    BY <1>2 DEF InitModule
  <2>3. /\ driver' \in BOOLEAN /\ card' \in BOOLEAN /\ ops' \in BOOLEAN /\ cache' \in BOOLEAN
        /\ hwFailed' \in BOOLEAN /\ dirty' \subseteq Cached
    BY <1>2 DEF Types, InitModule, HimciInit, MmcIfInit, MmcUnifInit, EnvInit, EnvMedia,
       MmcFlashInit, Tries
  <2>4. env' \in Envs /\ env'.bootargs # "cut"
    <3>1. env' = env \/ env' = Default \/ env' = SavedEnv
      BY <1>2 DEF SavedEnv, InitModule, HimciInit, MmcIfInit, MmcUnifInit, EnvInit
    <3> QED BY <2>0, <3>1, EnvTypes DEF Types
  <2> QED BY <2>0, <2>1, <2>2, <2>3, <2>4 DEF Types
<1>3. CASE BootargsPrepare
  <2>1. pc' = "read" /\ irqOn' = TRUE
        /\ UNCHANGED <<todo, driver, card, power, ops, cache, dirty, onCard, image,
                       kernel, odd, hwFailed, arrived>>
    BY <1>3 DEF BootargsPrepare
  <2>2. env' \in Envs /\ env'.bootargs # "cut"
    BY <1>3 DEF BootargsPrepare, Types, Envs
  <2> QED BY <2>1, <2>2 DEF Types, Positions
<1>4. CASE ReadKernel
  <2>1. /\ pc = "read" /\ pc' = "android"
        /\ UNCHANGED <<todo, driver, power, ops, irqOn, onCard, env, image, kernel, odd,
                       hwFailed>>
    BY <1>4 DEF ReadKernel
  <2>2. card' \in BOOLEAN /\ cache' \in BOOLEAN /\ dirty' \subseteq Cached
    BY <1>4 DEF ReadKernel, MmcFlashInit, Tries, Types
  <2>3. arrived' \in BOOLEAN
    BY <1>4 DEF ReadKernel
  <2> QED BY <2>1, <2>2, <2>3 DEF Types, Positions
<1>5. CASE CheckAndroidImage
  <2>1. /\ pc = "android" /\ pc' \in {"image", "returned", "exception"}
        /\ UNCHANGED <<todo, driver, card, power, ops, irqOn, cache, onCard, kernel,
                       odd, hwFailed, arrived>>
    BY <1>5 DEF CheckAndroidImage
  <2>2. dirty' \subseteq Cached
    BY <1>5 DEF CheckAndroidImage, Written, Types
  <2>3. image' \in Cells /\ env' \in Envs
    <3>0. Area \in Cells /\ env.bootargs # "cut"
      BY <2>1, BootAssumption DEF Types
    <3>1. CASE ~IsPart(Area, "android")
      BY <1>5, <3>0, <3>1 DEF CheckAndroidImage, Types
    <3>2. CASE IsPart(Area, "android")
      <4>1. mem[Area].img \in DOMAIN Images
        BY <3>0, <3>2 DEF Contents, IsPart, Apart, Blank, Tags, Own
      <4>2. Area + 1 \in Cells
        BY <4>1, ImageFacts DEF Cells
      <4>3. \/ UNCHANGED <<image, env>>
            \/ env' = WithInitrd(mem[Area].img) /\ image' = Area + 1
            \/ env' = WithInitrd(NoImage) /\ image' \in Cells
        BY <1>5, <3>2 DEF CheckAndroidImage
      <4> QED BY <3>0, <4>1, <4>2, <4>3, InitrdTypes DEF Types
    <3> QED BY <3>1, <3>2
  <2> QED BY <2>1, <2>2, <2>3 DEF Types, Positions
<1>6. CASE CheckImage
  <2>1. /\ pc = "image" /\ pc' \in {"exit", "returned", "exception"}
        /\ UNCHANGED <<todo, driver, card, power, ops, irqOn, cache, onCard, env,
                       image, odd, hwFailed, arrived>>
    BY <1>6 DEF CheckImage
  <2>2. dirty' \subseteq Cached
    BY <1>6 DEF CheckImage, Written, Types
  <2>3. kernel' \in DOMAIN Images \cup {NoImage}
    <3>1. kernel' = kernel \/ (IsPart(image, "header") /\ kernel' = mem[image].img)
      BY <1>6 DEF CheckImage
    <3> QED BY <3>1 DEF Types, Contents, IsPart, Apart, Blank, Tags, Own
  <2> QED BY <2>1, <2>2, <2>3 DEF Types, Positions
<1>7. CASE ModuleExit
  <2>1. env' \in Envs
    BY <1>7 DEF ModuleExit, EnvExit, Types, Envs
  <2> QED BY <1>7, <2>1 DEF ModuleExit, Types, Positions
<1>8. CASE KernTags
  <2>1. env' \in Envs
    BY <1>8 DEF KernTags, Types, Envs
  <2>2. dirty' \subseteq Cached
    BY <1>8 DEF KernTags, Written, Types
  <2> QED BY <1>8, <2>1, <2>2 DEF KernTags, Types, Positions
<1>9. CASE CacheOff
  BY <1>9 DEF CacheOff, Types, Positions
<1>10. CASE Reboot
  BY <1>10 DEF Reboot, Types, Positions
<1>11. CASE UNCHANGED vars
  BY <1>11 DEF vars, Types
<1>12. CASE Astray
  <2>1. /\ pc' \in {"kernel", "returned", "reset"} /\ power' \in BOOLEAN
        /\ UNCHANGED <<todo, driver, card, ops, irqOn, cache, dirty, onCard, image, odd,
                       hwFailed, arrived>>
    BY <1>12 DEF Astray
  <2>2. kernel' \in DOMAIN Images \cup {NoImage}
    BY <1>12 DEF Astray, Types
  <2>3. env' \in Envs
    BY <1>12 DEF Astray, Types, Envs, Arguments
  <2> QED BY <2>1, <2>2, <2>3 DEF Types, Positions
<1> QED BY <1>1, <1>2, <1>3, <1>4, <1>5, <1>6, <1>7, <1>8, <1>9, <1>10, <1>11, <1>12 DEF Next

-----------------------------------------------------------------------------
(* The modules and the cache *)

\* After the modules nothing of them changes, nor where the environment is
\* from.
LEMMA LaterSteps ==
  ASSUME Types, [Next]_vars, pc \notin {"start", "modules"}
  PROVE  /\ pc' \notin {"start", "modules"} /\ UNCHANGED <<todo, hwFailed, onCard>>
         /\ env'.src = env.src
<1>1. CASE BootargsPrepare \/ Start \/ InitModule
  BY <1>1 DEF BootargsPrepare, Start, InitModule
<1>2. CASE ReadKernel
  BY <1>2 DEF ReadKernel
<1>3. CASE CheckAndroidImage
  <2>1. env.bootargs \in {"none", "short", "long"}
    BY <1>3 DEF CheckAndroidImage, Types, Envs, Arguments
  <2>2. \A i : WithInitrd(i).src = env.src
    BY <2>1 DEF WithInitrd, Types, Envs
  <2>3. /\ pc' \in {"image", "returned", "exception"}
        /\ env' = env \/ \E i : env' = WithInitrd(i)
        /\ UNCHANGED <<todo, hwFailed, onCard>>
    BY <1>3 DEF CheckAndroidImage
  <2> QED BY <2>2, <2>3
<1>4. CASE CheckImage
  BY <1>4 DEF CheckImage
<1>5. CASE ModuleExit
  BY <1>5 DEF ModuleExit, EnvExit, Types, Envs
<1>6. CASE KernTags
  BY <1>6 DEF KernTags, Types, Envs
<1>7. CASE CacheOff
  BY <1>7 DEF CacheOff
<1>8. CASE Reboot
  BY <1>8 DEF Reboot
<1>9. CASE UNCHANGED vars
  BY <1>9 DEF vars
<1>10. CASE Astray
  BY <1>10 DEF Astray, Types, Envs
<1> QED BY <1>1, <1>2, <1>3, <1>4, <1>5, <1>6, <1>7, <1>8, <1>9, <1>10 DEF Next

\* What is true when the environment is read: everything else has been
\* initialised.
LEMMA EnvLast ==
  ASSUME Types, Queue, pc = "modules", todo # <<>>
  PROVE  /\ Head(todo) = todo[1] /\ Len(todo) \in Nat /\ Len(todo) > 0
         /\ Tail(todo) \in Seq(Modules) /\ Len(Tail(todo)) = Len(todo) - 1
         /\ \A j \in 1 .. Len(todo) - 1 : Tail(todo)[j] = todo[j + 1]
         /\ Head(todo) = "env" <=> Tail(todo) = <<>>
         /\ Head(todo) = "env" => driver /\ ops
<1>1. /\ todo \in Seq(Modules) /\ Head(todo) = todo[1] /\ Len(todo) \in Nat /\ Len(todo) > 0
      /\ Tail(todo) \in Seq(Modules) /\ Len(Tail(todo)) = Len(todo) - 1
      /\ \A j \in 1 .. Len(todo) - 1 : Tail(todo)[j] = todo[j + 1]
  BY DEF Types
<1>2. Head(todo) = "env" <=> Len(todo) = 1
  <2>1. 1 \in 1 .. Len(todo)
    BY <1>1
  <2>2. todo[1] = "env" <=> 1 = Len(todo)
    BY <2>1 DEF Queue
  <2> QED BY <1>1, <2>2
<1>3. Tail(todo) = <<>> <=> Len(todo) = 1
  BY <1>1
<1>4. Head(todo) = "env" => driver /\ ops
  <2>1. SUFFICES ASSUME Head(todo) = "env" PROVE driver /\ ops
    OBVIOUS
  <2>2. \A j \in 1 .. Len(todo) : todo[j] = "env"
    BY <1>1, <1>2, <2>1
  <2> QED BY <2>2 DEF Queue, Types
<1> QED BY <1>1, <1>2, <1>3, <1>4

LEMMA QueueStep ==
  ASSUME Types, Queue, Coherent, [Next]_vars
  PROVE  Queue'
<1>1. CASE Start
  BY <1>1, Linked DEF Start, Queue
<1>2. CASE InitModule
  <2>0. /\ pc = "modules" /\ pc' = "modules" /\ todo # <<>> /\ todo' = Tail(todo)
        /\ onCard' = onCard
    BY <1>2 DEF InitModule
  <2>1. \A j \in 1 .. Len(todo') : todo'[j] = "env" <=> j = Len(todo')
    BY <2>0, EnvLast DEF Queue
  <2>2. driver' \/ (Head(todo) # "himci" /\ driver' = driver)
    BY <1>2 DEF InitModule, HimciInit, MmcIfInit, MmcUnifInit, EnvInit
  <2>3. ops' \/ (Head(todo) # "mmc_unif" /\ ops' = ops)
    BY <1>2 DEF InitModule, HimciInit, MmcIfInit, MmcUnifInit, EnvInit
  <2>4. ASSUME NEW m, \E j \in 1 .. Len(todo) : todo[j] = m, Head(todo) # m
        PROVE  \E j \in 1 .. Len(todo') : todo'[j] = m
    <3>1. PICK j \in 1 .. Len(todo) : todo[j] = m
      BY <2>4
    <3>2. j - 1 \in 1 .. Len(todo') /\ todo'[j - 1] = m
      BY <2>0, <2>4, <3>1, EnvLast
    <3> QED BY <3>2
  <2>5. /\ driver' \/ \E j \in 1 .. Len(todo') : todo'[j] = "himci"
        /\ ops' \/ \E j \in 1 .. Len(todo') : todo'[j] = "mmc_unif"
    BY <2>0, <2>2, <2>3, <2>4 DEF Queue
  <2>6. ASSUME todo' = <<>>, ~hwFailed', onCard'.env.valid
        PROVE  env'.src = "saved"
    <3>1. Head(todo) = "env" /\ driver /\ ops
      BY <2>0, <2>6, EnvLast
    <3>2. EnvInit
      BY <1>2, <3>1 DEF InitModule
    <3>3. PICK works, reads \in BOOLEAN :
            /\ MmcFlashInit(works)
            /\ env' = IF ops /\ card' /\ reads /\ ~cache' /\ onCard.env.valid
                      THEN SavedEnv ELSE Default
            /\ hwFailed' = (~reads \/ (ops /\ Tries /\ ~works))
      BY <3>1, <3>2 DEF EnvInit, EnvMedia, SavedEnv
    <3>4. reads /\ (Tries => works)
      BY <2>6, <3>1, <3>3
    <3>5. card' /\ ~cache'
      BY <3>1, <3>3, <3>4 DEF MmcFlashInit, Tries, Coherent, Types
    <3> QED BY <2>0, <2>6, <3>1, <3>3, <3>4, <3>5 DEF SavedEnv
  <2> QED BY <2>0, <2>1, <2>5, <2>6 DEF Queue
<1>3. CASE BootargsPrepare
  BY <1>3 DEF BootargsPrepare, Queue, Types, Envs
<1>4. CASE pc \notin {"start", "modules"}
  BY <1>4, LaterSteps DEF Queue
<1>5. CASE UNCHANGED vars
  BY <1>5 DEF vars, Queue
<1>6. CASE ReadKernel \/ CheckAndroidImage \/ CheckImage \/ ModuleExit \/ KernTags
           \/ CacheOff \/ Reboot \/ Astray
  BY <1>4, <1>6 DEF ReadKernel, CheckAndroidImage, CheckImage, ModuleExit, KernTags,
     CacheOff, Reboot, Astray
<1> QED BY <1>1, <1>2, <1>3, <1>5, <1>6 DEF Next

LEMMA CoherentStep ==
  ASSUME Types, Queue, Coherent, [Next]_vars
  PROVE  Coherent'
<1>1. CASE Start
  BY <1>1 DEF Start, Queue, Coherent
<1>2. CASE InitModule
  BY <1>2 DEF InitModule, HimciInit, MmcIfInit, MmcUnifInit, EnvInit, EnvMedia,
     MmcFlashInit, Tries, Coherent, Types
<1>3. CASE BootargsPrepare
  BY <1>3 DEF BootargsPrepare, Coherent
<1>4. CASE ReadKernel
  BY <1>4 DEF ReadKernel, MmcFlashInit, Tries, Coherent, Types
<1>5. CASE CheckAndroidImage
  <2>1. /\ pc' \in {"image", "returned", "exception"} /\ UNCHANGED <<card, cache>>
        /\ dirty' = dirty \/ \E S : dirty' = Written(S)
    BY <1>5 DEF CheckAndroidImage
  <2> QED BY <2>1 DEF Written, Coherent
<1>6. CASE CheckImage
  <2>1. /\ pc' \in {"exit", "returned", "exception"} /\ UNCHANGED <<card, cache>>
        /\ dirty' = dirty \/ \E S : dirty' = Written(S)
    BY <1>6 DEF CheckImage
  <2> QED BY <2>1 DEF Written, Coherent
<1>7. CASE ModuleExit
  BY <1>7 DEF ModuleExit, Coherent
<1>8. CASE KernTags
  BY <1>8 DEF KernTags, Written, Coherent
<1>9. CASE CacheOff
  BY <1>9 DEF CacheOff, Coherent, Types
<1>10. CASE Reboot
  BY <1>10 DEF Reboot, Coherent
<1>11. CASE UNCHANGED vars
  BY <1>11 DEF vars, Coherent
<1>12. CASE Astray
  BY <1>12 DEF Astray, Coherent
<1> QED BY <1>1, <1>2, <1>3, <1>4, <1>5, <1>6, <1>7, <1>8, <1>9, <1>10, <1>11, <1>12 DEF Next

\* A loader that has been overwritten stays so when it goes astray, and every
\* step it makes as written is one of an intact loader.
LEMMA StaysAstray ==
  ASSUME Contents, Astray
  PROVE  ~Intact'
<1>1. PICK c \in Loader : mem[c] # Own
  BY DEF Astray, Intact
<1>2. c \in Cells
  BY BootAssumption DEF Cells
<1>3. mem'[c] \in {Blank, mem[c]}
  BY <1>2 DEF Astray
<1>4. Blank # Own
  <2>1. Blank.part[1] = "blank" /\ Own.part[1] = "loader"
    BY DEF Blank, Own
  <2> QED BY <2>1
<1> QED BY <1>1, <1>3, <1>4 DEF Intact

LEMMA IntactSteps ==
  ASSUME CheckImage \/ ModuleExit \/ KernTags \/ CacheOff \/ Reboot
  PROVE  Intact
BY DEF CheckImage, ModuleExit, KernTags, CacheOff, Reboot

LEMMA QuietStep ==
  ASSUME Types, Contents, Intact => Quiet, Intact', [Next]_vars
  PROVE  Quiet'
<1>1. CASE ModuleExit
  BY <1>1 DEF ModuleExit, Quiet
<1>2. CASE KernTags
  BY <1>2, IntactSteps DEF KernTags, Quiet
<1>3. CASE CacheOff
  BY <1>3, IntactSteps DEF CacheOff, Quiet
<1>4. CASE Reboot
  BY <1>4 DEF Reboot, Quiet
<1>5. CASE UNCHANGED vars
  BY <1>5 DEF vars, Quiet, Intact
<1>6. CASE Start \/ InitModule \/ BootargsPrepare \/ ReadKernel \/ CheckAndroidImage
           \/ CheckImage
  <2>1. pc' \notin {"tags", "cache", "kernel", "reset"}
    BY <1>6 DEF Start, InitModule, BootargsPrepare, ReadKernel, CheckAndroidImage, CheckImage
  <2>2. /\ pc' # "tags" /\ pc' # "cache" /\ pc' # "kernel" /\ pc' # "reset"
    BY <2>1
  <2> QED BY <2>2, Zenon DEF Quiet
<1> QED BY <1>1, <1>2, <1>3, <1>4, <1>5, <1>6, StaysAstray DEF Next

-----------------------------------------------------------------------------
(* The contents of the memory *)

\* Where an image has its parts, a cell of an image is not blank.
LEMMA PartOfImage ==
  ASSUME Contents, NEW c \in Cells, NEW p \in Kinds, IsPart(c, p)
  PROVE  mem[c].img \in DOMAIN Images
<1>1. Blank.part # <<p, 1>> /\ Tags.part # <<p, 1>> /\ Own.part # <<p, 1>>
  BY DEF Blank, Tags, Own, Kinds
<1> QED BY <1>1 DEF Contents, IsPart, Apart

LEMMA CopyContents ==
  ASSUME Contents, NEW to \in Nat, NEW from \in Nat, NEW n \in Nat,
         Span(from, n) \subseteq Cells, mem' = Copy(mem, to, from, n)
  PROVE  Contents'
<1>1. DOMAIN mem' = Cells
  BY DEF Copy
<1>2. ASSUME NEW c \in Cells
      PROVE  mem'[c] \in Apart \/ mem'[c].img \in DOMAIN Images
  <2>1. \E b \in Cells : mem'[c] = mem[b]
    <3>1. CASE c \in Span(to, n)
      <4>1. \E b \in Span(from, n) : Copy(mem, to, from, n)[c] = mem[b]
        BY <3>1, CopiedSome
      <4> QED BY <4>1
    <3>2. CASE c \notin Span(to, n)
      <4>1. Copy(mem, to, from, n)[c] = mem[c]
        BY <3>2, CopiedNot
      <4> QED BY <4>1
    <3> QED BY <3>1, <3>2
  <2> QED BY <2>1 DEF Contents
<1> QED BY <1>1, <1>2 DEF Contents, Apart

\* The ramdisk that is moved lies in the memory.
LEMMA RamdiskSpan ==
  ASSUME NEW i \in DOMAIN Images
  PROVE  LET x == Images[i] IN
         /\ x.rd \in Nat /\ RamdiskSource(x) \in Nat /\ x.r \in Nat
         /\ Span(RamdiskSource(x), x.r) \subseteq Cells
BY ImageFacts DEF Span, Cells, RamdiskSource

\* So does the kernel whose data is right.
LEMMA KernelSpan ==
  ASSUME Types, NEW i \in DOMAIN Images, DataRight(i)
  PROVE  LET x == Images[i] IN
         /\ x.load \in Nat /\ x.k \in Nat /\ image + 1 \in Nat
         /\ Span(image + 1, x.k) \subseteq Cells
         /\ \A j \in 1 .. x.k : mem[image + j] = ImageCell(i, "kernel", j)
<1> DEFINE x == Images[i]
<1>1. image \in Nat /\ x.load \in Nat /\ x.k \in Nat
  BY ImageFacts, BootAssumption DEF Types, Cells
<1>2. \A j \in 1 .. x.k : image + j \in Cells /\ mem[image + j] = ImageCell(i, "kernel", j)
  BY DEF DataRight, ImageCell
<1>3. Span(image + 1, x.k) \subseteq Cells
  <2>1. SUFFICES ASSUME NEW c \in Span(image + 1, x.k) PROVE c \in Cells
    OBVIOUS
  <2>2. c - image \in 1 .. x.k /\ c = image + (c - image)
    BY <1>1 DEF Span
  <2> QED BY <1>2, <2>2
<1> QED BY <1>1, <1>2, <1>3

\* What check_android_image and check_image do.
LEMMA AndroidMoves ==
  ASSUME Types, Contents, CheckAndroidImage
  PROVE  LET i == mem[Area].img
             x == Images[i]
         IN \/ /\ pc' \in {"returned", "exception"} /\ UNCHANGED env
               /\ \/ UNCHANGED mem
                  \/ i \in DOMAIN Images /\ mem' = Copy(mem, x.rd, RamdiskSource(x), x.r)
            \/ ~IsPart(Area, "android") /\ pc' = "image" /\ UNCHANGED <<mem, env>>
            \/ /\ IsPart(Area, "android") /\ i \in DOMAIN Images /\ pc' = "image"
               /\ Span(x.rd, x.r) \subseteq Cells
               /\ mem' = Copy(mem, x.rd, RamdiskSource(x), x.r)
               /\ Area \notin Span(x.rd, x.r) => env' = WithInitrd(i) /\ image' = Area + 1
<1>1. Area \in Cells
  BY BootAssumption
<1>2. IsPart(Area, "android") => mem[Area].img \in DOMAIN Images
  BY <1>1, PartOfImage DEF Kinds
<1> QED BY <1>2 DEF CheckAndroidImage

LEMMA ImageMoves ==
  ASSUME Types, Contents, CheckImage
  PROVE  LET i == mem[image].img
             x == Images[i]
         IN \/ /\ pc' \in {"returned", "exception"} /\ UNCHANGED kernel
               /\ \/ UNCHANGED mem
                  \/ /\ i \in DOMAIN Images /\ DataRight(i)
                     /\ mem' = Copy(mem, x.load, image + 1, x.k)
            \/ /\ IsPart(image, "header") /\ i \in DOMAIN Images /\ DataRight(i)
               /\ Span(x.load, x.k) \subseteq Cells
               /\ IF x.load # image + 1
                  THEN mem' = Copy(mem, x.load, image + 1, x.k) ELSE mem' = mem
               /\ pc' = "exit" /\ kernel' = i
<1>1. IsPart(image, "header") => mem[image].img \in DOMAIN Images
  BY PartOfImage DEF Kinds, Types
<1> QED BY <1>1 DEF CheckImage

LEMMA ContentsStep ==
  ASSUME Types, Contents, [Next]_vars
  PROVE  Contents'
<1>1. CASE mem' = mem
  BY <1>1 DEF Contents, Apart
<1>2. CASE ReadKernel
  <2>1. PICK got \in SUBSET Span(Area, Len(CellsOf(onCard.image))) :
          mem' = [c \in Cells |-> IF c \in got THEN Holding(onCard.image)[c] ELSE mem[c]]
    BY <1>2 DEF ReadKernel
  <2>2. onCard.image \in DOMAIN Images
    BY DEF Types
  <2> QED BY <2>1, <2>2, HeldOrBare DEF Contents, Apart
<1>3. CASE CheckAndroidImage
  <2>1. mem' = mem \/ \E i \in DOMAIN Images :
          mem' = Copy(mem, Images[i].rd, RamdiskSource(Images[i]), Images[i].r)
    BY <1>3, AndroidMoves
  <2> QED BY <1>1, <2>1, CopyContents, RamdiskSpan
<1>4. CASE CheckImage
  <2>1. mem' = mem \/ \E i \in DOMAIN Images :
          DataRight(i) /\ mem' = Copy(mem, Images[i].load, image + 1, Images[i].k)
    BY <1>4, ImageMoves
  <2> QED BY <1>1, <2>1, CopyContents, KernelSpan
<1>5. CASE KernTags
  <2>1. mem' = [c \in Cells |-> IF c \in TagCells(env) THEN Tags ELSE mem[c]]
    BY <1>5 DEF KernTags
  <2> QED BY <2>1 DEF Contents, Apart
<1>6. CASE Start \/ InitModule \/ BootargsPrepare \/ ModuleExit \/ CacheOff \/ Reboot
           \/ UNCHANGED vars
  BY <1>1, <1>6 DEF Start, InitModule, BootargsPrepare, ModuleExit, CacheOff, Reboot, vars
<1>7. CASE Astray
  <2>1. PICK lost : mem' = [c \in Cells |-> IF c \in lost THEN Blank ELSE mem[c]]
    BY <1>7 DEF Astray
  <2> QED BY <2>1 DEF Contents, Apart
<1> QED BY <1>2, <1>3, <1>4, <1>5, <1>6, <1>7 DEF Next

LEMMA ReceivedStep ==
  ASSUME Types, Received, [Next]_vars
  PROVE  Received'
<1>1. CASE ReadKernel
  <2> DEFINE i == onCard.image
  <2>0. i \in DOMAIN Images /\ onCard' = onCard
    BY <1>1 DEF Types, ReadKernel
  <2>1. SUFFICES ASSUME arrived', NEW j \in DOMAIN CellsOf(i)
                 PROVE  mem'[Area + j - 1] = CellsOf(i)[j]
    BY <2>0 DEF Received
  <2>2. mem' = [c \in Cells |-> IF c \in Span(Area, Len(CellsOf(i)))
                                THEN Holding(i)[c] ELSE mem[c]]
    BY <1>1, <2>1 DEF ReadKernel
  <2>3. Area + j - 1 \in Span(Area, Len(CellsOf(i)))
    <3>1. DOMAIN CellsOf(i) = 1 .. Len(CellsOf(i)) /\ Len(CellsOf(i)) \in Nat
      BY <2>0, Layout, ImageFacts
    <3>2. Area \in Nat
      BY <2>0, ImageFacts
    <3> QED BY <3>1, <3>2 DEF Span
  <2> QED BY <2>0, <2>2, <2>3, Held
<1>2. CASE UNCHANGED vars
  BY <1>2 DEF vars, Received
<1>3. CASE Start \/ InitModule \/ BootargsPrepare \/ CheckAndroidImage \/ CheckImage
           \/ ModuleExit \/ KernTags \/ CacheOff \/ Reboot \/ Astray
  <2>1. pc' # "android"
    BY <1>3 DEF Start, InitModule, BootargsPrepare, CheckAndroidImage, CheckImage,
       ModuleExit, KernTags, CacheOff, Reboot, Astray
  <2> QED BY <2>1 DEF Received
<1> QED BY <1>1, <1>2, <1>3 DEF Next

-----------------------------------------------------------------------------
(* The kernel and the ramdisk *)

\* The environment is changed after the kernel has been moved, but what the
\* tags and the ramdisk depend on is not.
LEMMA LaterEnv ==
  ASSUME Types, ModuleExit \/ KernTags \/ CacheOff
  PROVE  /\ env'.bootargs = env.bootargs /\ env'.initrd = env.initrd
         /\ TagCells(env') = TagCells(env) /\ UNCHANGED <<onCard, arrived, kernel, image>>
         /\ DOMAIN mem = Cells =>
              \A c \in Cells : c \notin TagCells(env) \/ ~KernTags => mem'[c] = mem[c]
<1>1. env'.bootargs = env.bootargs /\ env'.initrd = env.initrd
  BY DEF ModuleExit, KernTags, CacheOff, EnvExit, Types, Envs
<1>2. UNCHANGED <<onCard, arrived, kernel, image>>
  BY DEF ModuleExit, KernTags, CacheOff
<1>3. \A c \in Cells : c \notin TagCells(env) \/ ~KernTags => mem'[c] = mem[c]
  BY DEF ModuleExit, KernTags, CacheOff
<1> QED BY <1>1, <1>2, <1>3 DEF TagCells

LEMMA KernelStep ==
  ASSUME Types, Contents, Intact => KernelMoved, Intact', [Next]_vars
  PROVE  KernelMoved'
<1>1. CASE CheckImage
  <2> DEFINE i == mem[image].img
             x == Images[i]
  <2>1. CASE pc' \in {"returned", "exception"}
    BY <2>1 DEF KernelMoved
  <2>2. CASE pc' \notin {"returned", "exception"}
    <3>1. /\ i \in DOMAIN Images /\ DataRight(i) /\ Span(x.load, x.k) \subseteq Cells
          /\ IF x.load # image + 1
             THEN mem' = Copy(mem, x.load, image + 1, x.k) ELSE mem' = mem
          /\ pc' = "exit" /\ kernel' = i
      BY <1>1, <2>2, ImageMoves
    <3>2. /\ x.load \in Nat /\ x.k \in Nat /\ image \in Nat
          /\ \A j \in 1 .. x.k : mem[image + j] = ImageCell(i, "kernel", j)
      BY <3>1, KernelSpan, BootAssumption, SMTT(60) DEF Types, Cells
    <3> HIDE DEF i
    <3>3. ASSUME x.load \notin image + 2 .. image + x.k, NEW j \in 1 .. x.k
          PROVE  mem'[x.load + j - 1] = ImageCell(i, "kernel", j)
      <4>1. CASE x.load = image + 1
        BY <3>1, <3>2, <4>1
      <4>2. CASE x.load # image + 1
        <5>1. ~(x.load > image + 1 /\ x.load < image + 1 + x.k) /\ image + 1 \in Nat
          BY <3>2, <3>3
        <5>2. Copy(mem, x.load, image + 1, x.k)[x.load + j - 1] = mem[image + 1 + j - 1]
          <6>1. Moves(Copy(mem, x.load, image + 1, x.k), mem, x.load, image + 1, x.k)
            BY <3>1, <3>2, <5>1, CopiedWhole
          <6> QED BY <6>1 DEF Moves
        <5>3. mem' = Copy(mem, x.load, image + 1, x.k) /\ image + 1 + j - 1 = image + j
          BY <3>1, <3>2, <4>2
        <5> QED BY <3>2, <5>2, <5>3
      <4> QED BY <4>1, <4>2
    <3>4. image' = image
      BY <1>1 DEF CheckImage
    <3> QED BY <3>1, <3>3, <3>4 DEF KernelMoved
  <2> QED BY <2>1, <2>2
<1>2. CASE ModuleExit \/ KernTags \/ CacheOff
  <2> DEFINE x == Images[kernel]
  <2>3. KernelMoved
    BY <1>2, IntactSteps
  <2>0. /\ pc \in {"exit", "tags", "cache"}
        /\ pc' \in {"tags", "cache", "kernel"}
        /\ pc = "exit" => ModuleExit
        /\ pc = "tags" => KernTags
        /\ KernTags => pc = "tags"
        /\ pc' = "tags" => ModuleExit
        /\ pc' \in {"cache", "kernel"} => pc \in {"tags", "cache"}
        /\ pc = "cache" => pc' = "kernel"
    BY <1>2 DEF ModuleExit, KernTags, CacheOff
  <2>1. kernel \in DOMAIN Images /\ Span(x.load, x.k) \subseteq Cells /\ DOMAIN mem = Cells
    BY <2>0, <2>3 DEF KernelMoved, Contents
  <2>2. ASSUME pc' \in {"cache", "kernel"} => Span(x.load, x.k) \cap TagCells(env) = {},
               x.load \notin image + 2 .. image + x.k, NEW j \in 1 .. x.k
        PROVE  mem'[x.load + j - 1] = ImageCell(kernel, "kernel", j)
    <3>1. x.load \in Nat /\ x.k \in Nat
      BY <2>1, ImageFacts
    <3>2. x.load + j - 1 \in Span(x.load, x.k)
      BY <3>1 DEF Span
    <3>3. mem[x.load + j - 1] = ImageCell(kernel, "kernel", j)
      <4>1. /\ pc \in {"exit", "tags", "cache", "kernel"}
            /\ pc \in {"cache", "kernel"} => Span(x.load, x.k) \cap TagCells(env) = {}
        BY <2>0, <2>2
      <4> QED BY <2>2, <2>3, <4>1 DEF KernelMoved
    <3>4. x.load + j - 1 \in Cells /\ (KernTags => x.load + j - 1 \notin TagCells(env))
      BY <2>0, <2>1, <2>2, <3>2 DEF KernTags
    <3> QED BY <1>2, <2>1, <3>3, <3>4, LaterEnv
  <2> QED BY <1>2, <2>0, <2>1, <2>2, LaterEnv DEF KernelMoved
<1>3. CASE UNCHANGED vars
  BY <1>3 DEF vars, KernelMoved, TagCells, Intact
<1>4. CASE Start \/ InitModule \/ BootargsPrepare \/ ReadKernel \/ CheckAndroidImage \/ Reboot
  <2>1. pc' \notin {"exit", "tags", "cache", "kernel"}
    BY <1>4 DEF Start, InitModule, BootargsPrepare, ReadKernel, CheckAndroidImage, Reboot
  <2> QED BY <2>1 DEF KernelMoved
<1> QED BY <1>1, <1>2, <1>3, <1>4, StaysAstray DEF Next

\* What has been received as a whole is in the memory of the image on the card.
LEMMA ReceivedCells ==
  ASSUME Types, Received, pc = "android", arrived, Images[onCard.image].android
  PROVE  LET i == onCard.image
             x == Images[i]
         IN /\ mem[Area] = ImageCell(i, "android", 1)
            /\ mem[Area + 1].img = i
            /\ \A j \in 1 .. x.r : mem[RamdiskSource(x) + j - 1] = ImageCell(i, "ramdisk", j)
<1> DEFINE i == onCard.image
           x == Images[i]
           s == CellsOf(i)
<1>1. i \in DOMAIN Images
  BY DEF Types
<1>2. /\ DOMAIN s = 1 .. 2 + x.k + x.r /\ s[1] = ImageCell(i, "android", 1)
      /\ \A j \in 1 .. x.r : s[2 + x.k + j] = ImageCell(i, "ramdisk", j)
      /\ x.k \in Nat /\ x.r \in Nat /\ Area \in Nat
  BY <1>1, Layout, ImageFacts
<1>3. \A j \in DOMAIN s : mem[Area + j - 1] = s[j] /\ s[j].img = i
  BY <1>1, Held DEF Received
<1> HIDE DEF s
<1>4. mem[Area] = ImageCell(i, "android", 1)
  <2>1. 1 \in DOMAIN s /\ Area + 1 - 1 = Area
    BY <1>2
  <2> QED BY <1>2, <1>3, <2>1
<1>5. mem[Area + 1].img = i
  <2>1. 2 \in DOMAIN s /\ Area + 2 - 1 = Area + 1
    BY <1>2
  <2> QED BY <1>3, <2>1
<1>6. ASSUME NEW j \in 1 .. x.r
      PROVE  mem[RamdiskSource(x) + j - 1] = ImageCell(i, "ramdisk", j)
  <2>1. 2 + x.k + j \in DOMAIN s
    BY <1>2, SMTT(60)
  <2>3. Area + (2 + x.k + j) - 1 = RamdiskSource(x) + j - 1
    <3>1. j \in Nat /\ RamdiskSource(x) = Area + 2 + x.k
      BY <1>2 DEF RamdiskSource
    <3>2. x.k \in Nat /\ Area \in Nat
      BY <1>2
    <3> QED BY <3>1, <3>2
  <2>2. mem[Area + (2 + x.k + j) - 1] = s[2 + x.k + j]
    BY <1>3, <2>1
  <2> QED BY <1>2, <2>2, <2>3
<1> QED BY <1>4, <1>5, <1>6

\* Movable and Placed after a step that leaves what they depend on.
LEMMA SameMovable ==
  ASSUME UNCHANGED <<onCard, arrived>>, env'.bootargs = env.bootargs
  PROVE  Movable' <=> Movable
BY DEF Movable

LEMMA RamdiskStep ==
  ASSUME Types, Contents, Received, Intact => RamdiskMoved, Intact', [Next]_vars
  PROVE  RamdiskMoved'
<1> DEFINE o == onCard.image
           x == Images[o]
<1>0. o \in DOMAIN Images
  BY DEF Types
<1>1. CASE CheckAndroidImage
  <2>0. UNCHANGED <<onCard, arrived>> /\ pc = "android" /\ pc' \in {"image", "returned", "exception"}
    BY <1>1 DEF CheckAndroidImage
  <2>1. SUFFICES ASSUME pc' = "image", Movable'
                 PROVE  Placed' /\ (IsPart(image, "header")' => mem'[image'].img = o)
    BY <2>0 DEF RamdiskMoved
  <2>2. /\ arrived /\ x.android /\ env'.bootargs = "short" /\ Area \notin Span(x.rd, x.r)
        /\ x.rd \notin RamdiskSource(x) + 1 .. RamdiskSource(x) + x.r - 1
    BY <2>0, <2>1 DEF Movable
  <2>3. /\ mem[Area] = ImageCell(o, "android", 1) /\ mem[Area + 1].img = o
        /\ \A j \in 1 .. x.r : mem[RamdiskSource(x) + j - 1] = ImageCell(o, "ramdisk", j)
    BY <2>0, <2>2, ReceivedCells
  <2>4. IsPart(Area, "android") /\ mem[Area].img = o
    BY <2>3 DEF IsPart, ImageCell
  <2>5. /\ Span(x.rd, x.r) \subseteq Cells
        /\ mem' = Copy(mem, x.rd, RamdiskSource(x), x.r)
        /\ env' = WithInitrd(o) /\ image' = Area + 1
    BY <1>1, <2>1, <2>2, <2>4, AndroidMoves
  <2>6. env'.initrd = o
    <3>1. CASE env.bootargs = "short"
      BY <2>5, <3>1 DEF WithInitrd, Types, Envs
    <3>2. CASE env.bootargs = "none"
      BY <2>2, <2>5, <3>2 DEF WithInitrd
    <3>3. CASE env.bootargs = "long"
      BY <2>2, <2>5, <3>3 DEF WithInitrd, Types, Envs
    <3> QED BY <2>0, <3>1, <3>2, <3>3 DEF Types, Envs, Arguments
  <2>7. /\ x.rd \in Nat /\ RamdiskSource(x) \in Nat /\ x.r \in Nat
        /\ Span(RamdiskSource(x), x.r) \subseteq Cells
    BY <1>0, RamdiskSpan
  <2> HIDE DEF o
  <2>8. ASSUME NEW j \in 1 .. x.r
        PROVE  mem'[x.rd + j - 1] = ImageCell(o, "ramdisk", j)
    <3>1. ~(x.rd > RamdiskSource(x) /\ x.rd < RamdiskSource(x) + x.r)
      BY <2>2, <2>7
    <3>2. Copy(mem, x.rd, RamdiskSource(x), x.r)[x.rd + j - 1] = mem[RamdiskSource(x) + j - 1]
      <4>1. Moves(Copy(mem, x.rd, RamdiskSource(x), x.r), mem, x.rd, RamdiskSource(x), x.r)
        BY <2>5, <2>7, <3>1, CopiedWhole
      <4> QED BY <4>1 DEF Moves
    <3> QED BY <2>3, <2>5, <3>2
  <2>9. mem'[Area + 1].img = o
    <3>1. Area + 1 \in Cells
      BY <1>0, ImageFacts DEF Cells
    <3>2. CASE Area + 1 \in Span(x.rd, x.r)
      <4>1. PICK j \in 1 .. x.r : Area + 1 = x.rd + j - 1
        <5>1. Area + 1 - x.rd + 1 \in 1 .. x.r
          BY <1>0, <2>7, <3>2, ImageFacts DEF Span
        <5>2. Area + 1 = x.rd + (Area + 1 - x.rd + 1) - 1
          BY <1>0, <2>7, ImageFacts
        <5> QED BY <5>1, <5>2
      <4>2. mem'[Area + 1] = ImageCell(o, "ramdisk", j)
        BY <2>8, <4>1
      <4> QED BY <4>2 DEF ImageCell
    <3>3. CASE Area + 1 \notin Span(x.rd, x.r)
      <4>1. Copy(mem, x.rd, RamdiskSource(x), x.r)[Area + 1] = mem[Area + 1]
        BY <3>1, <3>3, CopiedNot
      <4> QED BY <2>3, <2>5, <4>1
    <3> QED BY <3>2, <3>3
  <2>10. Placed'
    BY <2>0, <2>5, <2>6, <2>8 DEF Placed, o
  <2> QED BY <2>5, <2>9, <2>10
<1>2. CASE CheckImage
  <2>0. /\ UNCHANGED <<onCard, arrived, env, image>> /\ pc = "image"
        /\ pc' \in {"exit", "returned", "exception"}
    BY <1>2 DEF CheckImage
  <2>1. SUFFICES ASSUME pc' = "exit", Movable', Span(x.rd, x.r) \cap Span(x.load, x.k) = {}
                 PROVE  Placed'
    BY <2>0 DEF RamdiskMoved
  <2>2. Movable
    BY <2>0, <2>1, SameMovable
  <2>3. Placed /\ (IsPart(image, "header") => mem[image].img = o)
    BY <1>2, <2>0, <2>2, IntactSteps DEF RamdiskMoved
  <2>4. mem[image].img = o
        /\ IF x.load # image + 1
           THEN mem' = Copy(mem, x.load, image + 1, x.k) ELSE mem' = mem
    BY <1>2, <2>1, <2>3, ImageMoves
  <2> HIDE DEF o
  <2>5. ASSUME NEW j \in 1 .. x.r
        PROVE  mem'[x.rd + j - 1] = mem[x.rd + j - 1]
    <3>0. x.rd \in Nat /\ x.r \in Nat
      BY <1>0, RamdiskSpan
    <3>1. x.rd + j - 1 \in Span(x.rd, x.r)
      BY <3>0 DEF Span
    <3>2. x.rd + j - 1 \in Cells /\ x.rd + j - 1 \notin Span(x.load, x.k)
      BY <2>1, <2>3, <3>1 DEF Placed, o
    <3>3. Copy(mem, x.load, image + 1, x.k)[x.rd + j - 1] = mem[x.rd + j - 1]
      BY <3>2, CopiedNot
    <3> QED BY <2>4, <3>3
  <2> QED BY <2>0, <2>3, <2>5 DEF Placed, o
<1>3. CASE ModuleExit \/ KernTags \/ CacheOff
  <2>0. /\ pc \in {"exit", "tags", "cache"}
        /\ pc' \in {"tags", "cache", "kernel"}
        /\ KernTags => pc = "tags" /\ pc' = "cache"
        /\ pc = "exit" => pc' = "tags"
        /\ pc = "tags" => pc' = "cache"
        /\ pc = "cache" => pc' = "kernel"
    BY <1>3 DEF ModuleExit, KernTags, CacheOff
  <2>1. Movable' <=> Movable
    BY <1>3, LaterEnv, SameMovable
  <2>2. SUFFICES ASSUME Movable, Span(x.rd, x.r) \cap Span(x.load, x.k) = {},
                        pc' # "tags" => Span(x.rd, x.r) \cap TagCells(env) = {}
                 PROVE  Placed'
    BY <1>3, <2>0, <2>1, LaterEnv DEF RamdiskMoved
  <2>3. Placed
    BY <1>3, <2>0, <2>2, IntactSteps DEF RamdiskMoved
  <2> HIDE DEF o
  <2>4. ASSUME NEW j \in 1 .. x.r
        PROVE  mem'[x.rd + j - 1] = mem[x.rd + j - 1]
    <3>0. x.rd \in Nat /\ x.r \in Nat
      BY <1>0, RamdiskSpan
    <3>1. x.rd + j - 1 \in Span(x.rd, x.r)
      BY <3>0 DEF Span
    <3>2. x.rd + j - 1 \in Cells
      BY <2>3, <3>1 DEF Placed, o
    <3>3. KernTags => x.rd + j - 1 \notin TagCells(env)
      BY <2>0, <2>2, <3>1
    <3> QED BY <1>3, <3>2, <3>3, LaterEnv DEF Contents
  <2> QED BY <1>3, <2>3, <2>4, LaterEnv DEF Placed, o
<1>4. CASE UNCHANGED vars
  BY <1>4 DEF vars, RamdiskMoved, Movable, Placed, IsPart, TagCells, Intact
<1>5. CASE Start \/ InitModule \/ BootargsPrepare \/ ReadKernel \/ Reboot
  <2>1. pc' \notin {"image", "exit", "tags", "cache", "kernel"}
    BY <1>5 DEF Start, InitModule, BootargsPrepare, ReadKernel, Reboot
  <2> QED BY <2>1 DEF RamdiskMoved
<1> QED BY <1>1, <1>2, <1>3, <1>4, <1>5, StaysAstray DEF Next

LEMMA SumsStep ==
  ASSUME Types, Contents, Intact => Sums, Intact', [Next]_vars
  PROVE  Sums'
<1>1. CASE ModuleExit
  BY <1>1 DEF ModuleExit, EnvExit, Types, Envs, Sums
<1>2. CASE KernTags
  BY <1>2, IntactSteps DEF KernTags, Types, Envs, Sums
<1>3. CASE CacheOff
  BY <1>3, IntactSteps DEF CacheOff, Sums
<1>4. CASE UNCHANGED vars
  BY <1>4 DEF vars, Sums, Intact
<1>5. CASE Start \/ InitModule \/ BootargsPrepare \/ ReadKernel \/ CheckAndroidImage
           \/ CheckImage \/ Reboot
  <2>1. pc' \notin {"tags", "cache", "kernel"}
    BY <1>5 DEF Start, InitModule, BootargsPrepare, ReadKernel, CheckAndroidImage,
       CheckImage, Reboot
  <2> QED BY <2>1, SMTT(60) DEF Sums
<1> QED BY <1>1, <1>2, <1>3, <1>4, <1>5, StaysAstray DEF Next

-----------------------------------------------------------------------------
(* The theorems *)

LEMMA Initially ==
  ASSUME Init
  PROVE  IInv
<1>1. env \in Envs /\ env.bootargs = "none"
  BY DEF Init, Default, Envs, Arguments
<1>2. Contents
  <2>1. PICK old \in DOMAIN Images \cup {NoImage} : mem = Holding(old)
    BY DEF Init
  <2>2. DOMAIN mem = Cells
    BY <2>1 DEF Holding
  <2> QED BY <2>1, <2>2, HeldOrBare DEF Contents
<1>3. Types
  <2>1. /\ pc = "start" /\ todo = <<>> /\ driver = FALSE /\ card = FALSE /\ power = TRUE
        /\ ops = FALSE /\ irqOn = FALSE /\ cache = FALSE /\ odd \in BOOLEAN
        /\ hwFailed = FALSE /\ arrived = FALSE /\ dirty = {} /\ image \in Cells
        /\ kernel = NoImage
    BY BootAssumption DEF Init
  <2>2. onCard \in [image : DOMAIN Images, env : CardEnvs]
    BY DEF Init
  <2>3. todo \in Seq(Modules)
    BY <2>1
  <2> QED BY <1>1, <2>1, <2>2, <2>3 DEF Types, Positions
<1>4. todo = <<>> /\ pc = "start" /\ ~card /\ ~cache /\ dirty = {}
  BY DEF Init
<1>5. Queue
  BY <1>4 DEF Queue
<1> QED BY <1>2, <1>3, <1>4, <1>5
        DEF IInv, Coherent, Received, Promised, Quiet, RamdiskMoved, KernelMoved, Sums

LEMMA Invariance == Spec => []IInv
<1>1. IInv /\ [Next]_vars => IInv'
  <2>1. SUFFICES ASSUME IInv, [Next]_vars PROVE IInv'
    OBVIOUS
  <2>2. Types' /\ Queue' /\ Coherent' /\ Contents' /\ Received'
    BY <2>1, TypesStep, QueueStep, CoherentStep, ContentsStep, ReceivedStep DEF IInv
  <2>3. ASSUME Intact' PROVE Promised'
    BY <2>1, <2>3, QuietStep, RamdiskStep, KernelStep, SumsStep DEF IInv, Promised
  <2> QED BY <2>2, <2>3 DEF IInv
<1> QED BY <1>1, Initially, PTL DEF Spec

\* The variables keep their ranges; the environment stays the last module to be
\* initialised, and a reset finds the card without power.
THEOREM TypeCorrect == Spec => []TypeOK
<1>1. IInv => TypeOK
  <2> SUFFICES ASSUME IInv PROVE TypeOK
    OBVIOUS
  <2>1. todo # <<>> => todo[Len(todo)] = "env"
    <3>1. SUFFICES ASSUME todo # <<>> PROVE todo[Len(todo)] = "env"
      OBVIOUS
    <3>2. Len(todo) \in 1 .. Len(todo)
      BY <3>1 DEF IInv, Types
    <3> QED BY <3>2 DEF IInv, Queue
  <2> QED BY <2>1 DEF IInv, Promised, Quiet, Types, Queue, Contents, TypeOK, Positions, Envs, Arguments
<1> QED BY <1>1, Invariance, PTL

\* The kernel that is started lies whole where its header wants it, with
\* interrupts and cache switched off and nothing of it left in the cache, for
\* every memory, image and earlier contents, unless an image has been moved
\* over the loader.
THEOREM KernelWhole == Spec => []StartsWhole
<1>1. IInv => StartsWhole
  BY DEF IInv, Promised, Quiet, StartsWhole, Coherent, KernelMoved, ImageCell
<1> QED BY <1>1, Invariance, PTL

\* The ramdisk of an Android image that has been read completely is where the
\* kernel is told it is, unless it or the kernel has been moved over the loader.
THEOREM RamdiskThere == Spec => []RamdiskReaches
<1>1. IInv => RamdiskReaches
  BY DEF IInv, Promised, RamdiskReaches, RamdiskMoved, Movable, Placed, ImageCell
<1> QED BY <1>1, Invariance, PTL

\* The CRC env_exit leaves matches the environment when the kernel starts,
\* except where the arguments have been rewritten after it, or the loader has
\* been overwritten by an image.
THEOREM CrcRight == Spec => []StoredCrcRight
<1>1. IInv => StoredCrcRight
  BY DEF IInv, Promised, StoredCrcRight, Sums
<1> QED BY <1>1, Invariance, PTL

\* The saved environment is in use after the modules, however the linker orders
\* them, if the card has not failed meanwhile.
THEOREM EnvUsed == Spec => []EnvFromCard
<1>1. IInv => EnvFromCard
  BY DEF IInv, EnvFromCard, Queue
<1> QED BY <1>1, Invariance, PTL
=============================================================================
