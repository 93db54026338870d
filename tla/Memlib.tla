------------------------------ MODULE Memlib ------------------------------
(***************************************************************************)
(* The heap of libs/memlib.c: chunks with boundary tags, segregated free   *)
(* lists ("bins") with a bit for each block of four bins, the remainder of *)
(* the last split, and the top chunk, which grows and shrinks with the     *)
(* break of the arena.                                                     *)
(*                                                                         *)
(* Addresses and sizes are bytes.  The header of a chunk p is the record   *)
(* size[p], pin[p] (PREV_INUSE); foot[p] is the size of a free chunk that  *)
(* ends at p.  A list is the sequence of its chunks, first (fd) to last.   *)
(* Headers no chunk of the heap has any more are dropped at the end of     *)
(* each operation.                                                         *)
(***************************************************************************)
EXTENDS Integers, Sequences, FiniteSets, FiniteSetsExt, SequencesExt

CONSTANTS
  Start, End,      \* the arena behind struct memctrl_t
  PageSize,        \* MALLOC_PAGESIZE
  MaxSmall,        \* MAX_SMALLBIN_SIZE
  LargeWidth,      \* the width of a bin of large chunks, one width for all
  TrimThreshold,   \* MEMLIB_TRIM_THRESHOLD
  W32,             \* in the place of 2^32
  Requests, Alignments,
  None

ASSUME MemlibAssumption ==
  /\ W32 \in Nat /\ W32 >= 32 /\ Start \in Nat \ {0} /\ End \in Nat
  /\ Start < End /\ End < W32 \div 2 /\ Start % 4 = 0 /\ End % 4 = 0
  /\ {PageSize, MaxSmall, LargeWidth} \subseteq {n \in Nat \ {0} : n % 8 = 0}
  /\ MaxSmall >= 16
  /\ Requests \subseteq 0 .. W32 - 1 /\ Alignments \subseteq Nat
  /\ None \notin Nat

VARIABLES
  heap,      \* struct memctrl_t and the chunk headers
  live,      \* the memory handed out and not released: [mem, bytes]
  result     \* what the last call returned

vars == <<heap, live, result>>

MinSize == 16
Round(n, m) == ((n + m - 1) \div m) * m

\* request2size: the sum is compared as a signed number.
Signed(n) == IF n % W32 >= W32 \div 2 THEN (n % W32) - W32 ELSE n % W32
Request2Size(bytes) ==
  IF Signed(bytes + 4 + 7) < MinSize + 7 THEN MinSize ELSE ((bytes + 4 + 7) \div 8) * 8

Mem(p) == p + 8
Chunk(mem) == mem - 8

-----------------------------------------------------------------------------
(* Bins, one for every size a request may be padded to and the one behind it. *)
(* Bin 1 is the list of the last remainder.                                   *)

BinIndex(s) == IF s < MaxSmall THEN s \div 8
               ELSE MaxSmall \div 8 + (s - MaxSmall) \div LargeWidth
Bins == 1 .. BinIndex(W32 \div 2) + 1
Block(i) == i \div 4
Lr == 1

\* Heads, feet and list links as the code writes them.
Put(f, x, v) == [y \in DOMAIN f \cup {x} |-> IF y = x THEN v ELSE f[y]]
SetHead(h, p, s, inuse) ==
  [h EXCEPT !.size = Put(@, p, s), !.pin = Put(@, p, inuse)]
SetFoot(h, p, s) == [h EXCEPT !.foot = Put(@, p + s, s)]
SetHeadSize(h, p, s) == SetHead(h, p, s, h.pin[p])
SetInuseAt(h, p, s) == [h EXCEPT !.pin[p + s] = TRUE]
Without(lst, p) ==
  LET at == {j \in DOMAIN lst : lst[j] = p}
  IN IF at = {} THEN lst ELSE RemoveAt(lst, Min(at))
Unlink(h, p) == [h EXCEPT !.bins = [i \in Bins |-> Without(@[i], p)]]
LinkLastRemainder(h, p) == [h EXCEPT !.bins[Lr] = <<p>>]
ClearLastRemainder(h) == [h EXCEPT !.bins[Lr] = <<>>]
Mark(h, i) == [h EXCEPT !.marks = @ \cup {Block(i)}]

\* frontlink: a small chunk goes to the front; the lists of large ones are
\* sorted, the smallest last, and marked only when they were empty.
Frontlink(h, p, s) ==
  LET i   == BinIndex(s)
      lst == h.bins[i]
      n   == Cardinality({j \in DOMAIN lst : s < h.size[lst[j]]})
  IN IF s < MaxSmall THEN [Mark(h, i) EXCEPT !.bins[i] = <<p>> \o @]
     ELSE [(IF lst = <<>> THEN Mark(h, i) ELSE h)
             EXCEPT !.bins[i] = SubSeq(@, 1, n) \o <<p>> \o SubSeq(@, n + 1, Len(@))]

-----------------------------------------------------------------------------
(* The break and the top chunk *)

TopSize(h) == IF h.top = None THEN 0 ELSE h.size[h.top]

CanMove(h, n) == h.pos + n \in Start .. End
Sbrk(h, n) == [h EXCEPT !.pos = @ + n]

\* memlib_extend_top.  The branch for memory that somebody else has taken
\* from the break is left out: nobody else can.
ExtendTop(h, nb) ==
  LET want == IF h.base THEN Round(nb + MinSize, PageSize) ELSE nb + MinSize
      brk  == h.pos
  IN IF ~CanMove(h, want) THEN h
     ELSE IF h.top # None
     THEN SetHead(Sbrk(h, want), h.top, want + TopSize(h), TRUE)
     ELSE LET front == (8 - (Mem(brk) % 8)) % 8
              at    == brk + front
              more  == front + Round(at + want, PageSize) - (at + want)
              h1    == [Sbrk(h, want) EXCEPT !.base = TRUE]
          IN IF ~CanMove(h1, more) THEN h1
             ELSE SetHead([Sbrk(h1, more) EXCEPT !.top = at, !.first = at],
                          at, brk + want + more - at, TRUE)

\* Mutation: nothing of the top chunk is kept.
TrimWhole(h) ==
  LET size  == TopSize(h)
      extra == (size \div PageSize) * PageSize
  IN IF extra < PageSize \/ h.pos # h.top + size THEN h
     ELSE SetHead(Sbrk(h, -extra), h.top, size - extra, TRUE)

\* memlib_trim(ctrl, 0)
Trim(h) ==
  LET size  == TopSize(h)
      extra == ((size - MinSize + PageSize - 1) \div PageSize - 1) * PageSize
  IN IF extra < PageSize \/ h.pos # h.top + size THEN h
     ELSE SetHead(Sbrk(h, -extra), h.top, size - extra, TRUE)

-----------------------------------------------------------------------------
(* memlib_malloc, memlib_free, memlib_memalign *)

Got(h, p) == [h |-> h, mem |-> Mem(p)]
Nothing(h) == [h |-> h, mem |-> None]

\* The whole chunk is used, or a piece of it and the rest is the last remainder.
TakeWhole(h, p) == Got(Unlink(SetInuseAt(h, p, h.size[p]), p), p)
TakePiece(h, p, nb) ==
  LET rest == h.size[p] - nb
      h1 == Unlink(SetHead(h, p, nb, TRUE), p)
  IN Got(SetFoot(SetHead(LinkLastRemainder(h1, p + nb), p + nb, rest, TRUE),
                 p + nb, rest), p)
Take(h, p, nb) ==
  IF h.size[p] - nb >= MinSize THEN TakePiece(h, p, nb) ELSE TakeWhole(h, p)

\* The chunk of a list that a walk from its last one finds first.
LastFit(h, i, nb) ==
  LET fits == {j \in DOMAIN h.bins[i] : h.size[h.bins[i][j]] >= nb}
  IN IF fits = {} THEN None ELSE h.bins[i][Max(fits)]

\* A chunk is cut from the top chunk, which keeps at least a header.
CutTop(h, nb) ==
  IF TopSize(h) - nb < MinSize THEN Nothing(h)
  ELSE Got(SetHead([SetHead(h, h.top, nb, TRUE) EXCEPT !.top = @ + nb],
                   h.top + nb, h.size[h.top] - nb, TRUE), h.top)
FromTop(h, nb) ==
  CutTop(IF TopSize(h) - nb < MinSize THEN ExtendTop(h, nb) ELSE h, nb)

\* The bins from idx on, in marked blocks, that have a chunk to use.
Fits(h, idx, nb) ==
  {i \in Bins : i >= idx /\ Block(i) \in h.marks /\ LastFit(h, i, nb) # None}
\* The marked blocks the scan leaves without a fit.
Left(h, idx, fits) ==
  {b \in h.marks : b >= Block(idx) /\ \A i \in fits : b < Block(i)}
TakeFirst(h, fits, nb) ==
  IF fits = {} THEN FromTop(h, nb) ELSE Take(h, LastFit(h, Min(fits), nb), nb)

\* Mutation: the lists in front of where the scan began are not looked at.
ScanFromClearsAll(h, idx, fits, nb) ==
  TakeFirst([h EXCEPT !.marks = @ \ Left(h, idx, fits)], fits, nb)

\* The scan of the marked blocks from bin idx on.  A block left without a fit
\* loses its mark, unless a bin in front of where its scan began has a chunk.
ScanFrom(h, idx, fits, nb) ==
  LET cleared == {b \in Left(h, idx, fits) : \A i \in Bins :
                    Block(i) = b /\ i < idx => h.bins[i] = <<>>}
  IN TakeFirst([h EXCEPT !.marks = @ \ cleared], fits, nb)
Scan(h, idx, nb) == ScanFrom(h, idx, Fits(h, idx, nb), nb)

\* Mutation: a last remainder too small for the request is not put in its bin.
TryLastDrops(h, p, idx, nb) ==
  IF h.size[p] >= nb THEN Take(h, p, nb) ELSE Scan(ClearLastRemainder(h), idx, nb)

\* The last remainder is split or used, or it goes to its bin.
TryLast(h, p, idx, nb) ==
  IF h.size[p] >= nb THEN Take(h, p, nb)
  ELSE Scan(Frontlink(ClearLastRemainder(h), p, h.size[p]), idx, nb)
Search(h, idx, nb) ==
  IF h.bins[Lr] = <<>> THEN Scan(h, idx, nb) ELSE TryLast(h, h.bins[Lr][1], idx, nb)

\* own and next: what the bin of the size, i, and the one behind it offer.
MallocIn(h, nb, i, own, next) ==
  LET small == nb < MaxSmall - 8 IN
  IF own # None /\ (small \/ h.size[own] - nb < MinSize) THEN TakeWhole(h, own)
  ELSE IF small /\ next # None THEN TakeWhole(h, next)
  ELSE Search(h, IF small THEN i + 2 ELSE IF own = None THEN i + 1 ELSE i, nb)
MallocOf(h, nb) ==
  MallocIn(h, nb, BinIndex(nb), LastFit(h, BinIndex(nb), nb), LastFit(h, BinIndex(nb) + 1, nb))
\* A size that is negative as a signed number is refused.
Malloc(h, bytes) ==
  IF Signed(bytes) < 0 THEN Nothing(h) ELSE MallocOf(h, Request2Size(bytes))

\* The start of the chunk p with a free chunk in front of it.
BackOf(h, p) == IF h.pin[p] THEN p ELSE p - h.foot[p]

NewTop(h, q, end) == SetHead([Unlink(h, q) EXCEPT !.top = q], q, end - q, TRUE)
TrimLarge(h) == IF TopSize(h) >= TrimThreshold THEN Trim(h) ELSE h
FreeToTop(h, p) == TrimLarge(NewTop(h, BackOf(h, p), h.top + TopSize(h)))

\* The merged chunk, from q to end, is put in its bin unless it has become
\* the last remainder.
Insert(h, q, end, islr) ==
  LET h1 == SetFoot(SetHead(h, q, end - q, TRUE), q, end - q)
  IN IF islr THEN h1 ELSE Frontlink(h1, q, end - q)

\* A neighbour that is the last remainder makes the merged chunk the last
\* remainder; otherwise it goes to its bin.
Forward(h, q, next, end, islr) ==
  IF h.pin[end] THEN Insert(h, q, next, islr)
  ELSE IF ~islr /\ h.bins[Lr] = <<next>>
  THEN Insert(LinkLastRemainder(h, q), q, end, TRUE)
  ELSE Insert(Unlink(h, next), q, end, islr)
Backward(h, p, q, next) ==
  LET islr == q # p /\ h.bins[Lr] = <<q>> IN
  Forward(IF q # p /\ ~islr THEN Unlink(h, q) ELSE h, q, next, next + h.size[next], islr)
FreeToBin(h, p, next) ==
  Backward(SetHead(h, next, h.size[next], FALSE), p, BackOf(h, p), next)

Free(h, mem) ==
  LET p == Chunk(mem) IN
  IF p + h.size[p] = h.top THEN FreeToTop(h, p)
  ELSE FreeToBin(h, p, p + h.size[p])

\* The space in front of an aligned place is given back, then the one behind.
GiveBackTail(h, p, nb) ==
  LET rest == h.size[p] - nb IN
  IF rest < MinSize THEN h
  ELSE Free(SetHeadSize(SetHead(h, p + nb, rest, TRUE), p, nb), Mem(p + nb))

GiveBackLead(h, p, brk, nb) ==
  LET size == h.size[p] - (brk - p)
      h1   == SetInuseAt(SetHead(h, brk, size, TRUE), brk, size)
  IN Got(GiveBackTail(Free(SetHeadSize(h1, p, brk - p), Mem(p)), brk, nb), brk)

\* The aligned place in the chunk p, far enough behind its start.
Place(p, up, align) == IF up - p < MinSize THEN up + align ELSE up
AlignIn(m, align, nb) ==
  IF m.mem = None THEN m
  ELSE IF m.mem % align = 0 THEN Got(GiveBackTail(m.h, Chunk(m.mem), nb), Chunk(m.mem))
  ELSE GiveBackLead(m.h, Chunk(m.mem),
                    Place(Chunk(m.mem), Chunk(Round(m.mem, align)), align), nb)
AlignedIn(h, align, nb) ==
  AlignIn(Malloc(h, (nb + align + MinSize) % W32), align, nb)
Memalign(h, alignment, bytes) ==
  IF Signed(bytes) < 0 THEN Nothing(h)
  ELSE IF alignment <= 8 THEN Malloc(h, bytes)
  ELSE AlignedIn(h, Max({alignment, MinSize}), Request2Size(bytes))

-----------------------------------------------------------------------------
(* Calls *)

\* The headers a walk over the chunks meets, and the feet of free chunks.
Walked(h) ==
  LET at == DOMAIN h.size \cap (Start .. End)
      on[a \in at] ==
        \/ a = h.first
        \/ \E q \in at \ {h.top} : q + h.size[q] = a /\ q < a /\ on[q]
  IN {a \in at : on[a]}
Settled(h) ==
  LET at == Walked(h) IN
  [h EXCEPT !.size = [a \in at |-> @[a]], !.pin = [a \in at |-> @[a]],
            !.foot = [a \in {p \in DOMAIN @ : p \in at /\ ~h.pin[p]} |-> @[a]]]

Return(r, bytes) ==
  /\ heap' = Settled(r.h)
  /\ result' = r.mem
  /\ live' = IF r.mem = None THEN live
             ELSE live \cup {[mem |-> r.mem, bytes |-> bytes]}

CallMalloc(bytes) == Return(Malloc(heap, bytes), bytes)
CallMemalign(alignment, bytes) == Return(Memalign(heap, alignment, bytes), bytes)

\* The callers release what they hold, once.
CallFree(b) ==
  /\ heap' = Settled(Free(heap, b.mem))
  /\ live' = live \ {b}
  /\ result' = None

\* memlib_init
Init ==
  /\ heap = [pos |-> Start, base |-> FALSE, top |-> None, first |-> None,
             size |-> <<>>, pin |-> <<>>, foot |-> <<>>,
             bins |-> [i \in Bins |-> <<>>], marks |-> {}]
  /\ live = {} /\ result = None

Next ==
  \/ \E n \in Requests : CallMalloc(n)
  \/ \E a \in Alignments, n \in Requests : CallMemalign(a, n)
  \/ \E b \in live : CallFree(b)

Spec == Init /\ [][Next]_vars

-----------------------------------------------------------------------------
(* Properties *)

Chunks == DOMAIN heap.size \ {heap.top}
InUse == {p \in Chunks : heap.pin[p + heap.size[p]]}
FreeChunks == Chunks \ InUse

\* The chunks tile the arena from the first one to the break, in multiples of
\* eight bytes and none smaller than a header; the top chunk is the last.
TypeOK ==
  /\ heap.pos \in Start .. End /\ heap.base \in BOOLEAN
  /\ heap.top # None =>
       /\ heap.first % 8 = 0 /\ heap.top \in DOMAIN heap.size
       /\ heap.top + TopSize(heap) = heap.pos
       /\ \A p \in DOMAIN heap.size :
            heap.size[p] % 8 = 0 /\ heap.size[p] >= MinSize
  /\ heap.marks \subseteq {Block(i) : i \in Bins}
  /\ DOMAIN heap.pin = DOMAIN heap.size
  /\ result \in Nat \cup {None}

\* memlib.c:38, "pad request bytes into a usable size": what the holder of a
\* block may write, the bytes asked for, ends before the header of the next
\* chunk.
UsableSize == \A b \in live : b.bytes <= heap.size[Chunk(b.mem)] - 4

\* The chunks in use are exactly those handed out and not yet released, each
\* once and each of a usable size.
BlocksAreChunks ==
  /\ {Chunk(b.mem) : b \in live} = InUse
  /\ Cardinality(live) = Cardinality(InUse)
  /\ UsableSize

\* Where a chunk is in the lists: a bin and a place in its list.
Places(p) ==
  {u \in Bins \X (1 .. Cardinality(FreeChunks)) :
     u[2] <= Len(heap.bins[u[1]]) /\ heap.bins[u[1]][u[2]] = p}

\* Every free chunk is in one place of one list, the list of its size or that
\* of the last remainder; its foot gives its size, and no two free chunks are
\* neighbours, the top chunk included.
FreeListsExact ==
  /\ \A p \in FreeChunks :
       /\ Cardinality(Places(p)) = 1
       /\ heap.bins[Lr] = <<p>> \/ \E j \in DOMAIN heap.bins[BinIndex(heap.size[p])] :
                                      heap.bins[BinIndex(heap.size[p])][j] = p
       /\ p + heap.size[p] \in DOMAIN heap.foot
       /\ heap.foot[p + heap.size[p]] = heap.size[p]
       /\ p + heap.size[p] \notin FreeChunks \cup {heap.top}
  /\ \A i \in Bins : \A j \in DOMAIN heap.bins[i] : heap.bins[i][j] \in FreeChunks
  /\ \A i \in Bins : i >= MaxSmall \div 8 =>
       \A j \in 1 .. Len(heap.bins[i]) - 1 :
          heap.size[heap.bins[i][j]] >= heap.size[heap.bins[i][j + 1]]

\* A list that is not empty is in a marked block: the scan does not miss it.
MarksCover ==
  \A i \in Bins \ {Lr} : heap.bins[i] # <<>> => Block(i) \in heap.marks

\* After any history of allocations and releases chunks, lists and marks fit
\* together: memory in use is nobody else's, and no free chunk is lost to the
\* search or merged late.
HeapInShape == BlocksAreChunks /\ FreeListsExact /\ MarksCover

\* A call that is not refused fails only when no free chunk is large enough and the break cannot
\* be moved far enough, the rounding to pages included.
FailsOnlyWhenFull ==
  [][\A n \in Requests : Signed(n) >= 0 /\ CallMalloc(n) /\ result' = None =>
        LET nb == Request2Size(n) IN
        /\ \A p \in FreeChunks : heap.size[p] < nb
        /\ heap.pos + Round(nb + MinSize, PageSize) + PageSize > End]_vars
=============================================================================
