--------------------------- MODULE FlashIOProofs ---------------------------
(* The safety of FlashIO for every geometry of the card and every request.   *)
EXTENDS FlashIO, TLAPS

(***************************************************************************)
(* Arithmetic of blocks                                                    *)
(***************************************************************************)

\* Multiplication by the block size, as the proofs use it.
LEMMA Blocks ==
  ASSUME NEW x \in Int, NEW y \in Int
  PROVE  /\ BlockSize * x \in Int
         /\ BlockSize * (x + y) = BlockSize * x + BlockSize * y
         /\ BlockSize * (x - y) = BlockSize * x - BlockSize * y
         /\ x < y => BlockSize * x + BlockSize <= BlockSize * y
         /\ BlockSize * x < BlockSize * y => x < y
         /\ x >= 0 => BlockSize * x >= 0
         /\ BlockSize * 0 = 0 /\ BlockSize * 1 = BlockSize
<1> USE FlashIOAssumption
<1>1. BlockSize * x \in Int /\ BlockSize * y \in Int
  OBVIOUS
<1>2. /\ BlockSize * (x + y) = BlockSize * x + BlockSize * y
      /\ BlockSize * (x - y) = BlockSize * x - BlockSize * y
  OBVIOUS
<1>3. ASSUME NEW d \in Int, d >= 1 PROVE BlockSize * d >= BlockSize
  BY <1>3
<1>4. x < y => BlockSize * x + BlockSize <= BlockSize * y
  <2>1. SUFFICES ASSUME x < y PROVE BlockSize * x + BlockSize <= BlockSize * y
    OBVIOUS
  <2>2. BlockSize * (y - x) >= BlockSize
    BY <2>1, <1>3
  <2>3. BlockSize * (y - x) = BlockSize * y - BlockSize * x
    OBVIOUS
  <2>4. QED BY <2>2, <2>3, <1>1
<1>5. x = y => BlockSize * x = BlockSize * y
  OBVIOUS
<1>6. y < x => BlockSize * y + BlockSize <= BlockSize * x
  <2>1. SUFFICES ASSUME y < x PROVE BlockSize * y + BlockSize <= BlockSize * x
    OBVIOUS
  <2>2. BlockSize * (x - y) >= BlockSize
    BY <2>1, <1>3
  <2>3. QED BY <2>2, <1>2, <1>1
<1>7. BlockSize * x < BlockSize * y => x < y
  BY <1>1, <1>5, <1>6
<1>8. x >= 0 => BlockSize * x >= 0
  OBVIOUS
<1>9. BlockSize * 0 = 0 /\ BlockSize * 1 = BlockSize
  OBVIOUS
<1>10. QED BY <1>1, <1>2, <1>4, <1>7, <1>8, <1>9

\* Division by the block size.
LEMMA Split ==
  ASSUME NEW n \in Nat
  PROVE  /\ n \div BlockSize \in Nat
         /\ n % BlockSize \in 0 .. BlockSize - 1
         /\ n = BlockSize * (n \div BlockSize) + (n % BlockSize)
BY FlashIOAssumption

\* A negative return of the driver makes a huge contribution to the count.
LEMMA Overshoot ==
  ASSUME NEW k \in ErrCodes, NEW n \in 0 .. StepBlks
  PROVE  U32(BlockSize * (-k)) \in Nat /\ U32(BlockSize * (-k)) > BlockSize * n
<1> USE FlashIOAssumption
<1> DEFINE x == BlockSize * k
<1>1. x \in Nat /\ BlockSize * (-k) = -x
  OBVIOUS
<1>2. x > 0 /\ BlockSize * StepBlks + x < W32
  OBVIOUS
<1>3. BlockSize * n <= BlockSize * StepBlks /\ BlockSize * n \in Nat /\ BlockSize * StepBlks \in Nat
  OBVIOUS
<1>4. (-x) % W32 = W32 - x
  <2> HIDE DEF x
  <2>1. x \in Nat /\ x > 0 /\ x < W32 /\ W32 \in Nat
    BY <1>1, <1>2, <1>3
  <2>2. QED BY <2>1
<1>5. QED
  <2> HIDE DEF x
  <2> QED BY <1>1, <1>2, <1>3, <1>4 DEF U32

\* A return that counts blocks is added as it is.
LEMMA Exact ==
  ASSUME NEW n \in 0 .. StepBlks
  PROVE  U32(BlockSize * n) = BlockSize * n
<1> USE FlashIOAssumption
<1>1. BlockSize * n \in Nat /\ BlockSize * n < W32
  OBVIOUS
<1> DEFINE x == BlockSize * n
<1>2. x % W32 = x
  <2>1. x \in Nat /\ x < W32 /\ W32 \in Nat
   BY <1>1
  <2> HIDE DEF x
  <2> QED BY <2>1
<1>3. QED BY <1>2 DEF U32

-----------------------------------------------------------------------------
(***************************************************************************)
(* The inductive invariant.  "Aligned" is what the checks of an open give, *)
(* "Fits" what the cuts at the ends of the handle and of the card give,    *)
(* and "Progress" relates the four running values of the chunk loop: they  *)
(* agree exactly until a chunk fails, and from then on address and pointer *)
(* keep their distance while the byte count is too high for good.          *)
(***************************************************************************)
Aligned == \A s \in Slots : intf[s].used => intf[s].from % BlockSize = 0

Fits(r) ==
  /\ r.via.from % BlockSize = 0
  /\ r.cnt <= r.blks
  /\ r.size = BlockSize * r.blks + LastBytes(r)
  /\ BlockSize * r.start >= r.via.from
  /\ BlockSize * r.start + r.size <= r.via.from + r.via.length
  /\ BlockSize * r.start + r.size <= TotalSize

Whole(r, n) ==
  \A i \in 0 .. n - 1 :
    \E p \in r.moved : p.blk = r.start + i /\ p.at = BlockSize * i

Inside(r) ==
  \A p \in r.moved : p.blk >= r.start /\ BlockSize * p.blk < BlockSize * r.start + r.size

Progress(r) ==
  /\ r.databuf = BlockSize * (r.blkaddr - r.start)
  /\ ~r.failed => /\ r.blkaddr = r.start + (r.blks - r.cnt)
                  /\ r.bytes = BlockSize * (r.blks - r.cnt)
                  /\ Whole(r, r.blks - r.cnt)
                  /\ Inside(r)
  /\ r.failed => r.bytes > BlockSize * (r.blks - r.cnt)

Finished(r) ==
  \/ r.moved = {} /\ r.blks = 0
  \/ /\ Fits(r)
     /\ ~r.failed => Inside(r)
     /\ r.ret = r.size => Whole(r, r.blks)

IInv ==
  /\ TypeOK
  /\ Aligned
  /\ PairingKept
  /\ req.st = "idle" => req.moved = {}
  /\ req.st = "chunks" => Fits(req) /\ Progress(req)
  /\ req.st = "done" => Finished(req)

LEMMA InitInv == Init => IInv
<1> SUFFICES ASSUME Init PROVE IInv
  OBVIOUS
<1>1. Idle \in Request
  BY DEF Idle, NewRequest, Closed, Request, Handle
<1>2. TypeOK
  BY <1>1 DEF Init, TypeOK, Closed, Handle
<1>3. Aligned
  BY DEF Init, Aligned, Closed
<1>4. req.st = "idle" /\ req.moved = {}
  BY DEF Init, Idle, NewRequest
<1>5. QED BY <1>2, <1>3, <1>4 DEF IInv, PairingKept

\* A request that starts fits between the ends of its handle and of the card.
LEMMA SubmitFits ==
  ASSUME NEW via \in Handle, via.from % BlockSize = 0, NEW from \in Nat,
         NEW length \in Nat, NEW up \in BOOLEAN,
         NEW kind \in {"read", "write"},
         from >= via.from, from + length <= via.from + via.length,
         NEW r, r = Submit(kind, via, from, length, up)
  PROVE  /\ r \in Request /\ r.moved = {}
         /\ \/ r.st = "chunks" /\ Fits(r) /\ Progress(r)
            \/ r.st = "done" /\ Finished(r)
<1> USE FlashIOAssumption
<1>1. CASE CheckAlign(up, from) # 0
  <2>1. r = Fail(kind, via, length, CheckAlign(up, from))
    BY <1>1 DEF Submit
  <2>2. CheckAlign(up, from) \in Int
    BY DEF CheckAlign, EINVAL, ENODEV
  <2>3. r \in Request /\ r.moved = {} /\ r.blks = 0 /\ r.st = "done"
    BY <2>1, <2>2 DEF Fail, NewRequest, Request
  <2>4. QED BY <2>3 DEF Finished
<1>2. CASE CheckAlign(up, from) = 0
  <2> DEFINE size == Truncate(from, length, TotalSize)
  <2>1. r = Start(kind, via, from, size)
    BY <1>2 DEF Submit
  <2>2. from % BlockSize = 0 /\ from < TotalSize /\ TotalSize \in Nat
    BY <1>2 DEF CheckAlign, EINVAL, ENODEV, TotalSize
  <2>3. size \in Nat /\ size <= length /\ from + size <= TotalSize
    BY <2>2 DEF Truncate
  <2>4. BlockSize * (from \div BlockSize) = from /\ from \div BlockSize \in Nat
    BY <2>2, Split
  <2>5. size \div BlockSize \in Nat /\ size % BlockSize \in Nat
        /\ size = BlockSize * (size \div BlockSize) + (size % BlockSize)
    BY <2>3, Split, SMTT(60)
  <2> HIDE DEF size
  <2>6. /\ r \in Request /\ r.moved = {} /\ r.st = "chunks" /\ ~r.failed
        /\ r.blks = size \div BlockSize /\ r.cnt = r.blks /\ r.size = size
        /\ r.start = from \div BlockSize /\ r.blkaddr = r.start
        /\ r.databuf = 0 /\ r.bytes = 0 /\ r.via = via
    <3> DEFINE b == from \div BlockSize
               n == size \div BlockSize
    <3>1. r = NewRequest("chunks", kind, via, size, b, n, 0)
      BY <2>1 DEF Start
    <3>2. b \in Nat /\ n \in Nat
      BY <2>4, <2>5
    <3> HIDE DEF b, n
    <3>3. /\ r \in Request /\ r.moved = {} /\ r.st = "chunks" /\ ~r.failed
          /\ r.blks = n /\ r.cnt = r.blks /\ r.size = size
          /\ r.start = b /\ r.blkaddr = r.start
          /\ r.databuf = 0 /\ r.bytes = 0 /\ r.via = via
      BY <3>1, <3>2, <2>3 DEF Request, NewRequest
    <3>4. QED BY <3>3 DEF b, n
  <2>7. Fits(r)
    BY <2>3, <2>4, <2>5, <2>6 DEF Fits, LastBytes, Handle
  <2>8. BlockSize * 0 = 0
    OBVIOUS
  <2>9. Progress(r)
    BY <2>6, <2>4, <2>5, <2>8 DEF Progress, Whole, Inside
  <2>10. QED BY <2>6, <2>7, <2>9
<1>3. QED BY <1>1, <1>2

\* Two requests that agree on what Fits mentions both fit.
LEMMA FitsOnly ==
  ASSUME NEW r, NEW q, Fits(r), q.via = r.via, q.cnt <= q.blks, q.blks = r.blks,
         q.size = r.size, q.start = r.start
  PROVE  Fits(q)
BY DEF Fits, LastBytes

Paired(r) == \A p \in r.moved : p.at = BlockSize * (p.blk - r.start)

\* The blocks of a chunk are paired with their places in the buffer.
LEMMA PiecesPaired ==
  ASSUME NEW r \in Request, NEW n \in Nat,
         r.databuf = BlockSize * (r.blkaddr - r.start)
  PROVE  \A p \in Pieces(r, n) :
           p \in Piece /\ p.at = BlockSize * (p.blk - r.start)
<1> SUFFICES ASSUME NEW i \in 0 .. n - 1
             PROVE  /\ r.databuf + BlockSize * i = BlockSize * ((r.blkaddr + i) - r.start)
                    /\ r.databuf + BlockSize * i \in Int
  BY FlashIOAssumption DEF Pieces, Piece, Request
<1>1. BlockSize * ((r.blkaddr - r.start) + i) = BlockSize * (r.blkaddr - r.start) + BlockSize * i
  BY Blocks, SMTT(60) DEF Request
<1>2. (r.blkaddr - r.start) + i = (r.blkaddr + i) - r.start
  BY DEF Request
<1>3. r.databuf \in Int /\ BlockSize * i \in Int
  BY Blocks DEF Request
<1>4. QED BY <1>1, <1>2, <1>3

\* One round of the chunk loop, whatever the driver returns.
LEMMA AdvanceInv ==
  ASSUME NEW r \in Request, r.st = "chunks", r.cnt > 0,
         Fits(r), Progress(r), Paired(r),
         NEW n \in 0 .. ChunkBlks(r), NEW got \in Int,
         (got = n /\ n = ChunkBlks(r)) \/ (\E k \in ErrCodes : got = -k),
         NEW q, q = Advance(r, n, got)
  PROVE  q \in Request /\ q.st = "chunks" /\ Fits(q) /\ Progress(q) /\ Paired(q)
<1> USE FlashIOAssumption
<1> DEFINE c == ChunkBlks(r)
<1>1. c \in 1 .. StepBlks /\ c <= r.cnt /\ c \in Nat /\ n \in Nat
  BY DEF ChunkBlks, Request
<1>2. /\ q.st = "chunks" /\ q.via = r.via /\ q.size = r.size /\ q.start = r.start
      /\ q.blks = r.blks /\ q.cnt = r.cnt - c /\ q.ret = r.ret /\ q.kind = r.kind
      /\ q.moved = r.moved \cup Pieces(r, n)
      /\ q.bytes = r.bytes + U32(BlockSize * got)
      /\ q.databuf = r.databuf + BlockSize * got
      /\ q.blkaddr = r.blkaddr + got
      /\ q.failed = (r.failed \/ got < 0)
  BY DEF Advance, Request
<1>a. (got = n /\ n = c) \/ (\E k \in ErrCodes : got = -k)
  OBVIOUS
<1> HIDE DEF c
<1>b. U32(BlockSize * c) = BlockSize * c
  BY <1>1, Exact
<1>c. BlockSize * c \in Nat
  BY <1>1, Blocks
<1>3. BlockSize * got \in Int /\ U32(BlockSize * got) \in Nat
  <2>1. CASE got = n /\ n = c
    <3>1. got = c
      BY <2>1
    <3>2. QED BY <3>1, <1>b, <1>c
  <2>2. CASE \E k \in ErrCodes : got = -k
    BY <2>2, <1>1, Overshoot, Blocks
  <2>3. QED BY <2>1, <2>2, <1>a
<1>4. \A p \in Pieces(r, n) : p \in Piece /\ p.at = BlockSize * (p.blk - r.start)
  BY PiecesPaired, <1>1 DEF Progress
<1>5. q \in Request
  <2>1. q.moved \in SUBSET Piece
    BY <1>2, <1>4 DEF Request
  <2>2. q.cnt \in Nat /\ q.bytes \in Nat /\ q.databuf \in Int /\ q.blkaddr \in Int /\ q.failed \in BOOLEAN
    BY <1>1, <1>2, <1>3 DEF Request
  <2>3. q = [r EXCEPT !.cnt = q.cnt, !.moved = q.moved, !.bytes = q.bytes,
                      !.databuf = q.databuf, !.blkaddr = q.blkaddr, !.failed = q.failed]
    BY DEF Advance, Request
  <2>4. QED BY <2>1, <2>2, <2>3, ZenonT(60) DEF Request
<1>6. Fits(q)
  BY <1>1, <1>2, FitsOnly DEF Fits, Request
<1>7. Paired(q)
  BY <1>2, <1>4 DEF Paired
<1>8. Progress(q)
  <2>1. q.databuf = BlockSize * (q.blkaddr - q.start)
    <3>1. BlockSize * ((r.blkaddr - r.start) + got) = BlockSize * (r.blkaddr - r.start) + BlockSize * got
      BY Blocks DEF Request
    <3>2. (r.blkaddr - r.start) + got = (r.blkaddr + got) - r.start
      BY DEF Request
    <3>3. QED BY <3>1, <3>2, <1>2 DEF Progress
  <2>2. BlockSize * ((r.blks - r.cnt) + c) = BlockSize * (r.blks - r.cnt) + BlockSize * c
    BY <1>1, Blocks DEF Request
  <2>3. q.blks - q.cnt = (r.blks - r.cnt) + c
    BY <1>1, <1>2 DEF Request
  <2>4. /\ r.bytes \in Nat /\ BlockSize * c \in Nat
        /\ BlockSize * (r.blks - r.cnt) \in Nat
    <3>1. r.blks - r.cnt \in Nat
      BY DEF Request, Fits
    <3>2. QED BY <3>1, <1>1, Blocks DEF Request
  <2>5. q.failed => q.bytes > BlockSize * (q.blks - q.cnt)
    <3>1. CASE got < 0
      <4>1. U32(BlockSize * got) > BlockSize * c
        BY <3>1, <1>1, <1>a, Overshoot
      <4>2. r.bytes >= BlockSize * (r.blks - r.cnt)
        BY <2>4 DEF Progress, Request
      <4>3. QED BY <4>1, <4>2, <1>2, <1>3, <2>2, <2>3, <2>4
    <3>2. CASE got = c /\ r.failed
      <4>1. U32(BlockSize * got) = BlockSize * c
        BY <3>2, <1>b
      <4>2. QED BY <3>2, <4>1, <1>2, <1>3, <2>2, <2>3, <2>4 DEF Progress
    <3>3. got < 0 \/ got = c
      BY <1>a
    <3>4. QED BY <3>1, <3>2, <3>3, <1>2, <1>1
  <2>6. ASSUME ~q.failed
        PROVE  /\ q.blkaddr = q.start + (q.blks - q.cnt)
               /\ q.bytes = BlockSize * (q.blks - q.cnt)
               /\ Whole(q, q.blks - q.cnt)
               /\ Inside(q)
    <3>1. ~r.failed /\ got = c /\ n = c
      <4>1. ~r.failed /\ ~(got < 0)
        BY <2>6, <1>2, <1>5 DEF Request
      <4>2. \A k \in ErrCodes : -k < 0
        OBVIOUS
      <4>3. QED BY <4>1, <4>2, <1>a
    <3>2. q.blkaddr = q.start + (q.blks - q.cnt)
      BY <3>1, <1>1, <1>2 DEF Progress, Request
    <3>3. q.bytes = BlockSize * (q.blks - q.cnt)
      <4>1. U32(BlockSize * got) = BlockSize * c
        BY <3>1, <1>b
      <4>2. QED BY <3>1, <4>1, <1>2, <1>3, <2>2, <2>3, <2>4 DEF Progress
    <3> DEFINE d == r.blks - r.cnt
    <3>4. d \in Nat /\ r.blkaddr = r.start + d /\ r.databuf = BlockSize * d
          /\ r.start \in Nat
      BY <3>1 DEF Progress, Request, Fits
    <3>5. Whole(q, q.blks - q.cnt)
      <4>0. q.blks - q.cnt = d + c
        BY <2>3
      <4> HIDE DEF d
      <4> SUFFICES ASSUME NEW i \in 0 .. (d + c) - 1
                   PROVE  \E p \in q.moved : p.blk = q.start + i /\ p.at = BlockSize * i
        BY <4>0 DEF Whole
      <4>1. CASE i < d
        BY <4>1, <3>1, <3>4, <1>2 DEF Progress, Whole, d
      <4>2. CASE i >= d
        <5> DEFINE p == [blk |-> r.blkaddr + (i - d), at |-> r.databuf + BlockSize * (i - d),
                         len |-> BlockSize]
        <5>1. i - d \in 0 .. n - 1 /\ i \in Int
          BY <4>2, <3>1, <3>4, <1>1
        <5>2. p \in q.moved
          BY <5>1, <1>2 DEF Pieces
        <5>3. BlockSize * (d + (i - d)) = BlockSize * d + BlockSize * (i - d)
          BY <5>1, <3>4, Blocks
        <5>4. d + (i - d) = i /\ r.blkaddr + (i - d) = q.start + i
          BY <5>1, <3>4, <1>2
        <5>5. p.blk = q.start + i /\ p.at = BlockSize * i
          BY <5>3, <5>4, <3>4
        <5>6. QED BY <5>2, <5>5
      <4>3. QED BY <4>1, <4>2, <3>4, <1>1
    <3>6. Inside(q)
      <4>1. \A p \in r.moved : p.blk >= q.start /\ BlockSize * p.blk < BlockSize * q.start + q.size
        BY <3>1, <1>2 DEF Progress, Inside
      <4>2. ASSUME NEW p \in Pieces(r, n)
            PROVE  p.blk >= q.start /\ BlockSize * p.blk < BlockSize * q.start + q.size
        <5>1. PICK i \in 0 .. n - 1 : p.blk = r.blkaddr + i
          BY DEF Pieces
        <5>2. p.blk \in Int /\ p.blk >= r.start /\ p.blk < r.start + r.blks
          BY <5>1, <3>1, <3>4, <1>1 DEF Request, Fits
        <5>3. BlockSize * p.blk < BlockSize * (r.start + r.blks) /\ BlockSize * p.blk \in Int
          BY <5>2, Blocks DEF Request
        <5>4. BlockSize * (r.start + r.blks) = BlockSize * r.start + BlockSize * r.blks
          BY Blocks DEF Request
        <5>5. r.size \in Nat /\ r.size >= BlockSize * r.blks
          BY Split DEF Fits, LastBytes, Request
        <5>6. BlockSize * r.start \in Int /\ BlockSize * r.blks \in Int
          BY Blocks DEF Request
        <5>7. QED BY <5>2, <5>3, <5>4, <5>5, <5>6, <1>2
      <4>3. QED BY <4>1, <4>2, <1>2 DEF Inside
    <3>7. QED BY <3>2, <3>3, <3>5, <3>6
  <2>7. QED BY <2>1, <2>5, <2>6 DEF Progress
<1>9. QED BY <1>2, <1>5, <1>6, <1>7, <1>8

\* A step that leaves no request under way.
LEMMA RestInv ==
  ASSUME IInv, req' = Idle, dev' \in BOOLEAN, intf' \in [Slots -> Handle], Aligned'
  PROVE  IInv'
<1>1. Idle \in Request /\ Idle.st = "idle" /\ Idle.moved = {}
  BY DEF Idle, NewRequest, Closed, Request, Handle
<1>2. QED BY <1>1 DEF IInv, TypeOK, PairingKept

\* A step that starts a request, or answers it at once.
LEMMA CallInv ==
  ASSUME IInv, dev' \in BOOLEAN, UNCHANGED intf,
         req' \in Request, req'.moved = {},
         \/ req'.st = "chunks" /\ Fits(req') /\ Progress(req')
         \/ req'.st = "done" /\ Finished(req')
  PROVE  IInv'
BY DEF IInv, TypeOK, Aligned, PairingKept

LEMMA OpenInv ==
  ASSUME IInv, NEW s \in Slots, NEW up \in BOOLEAN, NEW from \in Nat,
         NEW length \in Nat, dev' \in BOOLEAN, req' = Idle,
         intf' = IF CheckAlign(up, from) # 0 THEN intf
                 ELSE [intf EXCEPT ![s] =
                        [used |-> TRUE, from |-> from, length |-> length]]
  PROVE  IInv'
<1>1. CASE CheckAlign(up, from) # 0
  <2>1. intf' \in [Slots -> Handle] /\ Aligned'
    BY <1>1 DEF IInv, TypeOK, Aligned
  <2>2. QED BY <2>1, RestInv
<1>2. CASE CheckAlign(up, from) = 0
  <2>1. from % BlockSize = 0
    BY <1>2 DEF CheckAlign, ENODEV, EINVAL
  <2>2. intf' \in [Slots -> Handle]
    BY <1>2 DEF IInv, TypeOK, Handle
  <2>3. Aligned'
    BY <1>2, <2>1 DEF IInv, TypeOK, Aligned, Handle
  <2>4. QED BY <2>2, <2>3, RestInv
<1>3. QED BY <1>1, <1>2

LEMMA OpenRangeInv ==
  ASSUME IInv, NEW from \in Nat, NEW length \in Nat, OpenRange(from, length)
  PROVE  IInv'
<1>1. PICK s \in Slots, up \in BOOLEAN :
        /\ Probe(up)
        /\ intf' = IF CheckAlign(up, from) # 0 THEN intf
                   ELSE [intf EXCEPT ![s] =
                          [used |-> TRUE, from |-> from, length |-> length]]
  BY DEF OpenRange
<1>2. req' = Idle /\ dev' \in BOOLEAN
  BY <1>1 DEF OpenRange, Probe
<1>3. QED BY <1>1, <1>2, OpenInv

LEMMA OpenPartInv ==
  ASSUME IInv, NEW start \in Nat, NEW size \in Nat, OpenPart(start, size)
  PROVE  IInv'
<1> USE FlashIOAssumption
<1>1. PICK s \in Slots, known \in BOOLEAN, up \in BOOLEAN :
        /\ Probe(up)
        /\ intf' = IF CheckAlign(up, start) # 0 THEN intf
                   ELSE [intf EXCEPT ![s] =
                          [used |-> TRUE, from |-> start,
                           length |-> Truncate(0, size, IF known THEN TotalSize
                                                        ELSE 0)]]
  BY DEF OpenPart
<1>2. req' = Idle /\ dev' \in BOOLEAN
  BY <1>1 DEF OpenPart, Probe
<1>3. Truncate(0, size, IF known THEN TotalSize ELSE 0) \in Nat
  BY DEF Truncate, TotalSize
<1>4. QED BY <1>1, <1>2, <1>3, OpenInv

LEMMA CallStepInv ==
  ASSUME IInv, NEW s \in Slots, NEW offset \in Nat, NEW length \in Nat,
         NEW kind \in {"read", "write"}, Call(kind, s, offset, length)
  PROVE  IInv'
<1>1. intf[s] \in Handle /\ intf[s].from % BlockSize = 0 /\ dev \in BOOLEAN
  BY DEF Call, IInv, TypeOK, Aligned
<1>2. CASE length = 0 \/ offset >= intf[s].length
  <2> DEFINE err == IF length = 0 THEN 0 ELSE EINVAL
  <2>1. req' = Fail(kind, intf[s], length, err) /\ dev' = dev /\ UNCHANGED intf
    BY <1>2 DEF Call
  <2>2. err \in Int
    BY DEF EINVAL
  <2> HIDE DEF err
  <2>3. /\ req' \in Request /\ req'.moved = {} /\ req'.blks = 0
        /\ req'.st = "done"
    BY <1>1, <2>1, <2>2 DEF Fail, NewRequest, Request
  <2>4. Finished(req')
    BY <2>3 DEF Finished
  <2>5. QED BY <1>1, <2>1, <2>3, <2>4, CallInv
<1>3. CASE ~(length = 0 \/ offset >= intf[s].length)
  <2> DEFINE from == intf[s].from + offset
             len  == Truncate(offset, length, intf[s].length)
  <2>1. PICK up \in BOOLEAN : Probe(up) /\ req' = Submit(kind, intf[s], from, len, up)
    BY <1>3 DEF Call
  <2>2. dev' \in BOOLEAN /\ UNCHANGED intf
    BY <2>1 DEF Call, Probe
  <2>3. /\ from \in Nat /\ len \in Nat /\ from >= intf[s].from
        /\ from + len <= intf[s].from + intf[s].length
    BY <1>1, <1>3 DEF Truncate, Handle
  <2> HIDE DEF from, len
  <2>4. QED BY <1>1, <2>1, <2>2, <2>3, SubmitFits, CallInv
<1>4. QED BY <1>2, <1>3

LEMMA RawReadInv ==
  ASSUME IInv, NEW from \in Nat, NEW length \in Nat, RawRead(from, length)
  PROVE  IInv'
<1> USE FlashIOAssumption
<1> DEFINE via == [used |-> TRUE, from |-> 0, length |-> TotalSize]
<1>1. PICK up \in BOOLEAN : Probe(up) /\ req' = Submit("read", via, from, length, up)
  BY DEF RawRead
<1>2. dev' \in BOOLEAN /\ UNCHANGED intf
  BY <1>1 DEF RawRead, Probe
<1>3. via \in Handle /\ via.from = 0 /\ via.length = TotalSize /\ TotalSize \in Nat
  BY DEF Handle, TotalSize
<1>4. 0 % BlockSize = 0
  OBVIOUS
<1> DEFINE len == Truncate(from, length, TotalSize)
<1>5. CASE CheckAlign(up, from) # 0 
  <2> DEFINE err == CheckAlign(up, from)
  <2>1. req' = Fail("read", via, length, err) /\ err \in Int
    BY <1>1, <1>5 DEF Submit, CheckAlign, EINVAL, ENODEV
  <2> HIDE DEF err, via
  <2>2. /\ req' \in Request /\ req'.moved = {} /\ req'.blks = 0
        /\ req'.st = "done"
    BY <1>3, <2>1 DEF Fail, NewRequest, Request
  <2>3. Finished(req')
    BY <2>2 DEF Finished
  <2>4. QED BY <1>2, <2>2, <2>3, CallInv
<1>6. CASE CheckAlign(up, from) = 0
  <2>1. from < TotalSize
    BY <1>3, <1>6 DEF CheckAlign, EINVAL, ENODEV
  <2>2. len \in Nat /\ from + len <= TotalSize
    BY <1>3, <2>1 DEF Truncate
  <2>3. Truncate(from, len, TotalSize) = len
    <3> HIDE DEF len
    <3> QED BY <1>3, <2>2 DEF Truncate
  <2> HIDE DEF via, len
  <2>4. req' = Submit("read", via, from, len, up)
    BY <1>1, <1>6, <2>3 DEF Submit, len
  <2>5. QED BY <1>2, <1>3, <1>4, <2>2, <2>4, SubmitFits, CallInv
<1>7. QED BY <1>5, <1>6

\* The tail of a request, or its absence, closes it.
LEMMA ClosedInv ==
  ASSUME IInv, req.st = "chunks", req.cnt = 0, UNCHANGED <<dev, intf>>,
         NEW got \in SUBSET {[blk |-> req.start + req.blks, at |-> BlockSize * req.blks,
                              len |-> LastBytes(req)]},
         got # {} => LastBytes(req) # 0,
         NEW bytes \in Nat, NEW ret \in Int,
         ret < 0 \/ ret = req.bytes + LastBytes(req),
         req' = [req EXCEPT !.st = "done", !.moved = @ \cup got,
                            !.bytes = bytes, !.ret = ret]
  PROVE  IInv'
<1> USE FlashIOAssumption
<1> DEFINE last == LastBytes(req)
<1>1. req \in Request /\ Fits(req) /\ Progress(req) /\ PairingKept
  BY DEF IInv, TypeOK
<1>2. /\ req'.st = "done" /\ req'.via = req.via /\ req'.size = req.size
      /\ req'.start = req.start /\ req'.blks = req.blks /\ req'.cnt = req.cnt
      /\ req'.moved = req.moved \cup got /\ req'.failed = req.failed
      /\ req'.ret = ret
  BY <1>1 DEF Request
<1>3. last \in 0 .. BlockSize - 1 /\ req.size \in Nat /\ req.blks \in Nat /\ req.start \in Nat
  BY <1>1, Split DEF LastBytes, Request
<1> HIDE DEF last
<1>4. \A p \in got : p \in Piece /\ p.at = BlockSize * (p.blk - req.start)
  <2>1. (req.start + req.blks) - req.start = req.blks
    BY <1>3
  <2>2. BlockSize * req.blks \in Int
    BY <1>3
  <2>3. QED BY <1>3, <2>1, <2>2 DEF Piece, last
<1>5. req' \in Request
  <2>1. req.moved \cup got \in SUBSET Piece
    BY <1>1, <1>4 DEF Request
  <2>2. QED BY <1>1, <2>1 DEF Request
<1>6. Fits(req')
  BY <1>1, <1>2 DEF Fits, LastBytes
<1>7. ASSUME ~req.failed PROVE Inside(req')
  <2>1. Inside(req)
    BY <1>1, <1>7 DEF Progress
  <2>2. ASSUME NEW p \in got
        PROVE  p.blk >= req.start /\ BlockSize * p.blk < BlockSize * req.start + req.size
    <3>1. p.blk = req.start + req.blks
      OBVIOUS
    <3>2. BlockSize * (req.start + req.blks) = BlockSize * req.start + BlockSize * req.blks
      <4>1. \A x, y \in Nat : BlockSize * (x + y) = BlockSize * x + BlockSize * y
        BY Blocks
      <4>2. QED BY <1>3, <4>1
    <3>3. BlockSize * req.start \in Int /\ BlockSize * req.blks \in Int
      BY <1>3
    <3>4. req.size = BlockSize * req.blks + last /\ last > 0
      BY <1>1, <1>3 DEF Fits, last
    <3>5. QED BY <3>1, <3>2, <3>3, <3>4, <1>3
  <2>3. QED BY <1>2, <2>1, <2>2 DEF Inside
<1>8. ASSUME req'.ret = req'.size PROVE Whole(req', req'.blks)
  <2>1. ret = req.size /\ ret >= 0
    BY <1>2, <1>3, <1>8
  <2>2. req.bytes = BlockSize * req.blks
    <3>1. req.size = BlockSize * req.blks + last /\ ret = req.bytes + last
      BY <1>1, <2>1 DEF Fits, last
    <3>2. req.bytes \in Nat /\ BlockSize * req.blks \in Int
      BY <1>1, <1>3 DEF Request
    <3>3. QED BY <1>3, <2>1, <3>1, <3>2
  <2>3. req.blks - req.cnt = req.blks
    BY <1>3
  <2>4. ~req.failed
    <3>1. req.failed => req.bytes > BlockSize * req.blks
      BY <1>1, <2>3 DEF Progress
    <3>2. req.bytes \in Nat
      BY <1>1 DEF Request
    <3>3. QED BY <2>2, <3>1, <3>2
  <2>5. Whole(req, req.blks)
    BY <1>1, <2>3, <2>4 DEF Progress
  <2>6. QED BY <1>2, <2>5 DEF Whole
<1>9. QED
  BY <1>1, <1>2, <1>4, <1>5, <1>6, <1>7, <1>8
     DEF IInv, TypeOK, Aligned, PairingKept, Finished

LEMMA ChunkInv ==
  ASSUME IInv, req.st = "chunks", req.cnt > 0, UNCHANGED <<dev, intf>>,
         NEW n \in 0 .. ChunkBlks(req), NEW got \in Int,
         (got = n /\ n = ChunkBlks(req)) \/ (\E k \in ErrCodes : got = -k),
         req' = Advance(req, n, got)
  PROVE  IInv'
<1>1. req \in Request /\ Fits(req) /\ Progress(req) /\ Paired(req)
  BY DEF IInv, TypeOK, PairingKept, Paired
<1>2. /\ req' \in Request /\ req'.st = "chunks" /\ Fits(req') /\ Progress(req')
      /\ Paired(req')
  BY <1>1, AdvanceInv
<1>3. QED BY <1>2 DEF IInv, TypeOK, Aligned, PairingKept, Paired

LEMMA StepInv == IInv /\ [Next]_vars => IInv'
<1> SUFFICES ASSUME IInv, [Next]_vars
             PROVE  IInv'
  OBVIOUS
<1> USE FlashIOAssumption
<1>1. ASSUME NEW r \in Ranges, OpenRange(r[1], r[2]) PROVE IInv'
  <2>1. r[1] \in Nat /\ r[2] \in Nat
    OBVIOUS
  <2>2. QED BY <1>1, <2>1, OpenRangeInv
<1>2. ASSUME NEW r \in Ranges, OpenPart(r[1], r[2]) PROVE IInv'
  <2>1. r[1] \in Nat /\ r[2] \in Nat
    OBVIOUS
  <2>2. QED BY <1>2, <2>1, OpenPartInv
<1>3. ASSUME NEW s \in Slots, Close(s) PROVE IInv'
  <2>1. req' = Idle /\ intf' = [intf EXCEPT ![s] = Closed] /\ dev' = dev
    BY <1>3 DEF Close
  <2>2. dev' \in BOOLEAN /\ intf' \in [Slots -> Handle] /\ Aligned'
    BY <2>1 DEF IInv, TypeOK, Aligned, Closed, Handle
  <2>3. QED BY <2>1, <2>2, RestInv
<1>4. ASSUME NEW s \in Slots, NEW o \in Offsets, NEW l \in Lengths,
             NEW k \in {"read", "write"}, Call(k, s, o, l)
      PROVE  IInv'
  BY <1>4, CallStepInv
<1>5. ASSUME NEW s \in Slots, NEW o \in Offsets, NEW l \in Lengths, Erase(s, o, l)
      PROVE  IInv'
  <2>1. PICK ret : req' = Fail("erase", intf[s], l, ret) /\ ret \in Int
    <3> DEFINE ret == CASE l = 0 -> 0
                        [] l # 0 /\ o >= intf[s].length -> EINVAL
                        [] l # 0 /\ o < intf[s].length -> Truncate(o, l, intf[s].length)
    <3>1. intf[s].length \in Nat /\ l \in Nat /\ o \in Nat
      BY DEF IInv, TypeOK, Handle
    <3>2. ret \in Int
      BY <3>1 DEF EINVAL, Truncate
    <3>3. QED BY <1>5, <3>2 DEF Erase
  <2>2. intf[s] \in Handle /\ dev \in BOOLEAN /\ UNCHANGED <<dev, intf>>
    BY <1>5 DEF IInv, TypeOK, Erase
  <2>3. /\ req' \in Request /\ req'.moved = {} /\ req'.blks = 0
        /\ req'.st = "done"
    BY <2>1, <2>2 DEF Fail, NewRequest, Request
  <2>4. Finished(req')
    BY <2>3 DEF Finished
  <2>5. QED BY <2>2, <2>3, <2>4, CallInv
<1>6. ASSUME NEW o \in Offsets, NEW l \in Lengths, RawRead(o, l) PROVE IInv'
  BY <1>6, RawReadInv
<1>7. CASE ChunkDone
  <2>1. ChunkBlks(req) \in Nat /\ ChunkBlks(req) \in 0 .. ChunkBlks(req)
    BY <1>7 DEF ChunkDone, ChunkBlks, IInv, TypeOK, Request
  <2>2. QED BY <1>7, <2>1, ChunkInv DEF ChunkDone
<1>8. CASE ChunkFails
  <2>1. PICK k \in ErrCodes, n \in 0 .. ChunkBlks(req) : req' = Advance(req, n, -k)
    BY <1>8 DEF ChunkFails
  <2>2. -k \in Int
    OBVIOUS
  <2>3. QED BY <1>8, <2>1, <2>2, ChunkInv DEF ChunkFails
<1>9. CASE Tail
  <2> DEFINE piece == [blk |-> req.start + req.blks, at |-> BlockSize * req.blks,
                       len |-> LastBytes(req)]
  <2>1. req \in Request /\ LastBytes(req) \in Nat
    BY Split DEF IInv, TypeOK, LastBytes, Request
  <2>2. CASE req' = [req EXCEPT !.st = "done", !.ret = ENOMEM]
    <3>1. req' = [req EXCEPT !.st = "done", !.moved = @ \cup {}, !.bytes = req.bytes,
                             !.ret = ENOMEM]
      BY <2>1, <2>2 DEF Request
    <3>2. ENOMEM \in Int /\ ENOMEM < 0 /\ req.bytes \in Nat
      BY <2>1 DEF ENOMEM, Request
    <3>3. QED BY <1>9, <3>1, <3>2, ClosedInv DEF Tail
  <2>3. ASSUME NEW ok \in BOOLEAN,
               req' = [req EXCEPT !.st = "done",
                                  !.moved = @ \cup (IF ok THEN {piece} ELSE {}),
                                  !.bytes = @ + LastBytes(req),
                                  !.ret = req.bytes + LastBytes(req)]
        PROVE  IInv'
    <3> DEFINE got == IF ok THEN {piece} ELSE {}
               sum == req.bytes + LastBytes(req)
    <3>1. req' = [req EXCEPT !.st = "done", !.moved = @ \cup got, !.bytes = sum,
                             !.ret = sum]
      BY <2>1, <2>3 DEF Request
    <3>2. sum \in Nat /\ sum \in Int /\ got \in SUBSET {piece}
      BY <2>1 DEF Request
    <3> HIDE DEF got
    <3>3. QED BY <1>9, <3>1, <3>2, ClosedInv DEF Tail
  <2>4. QED BY <1>9, <2>2, <2>3 DEF Tail
<1>10. CASE NoTail
  <2>1. req \in Request /\ LastBytes(req) = 0
    BY <1>10 DEF IInv, TypeOK, NoTail
  <2>2. req' = [req EXCEPT !.st = "done", !.moved = @ \cup {}, !.bytes = req.bytes,
                           !.ret = req.bytes]
    BY <1>10, <2>1 DEF NoTail, Request
  <2>3. req.bytes \in Nat /\ req.bytes \in Int /\ req.bytes = req.bytes + LastBytes(req)
    BY <2>1 DEF Request
  <2>4. req.st = "chunks" /\ req.cnt = 0 /\ UNCHANGED <<dev, intf>>
    BY <1>10 DEF NoTail
  <2>5. {} \in SUBSET {[blk |-> req.start + req.blks, at |-> BlockSize * req.blks,
                       len |-> LastBytes(req)]}
    OBVIOUS
  <2>6. QED BY <2>2, <2>3, <2>4, <2>5, ClosedInv
<1>11. CASE UNCHANGED vars
  BY <1>11 DEF vars, IInv, TypeOK, Aligned, PairingKept
<1>12. QED
  BY <1>1, <1>2, <1>3, <1>4, <1>5, <1>6, <1>7, <1>8, <1>9, <1>10, <1>11 DEF Next

-----------------------------------------------------------------------------

\* The block of a piece that lies inside a request that fits is on the card and
\* in the range of the handle.
LEMMA InsideContained ==
  ASSUME NEW r \in Request, Fits(r), Inside(r), NEW p \in r.moved
  PROVE  /\ OnCard(p.blk, 1)
         /\ BlockSize * p.blk >= r.via.from
         /\ BlockSize * p.blk < r.via.from + r.via.length
<1> USE FlashIOAssumption
<1>1. /\ p.blk \in Int /\ p.blk >= r.start /\ r.start \in Nat
      /\ BlockSize * p.blk < BlockSize * r.start + r.size
  BY DEF Inside, Request, Piece
<1>2. BlockSize * p.blk \in Int /\ BlockSize * r.start \in Int
  BY <1>1
<1>3. BlockSize * p.blk < BlockSize * NBlocks
  BY <1>1, <1>2 DEF Fits, TotalSize, Request
<1>4. p.blk < NBlocks
  BY <1>1, <1>3, Blocks
<1>5. BlockSize * p.blk >= BlockSize * r.start
  <2>1. BlockSize * (p.blk - r.start) >= 0
    BY <1>1, Blocks
  <2>2. BlockSize * (p.blk - r.start) = BlockSize * p.blk - BlockSize * r.start
    BY <1>1, Blocks
  <2>3. QED BY <1>2, <2>1, <2>2
<1>6. QED
  BY <1>1, <1>2, <1>4, <1>5 DEF Fits, OnCard, Request, Handle

LEMMA IInvContained == IInv => Contained
<1> SUFFICES ASSUME IInv, ~req.failed, NEW p \in req.moved
             PROVE  /\ OnCard(p.blk, 1)
                    /\ BlockSize * p.blk >= req.via.from
                    /\ BlockSize * p.blk < req.via.from + req.via.length
  BY DEF Contained
<1>1. req \in Request
  BY DEF IInv, TypeOK
<1>2. Fits(req) /\ Inside(req)
  BY <1>1 DEF IInv, Progress, Finished, Request
<1>3. QED BY <1>1, <1>2, InsideContained

LEMMA IInvFull == IInv => FullReturnIsComplete
<1> SUFFICES ASSUME IInv, req.st = "done", req.ret = req.size, NEW i \in 0 .. req.blks - 1
             PROVE  \E p \in req.moved : p.blk = req.start + i /\ p.at = BlockSize * i
  BY DEF FullReturnIsComplete
<1>1. req.blks \in Nat /\ Finished(req)
  BY DEF IInv, TypeOK, Request
<1>2. req.blks # 0
  BY <1>1
<1>3. QED BY <1>1, <1>2 DEF Finished, Whole

LEMMA IInvNeighbours == IInv => NeighboursUntouched
<1> SUFFICES ASSUME IInv, ~req.failed, NEW p \in req.moved, NEW s \in Slots,
                    intf[s].used,
                    \/ intf[s].from + intf[s].length <= req.via.from
                    \/ req.via.from + req.via.length <= intf[s].from,
                    NEW b \in BlockSize * p.blk .. BlockSize * p.blk + BlockSize - 1
             PROVE  ~(intf[s].from <= b /\ b < intf[s].from + intf[s].length)
  BY DEF NeighboursUntouched
<1> USE FlashIOAssumption
<1> DEFINE h == intf[s]
           v == req.via
           x == BlockSize * p.blk
<1>1. h \in Handle /\ v \in Handle /\ p.blk \in Int /\ x \in Int
  <2>1. p \in Piece
    BY DEF IInv, TypeOK, Request
  <2>2. QED BY <2>1 DEF IInv, TypeOK, Request, Piece
<1>2. x >= v.from /\ x < v.from + v.length
  BY IInvContained DEF Contained
<1>3. CASE h.from + h.length <= v.from
  <2> HIDE DEF h, v, x
  <2>1. b >= x /\ b \in Int
    BY <1>1 DEF x
  <2>2. QED BY <1>1, <1>2, <1>3, <2>1 DEF h, Handle
<1>4. CASE v.from + v.length <= h.from
  <2> DEFINE q == h.from \div BlockSize
  <2>1. h.from % BlockSize = 0 /\ h.from \in Nat
    BY <1>1 DEF IInv, Aligned, Handle
  <2>2. h.from = BlockSize * q /\ q \in Nat
    BY <2>1, Split, SMTT(60)
  <2>3. x < BlockSize * q
    <3> HIDE DEF h, v, x, q
    <3>1. QED BY <1>1, <1>2, <1>4, <2>2 DEF Handle
  <2>4. x + BlockSize <= BlockSize * q
    <3> HIDE DEF q, h
    <3>1. p.blk < q
      BY <1>1, <2>2, <2>3, Blocks
    <3>2. QED BY <1>1, <2>2, <3>1, Blocks
  <2>5. b < x + BlockSize /\ b \in Int
    BY <1>1
  <2> HIDE DEF h, v, x, q
  <2>6. QED BY <1>1, <2>1, <2>2, <2>4, <2>5 DEF h
<1>5. QED BY <1>3, <1>4

\* The stack keeps its types.
THEOREM TypeCorrect == Spec => []TypeOK
<1>1. IInv => TypeOK
  BY DEF IInv
<1>2. QED BY <1>1, InitInv, StepInv, PTL DEF Spec

\* Every block of every request is paired with its own place in the buffer of
\* the caller, also after chunks that failed (mmc_if.c, the chunk loops).
THEOREM PairingCorrect == Spec => []PairingKept
<1>1. IInv => PairingKept
  BY DEF IInv
<1>2. QED BY <1>1, InitInv, StepInv, PTL DEF Spec

\* Until one of its chunks fails, a request stays on the card and in the range
\* its handle was opened on (flash.c, mmc_unif.c, mmc_if.c).
THEOREM Containment == Spec => []Contained
BY IInvContained, InitInv, StepInv, PTL DEF Spec

\* A request that returns the size it was cut to has moved every whole block:
\* the test of mmc_unif.c and env_set.c for a short transfer is sound for them.
THEOREM FullReturn == Spec => []FullReturnIsComplete
BY IInvFull, InitInv, StepInv, PTL DEF Spec

\* A write never reaches an open partition that does not overlap its own, for
\* all that it writes whole blocks (flash.c, mmc_unif.c, mmc_if.c).
THEOREM NeighboursSafe == Spec => []NeighboursUntouched
BY IInvNeighbours, InitInv, StepInv, PTL DEF Spec
=============================================================================
