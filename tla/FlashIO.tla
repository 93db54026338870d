------------------------------ MODULE FlashIO ------------------------------
(***************************************************************************)
(* The flash stack above the eMMC driver: the handle table of              *)
(* drivers/flash/flash.c, the partition operations of                      *)
(* drivers/flash/mmc/mmc_unif.c and the chunked transfers of               *)
(* drivers/flash/mmc/mmc_if.c.                                             *)
(*                                                                         *)
(* A request is served one driver call (one chunk) per step, so that the   *)
(* states between the chunks are visible.  The driver returns the number   *)
(* of blocks it moved or a negative error, and mmc_if.c adds that value to *)
(* the block address, to the buffer pointer and, as an unsigned 32-bit     *)
(* product, to the byte count, without looking at its sign.                *)
(*                                                                         *)
(* Data is abstracted to its provenance: "moved" holds, for every block    *)
(* transferred by the current request, the block, the byte of the caller's *)
(* buffer it was paired with, and how many bytes of it were used.          *)
(***************************************************************************)
EXTENDS Integers

CONSTANTS
  BlockSize,   \* mmcdev->blocksize, in bytes
  NBlocks,     \* capacity of the card, in blocks
  StepBlks,    \* MMC_RW_STEP_BLKS
  W32,         \* 2^32, the modulus of a uint32
  ErrCodes,    \* magnitudes of the driver's negative returns
  Slots,       \* the entries of intf_ctrl->intf, 1..10 in the code
  Ranges,      \* the <<from, length>> pairs clients open
  Offsets,     \* the offsets clients pass
  Lengths      \* the lengths clients pass

ASSUME FlashIOAssumption ==
  /\ BlockSize \in Nat \ {0} /\ NBlocks \in Nat \ {0} /\ StepBlks \in Nat \ {0}
  /\ W32 \in Nat /\ BlockSize * StepBlks < W32
  /\ ErrCodes \subseteq Nat \ {0}
  /\ \A k \in ErrCodes : BlockSize * (StepBlks + k) < W32
  /\ Slots \subseteq Nat
  /\ Ranges \subseteq Nat \X Nat
  /\ Offsets \subseteq Nat /\ Lengths \subseteq Nat

VARIABLES
  dev,    \* mmcdev /= NULL and mmcdev_info.type = FT_EMMC
  intf,   \* intf_ctrl->intf: "used" stands for ops /= NULL
  req     \* the locals of the call being served, and its result

vars == <<dev, intf, req>>

EINVAL == -22
ENODEV == -19
ENOMEM == -12

TotalSize == BlockSize * NBlocks

Closed == [used |-> FALSE, from |-> 0, length |-> 0]

\* A request before its first driver call: n blocks from block b on.
NewRequest(st, kind, via, size, b, n, ret) ==
  [st |-> st, kind |-> kind, via |-> via, size |-> size, start |-> b, blks |-> n,
   cnt |-> n, blkaddr |-> b, databuf |-> 0, bytes |-> 0, moved |-> {},
   failed |-> FALSE, ret |-> ret]

Idle == NewRequest("idle", "none", Closed, 0, 0, 0, 0)

\* Mutation: the product is added with its sign.
SignedU32(x) == x

\* A uint32 expression, zero-extended by the assignment to a uint64.
U32(x) == x % W32

-----------------------------------------------------------------------------
(* Range and alignment checks *)

\* get_mmcdev_info: an absent device is probed again by every caller.
Probe(up) == /\ up \in BOOLEAN
             /\ dev => up
             /\ dev' = up

\* Mutation: nothing is cut.
NoTruncate(offset, length, limit) == length

\* The length left after cutting [offset, offset + length) at limit.
Truncate(offset, length, limit) ==
  IF offset + length > limit THEN limit - offset ELSE length

\* Mutation: only the range is checked.
CheckRangeOnly(up, offset) ==
  IF ~up THEN ENODEV ELSE IF offset >= TotalSize THEN EINVAL ELSE 0

\* mmcdev_check_align, mmcdev_check_range: 0 or the error they return.
CheckAlign(up, offset) ==
  IF ~up THEN ENODEV
  ELSE IF offset >= TotalSize \/ offset % BlockSize # 0 THEN EINVAL ELSE 0

-----------------------------------------------------------------------------
(* The handle table *)

FreeSlots == {s \in Slots : ~intf[s].used}

\* get_new_flash_intf: the first entry whose ops is NULL.
IsNewIntf(s) == s \in FreeSlots /\ \A t \in FreeSlots : s <= t

Resting == req.st \in {"idle", "done"}

\* flash_open_range.  The device checks see a copy of the length: what is
\* stored is the length the caller asked for, even past the end of the card.
OpenRange(from, length) ==
  /\ Resting
  /\ \E s \in Slots, up \in BOOLEAN :
       /\ IsNewIntf(s)
       /\ Probe(up)
       /\ intf' = IF CheckAlign(up, from) # 0 THEN intf
                  ELSE [intf EXCEPT ![s] =
                         [used |-> TRUE, from |-> from, length |-> length]]
  /\ req' = Idle

\* flash_open_part, for a partition that flash_find_part has resolved: the
\* size is capped by the size of the card, which is 0 when get_info did not
\* find a card, even if open, which probes again, then finds it.
OpenPart(start, size) ==
  /\ Resting
  /\ \E s \in Slots, known, up \in BOOLEAN :
       /\ IsNewIntf(s)
       /\ dev => known
       /\ known => up
       /\ Probe(up)
       /\ intf' = IF CheckAlign(up, start) # 0 THEN intf
                  ELSE [intf EXCEPT ![s] =
                         [used |-> TRUE, from |-> start,
                          length |-> Truncate(0, size, IF known THEN TotalSize
                                                       ELSE 0)]]
  /\ req' = Idle

\* flash_close
Close(s) ==
  /\ Resting
  /\ intf[s].used
  /\ intf' = [intf EXCEPT ![s] = Closed]
  /\ req' = Idle
  /\ UNCHANGED dev

-----------------------------------------------------------------------------
(* Requests *)

Fail(kind, via, length, err) ==
  NewRequest("done", kind, via, length, 0, 0, err)

\* The locals of mmcdev_write and mmcdev_read when the chunk loop starts.
Start(kind, via, from, size) ==
  NewRequest("chunks", kind, via, size, from \div BlockSize, size \div BlockSize, 0)

\* mmcdev_read and mmcdev_write, up to the chunk loop.
Submit(kind, via, from, length, up) ==
  LET err == CheckAlign(up, from) IN
  IF err # 0 THEN Fail(kind, via, length, err)
  ELSE Start(kind, via, from, Truncate(from, length, TotalSize))

\* mmcdev_unif_read and mmcdev_unif_write through an open handle.
Call(kind, s, offset, length) ==
  /\ Resting
  /\ intf[s].used
  /\ \E up \in BOOLEAN :
       IF length = 0 \/ offset >= intf[s].length
       THEN /\ req' = Fail(kind, intf[s], length, IF length = 0 THEN 0 ELSE EINVAL)
            /\ up = dev /\ UNCHANGED dev
       ELSE /\ Probe(up)
            /\ req' = Submit(kind, intf[s], intf[s].from + offset,
                             Truncate(offset, length, intf[s].length), up)
  /\ UNCHANGED intf

\* mmcdev_read called directly, as boot_start does: no handle bounds it.
RawRead(from, length) ==
  /\ Resting
  /\ \E up \in BOOLEAN :
       /\ Probe(up)
       /\ req' = Submit("read", [used |-> TRUE, from |-> 0, length |-> TotalSize],
                        from, length, up)
  /\ UNCHANGED intf

\* mmcdev_unif_erase: mmcdev_erase does nothing and the cut length is
\* reported as erased.
Erase(s, offset, length) ==
  /\ Resting
  /\ intf[s].used
  /\ req' = Fail("erase", intf[s], length,
                 CASE length = 0 -> 0
                   [] length # 0 /\ offset >= intf[s].length -> EINVAL
                   [] length # 0 /\ offset < intf[s].length ->
                        Truncate(offset, length, intf[s].length))
  /\ UNCHANGED <<dev, intf>>

-----------------------------------------------------------------------------
(* The chunk loop *)

ChunkBlks(r) == IF r.cnt > StepBlks THEN StepBlks ELSE r.cnt

\* The first n blocks of the chunk at the current address and pointer.
Pieces(r, n) ==
  {[blk |-> r.blkaddr + i, at |-> r.databuf + BlockSize * i, len |-> BlockSize]
     : i \in 0 .. n - 1}

OnCard(blk, n) == blk >= 0 /\ blk + n <= NBlocks

\* Mutation: the buffer pointer moves by blocks, not by bytes.
AdvanceByBlocks(r, n, got) ==
  [r EXCEPT !.cnt     = @ - ChunkBlks(r),
            !.moved   = @ \cup Pieces(r, n),
            !.bytes   = @ + U32(BlockSize * got),
            !.databuf = @ + got,
            !.blkaddr = @ + got,
            !.failed  = @ \/ got < 0]

\* Mutation: the bytes asked for are counted, not the driver's return.
AdvanceCountsAsked(r, n, got) ==
  [r EXCEPT !.cnt     = @ - ChunkBlks(r),
            !.moved   = @ \cup Pieces(r, n),
            !.bytes   = @ + U32(BlockSize * ChunkBlks(r)),
            !.databuf = @ + BlockSize * got,
            !.blkaddr = @ + got,
            !.failed  = @ \/ got < 0]

\* step = mmcdev->write(...) and the three additions that follow it, for a
\* driver that moved n blocks and returned got.
Advance(r, n, got) ==
  [r EXCEPT !.cnt     = @ - ChunkBlks(r),
            !.moved   = @ \cup Pieces(r, n),
            !.bytes   = @ + U32(BlockSize * got),
            !.databuf = @ + BlockSize * got,
            !.blkaddr = @ + got,
            !.failed  = @ \/ got < 0]

ChunkDone ==
  /\ req.st = "chunks" /\ req.cnt > 0
  /\ OnCard(req.blkaddr, ChunkBlks(req))
  /\ req' = Advance(req, ChunkBlks(req), ChunkBlks(req))
  /\ UNCHANGED <<dev, intf>>

\* The driver gives up, after a prefix of the chunk may have been moved.  A
\* card refuses an address it does not have.
ChunkFails ==
  /\ req.st = "chunks" /\ req.cnt > 0
  /\ \E k \in ErrCodes, n \in 0 .. ChunkBlks(req) :
       /\ n > 0 => OnCard(req.blkaddr, n)
       /\ req' = Advance(req, n, -k)
  /\ UNCHANGED <<dev, intf>>

LastBytes(r) == r.size % BlockSize

\* The tail of a request that is not a whole number of blocks goes through a
\* block of its own; what the driver returns for it is not looked at.
Tail ==
  /\ req.st = "chunks" /\ req.cnt = 0 /\ LastBytes(req) # 0
  /\ \/ req' = [req EXCEPT !.st = "done", !.ret = ENOMEM]
     \/ \E ok \in BOOLEAN :
          LET piece == [blk |-> req.start + req.blks, at |-> BlockSize * req.blks,
                        len |-> LastBytes(req)]
          IN req' = [req EXCEPT !.st = "done",
                                !.moved = @ \cup (IF ok THEN {piece} ELSE {}),
                                !.bytes = @ + LastBytes(req),
                                !.ret = req.bytes + LastBytes(req)]
  /\ UNCHANGED <<dev, intf>>

NoTail ==
  /\ req.st = "chunks" /\ req.cnt = 0 /\ LastBytes(req) = 0
  /\ req' = [req EXCEPT !.st = "done", !.ret = req.bytes]
  /\ UNCHANGED <<dev, intf>>

-----------------------------------------------------------------------------

Init ==
  /\ dev = FALSE
  /\ intf = [s \in Slots |-> Closed]
  /\ req = Idle

Next ==
  \/ \E r \in Ranges : OpenRange(r[1], r[2])
  \/ \E r \in Ranges : OpenPart(r[1], r[2])
  \/ \E s \in Slots : Close(s)
  \/ \E s \in Slots, o \in Offsets, l \in Lengths, k \in {"read", "write"} :
       Call(k, s, o, l)
  \/ \E s \in Slots, o \in Offsets, l \in Lengths : Erase(s, o, l)
  \/ \E o \in Offsets, l \in Lengths : RawRead(o, l)
  \/ ChunkDone
  \/ ChunkFails
  \/ Tail
  \/ NoTail

Spec == Init /\ [][Next]_vars

-----------------------------------------------------------------------------
(* Properties *)

Piece == [blk : Int, at : Int, len : Nat]

Handle == [used : BOOLEAN, from : Nat, length : Nat]

Request ==
  [st : {"idle", "chunks", "done"}, kind : {"none", "read", "write", "erase"},
   via : Handle, size : Nat, start : Nat, blks : Nat, cnt : Nat, blkaddr : Int,
   databuf : Int, bytes : Nat, moved : SUBSET Piece, failed : BOOLEAN, ret : Int]

\* The values the variables range over.
TypeOK ==
  /\ dev \in BOOLEAN
  /\ intf \in [Slots -> Handle]
  /\ req \in Request

\* Every block a request moves is paired with its own place in the caller's
\* buffer, also after chunks that failed: address and pointer drift together
\* (mmc_if.c adds the driver's return to both).
PairingKept ==
  \A p \in req.moved : p.at = BlockSize * (p.blk - req.start)

\* While no chunk of it has failed, a request touches only blocks that hold
\* bytes of the range it was opened on, and that the card has: the cuts at the
\* end of the partition and of the card, and the alignment checks, suffice.
Contained ==
  ~req.failed =>
    \A p \in req.moved :
      /\ OnCard(p.blk, 1)
      /\ BlockSize * p.blk >= req.via.from
      /\ BlockSize * p.blk < req.via.from + req.via.length

\* A write writes whole blocks (the tail is padded with zeros).  None of them
\* reaches another open partition that does not overlap the one written, as
\* both start on a block boundary.
NeighboursUntouched ==
  req.kind = "write" /\ ~req.failed =>
    \A p \in req.moved, s \in Slots :
      LET h == intf[s] v == req.via IN
      (h.used /\ (h.from + h.length <= v.from \/ v.from + v.length <= h.from)) =>
         \A b \in BlockSize * p.blk .. BlockSize * p.blk + BlockSize - 1 :
            ~(h.from <= b /\ b < h.from + h.length)

\* A request that reports its whole size has moved all its whole blocks: the
\* unsigned sum of a request with a failed chunk overshoots the size, so that
\* the callers that compare the result with the size are not misled.
FullReturnIsComplete ==
  req.st = "done" /\ req.kind \in {"read", "write"} /\ req.ret = req.size =>
    \A i \in 0 .. req.blks - 1 :
      \E p \in req.moved : p.blk = req.start + i /\ p.at = BlockSize * i

\* include/flash.h:59-61: a return above 0 is the length really transferred.
RealLength ==
  req.st = "done" /\ req.kind \in {"read", "write"} /\ req.ret > 0 =>
    /\ ~req.failed
    /\ req.ret % BlockSize # 0 =>
         \E p \in req.moved : p.blk = req.start + req.blks
=============================================================================
