------------------------------ MODULE EnvStore ------------------------------
(***************************************************************************)
(* The environment of common/env_set.c: "key=value" items packed into a    *)
(* buffer of fixed size, and its one copy in the flash, written block by   *)
(* block and protected by a CRC.                                           *)
(*                                                                         *)
(* A byte of the buffer is NUL or the j-th byte of the text of an item,    *)
(* <<key, value, j>>.  The CRC of a buffer is modelled by the buffer       *)
(* itself, that is, as free of collisions.  A flash block is stored or     *)
(* read as a whole or not at all; one that arrives garbled fails the CRC.  *)
(***************************************************************************)
EXTENDS Integers, Sequences

CONSTANTS
  Keys, Values, None,
  ValLen,        \* the length of each value; a key is one byte
  DefaultItems,  \* the <<key, value>> pairs load_default sets, in order
  Size,          \* sizeof(env->data)
  FlashBlocks    \* the flash blocks that hold struct env_t

ASSUME EnvAssumption ==
  /\ ValLen \in [Values -> Nat \ {0}]
  /\ Size \in Nat \ {0} /\ FlashBlocks \in Nat \ {0}
  /\ Size % FlashBlocks = 0
  /\ DefaultItems \in Seq(Keys \X Values)

VARIABLES
  env,      \* data and tail: global->env.data, global->env_tail
  flash,    \* the crc and data of the image in the flash
  pc,       \* "run", or "save" while env_save_to_flash writes
  next,     \* the flash block the save writes next
  saved,    \* the last call was env_save_to_flash and it returned 0
  lost      \* history: the save under way has been told that a block was
            \* written which was not

vars == <<env, flash, pc, next, saved, lost>>

NUL == <<>>
Byte == {NUL} \cup (Keys \X Values \X Nat)
Buffer == [1 .. Size -> Byte]

\* What stands for "not set" and "not written" is no value, map or buffer.
ASSUME NoneAssumption ==
  None \notin Values \cup [Keys -> Values \cup {None}] \cup Buffer

Nuls(n) == [i \in 1 .. n |-> NUL]
Empty == [data |-> Nuls(Size), tail |-> 0]

\* The first n bytes of "key=value".
Text(k, v, n) == [j \in 1 .. n |-> <<k, v, j>>]
TextLen(k, v) == 2 + ValLen[v]

Least(S) == CHOOSE x \in S : \A y \in S : x <= y

\* memcpy, memset, snprintf: the buffer d with the bytes s from offset at on.
\* Offsets count from 0, as in the code; what lies past the buffer is lost.
Store(d, at, s) ==
  SubSeq(SubSeq(d, 1, Least({at, Size})) \o s \o SubSeq(d, at + Len(s) + 1, Size), 1, Size)

-----------------------------------------------------------------------------
(* Walking the items *)

\* The offsets get_next_item visits: it stops at the tail and at the first
\* item that is empty.
ItemStarts(e) ==
  {p \in 0 .. Size - 1 :
     /\ e.data[p + 1] # NUL
     /\ p < e.tail
     /\ p > 0 => e.data[p] = NUL
     /\ \A q \in 1 .. p - 1 : e.data[q] # NUL \/ e.data[q + 1] # NUL}

\* find_env_item: the first item of the key.
ItemsOf(e, k) == {p \in ItemStarts(e) : e.data[p + 1][1] = k}

\* strlen(item) + 1
ItemLen(e, p) ==
  Least({i \in p .. Size : i = Size \/ e.data[i + 1] = NUL}) + 1 - p

\* The copy that closes the gap of an item, when one follows it.
CloseGap(e, p) ==
  LET after == p + ItemLen(e, p) IN
  IF after \in ItemStarts(e)
  THEN Store(e.data, p, SubSeq(e.data, after + 1, e.tail)) ELSE e.data

\* find_env_tail on data written by this code: past the terminator of the
\* last byte that is not zero.  Module EnvTail checks the search itself.
TailOf(d) ==
  LET text == {i \in 1 .. Size : d[i] # NUL} IN
  IF text = {} THEN 0
  ELSE Least({Size, (CHOOSE i \in text : \A j \in text : j <= i) + 1})

-----------------------------------------------------------------------------
(* env_set, env_clear *)

\* Mutation: a shorter item does not wipe what the longer one has left.
WriteItemNoWipe(d, t, orglen, k, v) ==
  LET room   == Size - t - 1
      newlen == TextLen(k, v) + 1
      text   == Text(k, v, Least({newlen, room}) - 1) \o Nuls(1)
  IN [data |-> Store(Store(d, t, text), t + newlen, Nuls(1)),
      tail |-> t + newlen]

\* Writing an item at the tail t.  snprintf stops at the room it is given but
\* returns the length it would have needed, and the tail moves by that; then
\* the terminator, and zeros over what a longer old item has left.
WriteItem(d, t, orglen, k, v) ==
  LET room   == Size - t - 1
      newlen == TextLen(k, v) + 1
      text   == Text(k, v, Least({newlen, room}) - 1) \o Nuls(1)
      zeros  == IF newlen < orglen THEN orglen - newlen ELSE 1
  IN [data |-> Store(Store(d, t, text), t + newlen, Nuls(zeros)),
      tail |-> t + newlen]

EnvSet(e, k, v) ==
  LET found  == ItemsOf(e, k) # {}
      p      == Least(ItemsOf(e, k))
      orglen == IF found THEN ItemLen(e, p) ELSE 0
      t      == e.tail - orglen
      data   == IF found THEN CloseGap(e, p) ELSE e.data
  IN IF t >= Size - 1 THEN [e EXCEPT !.data = data]
     ELSE WriteItem(data, t, orglen, k, v)

EnvClear(e, k) ==
  IF ItemsOf(e, k) = {} THEN e
  ELSE LET p == Least(ItemsOf(e, k))
           t == e.tail - ItemLen(e, p)
       IN [data |-> Store(CloseGap(e, p), t, Nuls(ItemLen(e, p))), tail |-> t]

\* load_default: the environment after its first n items.
Loaded[n \in 0 .. Len(DefaultItems)] ==
  IF n = 0 THEN Empty
  ELSE EnvSet(Loaded[n - 1], DefaultItems[n][1], DefaultItems[n][2])

LoadDefault == Loaded[Len(DefaultItems)]

\* The few default items fit.
ASSUME DefaultsFit == \A n \in 0 .. Len(DefaultItems) : Loaded[n].tail < Size

-----------------------------------------------------------------------------
(* Actions *)

\* Once the tail has left the buffer the bytes behind it, the handle of the
\* flash among them, are overwritten: nothing but a restart is modelled then.
Sane == env.tail < Size

SetVar(k, v) ==
  /\ pc = "run" /\ Sane
  /\ env' = EnvSet(env, k, v)
  /\ saved' = FALSE
  /\ UNCHANGED <<flash, pc, next, lost>>

ClearVar(k) ==
  /\ pc = "run" /\ Sane
  /\ env' = EnvClear(env, k)
  /\ saved' = FALSE
  /\ UNCHANGED <<flash, pc, next, lost>>

\* env_save_to_flash: the erase of an eMMC does nothing, then the CRC is
\* computed and the blocks are written in order.  The environment does not
\* change meanwhile, so that the CRC is that of env.data until the end.
SaveStart ==
  /\ pc = "run" /\ Sane
  /\ pc' = "save" /\ next' = 0 /\ saved' = FALSE
  /\ UNCHANGED <<env, flash, lost>>

\* Mutation: one block too many.
SaveBlockTooMany ==
  /\ pc = "save" /\ next <= FlashBlocks
  /\ next' = next + 1
  /\ UNCHANGED <<env, flash, pc, saved, lost>>

\* The flash with the next block of the image in it.  The CRC is at the start
\* of struct env_t, and so in the first block.
BlockStored ==
  LET len == Size \div FlashBlocks
      at  == next * len
  IN [crc  |-> IF next = 0 THEN env.data ELSE flash.crc,
      data |-> Store(flash.data, at, SubSeq(env.data, at + 1, at + len))]

\* flash_write counts a block that the driver reports.  The driver reports it
\* also after an error of the data, when the flash keeps what it had
\* (himciv200.c, hi_mci_wait_data_complete; module HimciRequest).
SaveBlock ==
  /\ pc = "save" /\ next < FlashBlocks
  /\ \/ flash' = BlockStored /\ UNCHANGED lost
     \/ lost' = TRUE /\ UNCHANGED flash
  /\ next' = next + 1
  /\ UNCHANGED <<env, pc, saved>>

\* The write is short: -EIO, and what has been written stays.
SaveFails ==
  /\ pc = "save"
  /\ pc' = "run" /\ next' = 0 /\ saved' = FALSE /\ lost' = FALSE
  /\ UNCHANGED <<env, flash>>

\* Mutation: the stub, the last block of the image, is not waited for.
SaveReturnsEarly ==
  /\ pc = "save" /\ next >= FlashBlocks - 1
  /\ pc' = "run" /\ next' = 0 /\ saved' = TRUE /\ lost' = FALSE
  /\ UNCHANGED <<env, flash>>

SaveReturns ==
  /\ pc = "save" /\ next = FlashBlocks
  /\ pc' = "run" /\ next' = 0 /\ saved' = TRUE /\ lost' = FALSE
  /\ UNCHANGED <<env, flash>>

\* verify_env
Verified(img) == img.crc = img.data

\* What read_env_flash finds in the buffer that env_init has cleared when only
\* some blocks have been moved to it: the others are reported read as well.
ReadFlash(moved) ==
  LET len == Size \div FlashBlocks IN
  [crc  |-> IF 0 \in moved THEN flash.crc ELSE None,
   data |-> [i \in 1 .. Size |-> IF (i - 1) \div len \in moved THEN flash.data[i] ELSE NUL]]

\* A restart at any point, a save under way included, and env_init with
\* read_env_flash: an image that cannot be read or does not verify gives way
\* to the default environment (there is no backup: both images have the same
\* address in this configuration).
Restart ==
  /\ pc' = "run" /\ next' = 0 /\ saved' = FALSE /\ lost' = FALSE
  /\ \/ \E moved \in SUBSET (0 .. FlashBlocks - 1) :
          LET img == ReadFlash(moved) IN
          /\ Verified(img)
          /\ env' = [data |-> img.data, tail |-> TailOf(img.data)]
     \/ env' = LoadDefault
  /\ UNCHANGED flash

\* A flash never written: what it holds does not verify.
Blank == [crc |-> None, data |-> Nuls(Size)]

Init ==
  /\ env = LoadDefault
  /\ flash = Blank
  /\ pc = "run" /\ next = 0 /\ saved = FALSE /\ lost = FALSE

Next ==
  \/ \E k \in Keys, v \in Values : SetVar(k, v)
  \/ \E k \in Keys : ClearVar(k)
  \/ SaveStart
  \/ SaveBlock
  \/ SaveFails
  \/ SaveReturns
  \/ Restart

Spec == Init /\ [][Next]_vars

-----------------------------------------------------------------------------
(* Properties *)

\* The variables have their types.
TypeOK ==
  /\ env \in [data : Buffer, tail : Nat]
  /\ flash \in [crc : Buffer \cup {None}, data : Buffer]
  /\ pc \in {"run", "save"} /\ next \in 0 .. FlashBlocks
  /\ saved \in BOOLEAN /\ lost \in BOOLEAN

\* env_set.c:65, ASSERT(env_tail >= env->data && env_tail <= env_end): the
\* tail stays in the buffer, whatever is set.
TailInBuffer == env.tail \in 0 .. Size

\* The items are packed: from the tail on every byte is zero, and the bytes
\* before it are items with nothing between them.
PackedToTail ==
  /\ \A i \in 1 .. Size : i > env.tail => env.data[i] = NUL
  /\ TailOf(env.data) = env.tail
  /\ \A i \in 1 .. env.tail - 1 : env.data[i] # NUL \/ env.data[i + 1] # NUL

\* A key has at most one item, and an item ends where its value ends.
OneWholeItemPerKey ==
  /\ \A p, q \in ItemStarts(env) :
       env.data[p + 1][1] = env.data[q + 1][1] => p = q
  /\ \A p \in ItemStarts(env) :
       LET first == env.data[p + 1] IN
       ItemLen(env, p) = TextLen(first[1], first[2]) + 1

\* After any history of sets, clears and restarts the buffer is packed, so that
\* a tail found again by searching is the one the writer had; and its items
\* are whole, one for a key, so that no value replaced or cleared comes back.
BufferInShape == Sane => PackedToTail /\ OneWholeItemPerKey

\* The map a buffer stands for, as env_get reads it.
MapOf(e) ==
  LET starts == ItemStarts(e) IN
  [k \in Keys |->
     LET mine == {p \in starts : e.data[p + 1][1] = k} IN
     IF mine = {} THEN None ELSE e.data[Least(mine) + 1][2]]

DefaultMap == MapOf(LoadDefault)

\* The map whose CRC has reached the flash last, if one has: the CHOOSE from a
\* set of one is for TLC, which then searches the tail once.
ImageMap ==
  IF flash.crc = None THEN None
  ELSE CHOOSE m \in {MapOf(e) : e \in {[data |-> flash.crc, tail |-> TailOf(flash.crc)]}} :
         TRUE

Promise == INSTANCE EnvPromise WITH
  Default <- DefaultMap, map <- MapOf(env), image <- ImageMap,
  whole <- Verified(flash), broken <- ~Sane

\* The buffer, its block-wise save and the restart implement the map with one
\* saved image: a restart, at whatever point of whatever save and whatever the
\* driver has failed to move, finds the map whose CRC was stored last or the
\* default, never a mixture; and a save that returns 0 has made its map the one
\* a restart finds, unless a block was reported written that was not.
KeepsPromise == Promise!Spec
=============================================================================
