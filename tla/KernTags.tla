------------------------------ MODULE KernTags ------------------------------
(***************************************************************************)
(* What the kernel is told at its start: the list of tags that             *)
(* get_kern_tags writes (common/kern_tags.c) and the table of parameters   *)
(* in one of them (common/kern_param.c).  Addresses and lengths are in     *)
(* bytes, a tag counts its size in words of four.                          *)
(***************************************************************************)
EXTENDS Naturals, Sequences

CONSTANTS
  ParamsSize, ParamsCount,   \* CONFIG_PARAMS_SIZE, CONFIG_PARAMS_COUNT
  TagOffset                  \* CONFIG_TAG_OFFSET

\* There is a slot, an offset fits into 16 bits, the list begins at a word
\* (0x100).
ASSUME TagsAssumption ==
  /\ ParamsSize \in Nat /\ ParamsSize < 65536 /\ ParamsCount \in Nat \ {0}
  /\ TagOffset \in Nat /\ TagOffset % 4 = 0

-----------------------------------------------------------------------------
(* The parameters *)

\* The memory of struct tags_ctrl_t from buf on: the buffer, then the items.
\* A cell holds a byte: zero, the n-th of a value, or the n-th of an item.
ItemLen == 12
TableLen == ParamsSize + ItemLen * ParamsCount
SlotAt(k) == ParamsSize + ItemLen * k

Zero == [nth |-> 0]
ItemBytes(item) == [n \in 1 .. ItemLen |-> [item |-> item, nth |-> n]]
ValueBytes(call) == [n \in 1 .. call.length |-> [value |-> call.value, nth |-> n]]

\* kern_param_init
NoParams == [nr |-> 0, sz |-> 0, mem |-> [o \in 0 .. TableLen - 1 |-> Zero]]

\* What is stored behind the end of the table hits the heap.
Store(mem, at, s) ==
  [o \in DOMAIN mem |-> IF o \in at .. at + Len(s) - 1 THEN s[o - at + 1] ELSE mem[o]]

NoName == ""   \* a name of zeros

\* The name of an item is what its slot holds; bytes of a value that have run
\* over it may by chance spell the name looked for (call.alike).
HasName(ctrl, k, call) ==
  LET first == ctrl.mem[SlotAt(k)] IN
  \/ "item" \in DOMAIN first /\ first.item.name = call.name
  \/ "value" \in DOMAIN first /\ call.alike

\* A call of set_param_data gives a name, whether it is longer than seven
\* characters, and a value.  Its assertions print, and it goes on.
Reported(ctrl, call) ==
  ctrl.nr >= ParamsCount \/ call.length + ctrl.sz >= ParamsSize

ItemOf(ctrl, call) ==
  [name |-> call.name, offset |-> ctrl.sz % 65536, length |-> call.length % 65536]

\* Mutation: the value is copied to the start of the buffer.
StoredAtStart(ctrl, call) ==
  [nr  |-> ctrl.nr + 1,
   sz  |-> ctrl.sz + call.length,
   mem |-> Store(Store(ctrl.mem, SlotAt(ctrl.nr), ItemBytes(ItemOf(ctrl, call))),
                 0, ValueBytes(call))]

\* The item first, then the value, wherever the counters have come to.
Stored(ctrl, call) ==
  [nr  |-> ctrl.nr + 1,
   sz  |-> ctrl.sz + call.length,
   mem |-> Store(Store(ctrl.mem, SlotAt(ctrl.nr), ItemBytes(ItemOf(ctrl, call))),
                 ctrl.sz, ValueBytes(call))]

\* set_param_data.  The loop that looks for the name compares the first item
\* in every round.  A name that is too long has already taken a slot, which
\* stays as it is.
SetParamData(ctrl, call) ==
  IF ctrl.nr > 0 /\ HasName(ctrl, 0, call) THEN ctrl
  ELSE IF call.long THEN [ctrl EXCEPT !.nr = @ + 1]
  ELSE Stored(ctrl, call)

\* The tables after each of some calls.
ParamsAfter(calls) ==
  LET after[n \in 0 .. Len(calls)] ==
        IF n = 0 THEN NoParams ELSE SetParamData(after[n - 1], calls[n])
  IN after

\* get_param_tag_data: version, count and length, the items of twelve bytes
\* each, the buffer.  The size of the header includes four bytes of it.
ParamBytes(ctrl) ==
  IF ctrl.nr = 0 THEN 0 ELSE 4 * ((16 + ItemLen * ctrl.nr + ctrl.sz + 3) \div 4)

ParamWritten(ctrl) ==
  IF ctrl.nr = 0 THEN 0 ELSE 12 + ItemLen * ctrl.nr + ctrl.sz

-----------------------------------------------------------------------------
(* The tags *)

\* tag->size
Words(bytes) == (8 + bytes + 3) \div 4

\* A tag with the bytes it announces and those that are written behind its
\* header.
Tag(type, bytes, written) == [type |-> type, bytes |-> bytes, written |-> written]

\* get_kern_tags, as configured; there may be no boot arguments.
TagList(args, sdk, ctrl) ==
  <<Tag("core", 12, 12), Tag("mem", 8, 8)>>
  \o (IF args = 0 THEN <<>> ELSE <<Tag("cmdline", args + 1, args + 1)>>)
  \o <<Tag("sdk", sdk, sdk), Tag("emmc", 4, 4),
       Tag("param", ParamBytes(ctrl), ParamWritten(ctrl))>>

\* fill_tag, get_tag_buf and setup_param_tag place each tag where the size of
\* the one before ends; behind the last one comes the end.
Placed(tags) ==
  LET at[i \in 1 .. Len(tags) + 1] ==
        IF i = 1 THEN TagOffset ELSE at[i - 1] + 4 * Words(tags[i - 1].bytes)
  IN at

-----------------------------------------------------------------------------
(* Properties *)

\* No tag reaches into the next one, tags begin at words, and the end follows
\* the last one, also when the table of parameters has overrun.
TagsApart(ctrl, args, sdk) ==
  LET tags == TagList(args, sdk, ctrl)
      at == Placed(tags)
  IN \A i \in 1 .. Len(tags) :
       at[i] % 4 = 0 /\ at[i] + 8 + tags[i].written <= at[i + 1]

\* The bytes s at an offset of the table.
Holds(ctrl, at, s) ==
  \A n \in 1 .. Len(s) : at + n - 1 < TableLen /\ ctrl.mem[at + n - 1] = s[n]

\* The first slot with a name.
FoundAt(ctrl, call, k) ==
  HasName(ctrl, k, call) /\ \A j \in 0 .. k - 1 : ~HasName(ctrl, j, call)

\* A parameter with a short name, given for the first time, keeps its item and
\* its value if both lie in their arrays and what is given later does not run
\* over its slot; its name is then found there, unless the buffer has overrun.
ParamTold(after, calls, n) ==
  LET ctrl == after[Len(calls)]
      before == after[n - 1]
      call == calls[n]
  IN /\ ~call.long /\ \A m \in 1 .. n - 1 : calls[m].name # call.name
     /\ before.nr < ParamsCount /\ before.sz + call.length <= ParamsSize
     /\ ctrl.sz <= SlotAt(before.nr)
     => /\ Holds(ctrl, before.sz, ValueBytes(call))
        /\ Holds(ctrl, SlotAt(before.nr),
                 ItemBytes([name |-> call.name, offset |-> before.sz, length |-> call.length]))
        /\ ctrl.sz <= ParamsSize => FoundAt(ctrl, call, before.nr)

\* An array that has overrun was reported by an assertion.
OverrunReported(after, calls) ==
  LET ctrl == after[Len(calls)] IN
  ctrl.nr > ParamsCount \/ ctrl.sz > ParamsSize =>
    \E n \in 1 .. Len(calls) : Reported(after[n - 1], calls[n])

\* The tags follow each other whatever is given; a parameter is read back with
\* the value it was given first, whatever names were too long or given twice in
\* between, unless the arrays overrun; then those of which neither slot nor
\* value is hit are still there, and the overrun was reported.
TagsHold(calls, args, sdk) ==
  LET after == ParamsAfter(calls) IN
  /\ TagsApart(after[Len(calls)], args, sdk)
  /\ \A n \in 1 .. Len(calls) : ParamTold(after, calls, n)
  /\ OverrunReported(after, calls)
=============================================================================
