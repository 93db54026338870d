-------------------------------- MODULE Boot --------------------------------
(***************************************************************************)
(* From boot_start to the kernel (common/init.c): the modules are          *)
(* initialised by priority (libs/modules.c), the environment is read from  *)
(* the card (common/env_set.c), the kernel image is read, checked, moved   *)
(* to where it wants to be and started (common/run.c), or an exception     *)
(* resets the board (arm/boot/irq.c, common/reboot.c).                     *)
(*                                                                         *)
(* Memory is a row of cells.  A cell holds a part of an image, the tags,   *)
(* what the loader itself works with, or nothing of interest.  An image is *)
(* built of its Android header, its kernel header, the parts of the kernel *)
(* and those of the ramdisk.                                               *)
(***************************************************************************)
EXTENDS Naturals, Sequences, Functions

CONSTANTS
  Top,           \* the last cell of the memory
  Cached,        \* the cells that are mapped as cached
  Area,          \* the cell the kernel image is read to, 0x02000000
  Loader,        \* the cells the loader works in: stack, heap, global region,
                 \* text and data, page table, interrupt stack
  Images,        \* the images that may be on the card or left in memory
  NoImage,
  CardEnvs       \* what may be stored in the environment area of the card

\* The headers of an image tell the numbers of cells of its kernel, k, and of
\* its ramdisk, r, and where they want to be, load and rd.
Cells == 0 .. Top

ASSUME BootAssumption ==
  /\ Top \in Nat
  /\ Area \in Cells /\ Cached \subseteq 0 .. Area - 1
  /\ Loader \subseteq 2 .. Area - 1   \* the tags lie below the stack in use
  /\ \A i \in DOMAIN Images : LET x == Images[i] IN
       /\ x.android \in BOOLEAN /\ {x.k, x.r, x.load, x.rd} \subseteq Nat
       /\ x.k > 0 /\ Area + 1 + x.k + x.r \in Cells
  /\ NoImage \notin DOMAIN Images
  /\ CardEnvs \subseteq [valid : BOOLEAN, bootargs : {"none", "short", "long"},
                          sized : BOOLEAN, mmz : BOOLEAN]

Modules == {"himci", "mmc_if", "mmc_unif", "env"}
Priority == [m \in Modules |-> IF m = "env" THEN 2 ELSE 1]

VARIABLES
  pc,
  todo,          \* the modules still to be initialised
  driver,        \* mmcdev_driver_init is set
  card,          \* mmcdev is set
  power,         \* the card has power
  ops,           \* mmcdev_ops is registered
  irqOn,         \* interrupts are let in
  cache,         \* cache_enabled
  dirty,         \* the cells written while the cache was on
  onCard,        \* the image and the environment on the card
  env,           \* global->env
  mem,
  image,         \* where check_image finds its header
  kernel,        \* the image whose entry has been taken
  odd,           \* the board has 768M or 1.5G
  hwFailed,      \* history: the card has failed env_init
  arrived        \* history: the image has been read completely

vars == <<pc, todo, driver, card, power, ops, irqOn, cache, dirty, onCard, env,
          mem, image, kernel, odd, hwFailed, arrived>>

-----------------------------------------------------------------------------
(* Memory *)

Blank == [img |-> NoImage, part |-> <<"blank", 0>>]
Tags == [img |-> NoImage, part |-> <<"tags", 0>>]
Own == [img |-> NoImage, part |-> <<"loader", 0>>]

\* The cells of an image, in the order it is stored in.
CellsOf(i) ==
  LET x == Images[i]
      Parts(p, n) == [j \in 1 .. n |-> [img |-> i, part |-> <<p, j>>]]
  IN (IF x.android THEN Parts("android", 1) ELSE <<>>)
     \o Parts("header", 1) \o Parts("kernel", x.k)
     \o (IF x.android THEN Parts("ramdisk", x.r) ELSE <<>>)

\* What a cell holds that no image has been read to.
Bare(c) == IF c \in Loader THEN Own ELSE Blank

Holding(i) ==
  IF i = NoImage THEN [c \in Cells |-> Bare(c)]
  ELSE LET s == CellsOf(i) IN
       [c \in Cells |-> IF c - Area + 1 \in DOMAIN s THEN s[c - Area + 1] ELSE Bare(c)]

\* No image has been moved over what the loader works in.  Nothing checks the
\* addresses of the headers for it.
Intact == \A c \in Loader : mem[c] = Own

Span(at, n) == at .. at + n - 1

\* memcpy goes upwards: a target that begins inside its source repeats what
\* lies before it.
Copy(m, to, from, n) ==
  LET Source(c) == IF to > from /\ to < from + n
                   THEN from + ((c - to) % (to - from)) ELSE from + (c - to)
  IN [c \in Cells |-> IF c \in Span(to, n) THEN m[Source(c)] ELSE m[c]]

Written(S) == IF cache THEN dirty \cup (S \cap Cached) ELSE dirty

-----------------------------------------------------------------------------
(* Modules *)

\* FOR_INIT_DATA: by priority, and within one in the order of the linker, which
\* may be any.
ByPriority ==
  {s \in [1 .. 4 -> Modules] :
     /\ IsInjective(s)
     /\ \A a, b \in 1 .. 4 : a < b => Priority[s[a]] <= Priority[s[b]]}

\* The defaults of load_default leave no boot arguments.
Default == [src |-> "default", bootargs |-> "none", initrd |-> NoImage,
            sized |-> FALSE, mmz |-> FALSE, crc |-> FALSE]

Init ==
  /\ pc = "start" /\ todo = <<>>
  /\ driver = FALSE /\ card = FALSE /\ power = TRUE /\ ops = FALSE
  /\ irqOn = FALSE /\ cache = FALSE /\ dirty = {}
  /\ onCard \in [image : DOMAIN Images, env : CardEnvs]
  /\ env = [Default EXCEPT !.src = "none"]
  /\ \E old \in DOMAIN Images \cup {NoImage} : mem = Holding(old)
  /\ image = Area /\ kernel = NoImage
  /\ odd \in BOOLEAN /\ hwFailed = FALSE /\ arrived = FALSE

\* uart_init to kern_param_init: sysmem_init leaves the cache switched on.
Start ==
  /\ pc = "start"
  /\ cache' = TRUE
  /\ todo' \in ByPriority
  /\ pc' = "modules"
  /\ UNCHANGED <<driver, card, power, ops, irqOn, dirty, onCard, env, mem, image,
                 kernel, odd, hwFailed, arrived>>

\* himci_init
HimciInit ==
  /\ driver' = TRUE
  /\ UNCHANGED <<card, ops, cache, dirty, env, hwFailed>>

\* mmcdev_init tries the driver when there is one and no card yet.
Tries == driver /\ ~card

\* Mutation: the cache stays on.
MmcFlashInitCached(works) ==
  /\ card' = (card \/ (Tries /\ works))
  /\ UNCHANGED <<cache, dirty>>

\* mmc_flash_init switches the cache off, with a flush, before it looks for
\* the card, which it may not find.
MmcFlashInit(works) ==
  /\ card' = (card \/ (Tries /\ works))
  /\ cache' = (cache /\ ~Tries)
  /\ dirty' = IF Tries THEN {} ELSE dirty

MmcIfInit ==
  /\ \E works \in BOOLEAN : MmcFlashInit(works)
  /\ UNCHANGED <<driver, ops, env, hwFailed>>

\* mmc_unif_module_init
MmcUnifInit ==
  /\ ops' = TRUE
  /\ UNCHANGED <<driver, card, cache, dirty, env, hwFailed>>

\* open_env_flash: without operations it fails; get_mmcdev_info looks for a
\* card that has not been found, and without one the block size is zero and
\* nothing is aligned to it.
EnvMedia(works) ==
  IF ops THEN MmcFlashInit(works) ELSE UNCHANGED <<card, cache, dirty>>

\* env_init: the environment is cleared, by which it enters the cache when
\* that is on, and read from the card, past the cache.  What fails its CRC is
\* replaced by the defaults.
EnvInit ==
  /\ \E works, reads \in BOOLEAN :
       /\ EnvMedia(works)
       /\ env' = IF ops /\ card' /\ reads /\ ~cache' /\ onCard.env.valid
                 THEN [src |-> "saved", bootargs |-> onCard.env.bootargs,
                       initrd |-> NoImage, sized |-> onCard.env.sized,
                       mmz |-> onCard.env.mmz, crc |-> TRUE]
                 ELSE Default
       /\ hwFailed' = (~reads \/ (ops /\ Tries /\ ~works))
  /\ UNCHANGED <<driver, ops>>

\* One round of module_init.
InitModule ==
  /\ pc = "modules" /\ todo # <<>>
  /\ todo' = Tail(todo)
  /\ \/ Head(todo) = "himci" /\ HimciInit
     \/ Head(todo) = "mmc_if" /\ MmcIfInit
     \/ Head(todo) = "mmc_unif" /\ MmcUnifInit
     \/ Head(todo) = "env" /\ EnvInit
  /\ UNCHANGED <<pc, power, irqOn, onCard, mem, image, kernel, odd, arrived>>

\* cpu_enable_irq, and bootargs_prepare, which adds the arguments by size that
\* are missing.
BootargsPrepare ==
  /\ pc = "modules" /\ todo = <<>>
  /\ irqOn' = TRUE
  /\ env' = [env EXCEPT !.sized = TRUE, !.crc = @ /\ env.sized]
  /\ pc' = "read"
  /\ UNCHANGED <<todo, driver, card, power, ops, cache, dirty, onCard, mem,
                 image, kernel, odd, hwFailed, arrived>>

-----------------------------------------------------------------------------
(* The kernel *)

\* mmcdev_read of boot_start.  Its result is only printed: whatever part of
\* the image arrives, kern_load goes on with what lies in memory.
ReadKernel ==
  /\ pc = "read"
  /\ \E works \in BOOLEAN : MmcFlashInit(works)
  /\ \E got \in SUBSET Span(Area, Len(CellsOf(onCard.image))) :
       /\ card' \/ got = {}
       /\ mem' = [c \in Cells |-> IF c \in got THEN Holding(onCard.image)[c] ELSE mem[c]]
       /\ arrived' = (got = Span(Area, Len(CellsOf(onCard.image))))
  /\ pc' = "android"
  /\ UNCHANGED <<todo, driver, power, ops, irqOn, onCard, env, image, kernel, odd,
                 hwFailed>>

IsPart(c, p) == mem[c].part = <<p, 1>>

\* The arguments with those of the ramdisk are cut after 1023 characters.
WithInitrd(i) ==
  CASE env.bootargs = "none" -> env
    [] env.bootargs = "short" -> [env EXCEPT !.initrd = i, !.crc = FALSE]
    [] env.bootargs = "long" -> [env EXCEPT !.bootargs = "cut", !.crc = FALSE]

\* Mutation: the page of the header is forgotten.
RamdiskSourceNoPage(x) == Area + 1 + x.k

RamdiskSource(x) == Area + 2 + x.k

\* check_android_image.  The ramdisk is moved to wherever the header says, up
\* to the end of the memory if it reaches past it.  The header is used again
\* after that, when the ramdisk may have overwritten it.
CheckAndroidImage ==
  /\ pc = "android"
  /\ LET i == mem[Area].img
         x == Images[i]
     IN \/ /\ ~IsPart(Area, "android")
           /\ image' = Area /\ pc' = "image"
           /\ UNCHANGED <<mem, dirty, env>>
        \/ /\ IsPart(Area, "android") /\ x.r = 0
           /\ pc' = "returned"
           /\ UNCHANGED <<mem, dirty, env, image>>
        \/ /\ IsPart(Area, "android") /\ x.r > 0
           /\ mem' = Copy(mem, x.rd, RamdiskSource(x), x.r)
           /\ dirty' = Written(Span(x.rd, x.r))
           /\ \/ /\ ~(Span(x.rd, x.r) \subseteq Cells)
                 /\ pc' = "exception" /\ UNCHANGED <<env, image>>
              \/ /\ Span(x.rd, x.r) \subseteq Cells /\ Area \notin Span(x.rd, x.r)
                 /\ env' = WithInitrd(i) /\ image' = Area + 1 /\ pc' = "image"
              \/ /\ Span(x.rd, x.r) \subseteq Cells /\ Area \in Span(x.rd, x.r)
                 /\ env' = WithInitrd(NoImage) /\ image' \in Cells /\ pc' = "image"
  /\ UNCHANGED <<todo, driver, card, power, ops, irqOn, cache, onCard, kernel,
                 odd, hwFailed, arrived>>

\* Mutation: the data is not checked.
DataUnchecked(i) == TRUE

\* The CRC of the data; it does not reach the ramdisk.
DataRight(i) ==
  \A j \in 1 .. Images[i].k :
    image + j \in Cells /\ mem[image + j] = [img |-> i, part |-> <<"kernel", j>>]

\* check_image, and the return of kern_load when it refuses.
CheckImage ==
  /\ pc = "image" /\ Intact
  /\ LET i == mem[image].img
         x == Images[i]
     IN \/ /\ ~(IsPart(image, "header") /\ DataRight(i))
           /\ pc' = "returned"
           /\ UNCHANGED <<mem, dirty, kernel>>
        \/ /\ IsPart(image, "header") /\ DataRight(i)
           /\ x.load # image + 1 /\ ~(Span(x.load, x.k) \subseteq Cells)
           /\ mem' = Copy(mem, x.load, image + 1, x.k)
           /\ dirty' = Written(Span(x.load, x.k))
           /\ pc' = "exception"
           /\ UNCHANGED kernel
        \/ /\ IsPart(image, "header") /\ DataRight(i)
           /\ Span(x.load, x.k) \subseteq Cells
           /\ IF x.load # image + 1
              THEN /\ mem' = Copy(mem, x.load, image + 1, x.k)
                   /\ dirty' = Written(Span(x.load, x.k))
              ELSE UNCHANGED <<mem, dirty>>
           /\ kernel' = i /\ pc' = "exit"
  /\ UNCHANGED <<todo, driver, card, power, ops, irqOn, cache, onCard, env,
                 image, odd, hwFailed, arrived>>

\* Mutation: the module does without its exit.
EnvExitNot(e) == e

\* env_exit
EnvExit(e) == [e EXCEPT !.crc = TRUE]

\* module_exit, of which env_exit is all, and cpu_disable_irq.  The CRC is
\* written to the global region, one of the loader's cells.
ModuleExit ==
  /\ pc = "exit" /\ Intact
  /\ env' = EnvExit(env) /\ irqOn' = FALSE
  /\ pc' = "tags"
  /\ UNCHANGED <<todo, driver, card, power, ops, cache, dirty, onCard, mem,
                 image, kernel, odd, hwFailed, arrived>>

\* Only the first cell when the arguments are not long.
TagCells(e) == IF e.bootargs = "long" THEN {0, 1} ELSE {0}

\* get_kern_tags.  On boards of 768M or 1.5G bootargs_merge first rewrites the
\* arguments of that size, if there are any that name a zone.  Its buffers are
\* on the heap and the stack, in the loader's cells.
KernTags ==
  /\ pc = "tags" /\ Intact
  /\ env' = IF odd /\ env.mmz THEN [env EXCEPT !.crc = FALSE] ELSE env
  /\ mem' = [c \in Cells |-> IF c \in TagCells(env) THEN Tags ELSE mem[c]]
  /\ dirty' = Written(TagCells(env))
  /\ pc' = "cache"
  /\ UNCHANGED <<todo, driver, card, power, ops, irqOn, cache, onCard, image,
                 kernel, odd, hwFailed, arrived>>

\* mmu_cache_disable and cache_flush_all; then the kernel.
CacheOff ==
  /\ pc = "cache" /\ Intact
  /\ cache' = FALSE
  /\ dirty' = IF cache THEN {} ELSE dirty
  /\ pc' = "kernel"
  /\ UNCHANGED <<todo, driver, card, power, ops, irqOn, onCard, env, mem, image,
                 kernel, odd, hwFailed, arrived>>

\* Mutation: no module is told of the reboot.
RebootAtOnce ==
  /\ pc = "exception" /\ Intact
  /\ pc' = "reset"
  /\ UNCHANGED <<todo, driver, card, power, ops, irqOn, cache, dirty, onCard,
                 env, mem, image, kernel, odd, hwFailed, arrived>>

\* __entry_exception_handle and reboot: modules_reboot calls himci_shutdown,
\* which takes the power from the card.
Reboot ==
  /\ pc = "exception" /\ Intact
  /\ power' = FALSE
  /\ pc' = "reset"
  /\ UNCHANGED <<todo, driver, card, ops, irqOn, cache, dirty, onCard, env, mem,
                 image, kernel, odd, hwFailed, arrived>>

\* Once an image lies over its stack, heap, global region, text or page table
\* the loader may do anything: write what it believes to be its own over the
\* image, lose the arguments and the CRC, start a kernel whole or not, stop, or
\* reset with the power of the card on or off.
Astray ==
  /\ pc \in {"image", "exit", "tags", "cache", "exception"} /\ ~Intact
  /\ pc' \in {"kernel", "returned", "reset"}
  /\ kernel' \in {kernel, onCard.image}
  /\ \E lost \in {{}, Loader} :
       mem' = [c \in Cells |-> IF c \in lost THEN Blank ELSE mem[c]]
  /\ env' \in {env, [env EXCEPT !.bootargs = "none", !.initrd = NoImage, !.crc = FALSE]}
  /\ power' \in BOOLEAN
  /\ UNCHANGED <<todo, driver, card, ops, irqOn, cache, dirty, onCard, image, odd,
                 hwFailed, arrived>>

Next ==
  \/ Start \/ InitModule \/ BootargsPrepare \/ ReadKernel \/ CheckAndroidImage
  \/ CheckImage \/ ModuleExit \/ KernTags \/ CacheOff \/ Reboot \/ Astray

Spec == Init /\ [][Next]_vars

-----------------------------------------------------------------------------
(* Properties *)

\* The variables keep their ranges; the environment is the last
\* module; and at a reset by a loader that is intact the card has no power.
TypeOK ==
  /\ pc \in {"start", "modules", "read", "android", "image", "exit", "tags", "cache",
             "kernel", "returned", "exception", "reset"}
  /\ todo \in Seq(Modules) /\ (todo # <<>> => todo[Len(todo)] = "env")
  /\ {driver, card, power, ops, irqOn, cache, odd, hwFailed, arrived} \subseteq BOOLEAN
  /\ dirty \subseteq Cached /\ image \in Cells
  /\ env.bootargs \in {"none", "short", "long", "cut"}
  /\ kernel \in DOMAIN Images \cup {NoImage}
  /\ DOMAIN mem = Cells
  /\ pc = "reset" /\ Intact => ~power

\* The kernel that is started lies whole where its header wants it, however
\* little of it has been read and whatever an earlier start had left; with
\* interrupts and cache switched off and nothing of it left in the cache.
\* Its addresses must be apart from the tags, the move must not run over its
\* own source from below, and neither it nor the ramdisk may have been moved
\* over the loader, which goes on writing there.
StartsWhole ==
  pc = "kernel" /\ Intact =>
    LET x == Images[kernel] IN
    /\ ~irqOn /\ ~cache /\ dirty = {}
    /\ /\ Span(x.load, x.k) \cap TagCells(env) = {}
       /\ x.load \notin image + 2 .. image + x.k
       => \A j \in 1 .. x.k :
            mem[x.load + j - 1] = [img |-> kernel, part |-> <<"kernel", j>>]

\* The ramdisk of an Android image that has been read completely is where the
\* kernel is told it is, when there are boot arguments that are not too long
\* to take the address, and when its addresses keep kernel, ramdisk, tags, the
\* header and the loader apart: the ramdisk is moved before the kernel may
\* cover it.
RamdiskReaches ==
  LET x == Images[onCard.image] IN
  /\ pc = "kernel" /\ Intact /\ arrived /\ x.android /\ env.bootargs = "short"
  /\ Span(x.rd, x.r) \cap (Span(x.load, x.k) \cup TagCells(env) \cup {Area}) = {}
  /\ x.rd \notin RamdiskSource(x) + 1 .. RamdiskSource(x) + x.r - 1
  => /\ env.initrd = onCard.image
     /\ \A j \in 1 .. x.r :
          mem[x.rd + j - 1] = [img |-> onCard.image, part |-> <<"ramdisk", j>>]

\* The CRC that env_exit leaves with the environment matches it when the
\* kernel starts, except where the arguments have been rewritten after it, or
\* an image has been moved over the loader.
StoredCrcRight ==
  pc = "kernel" /\ Intact /\ ~(odd /\ env.mmz) => env.crc

\* The saved environment is in use once the modules are initialised, in
\* whatever order they are linked, if the card has not failed meanwhile.
EnvFromCard ==
  pc \notin {"start", "modules"} /\ ~hwFailed /\ onCard.env.valid => env.src = "saved"
=============================================================================
