# Verification of the Poplar boot code

The repository is the boot loader of the Poplar board (HiSilicon Hi3798CV200):
it sets up the board, reads a kernel image from the eMMC, builds the kernel
parameters from an environment kept in the eMMC, and starts the kernel. It is
about 10,000 lines of C and some assembly that run on one CPU, without an
operating system.

This directory holds TLA+ modules for its parts, TLC configurations that check
them on small instances, and proofs for TLAPS. Line numbers refer to the files
under `src/`.

## 1. Inventory

How the parts call each other, from the top:

    boot_start ── module_init ── env_init, mmc, kernel parameters, ...
        │
        ├─ mmcdev_read ─────────────┐         the kernel, 40M from 150M
        └─ kern_load                │
             ├─ check_image         │
             ├─ module_exit ─ env_exit
             └─ get_kern_tags       │
                                    │
    env_set / env_save_to_flash ─ flash_open/read/write (flash.c)
                                    │  partition operations (mmc_unif.c)
                                    │  chunks, alignment, tail (mmc_if.c)
                                    │  command sequences (mmc_drv.c)
                                    └─ requests, registers, DMA (himciv200.c) ─ card

    malloc.c, malloc_dev.c, malloc_res.c ─ memlib.c     one heap each over a fixed arena
    __entry_irq ─ irq_ctrl_handle ─ irq_handle ─ the handlers connected by timers

Nothing is preemptive except interrupts, and the only interrupt handlers are
those connected by drivers. What runs beside the CPU is the eMMC controller
with its DMA engine, and the card. Everything in memory is lost at a reset; the
eMMC is the only thing that stays.

| component | state it keeps | operations | what is hard | what makes it correct |
|---|---|---|---|---|
| flash handles and partitions (`flash.c`, `mmc_unif.c`, `mmc_if.c`) | ten handles with a byte range; the device | open by range or partition, read, write, erase, close, direct reads | a request is cut into chunks; a chunk may fail; byte lengths, block addresses, cuts at partition and card end | data goes to the place it is meant for, and never outside the range; a reported length is real |
| environment (`env_set.c`) | a buffer of packed items and its tail; an image in flash | set, clear, get, save, load | items move over each other; the image is overwritten in place; a reset at any point; a driver that reports more than it has moved | a map from keys to values; a restart finds a whole map |
| eMMC requests (`mmc_drv.c` 129-232, `himciv200.c`) | registers, descriptors, poll counters | read, write, stop | controller and card answer late, wrongly or not; flags carry no request number | every call returns; success means the data has moved |
| controller and card set-up (`himciv200.c`, `mmc_drv.c`) | card capabilities, bus width, clock, RCA | identify, select, probe widths and DDR | polls with limits, probing by trial, capability bits left from failed trials | the mode used later is one the card has shown to work |
| heap (`memlib.c`) | chunks with boundary tags, bins, block bits, last remainder, break | malloc, memalign, free | coalescing, last remainder, best-fit scan with cached bits, growing and trimming | chunks tile the arena; what is free is found; nothing is handed out twice |
| reserved memory, handles (`malloc_res.c`, `hush.c`) | a hash list of allocations | record, remove, find, dump | a record that cannot be made; iteration while removing | the record is the set of allocations |
| interrupts (`irq.c`, `gic_v10.c`, `irq_handle.S`) | handler tables, enabled lines | connect, enable, dispatch | dispatch against main code; lines nobody handles | a connected handler runs; dispatch ends |
| timers (`timer.c`) | 32-bit ticks | delay, register, start | two wraps | a delay is not shorter than asked |
| boot and modules (`init.c`, `modules.c`, `run.c`) | the modules initialised | init, exit and reboot by priority; check and start the image | order of shutdown and of the last uses; images moved to wherever their headers say | nothing is used after its exit |
| layout (`mem_init.c`) | a table with automatic fields | resolve | fields that depend on each other and on the DDR size | regions do not overlap |
| kernel parameters (`kern_tags.c`, `kern_param.c`, `params.c`) | a tag list, a table of parameters, bootargs | set, build, merge | tables at and over their limit, text edited in place | the kernel gets every parameter once |
| partition parser (`find_parts.c`, `parts.c`) | none | find a partition in a text | units, `-` for the rest, offsets, names inside other names | partitions do not overlap |
| symbols (`trace.c`) | a sorted table | find the symbol of an address | ends of the search | the symbol that contains the address |
| text, C library, start-up code | registers | character I/O, strings, division | | |

`PROJECT.json` lists every component with what is modelled of it, and the
hazards of the code line by line, with the properties that cover them. A hazard
without a property has a note: most of these are modelled, and the properties
leave them out because the code promises nothing there. Each such premise is
listed in section 3.

Assertions are no checks in this code: `ASSERT` (`include/debug.h:57-62`) prints
and dumps the stack when the code is built with `CONFIG_DEBUG`, and is nothing
otherwise. Either way what follows is executed, and the models go on as well.

## 2. Modules

| module | models | checked with | proved in |
|---|---|---|---|
| `FlashIO` | handles, partitions, chunked transfers | `MCFlashIO` | `FlashIOProofs` |
| `EnvPromise` | abstract: a map and one saved image | (by `EnvStore`) | `EnvStoreProofs` (that `EnvStore` implements it) |
| `EnvStore` | the packed buffer and the block-wise save | `MCEnvStore` | `EnvStoreProofs` |
| `EnvTail` | the search for the tail in a loaded buffer | `MCAlgorithms` | `AlgorithmProofs` |
| `HimciRequest` | a transfer: CPU, controller and card | `MCHimciRequest` | `HimciRequestProofs` |
| `MmcInit` | finding and setting up the card | `MCMmcInit` | `MmcInitProofs` |
| `Memlib` | the heap | `MCMemlib` | `MemlibProofs` |
| `Symbols` | the search for the symbol of an address | `MCAlgorithms` | `AlgorithmProofs` |
| `Delay` | delays on the tick counter | `MCAlgorithms` | `AlgorithmProofs` |
| `Parts` | where a partition lies | `MCAlgorithms` | `AlgorithmProofs` |
| `Args` | the merging of boot arguments | `MCAlgorithms` | `AlgorithmProofs` |
| `Algorithms` | the five side by side: `Symbols`, `Delay`, `EnvTail`, `Parts`, `Args` | `MCAlgorithms` | `AlgorithmProofs` |
| `Boot` | from `boot_start` to the kernel: modules, image, environment, caches | `MCBoot` | `BootProofs` |
| `Irq` | connecting, masking and dispatching interrupts | `MCPlatform` | `PlatformProofs` |
| `MemDbg` | the record of the reserved memory | `MCPlatform` | `PlatformProofs` |
| `Layout` | the size, the regions and the pages of the memory | `MCPlatform` | `PlatformProofs` |
| `KernTags` | the tag list and the parameter table for the kernel | `MCPlatform` | `PlatformProofs` |
| `Platform` | the four side by side: `Irq`, `MemDbg`, `Layout`, `KernTags` | `MCPlatform` | `PlatformProofs` |

### FlashIO

`intf` is `intf_ctrl->intf` of `flash.c`; `dev` says whether `mmcdev` has been
found (a missing card is looked for again by each call); `req` holds the locals
of the call being served. `OpenRange`, `OpenPart`, `Close`, `Call`, `Erase` and
`RawRead` are the API; `ChunkDone`, `ChunkFails`, `Tail` and `NoTail` are the
iterations and the end of the chunk loops of `mmcdev_read` and `mmcdev_write`.
The two loops differ only in the direction of the copy, which is abstracted
away. A driver call returns the number of blocks or a negative error; the loop
adds that number, as it is, to the address and to the pointer and as an unsigned
product to the byte count. Data is reduced to its provenance: which block was
paired with which byte of the buffer.

### EnvPromise, EnvStore, EnvTail

`EnvStore` keeps the buffer byte by byte, but a byte is *the j-th byte of this
item* instead of a character, so that holes, torn items and leftovers are
visible. `SetVar` and `ClearVar` are `env_set` and `env_clear` with their
copies, wipes and early returns, the truncating `snprintf` included. The save is
one step per flash block, and `Restart` can happen between any two steps: it
loses the buffer and runs `env_init`. The CRC is taken to be free of collisions.

What `env_save_to_flash` and `read_env_flash` learn of the flash is a count, and
the driver returns the full one also when the data phase has failed
(`himci_contract`). So `SaveBlock` either stores its block or loses it, with the
same count (`lost` remembers it until the save has returned), and `ReadFlash`
moves any of the blocks and leaves the others as the zeros of `env_init:549`.
What is assumed of the flash is that a block is stored or read whole or not at
all; one that arrives garbled fails the CRC like one that is not there.

A variable set beyond the end of the buffer overwrites what lies behind it;
after that only a restart is modelled, and a run shows that it can happen.

`EnvPromise` is what clients rely on: a map; an image, the only map but the
default one that a restart can find; and whether the flash holds all of it
(`whole`). A save that returns 0 has made its map the image, whole, unless the flash
has kept less than it reported (`lost`): then a restart finds the map whose CRC
was stored last, or the default one, never a mixture, but nobody has been told.
`EnvStore` implements it (`KeepsPromise`), with the map read out of the buffer as
`env_get` does and the image out of the CRC in the flash.

`EnvStore` uses the tail of a loaded buffer by its definition; `EnvTail` is the
binary search that computes it, with its midpoint made of halved addresses.

### HimciRequest

CPU and controller take turns freely. `Call` starts `mmc_read` or `mmc_write`,
which issue up to three commands (`Commands`); `Request` to `RequestEnd` follow
`hi_mci_request` and its wait loops. `TakeCmd`, `AnswerCmd` and `DataOver` are
the hardware, modelled from the flags the driver looks at: it may answer well,
with an error, late, or never. What the hardware holds carries a mark (`own`)
that tells work of this request from work of one already given up. The driver
does not see the mark. `SetupData` makes the descriptors of a transfer, and the
data counts as moved (`delivered`) only when the DMA engine, going through them
to the one marked as the last (`Moves`), has covered all of it.

### MmcInit

One level above `HimciRequest`: a step is one command, or one round of a polling
loop, of `mmc_flash_init`, `mmc_dev_init`, `mmc_dev_start`, `sd_chg_freq`,
`mmc_chg_freq` and `check_ext_csd`; `pc` names the command that comes next. A
command has the outcomes `HimciRequest` shows: it succeeds, fails, fails after
the card has carried it out, or reports success without having moved its data.
`chip` is the card on the board and the modes the board carries, `card` the
state of the card, `host` the mode of the controller, `dev` the driver's
`struct mmc_dev_t`. The width is written to the controller from `bus_width` and
DDR from `card_caps`, so the two can disagree with each other and with the card.
Its clock is what `hi_mci_set_cclk` makes of `clock` with the divider, in units
of 100 kHz.

The `ext_csd` buffers are locals that nothing initialises: `local` says which of
them hold what the card has, and a value that was not read is any value.
`test_ext_csd` is static, so it starts as zero and keeps what the last read left
(`test`). A caller that got no card tries again (`Begin`), with the capabilities
and the version the first attempt has left.

Left out: the capacity and block lengths, a clock register that a command still
locked keeps from being updated, and all printing, the last read of
`check_ext_csd` included.

### Memlib

`heap` holds the chunk headers, the bins as sequences, the block bits and the
break. `Malloc`, `Free` and `Memalign` are `memlib_malloc`, `memlib_free` and
`memlib_memalign` as operators from heap to heap, built from operators named
after the macros of the file. `CallMalloc`, `CallMemalign` and `CallFree` are
those of `malloc.c`, which keeps the heap; `live` is what callers hold. Callers
release what they hold, once. The table of bin widths for large chunks is one width here; the
order of the lists and the limit between small and large chunks are kept. A
branch of `memlib_extend_top` for memory somebody else took from the break is
left out: `memlib_sbrk` has no other caller. Headers that no chunk has any more
stay in memory in the code; the model drops them at the end of a call
(`Settled`), by the walk from the first chunk that `Walked` makes. The width
`W32` is at least 32 so that the least chunk has a bin.

### Symbols, EnvTail, Delay, Parts, Args

Algorithms that are used by the rest and keep no state between calls.
`Algorithms` puts them side by side: an initial state gives one of them its
input (`job`), and the others have ended.

`Symbols` is `symbol_init` and `find_entry`, a round of each loop per step.
`Delay` is `udelay` with `__udelay`; the counter runs by itself (`Tick`), at most
`MaxGap` counts between two reads. `mdelay` is the same loop in thousands.
`Parts` and `Args` are operators; their loops are recursive functions of the
number of rounds. `FindPart` follows `find_part`: after the first match or error
nothing changes any more. An offset after `@` is parsed by the code and then
ignored, so it is not part of a text here. `Occurs` says where `strstr` finds the
name of the table in a key. The first argument in which it does decides
(`DevPart`): at its end, in `olddevparts=` as in `devparts=`, the value behind it
is taken; elsewhere, as in `devparts2=`, nothing is found, even if the argument
that was meant comes later. The comment at `parts.c:45` leaves it to the user
that the name appears only once. `MergeArgs` counts the characters that `merge_args` writes
and keeps the words. Quotes of values are counted: `next_arg` takes them away,
and a merged value with blanks in it is written without them.

### Boot

`Boot` composes what runs between reset and kernel, one action per function of
`boot_start`, `module_init` and `kern_load`. Memory is a row of cells that hold
parts of images: the header of an Android image, the header of a kernel image,
pieces of a kernel, pieces of a ramdisk, the tags; or what the loader works in
(`Loader`: stack, heap, global region, text and data, page table). So a copy that
runs over its own source, a ramdisk that covers the header it came with, tags
that cover the kernel, or an image over the loader are visible. Memory starts with any image in it, as an earlier boot
has left it, and `ReadKernel` brings any part of the image on the card, for
`boot_start` does not look at the result. A CRC is taken to be free of
collisions: `check_image` accepts exactly whole kernels. `ByPriority` puts the
modules in any order the linker may choose within a priority. The card can be
missing at any of the places that look for it. `cache` and `dirty` are the data
cache: cells written with the cache on are in it until it is switched off.
`env` is the environment as far as the boot goes: where it came from, its
arguments, and whether the stored CRC covers it.

`run.c` moves kernel and ramdisk to the addresses in their headers and checks
neither against the memory of the loader, which goes on using it: `env_exit` writes
the CRC to the global region, `merge_args` takes its buffers from the heap, and the
stack and the text are in use until the kernel is called. While the loader is
`Intact` its steps are those of the code. Once an image lies over it they are
not taken any more, and `Astray` stands for whatever happens: the image may be
written over, arguments and CRC may be lost, a kernel is started or not, the
board is reset or not, with the power of the card on or off. Nothing is promised
of these boots.

`image_load` has no caller. Fields of `mmz=` without a comma behind them are not
modelled (`params.c:309`).

### Irq

The program starts clock sources and connects them (`ClockSource`, `Connect`,
`Fill`, `Enable`, `Restore` are the steps of `irq_connect` between which an
interrupt can come), prints with interrupts off (`Printf`), and switches them on
(`EnableIrq`). `Interrupt` is the exception entry; `Ack`, `Handle` and `Leave`
are the loop of `irq_ctrl_handle`. The boot ROM may leave lines enabled and
timers asserting, which is what `gic_dist_init` is for. A timer fires again only
after the program has run: its period is far longer than a dispatch.

### MemDbg, Layout, KernTags

`MemDbg` has the table of lists of `hush.c`, in the order in which `list_add`
leaves them, the counters of `memdbg` and the cursor with which a dump goes over
the lists. Either heap may be exhausted at any time (`Insert`).

`Layout` and `KernTags` are operators. `SysmemInit` finds the size of the memory
as `get_ddr_size` does, resolves the table row by row (`Resolve`) in 32-bit
arithmetic, sets the pages, and keeps what the assertions print: the rows that do
not begin and end at words (`odd`; the linker script places everything at words but
the ends of `.text` and `.bss`), the rows whose size, order or end is wrong
(`misplaced`), and where `mmu_init` has stopped writing (`ptbtail`). The table is
used whatever they say. Addresses are in units of 8 KiB.

`TagList`, `Placed` and `SetParamData` are the tags, their places and the parameter
table; a tag has the size it announces and the bytes that are written, which differ
for the parameters. The table is the memory of `struct tags_ctrl_t` byte by byte
from its buffer on: the assertions for a full table and a full buffer only print
(`kern_param.c:61-62`), so a value may run over the items behind the buffer, and an
item over the end of the table. `HasName` reads a name where the code reads it, also
when a value lies there, which may by chance spell the name looked for (`alike`).
In this tree `set_param_data` has no caller: the table that `kern_param_init` makes
(`init.c:71`) reaches `get_param_tag_data` empty, and what is modelled is the
function as it is offered.

`Platform` puts the four side by side in the way of `Algorithms`.

## 3. Runs

| run | question | instance |
|---|---|---|
| `flashio_safety` | Are blocks and buffer paired, requests contained, neighbours safe, and full lengths true, with chunks that fail? | card of 5 blocks of 2 bytes, 2 per chunk, 2 handles, 6 ranges, 2^32 is 64, errors -1 and -3 |
| `flashio_contract` | Is every positive length real? (no) | same |
| `envstore_safety` | Does the buffer stay packed, with one whole item per key, and keep the promise over saves, lost blocks and restarts? | 12 bytes in 2 flash blocks, 3 keys, values of 1 and 4 bytes, any block lost or not read |
| `envstore_overrun` | Does the tail stay in the buffer? (no) | same |
| `himci_calls` | Does every call return, with the DMA off after success, and does success mean data? | 2 polls per loop; 1, 2, 3 and 5 blocks with 2 descriptors of 2 blocks |
| `himci_contract` | Does success mean data, whatever happened? (no) | same |
| `mmc_setup` | Does every attempt to find the card end, in a mode that works, at a speed the card takes and known as what it is, with the boot settings repaired? | SD cards, old and new MMC cards of 26 and 52 MHz, with and without DDR and with a revision of zero; boards that carry eight bits, four bits or one; 2 rounds per poll, 2 attempts |
| `memlib_safety` | Is the heap consistent after every history, and is nothing refused that fits? | 128 bytes of arena, pages of 32, 4 sizes and one refused, 2 alignments |
| `memlib_pad` | Is every block large enough? (no) | same, with the largest size |
| `algorithms` | Are symbols, tails and partitions found where they are, are delays long enough, does the merged text fit, and do the loops end? | tables of up to 7 symbols; every packed buffer of 11 bytes at an odd address; a counter of 50 with 3 counts per microsecond, pieces of 3; up to 3 partitions; texts of up to 3 words with a table of 2 |
| `platform` | Does every interrupt find its handler and end, is the record of the memory true, do regions and tags follow each other, and is it reported when not? | 4 timers on 3 lines, a table of 3; 4 addresses in 3 lists, 4 allocations; 24 programs on 12 sizes of memory; up to 3 of 6 parameters in a table of 2 with 6 bytes |
| `boot` | Is a whole kernel started, with its ramdisk, environment and CRC as the kernel is told? | 16 cells, 2 of them the loader's, 11 images, 6 environments, every linker order, every part of an image read |

Why the bounds are enough:

* *FlashIO.* Two blocks per chunk and five blocks give requests of up to three
  chunks, with a failure in the first, a middle or the last one, and drift after
  it. The errors are one smaller and one larger than a chunk. The ranges are two
  neighbours, an odd length, one that starts inside a block (refused), one that
  runs past the card and one outside it. With 64 for 2^32 the negative product
  wraps and lies far above every length, as in the code.
* *EnvStore.* A short and a long item leave one byte, the least the code
  accepts; a third item does not fit. With three keys an item is removed or
  replaced in front of, between and behind others. Two flash blocks are enough
  for a torn image: the CRC is in the first. Either, both or none may be lost by a
  save or not be read.
* *EnvTail.* 11 bytes need three rounds of halving and a scan; at an odd base
  the midpoint is rounded down twice.
* *HimciRequest.* A loop that gives up after 2 polls has the outcomes "at once",
  "late" and "never". Three blocks exceed the descriptors; one block needs no
  stop command. A descriptor is left half empty, filled, or followed by another.
* *MmcInit.* Two rounds of a poll give an answer at once, in the last round
  (which the code counts as none) and never. Two attempts are enough for what an
  attempt leaves behind. The boards make the probes with DDR fail or succeed at
  the first or second mode, and those without it likewise.
* *Memlib.* There are small and large bins in more than one block, the top chunk
  is extended, refused and trimmed, and the arena starts off alignment.

* *Algorithms.* All tables of up to two symbols, also empty ones, and longer ones
  with touching symbols and gaps give every turn of the search. Delays are
  shorter than a piece, a piece, and up to three, from every phase of the
  counter, so that a wrap falls before, into and after each of them. Partition
  texts have sizes below, at and above the least, fill-ups in every place,
  repeated names, a second device or table, an open name, and words before and
  behind that end with the name looked for or begin with it. Merged texts have equal, conflicting and new words, and
  more than the table holds.
* *Platform.* A line for one timer, a line two timers share, of which one is
  started, and a line beyond the table. Three addresses of one list and one of
  another, with an empty list between them, are released and dumped in every
  order. The program ends before, at and behind a mebibyte; the memories are
  those of the boards and the limits of the code, and the ends of text and data lie
  at words or not. Parameters are given again or have too long a name, and
  run over the buffer by a part of a slot and by more than one, and over the
  table by one.
* *Boot.* The images ask for a kernel and a ramdisk apart from everything, in
  place, over each other, over the headers, over the tags, over their own
  source, over the loader and outside of the memory. An Android image has at most six cells, so
  that any subset of them can be what was read.

Deadlock is checked except in `algorithms`, whose algorithms end, in `platform`,
where the layout and the tags are states without a step, in `boot`, which ends in
the kernel, in a reset or in the return of `boot_start`, and in `mmc_setup`,
where a card that was found is not looked for again.

`BufferInShape` of `EnvStore` says that the buffer is packed up to its tail and
holds one whole item per key; `HeapInShape` of `Memlib` that blocks in use are
chunks, that every free chunk is in exactly one list and that the block bits
cover the bins that are not empty.

Three properties of `MmcInit` have premises, which are the limits of what the
code achieves:

* `AcceptedWorks` excludes attempts in which a read failed after having moved its
  data (`test_ext_csd` keeps it, and the next comparison succeeds with a mode
  that carried nothing), those whose first revision was not read, and cards of
  revision zero, which equals an empty `test_ext_csd`.
* `FindsMode` excludes cards that offer DDR on a board where both DDR modes are
  broken: `card_caps` keeps its DDR bit while the other modes are probed, the
  controller stays in DDR, and no mode is found.
* `BootSettings` excludes a first read that reports success without data: the
  access bits written back are then those of the stack.

The same is true of `HimciRequest` and `MemDbg`: `SuccessDelivers` excludes data
phases that met an error and calls after a request that was given up, whose flags
may still be set; `DmaOffAfterSuccess` speaks of calls that succeed, since the
paths that give up leave the DMA engine armed; `RecordsTrue` speaks of what is
recorded, since memory is handed out without a record when the record cannot be
made.

The properties of `Boot` have premises, too. The first three, and the power in
`TypeOK`, exclude boots in which an image has been moved over the loader
(`Intact`): over its stack, its heap, the global region with the environment, its
text and data, the page table or the interrupt stack. `run.c` checks none of
them, and such a boot may do anything (`Astray`). Beyond that:

* `StartsWhole` excludes images that want their kernel over the tags, or over
  its own source from below (`memcpy` copies upwards). It does not say that the
  kernel is the one on the card: when the read fails, a whole image that an
  earlier boot has left in memory is started.
* `RamdiskReaches` excludes arguments that are missing or too long to take the
  address of the ramdisk, ramdisks placed over the kernel, the tags or the
  header, and images that were not read completely: no CRC covers the ramdisk.
* `StoredCrcRight` excludes boards of 768M and 1.5G whose arguments name a
  zone: `bootargs_merge` rewrites these after `env_exit` has stored the CRC.
* `EnvFromCard` excludes boots in which the card has failed.

In `Irq` a timer that shares its line with a clock source is still: the one
handler of a line quiets one timer.

`LayoutRight` holds on every board, also where the assertions of `mem_init.c`
print: the rows of the program follow each other, the page table fits, the kernel
image is read into the memory kept free for it, and pages are cached as their rows
say. From 256M to 3G no row is misplaced. In a smaller memory the last rows may
end behind it or be turned round, and beyond 3G `get_ddr_size` returns nothing;
the code prints that and goes on with such a table. What is shown is that a
reserved memory which does not follow the others, end with the memory or lie on
pages that are not cached is never passed over in silence. The rows that are not
aligned to words are kept (`odd`), and nothing depends on them.

`TagsRight` says that tags do not overlap whatever has become of the table of
parameters. A parameter is read back as first given if its item and its value lie
in their arrays and no later value runs over its slot; it is found by its name if,
besides, the buffer has not overrun, because the bytes of a value in an earlier
slot may spell any name. And a table that has overrun was reported by an assertion.

`PartsRight` asks that the argument in which `strstr` finds the name first has it
at its end, and then speaks of the partitions of that argument, whatever it is
called and whatever follows.

`KeepsPromise` says of a save that returned 0 that a restart finds it only when no
block of it was lost; see `EnvPromise` above.

The properties of the small algorithms say what those achieve, which is less
than their names promise:

* `FindsInner` leaves out the first and the last symbol, at which `find_entry`
  never looks, and an address where two symbols touch may give the one before.
* `DelayHolds` allows for one whole piece per wrap of the counter. With a wrap
  in between, `__udelay` adds 2^32 - 1 to ticks that wrap at 2^32 / `hz`, and
  returns at once. The counter wraps rarely enough for that to be one piece.
* `MergeRight` asks for completeness while no text has more parameters than the
  table; that the text fits into its buffer holds always.

### Fairness

`HimciRequest` assumes that the CPU goes on (`WF_vars(Driver)`): there is one
CPU, and the only thing that can take it away is an interrupt. Nothing is
assumed of the controller or the card, so that `EveryCallReturns` rests on the
poll counters alone. `EnvTail` assumes that the algorithm goes on.
`MmcInit` assumes it of its steps (`WF_vars(Step)`), each of which is a command
that `HimciRequest` shows to end; `Begin` is not fair, for nobody has to try
again. `Symbols` and `Delay` assume that the algorithm goes on, `Delay` also that
the counter runs. `Irq` assumes that the program goes on with what it has begun
and that the dispatch goes on (both weakly), and, strongly, that `Interrupt` is
taken: the program keeps switching interrupts off to print, but whenever they are
on the processor takes a pending one before its next instruction. Nothing is
assumed of the timers. The other modules claim safety only.

## 4. What the code gets wrong

Four properties that the source states are not kept. Each has a run that shows
a shortest history.

* `flashio_contract`: `include/flash.h:61` promises the real length. A failed
  chunk adds a negative value to an unsigned sum and the result is a positive
  number; a failed tail is not noticed at all (`mmc_if.c:166`, `:181`).
* `envstore_overrun`: `env_set.c:65` asserts that the tail is in the buffer.
  `snprintf` returns the length it would have needed and the tail moves by it.
* `himci_contract`: timeouts and CRC errors of the data phase are logged and the
  transfer still counts as done (`himciv200.c:526`).
* `memlib_pad`: `request2size` compares as a signed number, so that the largest
  requests become the smallest chunk (`memlib.c:40`).

## 5. Proofs

Eight modules hold what TLAPS has proved: no theorem depends on the sizes,
counts and sets that a run fixes. Each follows the same argument: an inductive
invariant `IInv`, that the initial states have it, that every action keeps it
(one lemma or step per action), and that it implies the property. None of the
properties is inductive by itself, except where that is said below.

| module | theorems | of every |
|---|---|---|
| `FlashIOProofs` | `TypeCorrect`, `PairingCorrect`, `Containment`, `FullReturn`, `NeighboursSafe` | card, block and chunk size, modulus, set of errors, handles and requests |
| `EnvStoreProofs` | `TypeCorrect`, `Shaped`, `Kept` | buffer size, number of flash blocks, set of items and their lengths, default environment |
| `HimciRequestProofs` | `TypeCorrect`, `DmaOff`, `Delivers` | poll limit, set of block counts, size and number of the descriptors |
| `MmcInitProofs` | `TypeCorrect`, `Slowly`, `Kind`, `AcceptedRight`, `ModeFound`, `BootRight` | poll limit, number of attempts, set of boards and of modes that work on them |
| `BootProofs` | `TypeCorrect`, `KernelWhole`, `RamdiskThere`, `CrcRight`, `EnvUsed` | memory, set of images, cached region and set of environments |
| `MemlibProofs` | `HeapTypes`, `HeapStaysInShape`, `HeapFailsOnlyWhenFull` | arena, page size, bin widths, trim threshold, width of a number, set of requests and alignments whose padding fits |
| `AlgorithmProofs` | `InnerFound`, `SearchInTable`, `TailFound`, `LongEnough`, `PiecesShort`, `PartsFollow`, `MergeFollows`, `AlgorithmsTypes`, `AlgorithmsSafe`, `PartsAlwaysRight`, `MergeAlwaysRight` | table of symbols, buffer and its address, clock, delay and gap between reads, boot arguments, least size of a partition, parameters looked at |
| `PlatformProofs` | `HandlersConnected`, `MemTypeCorrect`, `RecordsTrueAlways`, `TagsFollow`, `LayoutFollows`, `PlatformTypes`, `PlatformSafe`, `LayoutAlwaysRight`, `TagsAlwaysRight` | set of timers, assignment of lines, size of the table; set of addresses and sizes, depth of the table of lists; sequence of parameters, length of the boot arguments; program as linked, size of the memory |

### FlashIOProofs

`FlashIOAssumption` says that the sizes are positive and that a chunk in bytes,
plus the largest error times the block size, is less than 2^32. In the code a
chunk is 65536 blocks of 512 bytes and the errors are below 200, so it holds by
far.

The invariant adds what the loop keeps: address and pointer have drifted together
(`databuf = BlockSize * (blkaddr - start)`); while nothing has failed, the blocks
done and those left make the request, the byte count is the blocks done, and
every whole block done has been moved; once something has failed, the count has
overshot: each failure adds nearly 2^32, which the blocks still to come cannot
compensate. That last part makes `FullReturn` true although failures are not
checked: the sum can never come out equal to the size. `Containment` needs, beside
that, that the range of the request lies in the range of its handle
(`SubmitFits`), and that a cut at the end of the card or of the partition keeps it
there. `NeighboursSafe` follows from `Containment` and from the alignment of the
start of every handle: the padded tail stays in a block in which no disjoint
handle has a byte.

### EnvStoreProofs

The assumptions are that the flash blocks divide the buffer, that values are not
empty, that the markers for "nothing" are no values (`NoneAssumption`), and that
the default environment fits (`DefaultsFit`): in the code it has some 120 bytes
of nearly 64K.

`BufferInShape` speaks of the walk from item to item (`ItemStarts`), and a walk is
no induction hypothesis: what one byte means depends on all bytes in front of
it. The invariant says the same of each byte for itself (`Woven`): a byte that is
not zero is the j-th of the text of an item whose other bytes lie around it; no
two zeros are neighbours before the tail; two first bytes of one key are the same
byte; and behind the tail there is nothing (`ZeroFrom`). From that, `StartsAre`,
`LengthIs` and `TailIs` derive what the walks and `find_env_tail` return.
`GapCloses` and `StillWoven` show that taking an item out and moving the rest
down keeps it, `AddedWoven` that writing one at the tail does. `CrcGood` says that
a stored CRC is that of a buffer in shape, and `SaveCopies` how far a save has
come: the CRC is written with the first block, so an image that is torn later
does not match it, and an image that matches is a whole buffer that was saved. It holds
of saves that have lost nothing; of the others only `CrcGood` is known, and that is
enough, for what a restart accepts is the buffer whose CRC is in the flash.

`Kept` is the refinement: each step of `EnvStore` is a step of `EnvPromise` or
leaves the map and the image as they are. `MapAfterSet` and `MapAfterClear` say
that the map read out of the buffer changes in one key only. A save writes the
image with its first block, which holds the CRC, and makes it whole with its last
one or before, when the old blocks happen to be the same; a block that was lost
leaves the image or spoils it (`BlockStoredIs`). `Restarted` says that what passes
`verify_env`, of whatever blocks have been read, is the buffer of the CRC in the
flash.

The default environment is loaded item by item, by a recursive function
(`Loaded`). The library's induction theorems cannot be used, but a set of
natural numbers has a smallest (`Smallest`, from the well-foundedness of the
finite subsets, whose theorem takes no operator), and a smallest counterexample
serves as well: `LoadedIs` shows in this way that the function exists and
`DefaultGood` that every prefix of the default environment is in shape.

### HimciRequestProofs

`ChainMoves` shows that the chain that `hi_mci_setup_data` builds covers a transfer
of any number of blocks, for descriptors of any size: the pieces follow each
other, the last one is marked, and they make up the whole.

The status register does not say whose flags it shows, so `Delivers` needs that
they are always those of the request being served. `Quiet` says it: while no
request has been given up, the controller has one piece of work at most
(`OneAtATime`), it is that of this request, none is left when the request ends, and
`DTO` can only stand for data that has moved or met an error. `Moved` carries this
over the stop command to the end of the call. `DmaPhase` says that the DMA is off
whenever a command with a busy phase runs and when a transfer has ended well.

### MmcInitProofs

The invariant follows an attempt through the positions of the code. `Versions` says
what `dev.version` tells of the kind of the card at each of them, and what it
means that it has not been set; `Slow` that no capability which would change the
mode survives an attempt that fails; `Timed` and `Offered` what the extended CSD
has told when no command failed; `Rounds`, `Accepted` and `Searched` what the
rounds of the width test leave: data that has arrived ends them, a mode that was
accepted is the mode of the card already before `set_ios` is called once more,
and the modes passed over do not work; `Checked` the boot settings.
`ClockNotAbove` shows that the divider is rounded so that the clock is never
faster than the one asked for, for all clocks from 400 kHz to 50 MHz.

### BootProofs

`BootAssumption` says that an image has a kernel and fits between the place it is
read to and the end of memory, and that the loader lies between the tags and that
place. `Contents` and `Received` say where the cells of
memory come from. `KernelMoved` and `RamdiskMoved` say, from the step that copies to
the start of the kernel, that what was copied lies in its place unless one of
the premises fails (they list what later steps may write). These and `Quiet` (what
is switched off in time) and `Sums` (the CRC) are `Promised` while the loader is
`Intact`; `StaysAstray` shows that a loader which has been overwritten does not
become intact again, so that a state with an intact loader has only such states
before it since the image was moved. `Coherent` shows that
finding a card has switched the cache off, so nothing of an image that was read
can be left in it. `Queue` carries the order of the modules: whatever the linker
does, the environment comes last, after a driver and the partition operations.

### AlgorithmProofs

`TailFound`: for every buffer size and address the search keeps its pointers in
the buffer, and what it returns is the tail. The invariant says that the lower end
is never on a pair of zeros, that the upper end is on one or on the last byte,
and that the scan has passed none. The lemma `MidBetween` shows that the midpoint of
an interval of more than two lies strictly inside it however the halves are
rounded. It makes the interval shrink, which is the reason why the search ends;
that it ends is checked by TLC only, as all liveness is.

`InnerFound` and `SearchInTable`: for sorted tables of any length, an inner symbol
is found and the search stays in the table. The invariant (`Between`) says that a
symbol with the address in it, other than the first and the last, is strictly
between the bounds. `Sorted` and `MiddleBetween` keep it so; when the midpoint is
the lower bound, there is nothing left between. The premise (`SymbolAssumption`) is
what a binary search relies on: sorted symbols that do not overlap. The build
files of this tree write an empty table (`scripts/Makefile.build:67`); the code
is checked for the tables it was written for.

`LongEnough` and `PiecesShort`: a delay is long enough and not much too long, for
every clock, delay, gap between reads and state of the counter at its begin.
`DelayAssumption` says that a second is less than half a period of the counter
(24 million counts against 2^32 / 2) and that the timer counts more than once per
microsecond. At one count per microsecond the theorem would be false: the end of
a piece could exceed 32 bits, and the piece would end at once. The invariant
remembers the counter at the start of the piece (`Waiting`): it has wrapped at
most once since, and what has passed is less than the piece plus the gap since
the last read. `ReadTells` is the core: from a read of the ticks, rounded down at
both ends, either the piece is still running, or it is over and short by less than
a tick, or the counter has wrapped. `RoomToCount` shows that the bound on the
history (`MaxSpent`) is never reached, so it takes nothing away.

`PartsFollow`: for all boot arguments, each partition of a device that is described
once and without errors in the argument that `strstr` meets first is found, the first at 0 and each at the end of the one
before. The loops are recursive functions, of which TLAPS knows only that they
are chosen to satisfy their equation; `Iterates` shows that a function which takes
each value from the one before exists, and `CountUp` stands for the induction over the
rounds: the first round at which something did not hold would have one before it
at which it did (`SmallestSet`, from the well-foundedness of finite sets). The core
is `AnswersAgree`: in front of a part, the answers do not depend on which name is
looked for, so that two searches agree on where the part begins.

`MergeFollows`: for all texts, the merged text fits into its buffer; and while neither
text has more parameters than the table, no name is lost, the first text keeps its values,
and nothing is doubled. `Fits` compares the characters written with the sums that
make up the length of the second text (`Sums`), plus a blank for each word. The
bound is met exactly when the first text is not empty, nothing of the second is dropped, and that has no
quotes and no superfluous blanks, so `SizeOneEnd`, one byte less, would be too small.

`AlgorithmsTypes` and `AlgorithmsSafe` are the properties of the single models in their
composition: `AlgorithmsInv` says that the one whose turn it is keeps its
invariant and that the others stay where they have ended. `PartsAlwaysRight` and
`MergeAlwaysRight` apply the two theorems above to the inputs;
`AlgorithmsAssumption` says that these are boot arguments and texts.

### PlatformProofs

`HandlersConnected`: the invariant (`LinesServed`) says that a line is enabled only
when its slot is filled, and that no interrupt is taken before `gic_dist_init` has
run; `Connecting` carries the slot that `irq_connect` has found free to the step
that enables the line.

`RecordsTrueAlways` and `MemTypeCorrect`: `MemDbgAssumption` says that there are
finitely many addresses, as many lists as `hush_init` was asked for, and that sizes
are positive. The invariant `MemInv` has four parts. `TableInv`: each list has the
records whose address belongs there, none twice. `UseInv`: records are of
allocations in use. `CountInv`: the counters agree with the records. `CursorInv`:
while a dump goes on, what it has shown and what lies behind its cursor (`Left`:
the rest of a list, and the lists behind it) make up the records and have nothing
in common; without it, nothing would follow at the end of the dump. `ListAddIs`,
`ListRemoveIs` and `HeadIs` say what the list operations do to the elements.
TLC found no violation of `MemInv` on the instance of the run `platform`. The sum of the sizes
is a fold over a set, which takes its elements in an unknown order; `SumExists`,
`BytesIs` and `BytesAdd` show that the order does not matter, with a smallest
counterexample (`SmallestSet`, from the well-foundedness of finite sets) in place
of an induction.

`TagsFollow`: `TagsHold` for every sequence of parameters, where the run checks it up
to a length of three. `ParamTables` says what every prefix of the calls keeps, with
or without an overrun: the table stays a table (what would be stored behind its end
is not part of it), and while the buffer has not overrun the slots hold items of
names that were given (`Named`). `ParamsStay` says which bytes no later call touches
(`Kept`): those in front of the counter in the buffer, and those of slots to which
no value has come. `ParamKept` combines the two for a parameter given for the first
time, `OverrunTold` finds the call at which a counter passed its limit, and
`PlacedApart` shows that tags do not overlap for any table. It is needed that the
list of tags begins at a word (`TagsAssumption`; 0x100 in the code). A slot of zeros
has no name here: a parameter with an empty one, for which `set_param_data` has an
assertion as well, is not among those modelled (`PlatformAssumption`).

`LayoutFollows`: `LayoutHolds` for every linked program and every memory that is a
multiple of 16M, where the run has 24 programs and twelve sizes. `Linked` is what
the theorem needs of the program: it lies behind the malloc heap, the heaps and the memory
kept free end below 224M, and what is kept free holds the kernel image
(`LayoutAssumption` has the lengths of `mem_init.c`). The proof resolves the table
row by row: `ResolvedExists` shows that the recursive function of the rows exists,
then each row is computed from the one before or behind it, in 32-bit arithmetic
in which the last one may wrap in a memory below 256M (`LastResolved`): if it does,
its start, end or size gives it away. Beyond 3G the size is zero, and the rows lie
behind it (`UnfoundReported`). The program ends with a whole section (`Ends`),
so the sections in front of its end are cached and those behind it are not
(`Pages`), whatever lies in them.

`PlatformTypes`, `PlatformSafe`, `LayoutAlwaysRight` and `TagsAlwaysRight` are
the properties of the run `platform` in the composition. `PlatformAssumption` says
that the programs are linked, the memories multiples of 16M and the parameters
named; TLC evaluates it on the inputs of the run.

### MemlibProofs

The three properties of the run `memlib_safety` hold for every arena, page size,
limit of the small bins, bin width, trim threshold and order of calls. The
theorems have one premise, `PaddingFits`: of each request, `request2size` does
not wrap (bytes + 11 below half of `W32`) or the request is refused because it is
negative as a signed number; the same of the sum `memlib_memalign` asks for;
and an alignment is at most 16 or a multiple of eight. It is no assumption of
`Memlib`, because the code does not see to it: without the first part the
theorem is false, which is what the run `memlib_pad` shows. The requests of
`memlib_safety` satisfy it, the refused one among them.

A heap in the middle of a call satisfies none of the properties: chunks are in
no list, tags are set before sizes, the last remainder is unlinked. What every
operator from heap to heap keeps is `Good(h, C)`, where C is the set of its
chunks: `Chain` (they lie side by side from the first one to the break, the
top chunk last), `Tags` (PREV_INUSE of the chunk behind says whether a chunk is
free, no two free ones are neighbours, and a foot leads to each) and `Lists`
(the bins hold the free chunks, each once, in the bin of its size or as the last
remainder, the large ones sorted, in marked blocks). How the memory in use
changes is said beside it: `MoreUse` by one chunk for what hands out,
`LessUse` for what releases, `SameUse` for the rest.

* *Chunks.* `ChainSplit` and `TagsSplit` cut a chunk in two, `ChainMerge`,
  `TagsMergeTop` and `TagsMergeMid` make one of several.
* *Lists.* `ListsUnlink`, `ListsInsert`, `ListsSetLr` and `ListsClearLr` are the
  four things the code does to them; `ListsFrontlink` shows that the search for
  the place in a sorted list keeps it sorted.
* *Search.* `Scans` and `Searches` show that the blocks whose marks are cleared
  have nothing in them, and that a search which comes to the top chunk has left
  no chunk behind that is large enough (`Full`). The walk takes the last chunk of
  a list that is large enough; that none is passed over needs the order of the
  bins (`BinIndexOrder`) and of the lists (`SmallestLast`).
* *Top.* `Extends` follows both extensions, the one that fails after half of its
  work included (`GrowsHalf`), and `NoRoom` is what a refusal says of the break.
* *Calls.* `MallocsOf`, `Frees` and `Memaligns` are the three operations; an
  aligned one is a malloc, at most two cuts (`CutsBehind`) and at most two
  releases. `Settles` shows that the walk at the end of a call meets exactly the
  chunks: it takes the least header for which it would not.

The invariant `IInv` says that the heap is `Good` with its headers as the chunks,
and that the blocks handed out and the chunks in use are one to one, each large
enough (`Held`). TLC found no violation of it on the instance of
`memlib_safety`. `HeapFailsOnlyWhenFull` is an action property and needs the
invariant only in the state of the call.

### What is only model-checked

* Liveness under fairness (`EveryCallReturns`, `AttemptEnds`,
  `InterruptsServed`, `AlgorithmsEnd`): out of reach of the prover.
* The four properties whose runs expect a violation (section 4): they are false.

Every invariant that a passing run checks is a theorem, and so are the properties of
steps and histories `FailsOnlyWhenFull` and `KeepsPromise`.

## 6. Plan

All subsystems with state worth checking have a module. What is left, in order:

1. The capacity of the card and its block lengths (`mmc_drv.c:634`), which
   `FlashIO` takes as constants.
2. The text of the boot arguments where it is edited in place
   (`params.c:281`).

## 7. What is not modelled

Register programming and start-up assembly are one sequence without choices.
The C library and compiler support are third-party; `snprintf` is modelled where
`env_set` depends on its result. Printing and dumping leave no state. The backup
copy of the environment is switched off in the configuration: both images have
the same address.
