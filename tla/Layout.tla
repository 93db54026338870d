------------------------------- MODULE Layout -------------------------------
(***************************************************************************)
(* The layout of the memory: the size of the memory found by writing to    *)
(* its start and reading further on (arm/lib/ddrsize.c), the table of      *)
(* regions whose open fields are filled in one row after the other         *)
(* (common/mem_init.c), and the page table that makes the regions cached   *)
(* or not (arm/lib/mmu.c).  Addresses are counted in units of 8 KiB.       *)
(***************************************************************************)
EXTENDS Integers, Sequences

CONSTANTS
  MallocLen, GlobalLen,  \* CONFIG_SYS_MALLOC_LEN, CONFIG_GLOBAL_DATA_SIZE
  DmaLen, FreeLen        \* CONFIG_DMA_MALLOC_LEN, CONFIG_RESERVE_MEMORY_GAP

ASSUME LayoutAssumption ==
  /\ {MallocLen, GlobalLen, DmaLen, FreeLen} \subseteq Nat \ {0}
  /\ GlobalLen < MallocLen

MiB == 128               \* 2^20 bytes
U32Wrap == 4096 * MiB
LayoutAuto == -1               \* DDRLAYOUT_AUTO
CB == {"C", "B"}         \* PAGE_C | PAGE_B

RoundUp(a, n) == ((a + n - 1) \div n) * n

-----------------------------------------------------------------------------
(* The size of the memory *)

\* A cell beyond the memory repeats the one at the start; at 3G the registers
\* begin.
Repeats(ddr, a) == a % ddr = 0

\* get_ddr_size probes every 16M, up to 3G; 0 when nothing repeats.
GetDdrSize(ddr) ==
  LET found == {n \in 1 .. 192 : Repeats(ddr, 16 * n * MiB)}
  IN IF found = {} THEN 0
     ELSE 16 * MiB * (CHOOSE n \in found : \A m \in found : n <= m)

-----------------------------------------------------------------------------
(* The table *)

Region(name, start, end, size, attr) ==
  [name |-> name, start |-> start, end |-> end, size |-> size, attr |-> attr]

\* What the linker places behind the program.
PageTable(prog) == RoundUp(prog.bssEnd, MiB)
IrqStack(prog) == PageTable(prog) + 2
End(prog) == RoundUp(IrqStack(prog) + 16, MiB)

DdrLayout(prog) == <<
  Region("stack",     0,              prog.text - MallocLen, LayoutAuto,                  CB),
  Region("malloc",    LayoutAuto,           LayoutAuto,                  MallocLen - GlobalLen, CB),
  Region("global",    LayoutAuto,           LayoutAuto,                  GlobalLen,             CB),
  Region("reserve",   LayoutAuto,           prog.text,             LayoutAuto,                  CB),
  Region(".text",     prog.text,      prog.textEnd,          LayoutAuto,                  CB),
  Region(".data",     LayoutAuto,           prog.bssEnd,           LayoutAuto,                  CB),
  Region("pagetable", PageTable(prog), PageTable(prog) + 2,  LayoutAuto,                  CB),
  Region("irqstack",  IrqStack(prog), IrqStack(prog) + 16,   LayoutAuto,                  CB),
  Region("DMA",       End(prog),      LayoutAuto,                  DmaLen,                {}),
  Region("free",      LayoutAuto,           LayoutAuto,                  FreeLen,               {}),
  Region("resmem",    LayoutAuto,           LayoutAuto,                  LayoutAuto,                  {}) >>

\* Mutation: the sizes are those of the next larger memory.
ReservedLarger(ddr) ==
  CASE ddr >= 1024 * MiB -> 512 * MiB
    [] ddr >= 512 * MiB  -> 256 * MiB
    [] ddr >= 256 * MiB  -> 128 * MiB
    [] OTHER             -> LayoutAuto

\* The memory reserved at the end, by the size of the memory.
Reserved(ddr) ==
  CASE ddr >= 2048 * MiB -> 512 * MiB
    [] ddr >= 1024 * MiB -> 256 * MiB
    [] ddr >= 512 * MiB  -> 64 * MiB
    [] ddr >= 256 * MiB  -> 32 * MiB
    [] OTHER             -> LayoutAuto

\* One round of ddrlayout_init; the row after the last has no name.
Resolve(r, rows, i, prev, ddr) ==
  LET own   == r.name = "resmem" /\ Reserved(ddr) # LayoutAuto
      start == IF own THEN ddr - Reserved(ddr)
               ELSE IF r.start = LayoutAuto THEN prev.end ELSE r.start
      asked == IF own THEN Reserved(ddr) ELSE r.size
      open  == r.end = LayoutAuto /\ asked = LayoutAuto
      until == IF i = Len(rows) THEN ddr ELSE rows[i + 1].start
      size  == IF open THEN (until - start) % U32Wrap ELSE asked
      end   == IF r.end = LayoutAuto THEN (start + size) % U32Wrap ELSE r.end
  IN [r EXCEPT !.start = start, !.end = end,
               !.size = IF size = LayoutAuto THEN (end - start) % U32Wrap ELSE size]

\* ddrlayout_init
Resolved(prog, ddr) ==
  LET rows == DdrLayout(prog)
      row[i \in 1 .. Len(rows)] ==
        Resolve(rows[i], rows, i, IF i = 1 THEN rows[1] ELSE row[i - 1], ddr)
  IN row

(* The assertions: each one prints, and the table is used all the same. *)

\* The rows that ddrlayout_init finds not to begin and end at words: the linker
\* places all addresses at words, except perhaps where .text and .bss end.
Odd(prog, rows) ==
  {i \in DOMAIN rows : \/ rows[i].name = ".text" /\ "textEnd" \in prog.odd
                       \/ rows[i].name = ".data" /\ prog.odd # {}}

\* The rows whose size is not what lies between their ends, and those that
\* sysmem_init finds empty, turned round or behind the memory; one without size
\* is passed over.
Misplaced(rows, ddr) ==
  {i \in DOMAIN rows : LET r == rows[i] IN
    \/ (r.start + r.size) % U32Wrap # r.end
    \/ r.size # 0 /\ ~(r.start < ddr /\ r.end <= ddr /\ r.start < r.end)}

-----------------------------------------------------------------------------
(* The page table *)

\* mmu_init: 4096 sections that are neither cached nor buffered.
Sections == 0 .. 4095
MmuInit == [s \in Sections |-> {}]

\* What mmu_init returns: the end of the table it has written, four bytes for
\* each section.
PtbTail(prog) == PageTable(prog) + 2

\* mmu_set, which refuses what is not made of sections.
MmuSet(pages, start, size, attr) ==
  IF start % MiB # 0 \/ size % MiB # 0 THEN pages
  ELSE [s \in Sections |->
          IF s \in start \div MiB .. ((start + size) \div MiB) - 1
          THEN pages[s] \cup attr ELSE pages[s]]

\* sysmem_init, with what its assertions print.
SysmemInit(prog, ddr) ==
  LET size == GetDdrSize(ddr)
      rows == Resolved(prog, size)
  IN [rows |-> rows,
      pages |-> MmuSet(MmuInit, rows[1].start, End(prog) - rows[1].start, CB),
      ptbtail |-> PtbTail(prog),
      odd |-> Odd(prog, rows), misplaced |-> Misplaced(rows, size)]

\* Where boot_start reads the kernel image to.
KernelStart == 32 * MiB
KernelEnd == KernelStart + 40 * MiB

-----------------------------------------------------------------------------
(* Property *)

\* The program is linked behind the malloc heap, the two heaps and the memory
\* kept free leave the memory that is reserved from 256M on alone, and what is
\* kept free holds the kernel image.
Linked(prog) ==
  /\ prog.text \in Nat /\ prog.textEnd \in Nat /\ prog.bssEnd \in Nat
  /\ MallocLen <= prog.text /\ prog.text <= prog.textEnd /\ prog.textEnd <= prog.bssEnd
  /\ prog.odd \subseteq {"textEnd", "bssEnd"}
  /\ End(prog) + DmaLen <= KernelStart
  /\ KernelEnd <= End(prog) + DmaLen + FreeLen
  /\ End(prog) + DmaLen + FreeLen <= 224 * MiB

PagesMatch(sys, i) ==
  \A s \in sys.rows[i].start \div MiB .. (sys.rows[i].end - 1) \div MiB :
    sys.pages[s] = sys.rows[i].attr

\* The rows up to the memory kept free follow each other without overlapping,
\* the page table fits into its row, the kernel image is read into the memory
\* kept free for it, and pages are cached exactly when their row says so: in
\* particular those of the DMA heap are not.
ProgramRight(sys) ==
  LET rows == sys.rows IN
  /\ \A i \in 1 .. Len(rows) - 2 : rows[i].end <= rows[i + 1].start
  /\ sys.ptbtail <= rows[7].end
  /\ \E i \in DOMAIN rows : /\ rows[i].name = "free"
                            /\ rows[i].start <= KernelStart /\ KernelEnd <= rows[i].end
  /\ \A i \in 1 .. Len(rows) - 1 : PagesMatch(sys, i)

\* The reserved memory, in the last row, follows them, is not cached, and ends
\* with the memory.
ReservedRight(sys, ddr) ==
  LET rows == sys.rows
      n == Len(rows)
  IN rows[n - 1].end <= rows[n].start /\ rows[n].end = ddr /\ PagesMatch(sys, n)

\* The rows of the program are right on every board, whatever the assertions
\* print; from 256M to 3G none of them finds a row misplaced; and a reserved
\* memory that is wrong never goes unreported.
LayoutHolds(prog, ddr) ==
  LET sys == SysmemInit(prog, ddr) IN
  /\ ProgramRight(sys)
  /\ ddr \in 256 * MiB .. 3072 * MiB => sys.misplaced = {}
  /\ sys.misplaced = {} => ReservedRight(sys, ddr)
=============================================================================
