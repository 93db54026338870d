------------------------------ MODULE Platform ------------------------------
(***************************************************************************)
(* The parts of the platform side by side: interrupts, the record of the   *)
(* reserved memory, the layout of the memory and the kernel tags.  They    *)
(* share no state.  An initial state says which of them is looked at; the  *)
(* others stand still.                                                     *)
(***************************************************************************)
EXTENDS Irq, MemDbg, Layout, KernTags

CONSTANTS
  LayoutInputs,  \* [prog, ddr]: programs as linked, and sizes of memory
  TagInputs      \* [calls, args, sdk]: parameters, lengths of the texts

\* Memories are made of 16M; a name is not empty.
ASSUME PlatformAssumption ==
  /\ \A x \in LayoutInputs : /\ Linked(x.prog)
                             /\ x.ddr \in Nat \ {0} /\ x.ddr % (16 * MiB) = 0
  /\ \A x \in TagInputs :
       /\ x.args \in Nat /\ x.sdk \in Nat
       /\ x.calls \in Seq([name : STRING \ {NoName}, long : BOOLEAN, length : Nat,
                           value : Nat, alike : BOOLEAN])

VARIABLES
  job,           \* "irq", "memdbg", "layout" or "tags"
  input          \* what is laid out, or what the kernel is told

vars == <<irqVars, memVars, job, input>>

-----------------------------------------------------------------------------
(* The parts side by side *)

IrqParked ==
  /\ handle = [l \in 0 .. MaxIrq - 1 |-> NoTimer]
  /\ enabled = {} /\ on = {} /\ asserted = {} /\ raised = {}
  /\ irqOff = TRUE /\ irqflags = TRUE /\ spsr = TRUE
  /\ main = "reset" /\ timer = NoTimer /\ cpu = "main" /\ irqnr = 0

Init ==
  \/ job = "irq" /\ IrqInit /\ MemInit /\ input = <<>>
  \/ job = "memdbg" /\ IrqParked /\ MemInit /\ input = <<>>
  \/ job = "layout" /\ IrqParked /\ MemInit /\ input \in LayoutInputs
  \/ job = "tags" /\ IrqParked /\ MemInit /\ input \in TagInputs

Alone == UNCHANGED <<memVars, job, input>>

IrqStep == job = "irq" /\ IrqNext /\ Alone
MemStep == job = "memdbg" /\ MemNext /\ UNCHANGED <<irqVars, job, input>>

Next == IrqStep \/ MemStep

\* The program and the dispatch go on; the processor takes a pending
\* interrupt at the next instruction that has interrupts switched on, however
\* often the program switches them off again.
Spec ==
  /\ Init /\ [][Next]_vars
  /\ WF_vars(job = "irq" /\ MainStep /\ Alone)
  /\ WF_vars(job = "irq" /\ Dispatch /\ Alone)
  /\ SF_vars(job = "irq" /\ Interrupt /\ Alone)

-----------------------------------------------------------------------------
(* Properties *)

\* The variables keep their ranges; the program stands still, with interrupts
\* off, while an interrupt is dispatched.
TypeOK == job \in {"irq", "memdbg", "layout", "tags"} /\ IrqTypeOK /\ MemTypeOK

\* The regions of the memory follow each other and are mapped as they should.
LayoutRight == job = "layout" => LayoutHolds(input.prog, input.ddr)

\* The tags follow each other, and parameters are read back as first given.
TagsRight == job = "tags" => TagsHold(input.calls, input.args, input.sdk)
=============================================================================
