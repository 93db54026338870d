-------------------------------- MODULE Irq --------------------------------
(***************************************************************************)
(* Interrupts: irq_connect and the dispatch (arm/boot/irq.c,               *)
(* irq_handle.S), the interrupt controller (drivers/irq/gic_v10.c), the    *)
(* timers that raise interrupts (drivers/timer/timer.c) and the printing   *)
(* that holds them off (libs/libc/printf.c).  The program connects its     *)
(* timers one after the other, prints at any time, and is interrupted      *)
(* between any two of its steps when the processor lets interrupts in.     *)
(***************************************************************************)
EXTENDS Naturals, FiniteSets

CONSTANTS
  Timers,        \* the timers that can assert their line
  IrqNr,         \* the line of each (irqnr); two timers share a line
  Sources,       \* the timers the program starts as clock sources
  MaxIrq,        \* CONFIG_MAX_IRQ
  Shared,        \* the shared lines the controller distributes, by number
  NoTimer

\* Timers on one line are served by one handler, which quiets only its own
\* timer: the program starts one of them and the others are still.
ASSUME IrqAssumption ==
  /\ Sources \subseteq Timers /\ NoTimer \notin Timers
  /\ MaxIrq \in Nat /\ Shared \subseteq Nat /\ IrqNr \in [Timers -> Shared]
  /\ \A s, t \in Sources : IrqNr[s] = IrqNr[t] => s = t

VARIABLES
  handle,        \* __irq_handle: the timer whose handler serves each line
  enabled,       \* the lines the controller lets through
  on,            \* the timers running with their interrupt enabled
  asserted,      \* the timers whose interrupt is not cleared
  raised,        \* the timers that fired since the program last ran
  irqOff,        \* the I bit of the processor
  irqflags,      \* what cpu_irq_save has returned
  spsr,          \* the I bit the interrupt entry has saved
  main,          \* the position in the program
  timer,         \* the timer being started
  cpu,           \* the position in the dispatch, "main" outside of it
  irqnr          \* the line acknowledged

irqVars == <<handle, enabled, on, asserted, raised, irqOff, irqflags, spsr,
             main, timer, cpu, irqnr>>

\* The boot ROM may leave lines enabled and any timer but those that share
\* a line with a clock source asserting.
IrqInit ==
  /\ handle = [l \in 0 .. MaxIrq - 1 |-> NoTimer]
  /\ enabled \in SUBSET Shared
  /\ on = {} /\ raised = {}
  /\ asserted \in SUBSET {t \in Timers : \A s \in Sources :
                            IrqNr[s] = IrqNr[t] => s = t}
  /\ irqOff = TRUE /\ irqflags = TRUE /\ spsr = TRUE
  /\ main = "reset" /\ timer = NoTimer /\ cpu = "main" /\ irqnr = 0

-----------------------------------------------------------------------------
(* The program *)

Program == cpu = "main"

\* Mutation: the lines found enabled stay so.
GicInitKeepsLines ==
  /\ Program /\ main = "reset"
  /\ main' = "run"
  /\ UNCHANGED <<handle, enabled, on, asserted, raised, irqOff, irqflags, spsr,
                 timer, cpu, irqnr>>

\* irq_init: gic_dist_init disables every shared line, one register of 32
\* lines at a time; nothing is connected yet.
GicInit ==
  /\ Program /\ main = "reset"
  /\ enabled' = {}
  /\ main' = "run"
  /\ UNCHANGED <<handle, on, asserted, raised, irqOff, irqflags, spsr, timer,
                 cpu, irqnr>>

\* clock_source_init: the timer runs, its interrupt cleared and enabled.
ClockSource(t) ==
  /\ Program /\ main = "run"
  /\ t \in Sources \ on
  /\ asserted' = asserted \ {t} /\ on' = on \cup {t}
  /\ timer' = t /\ main' = "connect"
  /\ UNCHANGED <<handle, enabled, raised, irqOff, irqflags, spsr, cpu, irqnr>>

\* A line the table has room for, and nobody is connected to.
Free(l) == l < MaxIrq /\ handle[l] = NoTimer

\* irq_connect, up to cpu_irq_save; the early returns are ignored by
\* clock_source_init.
Connect ==
  /\ Program /\ main = "connect"
  /\ \/ /\ Free(IrqNr[timer])
        /\ irqflags' = irqOff /\ irqOff' = TRUE /\ main' = "fill"
     \/ /\ ~Free(IrqNr[timer])
        /\ main' = "run" /\ UNCHANGED <<irqflags, irqOff>>
  /\ UNCHANGED <<handle, enabled, on, asserted, raised, spsr, timer, cpu, irqnr>>

Fill ==
  /\ Program /\ main = "fill"
  /\ handle' = [handle EXCEPT ![IrqNr[timer]] = timer]
  /\ main' = "enable"
  /\ UNCHANGED <<enabled, on, asserted, raised, irqOff, irqflags, spsr, timer,
                 cpu, irqnr>>

\* irq_ctrl_enable_irq: a line the controller does not have stays without
\* effect, and the result is ignored.
Enable ==
  /\ Program /\ main = "enable"
  /\ enabled' = IF IrqNr[timer] + 32 > 1020 THEN enabled
                ELSE enabled \cup ({IrqNr[timer]} \cap Shared)
  /\ main' = "restore"
  /\ UNCHANGED <<handle, on, asserted, raised, irqOff, irqflags, spsr, timer,
                 cpu, irqnr>>

\* cpu_irq_restore, for irq_connect and for printf.
Restore ==
  /\ Program /\ main = "restore"
  /\ irqOff' = irqflags /\ main' = "run"
  /\ UNCHANGED <<handle, enabled, on, asserted, raised, irqflags, spsr, timer,
                 cpu, irqnr>>

\* printf holds interrupts off for the whole text.
Printf ==
  /\ Program /\ main = "run"
  /\ irqflags' = irqOff /\ irqOff' = TRUE /\ main' = "restore"
  /\ UNCHANGED <<handle, enabled, on, asserted, raised, spsr, timer, cpu, irqnr>>

\* cpu_enable_irq of boot_start.
EnableIrq ==
  /\ Program /\ main = "run"
  /\ irqOff' = FALSE
  /\ UNCHANGED <<handle, enabled, on, asserted, raised, irqflags, spsr, main,
                 timer, cpu, irqnr>>

-----------------------------------------------------------------------------
(* The timers and the controller *)

\* A timer fires again only after the program has run: its period is longer
\* than the dispatch.
Fire(t) ==
  /\ t \in on \ raised
  /\ asserted' = asserted \cup {t} /\ raised' = raised \cup {t}
  /\ UNCHANGED <<handle, enabled, on, irqOff, irqflags, spsr, main, timer, cpu,
                 irqnr>>

\* The lines that interrupt the processor.
Pending == {l \in enabled : \E t \in asserted : IrqNr[t] = l}

\* The processor takes an interrupt and enters __entry_irq.
Interrupt ==
  /\ ~irqOff /\ Pending # {}
  /\ spsr' = irqOff /\ irqOff' = TRUE
  /\ cpu' = "ack"
  /\ UNCHANGED <<handle, enabled, on, asserted, raised, irqflags, main, timer,
                 irqnr>>

-----------------------------------------------------------------------------
(* The dispatch *)

\* irq_ctrl_handle acknowledges the lowest pending line, all of them having
\* the same priority, or finds none.
Ack ==
  /\ cpu = "ack"
  /\ \/ /\ Pending # {}
        /\ irqnr' \in {l \in Pending : \A k \in Pending : l <= k}
        /\ cpu' = "handle"
     \/ /\ Pending = {}
        /\ cpu' = "leave" /\ UNCHANGED irqnr
  /\ UNCHANGED <<handle, enabled, on, asserted, raised, irqOff, irqflags, spsr,
                 main, timer>>

\* Mutation: the handler leaves the interrupt asserted.
HandleKeepsLevel ==
  /\ cpu = "handle"
  /\ cpu' = "ack"
  /\ UNCHANGED <<handle, enabled, on, asserted, raised, irqOff, irqflags, spsr,
                 main, timer, irqnr>>

\* irq_handle and the end of the interrupt: clock_source_irq_handle clears
\* its timer; a line beyond the table or without handler is only reported.
Handle ==
  /\ cpu = "handle"
  /\ asserted' = IF irqnr < MaxIrq THEN asserted \ {handle[irqnr]} ELSE asserted
  /\ cpu' = "ack"
  /\ UNCHANGED <<handle, enabled, on, raised, irqOff, irqflags, spsr, main,
                 timer, irqnr>>

\* The end of __entry_irq brings back the state of the program.
Leave ==
  /\ cpu = "leave"
  /\ irqOff' = spsr /\ cpu' = "main" /\ raised' = {}
  /\ UNCHANGED <<handle, enabled, on, asserted, irqflags, spsr, main, timer,
                 irqnr>>

MainStep == GicInit \/ Connect \/ Fill \/ Enable \/ Restore
Dispatch == Ack \/ Handle \/ Leave

IrqNext ==
  \/ MainStep \/ (\E t \in Timers : ClockSource(t)) \/ Printf \/ EnableIrq
  \/ Interrupt \/ Dispatch
  \/ (\E t \in Timers : Fire(t))

IrqSpec == IrqInit /\ [][IrqNext]_irqVars

-----------------------------------------------------------------------------
(* Properties *)

\* The variables keep their ranges; the program stands still, with
\* interrupts off, while an interrupt is dispatched.
IrqTypeOK ==
  /\ handle \in [0 .. MaxIrq - 1 -> Timers \cup {NoTimer}]
  /\ enabled \subseteq Shared /\ on \subseteq Sources
  /\ asserted \subseteq Timers /\ raised \subseteq on
  /\ irqOff \in BOOLEAN /\ irqflags \in BOOLEAN /\ spsr \in BOOLEAN
  /\ main \in {"reset", "run", "connect", "fill", "enable", "restore"}
  /\ timer \in Sources \cup {NoTimer}
  /\ cpu \in {"main", "ack", "handle", "leave"}
  /\ irqnr \in Shared \cup {0}
  /\ cpu # "main" => irqOff

\* An interrupt is acknowledged only when the handler of the timer that
\* asserts it is in place: otherwise nobody clears it and the dispatch never
\* ends.
HandlerInPlace ==
  cpu = "handle" => irqnr < MaxIrq /\ handle[irqnr] # NoTimer

\* Every interrupt that meets interrupts switched on is served, and the
\* program always goes on after a dispatch.
InterruptsServed ==
  /\ \A t \in Sources : (t \in asserted /\ t \in on /\ IrqNr[t] \in enabled /\ ~irqOff)
                            ~> t \notin asserted
  /\ []<>(cpu = "main")
=============================================================================
