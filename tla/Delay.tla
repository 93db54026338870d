------------------------------- MODULE Delay -------------------------------
(***************************************************************************)
(* udelay and mdelay of drivers/timer/timer.c on the free-running tick     *)
(* counter.  A delay is cut into pieces of a second; __udelay waits for    *)
(* one of them by reading the ticks until they have passed its end.        *)
(***************************************************************************)
EXTENDS Integers

CONSTANTS
  Wrap,      \* 2^32: the counter and uint32 are taken modulo it
  Hz,        \* counts per microsecond, hz
  Piece,     \* 1000000, the longest wait of __udelay
  Asked,     \* the delays that are asked for
  MaxGap,    \* the most counts between two reads of the counter
  MaxSpent   \* bound: the history stops counting there

\* A piece, with the gap of one read, is short against the period, and the timer
\* (24 MHz) counts more than once per microsecond: the end of a piece is a number
\* of 32 bits.  The bound lies above what DelayHolds allows.
ASSUME DelayAssumption ==
  /\ Wrap \in Nat /\ Hz \in Nat \ {0, 1} /\ Piece \in Nat \ {0} /\ MaxGap \in Nat \ {0}
  /\ Asked \subseteq Nat
  /\ 2 * (Hz * (Piece + 2) + MaxGap) < Wrap
  /\ MaxSpent \in Nat
  /\ \A d \in Asked :
       d * Hz + (d \div Piece + 1) * (2 * MaxGap + Hz) + MaxGap < MaxSpent

VARIABLES
  count,     \* the counter, 0xFFFFFFFF - TIMERx_VALUE
  asked, left,             \* the microseconds asked for, and those left
  piece, start, end,       \* the locals of __udelay
  delayPc,
  gap,       \* the counts since the counter was read
  spent, wraps, pieces     \* history: counts, wraps and pieces of this delay

delayVars == <<count, asked, left, piece, start, end, delayPc, gap, spent, wraps, pieces>>

\* get_ticks
Ticks == count \div Hz

DelayInit ==
  /\ count \in 0 .. Wrap - 1
  /\ asked \in Asked /\ left = asked
  /\ piece = 0 /\ start = 0 /\ end = 0
  /\ delayPc = "piece"
  /\ gap = 0 /\ spent = 0 /\ wraps = 0 /\ pieces = 0

\* Time passes while the CPU works, prints or handles an interrupt.
Tick ==
  /\ delayPc # "done" /\ gap < MaxGap
  /\ count' = (count + 1) % Wrap
  /\ gap' = gap + 1
  /\ IF spent < MaxSpent
     THEN spent' = spent + 1 /\ wraps' = IF count' = 0 THEN wraps + 1 ELSE wraps
     ELSE UNCHANGED <<spent, wraps>>
  /\ UNCHANGED <<asked, left, piece, start, end, delayPc, pieces>>

\* Mutation: a delay is not cut.
CutNever == left

\* The loop of udelay; that of mdelay counts thousands.
Cut == IF left < Piece THEN left ELSE Piece

NextPiece ==
  /\ delayPc = "piece"
  /\ \/ /\ left = 0 /\ delayPc' = "done"
        /\ UNCHANGED <<piece, start, end, gap, pieces>>
     \/ /\ left > 0 /\ delayPc' = "poll"
        /\ piece' = Cut
        /\ start' = Ticks /\ end' = (Ticks + piece') % Wrap
        /\ gap' = 0 /\ pieces' = pieces + 1
  /\ UNCHANGED <<count, asked, left, spent, wraps>>

\* Mutation: a wrap of the ticks is not noticed.
NowUnwrapped == Ticks

\* tmo: after a wrap of the ticks it is at least 2^32 - 1.
Now == IF Ticks < start THEN Ticks + Wrap - 1 ELSE Ticks

\* One round of __udelay.
Poll ==
  /\ delayPc = "poll"
  /\ gap' = 0
  /\ IF Now < end
     THEN UNCHANGED <<left, delayPc>>
     ELSE left' = left - piece /\ delayPc' = "piece"
  /\ UNCHANGED <<count, asked, piece, start, end, spent, wraps, pieces>>

DelayNext == Tick \/ NextPiece \/ Poll

DelaySpec ==
  /\ DelayInit /\ [][DelayNext]_delayVars
  /\ WF_delayVars(Tick) /\ WF_delayVars(NextPiece) /\ WF_delayVars(Poll)

-----------------------------------------------------------------------------
(* Properties *)

DelayTypeOK ==
  /\ count \in 0 .. Wrap - 1
  /\ asked \in Asked /\ left \in 0 .. asked
  /\ piece \in 0 .. Piece /\ start \in 0 .. Wrap - 1 /\ end \in 0 .. Wrap - 1
  /\ delayPc \in {"piece", "poll", "done"}
  /\ gap \in 0 .. MaxGap
  /\ spent \in 0 .. MaxSpent /\ wraps \in Nat /\ pieces \in Nat

\* A delay is as long as was asked for, but for less than a tick per piece and
\* one whole piece per wrap of the counter: the piece that sees the wrap ends
\* there.  It is not longer than that by more than a tick and the gap between
\* reads per piece, also when its end lies behind the last tick.
DelayHolds ==
  delayPc = "done" =>
    /\ spent + pieces * (Hz - 1) >= (asked - wraps * Piece) * Hz
    /\ spent <= asked * Hz + pieces * (2 * MaxGap + Hz) + MaxGap

\* A delay ends.
DelayEnds == <>(delayPc = "done")
=============================================================================
