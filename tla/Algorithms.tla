----------------------------- MODULE Algorithms -----------------------------
(***************************************************************************)
(* The small algorithms side by side: the searches for a symbol and for    *)
(* the tail of the environment, the delays, the partition parser and the   *)
(* merging of boot arguments.  They share no state.  An initial state      *)
(* gives one of them its input; the others have ended.                     *)
(***************************************************************************)
EXTENDS Symbols, Delay, EnvTail, Parts, Args

CONSTANTS
  PartInputs,    \* boot arguments
  MergeInputs    \* [args, merge]: two texts

ASSUME AlgorithmsAssumption ==
  /\ PartInputs \subseteq BootArgs
  /\ \A x \in MergeInputs : x.args \in Texts /\ x.merge \in Texts

VARIABLES
  job,           \* "symbol", "delay", "tail", "part" or "merge"
  input          \* the texts of a "part" or "merge"

vars == <<symVars, delayVars, tailVars, job, input>>

-----------------------------------------------------------------------------
(* The algorithms side by side *)

SymParked ==
  /\ table = <<>> /\ nrSyms = 0 /\ addr = 0 /\ x0 = 0 /\ x1 = -1 /\ sym = -1
  /\ symPc = "done"

DelayParked ==
  /\ count = 0 /\ asked = 0 /\ left = 0 /\ piece = 0 /\ start = 0 /\ end = 0
  /\ delayPc = "done" /\ gap = 0 /\ spent = 0 /\ wraps = 0 /\ pieces = 0

TailParked ==
  /\ text = [p \in Pos |-> FALSE] /\ ptr0 = 0 /\ ptr1 = Size - 1 /\ ptr = 0
  /\ tailPc = "done" /\ tail = 0

Init ==
  \/ job = "symbol" /\ SymInit /\ DelayParked /\ TailParked /\ input = <<>>
  \/ job = "delay" /\ SymParked /\ DelayInit /\ TailParked /\ input = <<>>
  \/ job = "tail" /\ SymParked /\ DelayParked /\ TailInit /\ input = <<>>
  \/ job = "part" /\ SymParked /\ DelayParked /\ TailParked /\ input \in PartInputs
  \/ job = "merge" /\ SymParked /\ DelayParked /\ TailParked /\ input \in MergeInputs

SymbolStep == SymNext /\ UNCHANGED <<delayVars, tailVars, job, input>>
DelayStep == DelayNext /\ UNCHANGED <<symVars, tailVars, job, input>>
TailStep == TailNext /\ UNCHANGED <<symVars, delayVars, job, input>>

Next == SymbolStep \/ DelayStep \/ TailStep

\* The fairness of SymSpec, DelaySpec and TailSpec.
Spec ==
  /\ Init /\ [][Next]_vars
  /\ WF_vars(SymbolStep)
  /\ WF_vars(TailStep)
  /\ WF_vars(Tick /\ UNCHANGED <<symVars, tailVars, job, input>>)
  /\ WF_vars(NextPiece /\ UNCHANGED <<symVars, tailVars, job, input>>)
  /\ WF_vars(Poll /\ UNCHANGED <<symVars, tailVars, job, input>>)

-----------------------------------------------------------------------------
(* Properties *)

\* The variables keep their ranges; a search stays in its table or buffer and
\* a piece of a delay is never longer than a second.
TypeOK ==
  /\ job \in {"symbol", "delay", "tail", "part", "merge"}
  /\ job = "symbol" => SymTypeOK
  /\ job = "delay" => DelayTypeOK
  /\ TailTypeOK

\* A described partition is found where the text puts it.
PartsRight == job = "part" => PartsTile(input, "devparts", "mmc")

\* Merged boot arguments fit into their buffer, complete and without
\* duplicates.
MergeRight ==
  job = "merge" => MergeFits(input.args, input.merge) /\ MergeOnce(input.args, input.merge)

\* The search for a symbol, the search for the tail, and every delay end.
AlgorithmsEnd == SymbolFound /\ SearchEnds /\ DelayEnds
=============================================================================
