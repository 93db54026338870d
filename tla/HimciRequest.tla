--------------------------- MODULE HimciRequest ---------------------------
(***************************************************************************)
(* A block transfer of the eMMC driver: the command sequences of mmc_read  *)
(* and mmc_write in mmc_drv.c, and under them hi_mci_request of            *)
(* himciv200.c, which polls the controller's registers a bounded number of *)
(* times.  CPU and controller take their steps independently.              *)
(*                                                                         *)
(* The controller and the card are the environment.  They may answer, with *)
(* or without an error, late, or never.  Whatever they hold is marked with *)
(* whether it belongs to the request being served ("own") or to an earlier *)
(* one.  The interrupt status register has no such mark: the driver sees   *)
(* only the flags.                                                         *)
(***************************************************************************)
EXTENDS Integers, Sequences

CONSTANTS
  Retry,      \* retry_count, 1000000 polls in the code
  Counts,     \* the block counts asked for
  DmaBuffer,  \* the blocks one descriptor can hold, DMA_BUFFER_SIZE
  MaxDes,     \* the descriptors there are, MAX_DMA_DES
  None

ASSUME HimciAssumption ==
  /\ Retry \in Nat \ {0} /\ MaxDes \in Nat
  /\ DmaBuffer \in Nat \ {0}
  /\ Counts \subseteq Nat \ {0}
  /\ None \notin [own : BOOLEAN, data : BOOLEAN]

VARIABLES
  ddr,        \* card_caps has MMC_MODE_DDR_52MHz, fixed once the card is set up
  pc,         \* where the CPU is; "idle" between calls
  op, cnt,    \* the call being served
  todo,       \* the commands of the call not yet completed
  polls,      \* wait_retry_count, fifo_count
  ret,        \* the value of the request and, when idle, of the call
  slot,       \* the command in MCI_CMD with START_CMD set
  line,       \* the command sent to the card and not answered
  data,       \* the data phase under way
  ints,       \* MCI_RINTSTS
  resp,       \* MCI_RESP0 has a bit of MMC_CS_ERROR_MASK
  dma,        \* BMOD_DMA_EN
  delivered,  \* the data of this call has been moved without an error
  badData,    \* the data phase of this call ended with an error
  abandoned   \* some request failed with the controller still at work on it

cpu   == <<ddr, pc, op, cnt, todo, polls, ret>>
hw    == <<slot, line, data, ints, resp>>
ghost == <<delivered, badData, abandoned>>
vars  == <<ddr, pc, op, cnt, todo, polls, ret, slot, line, data, ints, resp, dma,
           delivered, badData, abandoned>>

TIMEOUT == -19

Work == [own : BOOLEAN, data : BOOLEAN]

Flags == {"CD", "RTO", "RERR", "DTO", "DERR"}

-----------------------------------------------------------------------------
(* mmc_read, mmc_write *)

\* In DDR mode mmc_set_blklen sends nothing.  A single block needs no stop.
Commands(n) == (IF ddr THEN <<>> ELSE <<"set_blocklen">>)
               \o <<"transfer">> \o (IF n > 1 THEN <<"stop">> ELSE <<>>)

HasData == Head(todo) = "transfer"
HasBusy == Head(todo) = "stop"        \* MMC_RSP_R1b

Call(o, n) ==
  /\ pc = "idle"
  /\ op' = o /\ cnt' = n /\ todo' = Commands(n)
  /\ pc' = "request" /\ ret' = 0 /\ polls' = 0
  /\ delivered' = FALSE /\ badData' = FALSE
  /\ UNCHANGED <<ddr, hw, dma, abandoned>>

-----------------------------------------------------------------------------
(* The descriptors of a transfer, in blocks of its buffer *)

DesNeeded(n) == (n + DmaBuffer - 1) \div DmaBuffer

\* hi_mci_setup_data: full descriptors, and one for the rest.
SetupData(n) ==
  [d \in 1 .. DesNeeded(n) |->
     [src |-> (d - 1) * DmaBuffer,
      size |-> IF n >= d * DmaBuffer THEN DmaBuffer ELSE n - (d - 1) * DmaBuffer,
      last |-> d = DesNeeded(n)]]

\* The engine goes through the chain up to the descriptor marked as the last,
\* and has moved the data when its pieces follow each other and make n blocks.
Moves(des, n) ==
  \E l \in DOMAIN des :
    /\ des[1].src = 0 /\ des[l].last /\ des[l].src + des[l].size = n
    /\ \A d \in 1 .. l - 1 :
         ~des[d].last /\ des[d + 1].src = des[d].src + des[d].size

\* hi_mci_idma_start, hi_mci_idma_stop
IdmaStart == dma' = TRUE
IdmaStop == dma' = FALSE

-----------------------------------------------------------------------------
(* hi_mci_request *)

Aged(w) == IF w = None THEN None ELSE [w EXCEPT !.own = FALSE]

\* The status is cleared, and the descriptors are set up when there is data.
\* The chunks of mmc_if.c never exceed the limit of the descriptors.
Request ==
  /\ pc = "request"
  /\ ints' = {}
  /\ slot' = Aged(slot) /\ line' = Aged(line) /\ data' = Aged(data)
  /\ \/ /\ ~HasData
        /\ pc' = "exec" /\ UNCHANGED ret
     \/ /\ HasData /\ DesNeeded(cnt) <= MaxDes
        /\ pc' = "fifo" /\ UNCHANGED ret
     \/ /\ HasData /\ DesNeeded(cnt) > MaxDes
        /\ pc' = "end" /\ ret' = -1
  /\ polls' = 0
  /\ UNCHANGED <<ddr, op, cnt, todo, resp, dma, ghost>>

\* Mutation: the loop on FIFO_RESET does not count.
FifoResetUnbounded ==
  /\ pc = "fifo"
  /\ \/ /\ polls' = polls + 1
        /\ UNCHANGED <<pc, dma>>
     \/ /\ pc' = "exec" /\ IdmaStart
        /\ UNCHANGED polls
  /\ UNCHANGED <<ddr, op, cnt, todo, ret, hw, ghost>>

\* A FIFO reset that does not end is reported and then ignored.
FifoReset ==
  /\ pc = "fifo"
  /\ \/ /\ polls <= Retry /\ polls' = polls + 1
        /\ UNCHANGED <<pc, dma>>
     \/ /\ pc' = "exec" /\ IdmaStart
        /\ UNCHANGED polls
  /\ UNCHANGED <<ddr, op, cnt, todo, ret, hw, ghost>>

\* A command register still locked by an earlier command ignores the write.
ExecCmd ==
  /\ pc = "exec"
  /\ slot' = IF slot = None THEN [own |-> TRUE, data |-> HasData] ELSE slot
  /\ pc' = "start" /\ polls' = 0
  /\ UNCHANGED <<ddr, op, cnt, todo, ret, line, data, ints, resp, dma, ghost>>

\* Mutation: the polls are not counted.
PollForever ==
  UNCHANGED <<polls, pc, ret>>

\* One more poll without success: the loops give up with -1.
Poll ==
  /\ polls' = polls + 1
  /\ IF polls + 1 < Retry THEN UNCHANGED <<pc, ret>> ELSE pc' = "end" /\ ret' = -1

\* hi_mci_wait_cmd
WaitCmd ==
  /\ pc = "start"
  /\ \/ slot = None /\ pc' = "answer" /\ polls' = 0 /\ UNCHANGED ret
     \/ slot # None /\ Poll
  /\ UNCHANGED <<ddr, op, cnt, todo, hw, dma, ghost>>

\* hi_mci_cmd_done: the response register is looked at first, whether or not
\* a response has come.
CmdDone ==
  IF resp THEN -1
  ELSE IF "RTO" \in ints THEN TIMEOUT
  ELSE IF "RERR" \in ints THEN -1 ELSE 0

\* hi_mci_wait_cmd_complete
WaitCmdComplete ==
  /\ pc = "answer"
  /\ \/ /\ "CD" \in ints
        /\ ret' = CmdDone /\ polls' = 0
        /\ pc' = CASE CmdDone # 0              -> "end"
                   [] CmdDone = 0 /\ HasData   -> "data"
                   [] CmdDone = 0 /\ HasBusy   -> "card"
                   [] CmdDone = 0 /\ ~HasData /\ ~HasBusy -> "end"
     \/ "CD" \notin ints /\ Poll
  /\ UNCHANGED <<ddr, op, cnt, todo, hw, dma, ghost>>

\* Mutation: the wrong flag is waited for.
WaitDataOnCD ==
  /\ pc = "data"
  /\ \/ "CD" \in ints /\ IdmaStop /\ pc' = "end" /\ UNCHANGED <<polls, ret>>
     \/ "CD" \notin ints /\ Poll /\ UNCHANGED dma
  /\ UNCHANGED <<ddr, op, cnt, todo, hw, ghost>>

\* Mutation: the DMA is not stopped.
WaitDataKeepsDma ==
  /\ pc = "data"
  /\ \/ "DTO" \in ints /\ pc' = "end" /\ UNCHANGED <<polls, ret>>
     \/ "DTO" \notin ints /\ Poll
  /\ UNCHANGED <<ddr, op, cnt, todo, hw, dma, ghost>>

\* hi_mci_wait_data_complete: hi_mci_data_done only logs the errors.
WaitDataComplete ==
  /\ pc = "data"
  /\ \/ "DTO" \in ints /\ IdmaStop /\ pc' = "end" /\ UNCHANGED <<polls, ret>>
     \/ "DTO" \notin ints /\ Poll /\ UNCHANGED dma
  /\ UNCHANGED <<ddr, op, cnt, todo, hw, ghost>>

\* hi_mci_wait_card_complete: the card holds DATA_BUSY as long as it likes.
WaitCardComplete ==
  /\ pc = "card"
  /\ \/ pc' = "end" /\ UNCHANGED <<polls, ret>>
     \/ Poll
  /\ UNCHANGED <<ddr, op, cnt, todo, hw, dma, ghost>>

\* request_end, and the next command of the call.  mmc_write does not look at
\* the result of the stop command.
RequestEnd ==
  /\ pc = "end"
  /\ ints' = {} /\ polls' = 0
  /\ LET good == ret = 0 \/ (op = "write" /\ HasBusy) IN
     \/ good /\ Len(todo) > 1 /\ pc' = "request" /\ todo' = Tail(todo) /\ ret' = 0
     \/ good /\ Len(todo) = 1 /\ pc' = "idle" /\ todo' = <<>> /\ ret' = cnt
     \/ ~good /\ pc' = "idle" /\ todo' = <<>> /\ UNCHANGED ret
  /\ abandoned' = (abandoned \/ (ret # 0 /\ {slot, line, data} # {None}))
  /\ UNCHANGED <<ddr, op, cnt, slot, line, data, resp, dma, delivered, badData>>

-----------------------------------------------------------------------------
(* The controller and the card *)

\* wait_prvdata_complete is set in every command.
TakeCmd ==
  /\ slot # None /\ line = None /\ data = None
  /\ line' = slot /\ slot' = None
  /\ UNCHANGED <<cpu, data, ints, resp, dma, ghost>>

\* A command ends with a response, good or not, or with none.  The data phase
\* of a good command begins; that of another one may begin.
AnswerCmd ==
  /\ line # None
  /\ \E more \in SUBSET {"RTO", "RERR"}, begins \in BOOLEAN :
       /\ ints' = ints \cup {"CD"} \cup more
       /\ "RTO" \in more => UNCHANGED resp
       /\ resp' \in BOOLEAN
       /\ more = {} /\ ~resp' => begins
       /\ data' = IF line.data /\ begins THEN line ELSE data
  /\ line' = None
  /\ UNCHANGED <<cpu, slot, dma, ghost>>

\* A data phase ends, also by the controller's own timeout.  Without the DMA
\* it cannot end well.
DataOver ==
  /\ data # None
  /\ \E good \in BOOLEAN :
       /\ good => dma
       /\ ints' = ints \cup {"DTO"} \cup (IF good THEN {} ELSE {"DERR"})
       /\ delivered' = (delivered \/ (data.own /\ good /\ Moves(SetupData(cnt), cnt)))
       /\ badData' = (badData \/ (data.own /\ ~good))
  /\ data' = None
  /\ UNCHANGED <<cpu, slot, line, resp, dma, abandoned>>

-----------------------------------------------------------------------------

Init ==
  /\ ddr \in BOOLEAN
  /\ pc = "idle" /\ op = "read" /\ cnt = 1 /\ todo = <<>> /\ polls = 0 /\ ret = 0
  /\ slot = None /\ line = None /\ data = None /\ ints = {} /\ resp = FALSE
  /\ dma = FALSE
  /\ delivered = FALSE /\ badData = FALSE /\ abandoned = FALSE

Driver == \/ Request
          \/ FifoReset
          \/ ExecCmd
          \/ WaitCmd
          \/ WaitCmdComplete
          \/ WaitDataComplete
          \/ WaitCardComplete
          \/ RequestEnd

Hardware == TakeCmd \/ AnswerCmd \/ DataOver

Next == \/ \E o \in {"read", "write"}, n \in Counts : Call(o, n)
        \/ Driver
        \/ Hardware

\* The CPU runs; nothing is assumed of the hardware.
Spec == Init /\ [][Next]_vars /\ WF_vars(Driver)

-----------------------------------------------------------------------------
(* Properties *)

\* The variables have their types; a call under way has a command to do, and
\* no loop polls more often than it may.
TypeOK ==
  /\ ddr \in BOOLEAN
  /\ pc \in {"idle", "request", "fifo", "exec", "start", "answer", "data", "card",
             "end"}
  /\ op \in {"read", "write"} /\ cnt \in Counts \cup {1}
  /\ todo \in Seq({"set_blocklen", "transfer", "stop"})
  /\ pc # "idle" <=> todo # <<>>
  /\ polls \in 0 .. Retry + 1
  /\ ret \in {0, -1, TIMEOUT} \cup Counts
  /\ slot \in Work \cup {None} /\ line \in Work \cup {None}
  /\ data \in Work \cup {None}
  /\ ints \in SUBSET Flags /\ resp \in BOOLEAN /\ dma \in BOOLEAN
  /\ delivered \in BOOLEAN /\ badData \in BOOLEAN /\ abandoned \in BOOLEAN

\* Every call returns, even when the controller never answers: no loop of the
\* driver waits for the hardware for ever.
EveryCallReturns == pc # "idle" ~> pc = "idle"

\* After a call that reports success the DMA engine is off, so that nothing
\* is written any more to a buffer the caller may free, whatever was left by
\* calls that failed before.
DmaOffAfterSuccess == pc = "idle" /\ ret > 0 => ~dma

\* A call that reports success has moved its data, if the data phase met no
\* error and no earlier request was abandoned with the controller still at
\* work: the flags the driver acted on were then those of its own command.
SuccessDelivers ==
  pc = "idle" /\ ret > 0 /\ ~badData /\ ~abandoned => delivered

\* include/flash.h:61, "> 0 : return real erase/write/read length": a call
\* that reports success has moved its data.
RealLength == pc = "idle" /\ ret > 0 => delivered
=============================================================================
