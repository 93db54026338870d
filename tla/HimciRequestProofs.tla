------------------------- MODULE HimciRequestProofs -------------------------
(***************************************************************************)
(* Proofs about the block transfers of HimciRequest, for every number of   *)
(* polls, every set of block counts and every size and number of the       *)
(* descriptors.                                                            *)
(***************************************************************************)
EXTENDS HimciRequest, SequenceTheorems, TLAPS

-----------------------------------------------------------------------------
(* The descriptors *)

\* The descriptors of n blocks are enough, and the last one is needed.
LEMMA Needed ==
  ASSUME NEW n \in Nat \ {0}
  PROVE  /\ DesNeeded(n) \in Nat \ {0}
         /\ DmaBuffer * (DesNeeded(n) - 1) < n
         /\ n <= DmaBuffer * DesNeeded(n)
<1> USE HimciAssumption
<1> DEFINE x == n + DmaBuffer - 1
           q == x \div DmaBuffer
<1>1. x \in Nat /\ x >= DmaBuffer
  OBVIOUS
<1>2. q \in Nat /\ x % DmaBuffer \in 0 .. DmaBuffer - 1
      /\ x = DmaBuffer * q + (x % DmaBuffer)
  <2> HIDE DEF x
  <2> QED BY <1>1
<1>3. DmaBuffer * (q - 1) = DmaBuffer * q - DmaBuffer
  <2>1. \A y \in Nat : DmaBuffer * (y - 1) = DmaBuffer * y - DmaBuffer
    OBVIOUS
  <2> HIDE DEF q
  <2> QED BY <1>2, <2>1
<1>4. q # 0
  <2>1. q = 0 => DmaBuffer * q = 0
    <3> HIDE DEF q
    <3> QED OBVIOUS
  <2> QED BY <1>1, <1>2, <2>1
<1>5. DmaBuffer * q \in Nat
  <2>1. \A y \in Nat : DmaBuffer * y \in Nat
    OBVIOUS
  <2> HIDE DEF q
  <2> QED BY <1>2, <2>1
<1> QED
  <2>1. DesNeeded(n) = q
    BY DEF DesNeeded
  <2> HIDE DEF q
  <2> QED BY <1>2, <1>3, <1>4, <1>5, <2>1

\* The chain that hi_mci_setup_data builds moves the whole transfer: its
\* pieces follow each other, only the last is marked, and they make n blocks.
LEMMA ChainMoves ==
  ASSUME NEW n \in Nat \ {0}
  PROVE  Moves(SetupData(n), n)
<1> USE HimciAssumption
<1> DEFINE l == DesNeeded(n)
           des == SetupData(n)
<1>1. l \in Nat \ {0} /\ DmaBuffer * (l - 1) < n /\ n <= DmaBuffer * l
  BY Needed
<1>2. DOMAIN des = 1 .. l
  BY DEF SetupData
<1>3. \A d \in 1 .. l : /\ des[d].src = (d - 1) * DmaBuffer
                        /\ des[d].last = (d = l)
                        /\ n >= d * DmaBuffer => des[d].size = DmaBuffer
                        /\ ~(n >= d * DmaBuffer) =>
                              des[d].size = n - (d - 1) * DmaBuffer
  BY DEF SetupData
<1> HIDE DEF l, des
<1>4. \A d \in Nat : /\ d * DmaBuffer \in Nat
                     /\ (d - 1) * DmaBuffer = d * DmaBuffer - DmaBuffer
                     /\ ((d + 1) - 1) * DmaBuffer = d * DmaBuffer
                     /\ DmaBuffer * (d - 1) = d * DmaBuffer - DmaBuffer
                     /\ DmaBuffer * d = d * DmaBuffer
  OBVIOUS
<1>5. \A d \in 1 .. l - 1 : d * DmaBuffer <= DmaBuffer * (l - 1)
  <2> TAKE d \in 1 .. l - 1
  <2>1. d \in Nat /\ l - 1 - d \in Nat /\ l \in Nat
    BY <1>1
  <2>2. (l - 1 - d) * DmaBuffer \in Nat
    BY <2>1
  <2>3. (l - 1 - d) * DmaBuffer = DmaBuffer * (l - 1) - d * DmaBuffer
    BY <2>1
  <2>4. DmaBuffer * (l - 1) \in Int /\ d * DmaBuffer \in Int
    BY <2>1
  <2> QED BY <2>2, <2>3, <2>4
<1>6. l \in DOMAIN des /\ 1 \in DOMAIN des
  BY <1>1, <1>2
<1>7. des[1].src = 0
  BY <1>3, <1>6, <1>2
<1>8. des[l].last /\ des[l].src + des[l].size = n
  <2>1. /\ l * DmaBuffer \in Nat /\ DmaBuffer * l = l * DmaBuffer
        /\ DmaBuffer * (l - 1) = l * DmaBuffer - DmaBuffer
        /\ des[l].src = l * DmaBuffer - DmaBuffer
    BY <1>1, <1>2, <1>3, <1>4, <1>6
  <2>2. des[l].size = n - (l * DmaBuffer - DmaBuffer)
    <3>1. CASE n >= l * DmaBuffer
      <4>1. n = l * DmaBuffer /\ des[l].size = DmaBuffer
        BY <2>1, <3>1, <1>1, <1>2, <1>3, <1>6
      <4> QED BY <2>1, <4>1
    <3>2. CASE ~(n >= l * DmaBuffer)
      BY <2>1, <3>2, <1>2, <1>3, <1>6
    <3> QED BY <3>1, <3>2
  <2> DEFINE src == des[l].src
             size == des[l].size
  <2>3. src + size = n
    <3>1. src = l * DmaBuffer - DmaBuffer /\ size = n - (l * DmaBuffer - DmaBuffer)
      BY <2>1, <2>2
    <3> HIDE DEF src, size
    <3> QED BY <2>1, <3>1
  <2> QED BY <2>3, <1>2, <1>3, <1>6
<1>9. \A d \in 1 .. l - 1 :
        ~des[d].last /\ des[d + 1].src = des[d].src + des[d].size
  <2> TAKE d \in 1 .. l - 1
  <2>1. d \in 1 .. l /\ d + 1 \in 1 .. l /\ d # l /\ d \in Nat
    BY <1>1
  <2>2. n >= d * DmaBuffer
    BY <1>1, <1>4, <1>5, <2>1
  <2>3. des[d].size = DmaBuffer /\ des[d].src = d * DmaBuffer - DmaBuffer
        /\ des[d + 1].src = d * DmaBuffer
    BY <1>3, <1>4, <2>1, <2>2
  <2> DEFINE e == d * DmaBuffer
  <2>4. e \in Nat /\ e = (e - DmaBuffer) + DmaBuffer
    <3>1. e \in Nat
      BY <1>4, <2>1
    <3> HIDE DEF e
    <3> QED BY <3>1
  <2>5. des[d + 1].src = des[d].src + des[d].size
    BY <2>3, <2>4
  <2>6. ~des[d].last
    BY <1>3, <2>1
  <2> QED BY <2>5, <2>6
<1> QED
  BY <1>6, <1>7, <1>8, <1>9 DEF Moves, des

-----------------------------------------------------------------------------
(***************************************************************************)
(* The inductive invariant.  "Shape" is what is left of a command          *)
(* sequence, "Counting" what the polling loops keep, "DmaPhase" that the   *)
(* DMA is on from the start of a transfer to its end and not afterwards.   *)
(* "Quiet" says that the controller has never more than one piece of work  *)
(* while nothing has been abandoned, that it belongs to the request being  *)
(* served, and what the flags then mean.                                   *)
(***************************************************************************)

\* What is left of Commands(n) while a call is under way.
Remainders == {<<"set_blocklen", "transfer", "stop">>, <<"set_blocklen", "transfer">>,
               <<"transfer", "stop">>, <<"transfer">>, <<"stop">>}

Shape == IF pc = "idle" THEN todo = <<>> ELSE todo \in Remainders

\* The result is open until the request ends, and a loop stops in time.
Counting ==
  /\ pc # "idle" => cnt \in Counts
  /\ pc \notin {"idle", "end"} => ret = 0
  /\ pc = "end" => ret \in {0, -1, TIMEOUT}
  /\ pc \in {"start", "answer", "data", "card"} => polls < Retry
  /\ pc \in {"fifo", "data"} => HasData
  /\ pc = "card" => HasBusy

DmaPhase ==
  /\ pc # "idle" /\ HasBusy => ~dma
  /\ pc = "end" /\ HasData /\ ret = 0 => ~dma
  /\ DmaOffAfterSuccess

\* The work is one command with its data phase, that of this request.
Mine(w) == w # None => w.own /\ w.data = HasData

Still == slot = None /\ line = None /\ data = None

OneAtATime ==
  /\ slot = None \/ (line = None /\ data = None)
  /\ line = None \/ data = None
  /\ Mine(slot) /\ Mine(line) /\ Mine(data)
  /\ data # None => HasData
  /\ "CD" \in ints => slot = None /\ line = None
  /\ "DTO" \in ints => Still /\ (delivered \/ badData)

Quiet ==
  /\ pc \in {"idle", "request", "fifo", "exec", "card"} => Still
  /\ pc \in {"fifo", "exec"} => ints = {}
  /\ pc \in {"start", "answer", "data"} => OneAtATime
  /\ pc \in {"answer", "data"} => slot = None
  /\ pc = "data" => line = None
  /\ pc = "end" /\ ret = 0 => Still

\* What a successful data phase leaves for the rest of the call.
Moved ==
  /\ pc # "idle" /\ HasBusy => delivered \/ badData
  /\ pc = "end" /\ HasData /\ ret = 0 => delivered \/ badData
  /\ pc = "idle" /\ ret > 0 => delivered \/ badData

IInv ==
  /\ TypeOK /\ Shape /\ Counting /\ DmaPhase
  /\ ~abandoned => Quiet /\ Moved

-----------------------------------------------------------------------------
(* Lemmas *)

\* Every remainder begins with a command, and what follows it is a remainder;
\* the stop comes last, and what comes last is the transfer or the stop.
LEMMA Rest ==
  ASSUME NEW t \in Remainders
  PROVE  /\ t \in Seq({"set_blocklen", "transfer", "stop"}) /\ t # <<>>
         /\ Len(t) \in Nat \ {0}
         /\ Head(t) \in {"set_blocklen", "transfer", "stop"}
         /\ Len(t) > 1 => Tail(t) \in Remainders /\ Head(t) # "stop"
         /\ Len(t) > 1 /\ Head(Tail(t)) = "stop" => Head(t) = "transfer"
         /\ Len(t) = 1 => Head(t) # "set_blocklen"
<1> DEFINE C == {"set_blocklen", "transfer", "stop"}
<1>1. CASE t = <<"set_blocklen", "transfer", "stop">>
  <2>1. t \in Seq(C) /\ Len(t) = 3 /\ Head(t) = "set_blocklen"
    BY <1>1
  <2>2. Tail(t) = <<"transfer", "stop">>
    BY <1>1
  <2> QED BY <2>1, <2>2 DEF Remainders
<1>2. CASE t = <<"set_blocklen", "transfer">>
  <2>1. t \in Seq(C) /\ Len(t) = 2 /\ Head(t) = "set_blocklen"
    BY <1>2
  <2>2. Tail(t) = <<"transfer">>
    BY <1>2
  <2> QED BY <2>1, <2>2 DEF Remainders
<1>3. CASE t = <<"transfer", "stop">>
  <2>1. t \in Seq(C) /\ Len(t) = 2 /\ Head(t) = "transfer"
    BY <1>3
  <2>2. Tail(t) = <<"stop">>
    BY <1>3
  <2> QED BY <2>1, <2>2 DEF Remainders
<1>4. CASE t = <<"transfer">>
  <2>1. t \in Seq(C) /\ Len(t) = 1 /\ Head(t) = "transfer"
    BY <1>4
  <2> QED BY <2>1
<1>5. CASE t = <<"stop">>
  <2>1. t \in Seq(C) /\ Len(t) = 1 /\ Head(t) = "stop"
    BY <1>5
  <2> QED BY <2>1
<1> QED BY <1>1, <1>2, <1>3, <1>4, <1>5 DEF Remainders

LEMMA Joined ==
  ASSUME NEW S, NEW x \in S, NEW y \in S, NEW z \in S
  PROVE  <<x>> \o <<y>> = <<x, y>> /\ <<x, y>> \o <<z>> = <<x, y, z>>
<1>1. /\ <<x>> \in Seq(S) /\ <<y>> \in Seq(S) /\ <<z>> \in Seq(S)
      /\ <<x, y>> \in Seq(S) /\ <<x, y, z>> \in Seq(S)
  OBVIOUS
<1>2. <<x>> \o <<y>> = <<x, y>>
  <2> DEFINE s == <<x>> \o <<y>>
  <2>1. s \in Seq(S) /\ Len(s) = 2 /\ s[1] = x /\ s[2] = y
    BY <1>1, ConcatProperties
  <2> HIDE DEF s
  <2>2. \A i \in 1 .. Len(s) : s[i] = <<x, y>>[i]
    BY <2>1
  <2>3. s = <<x, y>>
    BY <1>1, <2>1, <2>2, SeqEqual
  <2> QED BY <2>3 DEF s
<1>3. <<x, y>> \o <<z>> = <<x, y, z>>
  <2> DEFINE s == <<x, y>> \o <<z>>
  <2>1. s \in Seq(S) /\ Len(s) = 3 /\ s[1] = x /\ s[2] = y /\ s[3] = z
    BY <1>1, ConcatProperties
  <2> HIDE DEF s
  <2>2. \A i \in 1 .. Len(s) : s[i] = <<x, y, z>>[i]
    BY <2>1
  <2>3. s = <<x, y, z>>
    BY <1>1, <2>1, <2>2, SeqEqual
  <2> QED BY <2>3 DEF s
<1> QED BY <1>2, <1>3

LEMMA Begin ==
  ASSUME NEW n \in Counts
  PROVE  Commands(n) \in Remainders /\ Head(Commands(n)) # "stop"
<1> DEFINE C == {"set_blocklen", "transfer", "stop"}
           blklen == IF ddr THEN <<>> ELSE <<"set_blocklen">>
           stop == IF n > 1 THEN <<"stop">> ELSE <<>>
<1>1. /\ blklen = <<>> \/ blklen = <<"set_blocklen">>
      /\ stop = <<"stop">> \/ stop = <<>>
  OBVIOUS
<1>2. Commands(n) = blklen \o <<"transfer">> \o stop
  BY DEF Commands
<1> HIDE DEF blklen, stop
<1>3. \A t \in Seq(C) : <<>> \o t = t /\ t \o <<>> = t
  BY ConcatEmptySeq
<1>4. \A x, y, z \in C : <<x>> \o <<y>> = <<x, y>> /\ <<x, y>> \o <<z>> = <<x, y, z>>
  BY Joined, ZenonT(60)
<1>5. <<"transfer">> \in Seq(C) /\ <<"set_blocklen", "transfer">> \in Seq(C)
  OBVIOUS
<1>6. blklen \o <<"transfer">> \in {<<"transfer">>, <<"set_blocklen", "transfer">>}
  <2>1. <<>> \o <<"transfer">> = <<"transfer">>
    BY <1>3, <1>5
  <2>2. <<"set_blocklen">> \o <<"transfer">> = <<"set_blocklen", "transfer">>
    BY <1>4
  <2> QED BY <1>1, <2>1, <2>2
<1>7. \A t \in {<<"transfer">>, <<"set_blocklen", "transfer">>} :
        t \o stop \in Remainders /\ Head(t \o stop) # "stop"
  <2> TAKE t \in {<<"transfer">>, <<"set_blocklen", "transfer">>}
  <2>1. t \o <<>> = t
    BY <1>3, <1>5
  <2>2. /\ <<"transfer">> \o <<"stop">> = <<"transfer", "stop">>
        /\ <<"set_blocklen", "transfer">> \o <<"stop">>
              = <<"set_blocklen", "transfer", "stop">>
    BY <1>4
  <2>3. t \o stop \in {<<"transfer">>, <<"transfer", "stop">>,
         <<"set_blocklen", "transfer">>, <<"set_blocklen", "transfer", "stop">>}
    BY <1>1, <2>1, <2>2
  <2>4. Head(<<"transfer">>) = "transfer" /\ Head(<<"transfer", "stop">>) = "transfer"
        /\ Head(<<"set_blocklen", "transfer">>) = "set_blocklen"
        /\ Head(<<"set_blocklen", "transfer", "stop">>) = "set_blocklen"
    OBVIOUS
  <2> QED BY <2>3, <2>4 DEF Remainders
<1> QED BY <1>2, <1>6, <1>7

LEMMA NoneIsNoWork == None \notin Work
  BY HimciAssumption DEF Work

\* A request that has not ended leaves the work it finds to its successor.
LEMMA AgedWork ==
  ASSUME NEW w \in Work \cup {None}
  PROVE  /\ Aged(w) \in Work \cup {None}
         /\ Aged(None) = None
  BY DEF Aged, Work

LEMMA InitInv == Init => IInv
<1> SUFFICES ASSUME Init PROVE IInv
  OBVIOUS
<1>1. TypeOK
  <2>1. <<>> \in Seq({"set_blocklen", "transfer", "stop"})
    OBVIOUS
  <2>2. 0 \in 0 .. Retry + 1
    BY HimciAssumption
  <2>3. ddr \in BOOLEAN /\ dma \in BOOLEAN /\ resp \in BOOLEAN /\ delivered \in BOOLEAN
        /\ badData \in BOOLEAN /\ abandoned \in BOOLEAN /\ ints \in SUBSET Flags
    BY DEF Init
  <2> QED BY <2>1, <2>2, <2>3 DEF Init, TypeOK
<1>2. Shape /\ Counting /\ DmaPhase
  BY DEF Init, Shape, Counting, DmaPhase, DmaOffAfterSuccess
<1>3. Quiet /\ Moved
  BY DEF Init, Quiet, Moved, Still
<1> QED
  BY <1>1, <1>2, <1>3 DEF IInv

-----------------------------------------------------------------------------
(* The CPU's part of the invariant *)

Control == TypeOK /\ Shape /\ Counting /\ DmaPhase

\* One more poll keeps the count below the limit, or ends the request.
LEMMA PollStep ==
  ASSUME TypeOK, polls < Retry, ret = 0, Poll
  PROVE  /\ polls' \in 0 .. Retry
         /\ \/ polls' < Retry /\ UNCHANGED <<pc, ret>>
            \/ pc' = "end" /\ ret' = -1
  BY HimciAssumption DEF Poll, TypeOK

LEMMA ControlStep == Control /\ [Next]_vars => Control'
<1> SUFFICES ASSUME Control, [Next]_vars PROVE Control'
  OBVIOUS
<1> USE HimciAssumption DEF cpu, hw, ghost
<1> USE DEF Control, Shape, Counting, DmaPhase, DmaOffAfterSuccess, HasData, HasBusy
<1>0. pc # "idle" =>
        /\ todo \in Remainders /\ todo # <<>>
        /\ Len(todo) \in Nat \ {0}
        /\ Head(todo) \in {"set_blocklen", "transfer", "stop"}
        /\ Len(todo) > 1 => Tail(todo) \in Remainders /\ Head(todo) # "stop"
        /\ Len(todo) > 1 /\ Head(Tail(todo)) = "stop" => Head(todo) = "transfer"
        /\ Len(todo) = 1 => Head(todo) # "set_blocklen"
  BY Rest
<1>1. ASSUME NEW o \in {"read", "write"}, NEW n \in Counts, Call(o, n) PROVE Control'
  <2>1. Commands(n) \in Remainders /\ Head(Commands(n)) # "stop"
    BY Begin
  <2>2. TypeOK'
    <3>1. todo' \in Seq({"set_blocklen", "transfer", "stop"}) /\ todo' # <<>>
      BY <1>1, <2>1, Rest DEF Call
    <3>2. o \in {"read", "write"} /\ 0 \in 0 .. Retry + 1
      OBVIOUS
    <3> QED BY <1>1, <3>1, <3>2 DEF Call, TypeOK
  <2>3. (Shape /\ Counting /\ DmaPhase)'
    BY <1>1, <2>1 DEF Call
  <2> QED BY <2>2, <2>3
<1>2. CASE Request
  <2>1. TypeOK'
    BY <1>2, AgedWork DEF Request, TypeOK
  <2>2. (Shape /\ Counting /\ DmaPhase)'
    BY <1>0, <1>2 DEF Request
  <2> QED BY <2>1, <2>2
<1>3. CASE FifoReset
  <2>1. TypeOK'
    <3>1. pc' \in {"fifo", "exec"} /\ polls' \in 0 .. Retry + 1 /\ dma' \in BOOLEAN
      <4>1. CASE polls <= Retry /\ polls' = polls + 1 /\ UNCHANGED <<pc, dma>>
        BY <1>3, <4>1 DEF FifoReset, TypeOK
      <4>2. CASE pc' = "exec" /\ dma' = TRUE /\ UNCHANGED polls
        BY <4>2 DEF TypeOK
      <4> QED BY <1>3, <4>1, <4>2 DEF FifoReset, IdmaStart
    <3> QED BY <1>3, <3>1 DEF FifoReset, TypeOK
  <2>2. (Shape /\ Counting /\ DmaPhase)'
    BY <1>0, <1>3 DEF FifoReset, IdmaStart
  <2> QED BY <2>1, <2>2
<1>4. CASE ExecCmd
  <2>1. TypeOK'
    BY <1>4 DEF ExecCmd, TypeOK, Work
  <2>2. (Shape /\ Counting /\ DmaPhase)'
    BY <1>0, <1>4 DEF ExecCmd
  <2> QED BY <2>1, <2>2
<1>5. CASE WaitCmd
  <2>1. TypeOK'
    BY <1>5, PollStep DEF WaitCmd, TypeOK
  <2>2. (Shape /\ Counting /\ DmaPhase)'
    BY <1>0, <1>5, PollStep DEF WaitCmd
  <2> QED BY <2>1, <2>2
<1>6. CASE WaitCmdComplete
  <2>0. CmdDone \in {0, -1, TIMEOUT}
    BY DEF CmdDone
  <2>1. TypeOK'
    BY <1>6, <2>0, PollStep DEF WaitCmdComplete, TypeOK
  <2>2. (Shape /\ Counting /\ DmaPhase)'
    BY <1>0, <1>6, <2>0, PollStep DEF WaitCmdComplete
  <2> QED BY <2>1, <2>2
<1>7. CASE WaitDataComplete
  <2>1. TypeOK'
    <3>1. CASE "DTO" \in ints
      BY <1>7, <3>1 DEF WaitDataComplete, IdmaStop, TypeOK
    <3>2. CASE "DTO" \notin ints
      BY <1>7, <3>2, PollStep DEF WaitDataComplete, TypeOK
    <3> QED BY <3>1, <3>2
  <2>2. (Shape /\ Counting /\ DmaPhase)'
    BY <1>0, <1>7, PollStep DEF WaitDataComplete, IdmaStop
  <2> QED BY <2>1, <2>2
<1>8. CASE WaitCardComplete
  <2>1. TypeOK'
    BY <1>8, PollStep DEF WaitCardComplete, TypeOK
  <2>2. (Shape /\ Counting /\ DmaPhase)'
    BY <1>0, <1>8, PollStep DEF WaitCardComplete
  <2> QED BY <2>1, <2>2
<1>9. CASE RequestEnd
  <2> DEFINE good == ret = 0 \/ (op = "write" /\ HasBusy)
  <2>1. CASE good /\ Len(todo) > 1 /\ pc' = "request" /\ todo' = Tail(todo) /\ ret' = 0
    <3>1. todo' \in Remainders
      BY <1>0, <1>9, <2>1 DEF RequestEnd
    <3>2. TypeOK'
      BY <1>9, <2>1, <3>1, Rest DEF RequestEnd, TypeOK
    <3>3. (Shape /\ Counting)'
      BY <1>9, <2>1, <3>1 DEF RequestEnd
    <3>4. DmaPhase'
      <4>1. Head(todo)' = "stop" => Head(todo) = "transfer" /\ ret = 0
        BY <1>0, <1>9, <2>1 DEF RequestEnd
      <4> QED BY <1>9, <2>1, <4>1 DEF RequestEnd
    <3> QED BY <3>2, <3>3, <3>4
  <2>2. CASE good /\ Len(todo) = 1 /\ pc' = "idle" /\ todo' = <<>> /\ ret' = cnt
    <3>1. todo' \in Seq({"set_blocklen", "transfer", "stop"})
      BY <2>2
    <3>2. TypeOK'
      BY <1>9, <2>2, <3>1 DEF RequestEnd, TypeOK
    <3>3. ~dma
      BY <1>0, <1>9, <2>2 DEF RequestEnd
    <3>4. (Shape /\ Counting /\ DmaPhase)'
      BY <1>9, <2>2, <3>3 DEF RequestEnd
    <3> QED BY <3>2, <3>4
  <2>3. CASE ~good /\ pc' = "idle" /\ todo' = <<>> /\ UNCHANGED ret
    <3>1. todo' \in Seq({"set_blocklen", "transfer", "stop"})
      BY <2>3
    <3>2. TypeOK'
      BY <1>9, <2>3, <3>1 DEF RequestEnd, TypeOK
    <3>3. (Shape /\ Counting /\ DmaPhase)'
      BY <1>9, <2>3 DEF RequestEnd, TIMEOUT
    <3> QED BY <3>2, <3>3
  <2> QED BY <1>9, <2>1, <2>2, <2>3 DEF RequestEnd
<1>10. CASE Hardware
  <2>1. slot' \in Work \cup {None} /\ line' \in Work \cup {None} /\ data' \in Work \cup {None}
    BY <1>10 DEF Hardware, TakeCmd, AnswerCmd, DataOver, TypeOK
  <2>2. ints' \in SUBSET Flags /\ resp' \in BOOLEAN
    BY <1>10 DEF Hardware, TakeCmd, AnswerCmd, DataOver, TypeOK, Flags
  <2>3. delivered' \in BOOLEAN /\ badData' \in BOOLEAN /\ UNCHANGED abandoned
    BY <1>10 DEF Hardware, TakeCmd, AnswerCmd, DataOver, TypeOK
  <2>4. UNCHANGED <<cpu, dma>>
    BY <1>10 DEF Hardware, TakeCmd, AnswerCmd, DataOver
  <2>5. TypeOK'
    BY <2>1, <2>2, <2>3, <2>4 DEF TypeOK
  <2>6. (Shape /\ Counting /\ DmaPhase)'
    BY <2>4
  <2> QED BY <2>5, <2>6
<1>11. CASE UNCHANGED vars
  BY <1>11 DEF vars, TypeOK
<1> QED
  BY <1>1, <1>2, <1>3, <1>4, <1>5, <1>6, <1>7, <1>8, <1>9, <1>10, <1>11
     DEF Next, Driver

-----------------------------------------------------------------------------
(* The controller's part of the invariant *)

\* While nothing is abandoned the work that ends is that of the request, and
\* its end is what the flags then show.
LEMMA HardwareStep ==
  ASSUME Control, Quiet, Moved, ~abandoned, Hardware
  PROVE  (Quiet /\ Moved)'
<1> USE NoneIsNoWork DEF cpu, hw, ghost, Control, TypeOK, HasData, HasBusy
<1>0. cnt \in Counts => Moves(SetupData(cnt), cnt)
  BY HimciAssumption, ChainMoves
<1>1. UNCHANGED <<cpu, dma, abandoned>> /\ ~Still
  BY DEF Hardware, TakeCmd, AnswerCmd, DataOver, Still
<1>2. pc \in {"start", "answer", "data", "end"}
  BY <1>1 DEF Quiet
<1>3. pc = "end" => ret # 0
  BY <1>1 DEF Quiet
<1>5. delivered \/ badData => (delivered \/ badData)'
  BY DEF Hardware, TakeCmd, AnswerCmd, DataOver
<1>6. Moved'
  BY <1>1, <1>5 DEF Moved
<1>7. ASSUME pc # "end"
      PROVE  /\ OneAtATime'
             /\ pc \in {"answer", "data"} => slot' = None
             /\ pc = "data" => line' = None
  <2>0. OneAtATime
    BY <1>2, <1>7 DEF Quiet
  <2>1. CASE TakeCmd
    BY <1>1, <1>2, <1>7, <2>0, <2>1 DEF TakeCmd, OneAtATime, Still, Mine, Quiet
  <2>2. CASE AnswerCmd
    <3>1. /\ line # None /\ slot = None /\ data = None /\ line.own /\ line.data = HasData
          /\ "DTO" \in ints' => "DTO" \in ints
      BY <2>0, <2>2 DEF AnswerCmd, OneAtATime, Still, Mine
    <3>2. /\ line' = None /\ UNCHANGED <<slot, todo, delivered, badData, pc>>
          /\ data' = None \/ (data' = line /\ line.data)
      BY <2>2, <3>1 DEF AnswerCmd
    <3>3. "DTO" \notin ints'
      BY <2>0, <3>1 DEF OneAtATime, Still
    <3> QED BY <3>1, <3>2, <3>3 DEF OneAtATime, Still, Mine
  <2>3. CASE DataOver
    <3>1. cnt \in Counts
      BY <1>2 DEF Counting
    <3>2. data.own /\ HasData /\ slot = None /\ line = None
      BY <2>0, <2>3 DEF DataOver, OneAtATime, Still, Mine
    <3>3. (delivered \/ badData)'
      BY <1>0, <2>3, <3>1, <3>2 DEF DataOver
    <3> QED BY <1>1, <2>0, <2>3, <3>2, <3>3 DEF DataOver, OneAtATime, Still, Mine
  <2> QED BY <2>1, <2>2, <2>3 DEF Hardware
<1> QED
  BY <1>1, <1>2, <1>3, <1>6, <1>7 DEF Quiet

LEMMA QuietStep == IInv /\ [Next]_vars => (~abandoned => Quiet /\ Moved)'
<1> SUFFICES ASSUME IInv, [Next]_vars, ~abandoned' PROVE (Quiet /\ Moved)'
  OBVIOUS
<1> USE NoneIsNoWork DEF cpu, hw, ghost, HasData, HasBusy
<1>a. Control
  BY DEF IInv, Control
<1>b. ~abandoned
  BY <1>a DEF Next, Driver, Hardware, Call, Request, FifoReset, ExecCmd, WaitCmd,
     WaitCmdComplete, WaitDataComplete, WaitCardComplete, RequestEnd, TakeCmd,
     AnswerCmd, DataOver, vars, Control, TypeOK
<1>c. Quiet /\ Moved
  BY <1>b DEF IInv
<1>d. Counting /\ Shape /\ TypeOK
  BY <1>a DEF Control
<1>e. pc # "idle" => todo \in Remainders
  BY <1>d DEF Shape
<1>1. ASSUME NEW o \in {"read", "write"}, NEW n \in Counts, Call(o, n)
      PROVE  (Quiet /\ Moved)'
  BY <1>1, <1>c, Begin DEF Call, Quiet, Moved, Still
<1>2. CASE Request
  BY <1>2, <1>c, <1>d, AgedWork DEF Request, Quiet, Moved, Still, Counting
<1>3. CASE FifoReset
  BY <1>3, <1>c, <1>d DEF FifoReset, Quiet, Moved, Still, Counting
<1>4. CASE ExecCmd
  <2>1. Still /\ ints = {}
    BY <1>4, <1>c DEF ExecCmd, Quiet
  <2>2. OneAtATime'
    BY <1>4, <1>d, <2>1 DEF ExecCmd, OneAtATime, Still, Mine
  <2> QED BY <1>4, <1>c, <2>2 DEF ExecCmd, Quiet, Moved
<1>5. CASE WaitCmd
  BY <1>5, <1>c, <1>d, PollStep DEF WaitCmd, Quiet, Moved, OneAtATime, Still, Mine, Counting
<1>6. CASE WaitCmdComplete
  <2>0. CmdDone \in {0, -1, TIMEOUT} /\ OneAtATime
    BY <1>6, <1>c DEF CmdDone, WaitCmdComplete, Quiet
  <2>1. CASE "CD" \in ints
    BY <1>6, <1>c, <1>d, <2>0, <2>1
       DEF WaitCmdComplete, Quiet, Moved, OneAtATime, Still, Mine, Counting
  <2>2. CASE "CD" \notin ints
    BY <1>6, <1>c, <1>d, <2>0, <2>2, PollStep
       DEF WaitCmdComplete, Quiet, Moved, OneAtATime, Still, Mine, Counting
  <2> QED BY <2>1, <2>2
<1>7. CASE WaitDataComplete
  <2>1. CASE "DTO" \in ints
    BY <1>7, <1>c, <1>d, <2>1
       DEF WaitDataComplete, Quiet, Moved, OneAtATime, Still, Counting
  <2>2. CASE "DTO" \notin ints
    BY <1>7, <1>c, <1>d, <2>2, PollStep
       DEF WaitDataComplete, Quiet, Moved, OneAtATime, Still, Mine, Counting
  <2> QED BY <2>1, <2>2
<1>8. CASE WaitCardComplete
  BY <1>8, <1>c, <1>d, PollStep DEF WaitCardComplete, Quiet, Moved, Still, Counting
<1>9. CASE RequestEnd
  <2>1. ret = 0 \/ Still
    BY <1>9, <1>a DEF RequestEnd, Still, Control, TypeOK
  <2>2. Still' /\ pc' \in {"request", "idle"}
    BY <1>9, <1>c, <2>1 DEF RequestEnd, Quiet, Still
  <2>3. Moved'
    BY <1>9, <1>c, <1>d, <1>e, Rest DEF RequestEnd, Moved, Counting, TIMEOUT
  <2> QED BY <2>2, <2>3 DEF Quiet
<1>10. CASE Hardware
  BY <1>10, <1>a, <1>b, <1>c, HardwareStep
<1>11. CASE UNCHANGED vars
  BY <1>11, <1>c DEF vars, Quiet, Moved, OneAtATime, Still, Mine
<1> QED
  BY <1>1, <1>2, <1>3, <1>4, <1>5, <1>6, <1>7, <1>8, <1>9, <1>10, <1>11
     DEF Next, Driver

-----------------------------------------------------------------------------
(* Theorems *)

LEMMA Invariance == Spec => []IInv
<1>1. IInv /\ [Next]_vars => IInv'
  BY ControlStep, QuietStep DEF IInv, Control
<1> QED
  BY InitInv, <1>1, PTL DEF Spec

\* The type invariant, with the limit of every polling loop.
THEOREM TypeCorrect == Spec => []TypeOK
<1>1. IInv => TypeOK
  BY DEF IInv
<1> QED
  BY Invariance, <1>1, PTL

\* After a call that reports success the DMA engine is off: the stop of
\* hi_mci_wait_data_complete is passed by every transfer that ends with 0, and
\* nothing starts the engine again before the call returns.
THEOREM DmaOff == Spec => []DmaOffAfterSuccess
<1>1. IInv => DmaOffAfterSuccess
  BY DEF IInv, DmaPhase
<1> QED
  BY Invariance, <1>1, PTL

\* A call that reports success has moved its data, if the data phase met no
\* error and nothing was abandoned before.  The status register does not tell
\* whose flags it shows; they are the request's own because the controller
\* never has work of another one.
THEOREM Delivers == Spec => []SuccessDelivers
<1>1. IInv => SuccessDelivers
  BY DEF IInv, Moved, SuccessDelivers
<1> QED
  BY Invariance, <1>1, PTL

=============================================================================
