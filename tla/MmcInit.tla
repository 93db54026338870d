------------------------------ MODULE MmcInit ------------------------------
(***************************************************************************)
(* Finding and setting up the card: mmc_flash_init and check_ext_csd of    *)
(* himciv200.c, and mmc_dev_init of mmc_drv.c with what it calls.  One     *)
(* step is one command, or one round of a polling loop.                    *)
(*                                                                         *)
(* A command is what module HimciRequest describes: it may succeed, time   *)
(* out or fail, and a read may report success without having moved its     *)
(* data, or failure after having moved it.  The buffers of extended CSDs   *)
(* are locals that nothing initialises, except test_ext_csd.               *)
(***************************************************************************)
EXTENDS Integers, Sequences

CONSTANTS
  Polls,         \* the rounds of the operating condition loops, 1000
  MaxAttempts,   \* a bound: how often the callers try to find the card
  Boards         \* the sets of modes with more than one bit that may work

ASSUME MmcAssumption ==
  /\ Polls \in Nat \ {0} /\ MaxAttempts \in Nat
  /\ Boards \subseteq SUBSET [width : {4, 8}, ddr : BOOLEAN]

VARIABLES
  chip,      \* the card: its kind, whether its EXT_CSD_REV is 0, whether it
             \* goes up to 52 MHz, whether it offers DDR, and the modes that
             \* work on this board
  card,      \* the state of the card
  host,      \* MCI_CTYPE, MCI_UHS_REG and MCI_CLKDIV: mode and clock of the
             \* controller
  dev,       \* struct mmc_dev_t
  test,      \* test_ext_csd holds what the card has
  local,     \* what the ext_csd buffers on the stack hold
  pc, idx, polls,
  attempts,
  events     \* of this attempt: what has gone wrong, and "accepted"

vars == <<chip, card, host, dev, test, local, pc, idx, polls, attempts, events>>

IsSd == dev.version \in {"sd1", "sd110", "sd2"}

Mode(w, d) == [width |-> w, ddr |-> d]
Widths == <<Mode(8, TRUE), Mode(4, TRUE), Mode(8, FALSE), Mode(4, FALSE),
            Mode(1, FALSE)>>

\* ext_to_hostcaps
Cap(m) == IF m.ddr THEN {"DDR"}
          ELSE CASE m.width = 8 -> {"8"} [] m.width = 4 -> {"4"} [] m.width = 1 -> {}

\* Frequencies are in units of 100 kHz.
MMC_CLK == 1000
MMC_CCLK_MIN == 4
MMC_CCLK_MAX == 500

\* hi_mci_set_cclk: the divider is rounded up, as far as it goes.
SetCclk(cclk) ==
  LET up == (MMC_CLK + 2 * cclk - 1) \div (2 * cclk)
  IN IF cclk >= MMC_CLK THEN MMC_CLK
     ELSE MMC_CLK \div (2 * (IF up > 255 THEN 255 ELSE up))

\* Mutation: a width of one is not written to the controller.
SetIosWide(d) ==
  [mode |-> Mode(IF d.width = 1 THEN host.mode.width ELSE d.width, "DDR" \in d.caps),
   clock |-> IF d.clock = 0 THEN 0 ELSE SetCclk(d.clock)]

\* hi_mci_set_ios
SetIos(d) ==
  [mode |-> Mode(d.width, "DDR" \in d.caps),
   clock |-> IF d.clock = 0 THEN 0 ELSE SetCclk(d.clock)]

\* mmc_set_clock, up to set_ios
WithClock(d, freq) ==
  [d EXCEPT !.clock = CASE freq < MMC_CCLK_MIN -> MMC_CCLK_MIN
                        [] freq > MMC_CCLK_MAX -> MMC_CCLK_MAX
                        [] OTHER -> freq]

-----------------------------------------------------------------------------
(* Commands *)

TIMEOUT == -19

\* A step that sends one command and gives up when it fails.
Command(here, ok, then) == pc = here /\ pc' = IF ok THEN then ELSE "off"

\* The controller and the card speak the same mode, and the board carries it.
Talking == card.state = "tran" /\ host.mode = card.mode /\ card.mode \in chip.works

\* A read of the extended CSD that returns ok and has moved its data or not.
\* Only an MMC of version 4 has one.
Read(ok, moved, more) ==
  /\ moved => Talking
  /\ ok => chip.kind = "mmc4"
  /\ events' = events \cup more
                      \cup (IF ~ok /\ moved THEN {"late"} ELSE {})
                      \cup (IF Talking /\ ~(ok /\ moved) THEN {"failed"} ELSE {})

\* mmc_switch: a command that fails may still have been carried out.
Switch(ok, done) ==
  /\ ok => done
  /\ done => chip.kind = "mmc4"
  /\ events' = events \cup (IF ok THEN {} ELSE {"failed"})

\* The buffers of functions that have returned are as good as empty.
NoBuffers == [rev |-> FALSE, freq |-> FALSE, types |-> {}, part |-> FALSE,
              width |-> FALSE, access |-> "user"]

-----------------------------------------------------------------------------
(* mmc_dev_init, up to the operating condition *)

\* hi_mci_init_card: what a card has been told is gone, what is written to it
\* stays.
PowerCycled ==
  [card EXCEPT !.state = "idle", !.mode = Mode(1, FALSE), !.rca = 0,
               !.access = "user", !.hs = FALSE]

\* mmc_flash_init: the card is switched off and on, and the controller set to
\* one bit, with the capabilities of the last attempt, and to the lowest clock.  Nothing is tried when
\* no card is detected.
Begin ==
  /\ pc = "off" /\ ~dev.isInit /\ attempts < MaxAttempts
  /\ attempts' = attempts + 1
  /\ \/ UNCHANGED <<card, host, dev, pc, events>>
     \/ /\ card' = PowerCycled
        /\ dev' = WithClock([dev EXCEPT !.width = 1], 0)
        /\ host' = SetIos(dev')
        /\ pc' = "go_idle"
        /\ events' = {}
  /\ local' = NoBuffers
  /\ UNCHANGED <<chip, test, idx, polls>>

GoIdle ==
  /\ \E ok \in BOOLEAN : Command("go_idle", ok, "if_cond")
  /\ UNCHANGED <<chip, card, host, dev, test, local, idx, polls, attempts, events>>

\* mmc_send_if_cnd.  Its R7 answer is checked like an R1: the pattern 0xaa has
\* a bit of MMC_CS_ERROR_MASK, so that the version is never set here, and the
\* error is not looked at.
SendIfCond ==
  /\ pc = "if_cond" /\ pc' = "sd_op"
  /\ polls' = Polls
  /\ UNCHANGED <<chip, card, host, dev, test, local, idx, attempts, events>>

CardReady == card' = [card EXCEPT !.state = "ready"]

\* sd_send_op_cond, one round.  Only a timeout leads to mmc_dev_send_op_cnd;
\* after any other failure mmc_dev_start goes on with the version as it is.
\* An answer in the last round counts as a failure, like a lost one.
SdSendOpCond ==
  /\ pc = "sd_op"
  /\ \/ \E ret \in {-1, TIMEOUT} :
          /\ pc' = IF ret = TIMEOUT THEN "mmc_op" ELSE "cid"
          /\ polls' = Polls
          /\ (chip.kind = "sd" /\ CardReady) \/ UNCHANGED card
          /\ UNCHANGED dev
     \/ /\ chip.kind = "sd" /\ polls > 0
        /\ polls' = polls - 1
        /\ UNCHANGED <<card, dev, pc>>
     \/ /\ chip.kind = "sd" /\ polls > 0
        /\ CardReady
        /\ dev' = [dev EXCEPT !.version = IF @ = "sd2" THEN @ ELSE "sd1", !.rca = 0]
        /\ pc' = "cid" /\ polls' = Polls
  /\ UNCHANGED <<chip, host, test, local, idx, attempts, events>>

\* Mutation: the counter wraps instead of ending the loop.
MmcSendOpCondForever ==
  /\ pc = "mmc_op"
  /\ \/ pc' = "off" /\ polls' = Polls /\ UNCHANGED <<card, dev>>
     \/ /\ chip.kind # "sd"
        /\ polls' = IF polls = 0 THEN Polls ELSE polls - 1
        /\ UNCHANGED <<card, dev, pc>>
     \/ /\ chip.kind # "sd" /\ CardReady
        /\ dev' = [dev EXCEPT !.version = "unknown", !.rca = 0]
        /\ pc' = "cid" /\ polls' = Polls
  /\ UNCHANGED <<chip, host, test, local, idx, attempts, events>>

\* mmc_dev_send_op_cnd, one round.
MmcSendOpCond ==
  /\ pc = "mmc_op"
  /\ \/ /\ pc' = "off" /\ polls' = Polls
        /\ UNCHANGED <<card, dev>>
     \/ /\ chip.kind # "sd" /\ polls > 0
        /\ polls' = polls - 1
        /\ UNCHANGED <<card, dev, pc>>
     \/ /\ chip.kind # "sd" /\ polls > 0
        /\ CardReady
        /\ dev' = [dev EXCEPT !.version = "unknown", !.rca = 0]
        /\ pc' = "cid" /\ polls' = Polls
  /\ UNCHANGED <<chip, host, test, local, idx, attempts, events>>

-----------------------------------------------------------------------------
(* mmc_dev_start: identification *)

\* A card that is not ready does not answer.
AllSendCid ==
  /\ \E ok \in BOOLEAN : /\ ok => card.state = "ready"
                         /\ Command("cid", ok, "rca")
                         /\ card' = IF ok THEN [card EXCEPT !.state = "ident"] ELSE card
  /\ UNCHANGED <<chip, host, dev, test, local, idx, polls, attempts, events>>

\* Mutation: the address is taken from the answer of any card.
RelativeAddrAny ==
  /\ \E ok \in BOOLEAN, rca \in {1, 2} :
       /\ Command("rca", ok, "csd")
       /\ card' = [card EXCEPT !.rca = IF chip.kind = "sd" THEN rca ELSE dev.rca]
       /\ chip.kind = "sd" /\ ok => rca = 1
       /\ dev' = [dev EXCEPT !.rca = IF ok THEN card'.rca ELSE @]
  /\ UNCHANGED <<chip, host, test, local, idx, polls, attempts, events>>

\* An MMC is given its address; an SD card chooses one, in an R6 answer that
\* is checked like an R1: only an address without bits of the error mask, 1
\* here, passes.
RelativeAddr ==
  /\ \E ok \in BOOLEAN, rca \in {1, 2} :
       /\ Command("rca", ok, "csd")
       /\ card' = [card EXCEPT !.rca = IF chip.kind = "sd" THEN rca ELSE dev.rca]
       /\ chip.kind = "sd" /\ ok => rca = 1
       /\ dev' = [dev EXCEPT !.rca = IF ok /\ IsSd THEN card'.rca ELSE @]
  /\ UNCHANGED <<chip, host, test, local, idx, polls, attempts, events>>

\* The speed of a card whose timing has not been switched.
CsdSpeed == IF chip.kind = "sd" THEN 250 ELSE 200

SendCsd ==
  /\ \E ok \in BOOLEAN :
       /\ ok => dev.rca = card.rca
       /\ Command("csd", ok, "select")
       /\ dev' = [dev EXCEPT !.version =
                    IF ~ok \/ @ # "unknown" THEN @
                    ELSE IF chip.kind = "mmc4" THEN "v4" ELSE "old",
                  !.speed = IF ok THEN CsdSpeed ELSE @]
  /\ UNCHANGED <<chip, card, host, test, local, idx, polls, attempts, events>>

\* sd_chg_freq and mmc_chg_freq both begin with no capabilities; the latter
\* ends there for an old card.
SelectCard ==
  /\ \E ok \in BOOLEAN :
       /\ ok => dev.rca = card.rca
       /\ Command("select", ok, IF IsSd THEN "scr_app"
                                ELSE IF dev.version = "v4" THEN "ext_csd" ELSE "probe")
       /\ card' = IF ok THEN [card EXCEPT !.state = "tran"] ELSE card
       /\ dev' = IF ok /\ dev.version # "v4" THEN [dev EXCEPT !.caps = {}] ELSE dev
  /\ idx' = 1
  /\ UNCHANGED <<chip, host, test, local, polls, attempts, events>>

-----------------------------------------------------------------------------
(* mmc_chg_freq *)

SendExtCsd ==
  /\ \E ok, moved \in BOOLEAN :
       /\ Command("ext_csd", ok, "type") /\ Read(ok, moved, {})
       /\ local' = [local EXCEPT !.rev = moved]
       /\ dev' = IF ok THEN [dev EXCEPT !.caps = {"4", "8"}] ELSE dev
  /\ UNCHANGED <<chip, card, host, test, idx, polls, attempts>>

\* EXT_CSD_CARD_TYPE, or whatever the buffer held.
CardType ==
  /\ \E ok, moved \in BOOLEAN, types \in SUBSET {"52", "DDR"} :
       /\ Command("type", ok, "hs") /\ Read(ok, moved, {})
       /\ moved => types = (IF chip.fast THEN {"52"} ELSE {})
                             \cup (IF chip.ddr THEN {"DDR"} ELSE {})
       /\ local' = [local EXCEPT !.freq = moved, !.types = types]
  /\ UNCHANGED <<chip, card, host, dev, test, idx, polls, attempts>>

SwitchHs ==
  /\ \E ok, done \in BOOLEAN :
       /\ Command("hs", ok, "timing") /\ Switch(ok, done)
       /\ card' = [card EXCEPT !.hs = @ \/ done]
  /\ UNCHANGED <<chip, host, dev, test, local, idx, polls, attempts>>

\* EXT_CSD_HS_TIMING: 0 from the first read when this one has moved nothing.
Timing ==
  /\ \E ok, moved, hs \in BOOLEAN :
       /\ Command("timing", ok, "probe") /\ Read(ok, moved, {})
       /\ moved => hs
       /\ ~moved /\ local.freq => ~hs
       /\ dev' = IF ~ok \/ ~hs THEN dev
                 ELSE [dev EXCEPT !.caps = @ \cup {"HS"} \cup
                         (IF "52" \in local.types
                          THEN {"HS52"} \cup (local.types \cap {"DDR"}) ELSE {})]
  /\ idx' = 1
  /\ local' = [NoBuffers EXCEPT !.rev = local.rev]
  /\ UNCHANGED <<chip, card, host, test, polls, attempts>>

-----------------------------------------------------------------------------
(* mmc_dev_start: the widest mode that works *)

\* Mutation: when no mode works, that is an error.
NextProbeOrFail == IF idx < Len(Widths) THEN pc' = "probe" /\ idx' = idx + 1
                   ELSE pc' = "off" /\ UNCHANGED idx

\* Mutation: one more round than there are modes.
NextProbePastEnd == IF idx <= Len(Widths) THEN pc' = "probe" /\ idx' = idx + 1
                    ELSE pc' = "clock" /\ idx' = 1

NextProbe == IF idx < Len(Widths) THEN pc' = "probe" /\ idx' = idx + 1
             ELSE pc' = "clock" /\ idx' = 1

\* A card that does not offer DDR refuses it, which the answer does not show.
\* The controller supports every width, so that none is skipped.
ProbeWidth ==
  /\ pc = "probe"
  /\ \E ok, done \in BOOLEAN :
       /\ Switch(ok, done)
       /\ card' = IF done /\ (Widths[idx].ddr => chip.ddr)
                  THEN [card EXCEPT !.mode = Widths[idx]] ELSE card
       /\ \/ /\ ok
             /\ dev' = [dev EXCEPT !.width = Widths[idx].width]
             /\ host' = SetIos(dev')
             /\ pc' = "test" /\ UNCHANGED idx
          \/ /\ ~ok
             /\ NextProbe /\ UNCHANGED <<dev, host>>
  /\ UNCHANGED <<chip, test, local, polls, attempts>>

\* Mutation: only the return of the read is looked at.
AnyRev(same) == same

\* The revisions compare equal; test_ext_csd is zero before the first read.
SameRev(same) == IF local.rev THEN same = (test' \/ chip.rev0) ELSE TRUE

TestWidth ==
  /\ pc = "test"
  /\ \E ok, moved, same \in BOOLEAN :
       /\ Read(ok, moved, IF ok /\ same THEN {"accepted"} ELSE {})
       /\ test' = (test \/ moved)
       /\ SameRev(same)
       /\ \/ /\ ok /\ same
             /\ dev' = [dev EXCEPT !.caps = @ \cup Cap(Widths[idx])]
             /\ pc' = "clock" /\ idx' = 1
          \/ /\ ~(ok /\ same)
             /\ NextProbe /\ UNCHANGED dev
  /\ UNCHANGED <<chip, card, host, local, polls, attempts>>

\* The speed of the timing the card is in, as the driver knows it.
Speed ==
  CASE IsSd -> IF "HS" \in dev.caps THEN 500 ELSE 250
    [] ~IsSd /\ "HS" \in dev.caps -> IF "HS52" \in dev.caps THEN 520 ELSE 260
    [] OTHER -> dev.speed

\* mmc_set_clock, with the capabilities as they are now.
SetClock ==
  /\ pc = "clock"
  /\ dev' = [WithClock(dev, Speed) EXCEPT !.speed = Speed, !.isInit = TRUE]
  /\ host' = SetIos(dev')
  /\ pc' = "boot"
  /\ UNCHANGED <<chip, card, test, local, idx, polls, attempts, events>>

-----------------------------------------------------------------------------
(* sd_chg_freq, and the width of an SD card *)

SdApp ==
  /\ \E ok \in BOOLEAN : Command("scr_app", ok, "scr")
  /\ polls' = 3
  /\ UNCHANGED <<chip, card, host, dev, test, local, idx, attempts, events>>

\* retry_scr: a read that fails is repeated three times.
SdScr ==
  /\ pc = "scr"
  /\ \/ /\ polls > 0 /\ polls' = polls - 1
        /\ UNCHANGED <<dev, pc>>
     \/ /\ polls = 0 /\ polls' = Polls /\ pc' = "off"
        /\ UNCHANGED dev
     \/ \E v \in {"sd1", "sd110", "sd2"} :
          /\ dev' = [dev EXCEPT !.version = v]
          /\ pc' = IF v = "sd1" THEN "sd_width" ELSE "sd_check"
          /\ polls' = IF v = "sd1" THEN Polls ELSE 4
  /\ UNCHANGED <<chip, card, host, test, local, idx, attempts, events>>

\* SD_SWITCH_CHECK, at most four times while the function is busy.
SdCheck ==
  /\ pc = "sd_check"
  /\ \/ pc' = "off" /\ polls' = Polls /\ UNCHANGED dev
     \/ polls > 1 /\ polls' = polls - 1 /\ UNCHANGED <<dev, pc>>
     \/ \E caps \in SUBSET {"4"}, hs \in BOOLEAN :
          /\ dev' = [dev EXCEPT !.caps = caps]
          /\ pc' = IF hs THEN "sd_hs" ELSE "sd_width"
          /\ polls' = Polls
  /\ UNCHANGED <<chip, card, host, test, local, idx, attempts, events>>

SdSwitchHs ==
  /\ \E ok \in BOOLEAN, caps \in SUBSET {"HS"} :
       /\ Command("sd_hs", ok, "sd_width")
       /\ dev' = IF ok THEN [dev EXCEPT !.caps = @ \cup caps] ELSE dev
  /\ UNCHANGED <<chip, card, host, test, local, idx, polls, attempts, events>>

\* MMC_CMD_APP_CMD, SD_CMD_APP_SET_BUS_WIDTH and mmc_set_bus_width, for a card
\* with four bits.
SdWidth ==
  /\ \E ok \in BOOLEAN :
       /\ Command("sd_width", ok, "clock")
       /\ "4" \notin dev.caps => ok
       /\ \/ /\ ok /\ "4" \in dev.caps
             /\ dev' = [dev EXCEPT !.width = 4] /\ host' = SetIos(dev')
             /\ card' = [card EXCEPT !.mode = Mode(4, FALSE)]
          \/ /\ ~(ok /\ "4" \in dev.caps)
             /\ UNCHANGED <<card, dev, host>>
  /\ UNCHANGED <<chip, test, local, idx, polls, attempts, events>>

-----------------------------------------------------------------------------
(* check_ext_csd.  EXT_CSD_BOOT_CONFIG has the partition the board boots     *)
(* from, "part", and the one that reads and writes go to, "access".          *)

\* What is read is what the card has, or whatever the buffer held.  Writing
\* EXT_CSD_WR_REL_SET, where it is called for, may end the check.
BootRead ==
  /\ pc = "boot"
  /\ \E ok, moved, ends \in BOOLEAN,
        part, width \in BOOLEAN, access \in {"user", "other"} :
       /\ Read(ok, moved, (IF ok /\ ~moved THEN {"blind"} ELSE {})
                           \cup (IF ends THEN {"failed"} ELSE {}))
       /\ moved => /\ part = card.part /\ width = card.bootWidth
                   /\ access = card.access
       /\ local' = [local EXCEPT !.part = part, !.width = width, !.access = access]
       /\ pc' = IF ~ok \/ ends \/ (part /\ width) THEN "off" ELSE "boot_part"
  /\ UNCHANGED <<chip, card, host, dev, test, idx, polls, attempts>>

\* Mutation: the partition is written over the bits of the access.
BootPartUnshifted ==
  /\ pc = "boot_part"
  /\ \E ok, done \in BOOLEAN :
       /\ local.part => ok
       /\ IF local.part THEN UNCHANGED <<card, events>>
          ELSE /\ Switch(ok, done)
               /\ card' = IF done THEN [card EXCEPT !.part = TRUE, !.access = "other"]
                          ELSE card
       /\ pc' = IF ok THEN "boot_width" ELSE "off"
  /\ UNCHANGED <<chip, host, dev, test, local, idx, polls, attempts>>

\* The partition is written together with the access bits that were read.
BootPart ==
  /\ pc = "boot_part"
  /\ \E ok, done \in BOOLEAN :
       /\ local.part => ok
       /\ IF local.part THEN UNCHANGED <<card, events>>
          ELSE /\ Switch(ok, done)
               /\ card' = IF done THEN [card EXCEPT !.part = TRUE,
                                                    !.access = local.access]
                          ELSE card
       /\ pc' = IF ok THEN "boot_width" ELSE "off"
  /\ UNCHANGED <<chip, host, dev, test, local, idx, polls, attempts>>

\* The last read of the extended CSD is only printed.
BootWidth ==
  /\ pc = "boot_width" /\ pc' = "off"
  /\ IF local.width THEN UNCHANGED <<card, events>>
     ELSE \E ok, done \in BOOLEAN :
            /\ Switch(ok, done)
            /\ card' = IF done THEN [card EXCEPT !.bootWidth = TRUE] ELSE card
  /\ UNCHANGED <<chip, host, dev, test, local, idx, polls, attempts>>

-----------------------------------------------------------------------------

\* The cards there may be.  Any of them works with one bit.
Chips ==
  {c \in [kind : {"sd", "old", "mmc4"}, rev0 : BOOLEAN, fast : BOOLEAN, ddr : BOOLEAN,
          works : {{Mode(1, FALSE)} \cup b : b \in Boards}] :
     /\ c.kind # "mmc4" => ~c.rev0 /\ ~c.fast
     /\ ~c.fast => ~c.ddr /\ ~c.rev0}

Init ==
  /\ chip \in Chips
  /\ \E part, width \in BOOLEAN :
       card = [state |-> "idle", mode |-> Mode(1, FALSE), rca |-> 0,
               access |-> "user", part |-> part, bootWidth |-> width, hs |-> FALSE]
  /\ host = [mode |-> Mode(1, FALSE), clock |-> 0]
  /\ dev = [version |-> "none", caps |-> {}, width |-> 0, rca |-> 0, speed |-> 0,
            clock |-> 0, isInit |-> FALSE]
  /\ test = FALSE
  /\ local = NoBuffers
  /\ pc = "off" /\ idx = 1 /\ polls = Polls /\ attempts = 0 /\ events = {}

Step ==
  \/ GoIdle \/ SendIfCond \/ SdSendOpCond \/ MmcSendOpCond
  \/ AllSendCid \/ RelativeAddr \/ SendCsd \/ SelectCard
  \/ SendExtCsd \/ CardType \/ SwitchHs \/ Timing
  \/ ProbeWidth \/ TestWidth \/ SetClock
  \/ SdApp \/ SdScr \/ SdCheck \/ SdSwitchHs \/ SdWidth
  \/ BootRead \/ BootPart \/ BootWidth

Next == Begin \/ Step

\* The CPU goes on; every command ends (module HimciRequest).
Spec == Init /\ [][Next]_vars /\ WF_vars(Step)

-----------------------------------------------------------------------------
(* Properties *)

Identifying == {"go_idle", "if_cond", "sd_op", "mmc_op", "cid", "rca", "csd", "select"}

\* The values the variables range over.
TypeOK ==
  LET Modes == [width : {1, 4, 8}, ddr : BOOLEAN] IN
  /\ chip \in Chips
  /\ card \in [state : {"idle", "ready", "ident", "tran"}, mode : Modes, rca : 0 .. 2,
               access : {"user", "other"}, part : BOOLEAN, bootWidth : BOOLEAN, hs : BOOLEAN]
  /\ host \in [mode : Modes, clock : 0 .. MMC_CLK]
  /\ dev \in [version : {"none", "unknown", "old", "v4", "sd1", "sd110", "sd2"},
              caps : SUBSET {"4", "8", "HS", "HS52", "DDR"}, width : {0, 1, 4, 8},
              rca : 0 .. 2, speed : 0 .. 520, clock : {0} \cup MMC_CCLK_MIN .. MMC_CCLK_MAX,
              isInit : BOOLEAN]
  /\ test \in BOOLEAN
  /\ pc \in Identifying \cup {"off", "ext_csd", "type", "hs", "timing", "probe", "test",
                            "clock", "scr_app", "scr", "sd_check", "sd_hs", "sd_width",
                            "boot", "boot_part", "boot_width"}
  /\ idx \in 1 .. Len(Widths) /\ polls \in Nat /\ attempts \in 0 .. MaxAttempts
  /\ local \in [rev : BOOLEAN, freq : BOOLEAN, types : SUBSET {"52", "DDR"},
                part : BOOLEAN, width : BOOLEAN, access : {"user", "other"}]
  /\ events \subseteq {"failed", "late", "accepted", "blind"}

\* A card is identified with one bit and without DDR, also when an earlier
\* attempt has left capabilities: mmc_set_bus_width(mmc_dev, 1) goes by
\* card_caps, which mmc_chg_freq fills, and no attempt may fail after that.
\* The clock is then the lowest one, and later never beyond what an MMC takes
\* in the timing it has been switched to, if no command has failed.
IdentifiedSlowly ==
  /\ pc \in Identifying => host.mode = Mode(1, FALSE) /\ host.clock \in 1 .. MMC_CCLK_MIN
  /\ dev.isInit /\ chip.kind # "sd" /\ "failed" \notin events =>
       host.clock <= (IF ~card.hs THEN CsdSpeed ELSE IF chip.fast THEN 520 ELSE 260)

\* The driver takes an SD card for an SD card and an MMC for an MMC, although
\* a failure of sd_send_op_cond that is no timeout, a late one of the last
\* round among them, goes on to mmc_dev_start with whatever version is set.
KindRight == dev.isInit => (IsSd <=> chip.kind = "sd")

\* A mode that was accepted is one the card and the controller share and the
\* board carries, also after set_ios has been called with the capabilities
\* added last; unless a read that failed has still left its data in
\* test_ext_csd, or the first revision was not read or is zero.
AcceptedWorks ==
  /\ dev.isInit /\ "accepted" \in events /\ "late" \notin events
  /\ local.rev /\ ~chip.rev0
  => /\ host.mode = card.mode /\ card.mode \in chip.works
     /\ dev.width = card.mode.width /\ ("DDR" \in dev.caps <=> card.mode.ddr)

\* When no command fails an MMC ends in a mode that works, if those it offers
\* with DDR are not all broken: once DDR is among the capabilities of
\* mmc_chg_freq the modes without it are tried with a controller that uses it.
FindsMode ==
  /\ dev.isInit /\ chip.kind = "mmc4" /\ "failed" \notin events /\ ~chip.rev0
  /\ chip.ddr => {Widths[1], Widths[2]} \cap chip.works # {}
  => Talking

\* check_ext_csd leaves the user area selected and, when nothing failed, the
\* boot settings as they should be; unless the read it starts from reported
\* success without data.
BootSettings ==
  /\ "blind" \notin events => card.access = "user"
  /\ pc = "off" /\ dev.isInit /\ events \subseteq {"accepted"} /\ Talking
       /\ chip.kind = "mmc4"
     => card.part /\ card.bootWidth

\* Every attempt to find the card ends.
AttemptEnds == pc # "off" ~> pc = "off"
=============================================================================
