---------------------------- MODULE MmcInitProofs ----------------------------
(***************************************************************************)
(* Proofs about finding and setting up the card, for every number of polls *)
(* and attempts and every set of modes that may work on a board.           *)
(***************************************************************************)
EXTENDS MmcInit, TLAPS

-----------------------------------------------------------------------------
(* The divider and the modes *)

\* A positive divisor, as the proofs use it.
LEMMA Divide ==
  ASSUME NEW n \in Nat, NEW d \in Nat \ {0}
  PROVE  /\ n \div d \in Nat
         /\ d * (n \div d) \in Nat
         /\ d * (n \div d) <= n /\ n < d * (n \div d) + d
<1> DEFINE q == n \div d
<1>1. q \in Nat /\ n % d \in 0 .. d - 1 /\ n = d * q + (n % d)
  OBVIOUS
<1>2. d * q \in Nat
  <2>1. \A y \in Nat : d * y \in Nat
    OBVIOUS
  <2> HIDE DEF q
  <2> QED BY <1>1, <2>1
<1> DEFINE p == d * q
<1> HIDE DEF p
<1> QED BY <1>1, <1>2 DEF p

\* The divider is rounded so that the clock is never above the one asked for.
LEMMA ClockNotAbove ==
  ASSUME NEW c \in MMC_CCLK_MIN .. MMC_CCLK_MAX
  PROVE  SetCclk(c) \in 1 .. c
<1> USE DEF MMC_CLK, MMC_CCLK_MIN, MMC_CCLK_MAX
<1> DEFINE d == 2 * c
           up == (1000 + d - 1) \div d
<1>1. d \in Nat \ {0} /\ d >= 8 /\ 1000 + d - 1 \in Nat /\ c < 1000
  OBVIOUS
<1>2. up \in Nat /\ d * up \in Nat /\ 1000 <= d * up /\ d * up <= 999 + d
  <2> DEFINE n == 1000 + d - 1
             p == d * (n \div d)
  <2>1. n \in Nat /\ n = 999 + d
    BY <1>1
  <2>2. n \div d \in Nat /\ p \in Nat /\ p <= n /\ n < p + d
    <3> HIDE DEF n, d
    <3> QED BY <1>1, <2>1, Divide
  <2>3. 1000 <= p /\ p <= 999 + d
    <3> HIDE DEF p, d, n
    <3> QED BY <1>1, <2>1, <2>2
  <2> QED BY <2>2, <2>3
<1> DEFINE e == 2 * up
           r == 1000 \div e
<1>3. up >= 1 /\ up <= 125
  <2>1. up # 0
    <3>1. up = 0 => d * up = 0
      <4> HIDE DEF up
      <4> QED OBVIOUS
    <3> QED BY <1>2, <3>1
  <2>2. up <= 125
    <3> SUFFICES ASSUME up >= 126 PROVE FALSE
      BY <1>2
    <3>1. d * up >= d * 126
      <4>1. \A y \in Nat : y >= 126 => d * y >= d * 126
        BY <1>1
      <4> HIDE DEF up
      <4> QED BY <1>2, <4>1
    <3> DEFINE p == d * up
    <3> HIDE DEF p
    <3> QED BY <1>1, <1>2, <3>1 DEF p
  <2> QED BY <1>2, <2>1, <2>2
<1>4. SetCclk(c) = r
  BY <1>1, <1>3 DEF SetCclk
<1>5. e \in Nat \ {0} /\ e <= 250
  BY <1>3, <1>2
<1>6. r \in Nat /\ e * r \in Nat /\ e * r <= 1000 /\ 1000 < e * r + e
  BY <1>5, Divide
<1>7. r >= 1
  <2>1. r = 0 => e * r = 0
    <3> HIDE DEF r, e
    <3> QED BY <1>5
  <2> QED BY <1>5, <1>6, <2>1
<1>8. r <= c
  <2> SUFFICES ASSUME r >= c + 1 PROVE FALSE
    BY <1>6
  <2>1. e * c = d * up
    <3> HIDE DEF up
    <3> QED BY <1>2
  <2>2. e * r >= e * c + e
    <3>1. e * (r - c) >= e
      <4>1. \A y \in Nat \ {0} : e * y >= e
        <5> HIDE DEF e
        <5> QED BY <1>5
      <4>2. r - c \in Nat \ {0}
        <5> HIDE DEF r
        <5> QED BY <1>6
      <4> HIDE DEF r, e
      <4> QED BY <4>1, <4>2
    <3>2. e * (r - c) = e * r - e * c
      <4> HIDE DEF r, e
      <4> QED BY <1>5, <1>6
    <3>3. e * r \in Nat /\ e * c \in Nat
      BY <1>2, <1>6, <2>1
    <3> DEFINE x == e * r
               y == e * c
               z == e * (r - c)
    <3> HIDE DEF x, y, z
    <3>4. z >= e /\ z = x - y /\ x \in Nat /\ y \in Nat
      BY <3>1, <3>2, <3>3 DEF x, y, z
    <3>5. x >= y + e
      <4> HIDE DEF e
      <4> QED BY <1>5, <3>4
    <3> QED BY <3>5 DEF x, y
  <2> DEFINE x == e * r
             y == e * c
  <2>3. x >= y + e /\ x \in Nat /\ x <= 1000 /\ y \in Nat /\ y >= 1000
    BY <1>2, <1>6, <2>1, <2>2
  <2> HIDE DEF x, y, e
  <2> QED BY <1>5, <2>3
<1> QED BY <1>4, <1>6, <1>7, <1>8

LEMMA LowestClock == SetCclk(MMC_CCLK_MIN) = 4
  BY DEF SetCclk, MMC_CLK, MMC_CCLK_MIN

\* The five modes that are tried.
LEMMA Modes ==
  /\ Len(Widths) = 5
  /\ Widths[1] = Mode(8, TRUE) /\ Widths[2] = Mode(4, TRUE)
  /\ Widths[3] = Mode(8, FALSE) /\ Widths[4] = Mode(4, FALSE)
  /\ Widths[5] = Mode(1, FALSE)
  BY DEF Widths

-----------------------------------------------------------------------------
(***************************************************************************)
(* The inductive invariant.  An attempt is a way through the positions     *)
(* below.  "Course" says which of them can still fail, "Versions" what the *)
(* driver knows of the kind of the card, "Slow" the mode and clock before  *)
(* the timing is switched, "Timed" and "Offered" what the extended CSD has *)
(* told when no command failed, "Marked" what the marks of an attempt say, *)
(* "Rounds", "Accepted" and "Searched" what the rounds of the width test   *)
(* leave behind, and "Checked" the boot settings.                          *)
(***************************************************************************)

ExtCsd == {"ext_csd", "type", "hs", "timing"}
Probing == {"probe", "test", "clock"}
SdSetup == {"scr_app", "scr", "sd_check", "sd_hs", "sd_width"}
Booting == {"boot", "boot_part", "boot_width"}

\* Only check_ext_csd comes after the card is set up, and nothing else.
Course ==
  /\ pc \in Booting => dev.isInit
  /\ dev.isInit => pc \in Booting \cup {"off"}
  /\ pc \in ExtCsd \cup Probing \cup SdSetup \cup Booting \/ dev.isInit => card.state = "tran"
  /\ pc # "off" => dev.width # 0

\* The version says of which kind the card is.  Without one the card is not
\* ready, or it has an address the driver does not know.
Versions ==
  /\ IsSd => chip.kind = "sd"
  /\ dev.version \in {"unknown", "old", "v4"} => chip.kind # "sd"
  /\ dev.version = "v4" => chip.kind = "mmc4"
  /\ dev.version = "old" => chip.kind = "old"
  /\ dev.version = "none" =>
       /\ dev.rca = 0
       /\ pc \in {"csd", "select"} => card.rca # 0
       /\ chip.kind # "sd" => card.state = "idle" /\ pc \notin {"rca", "csd", "select"}
  /\ pc \in {"select"} \cup ExtCsd \cup Probing \cup SdSetup \/ dev.isInit =>
       dev.version \notin {"none", "unknown"}
  /\ pc \in ExtCsd => dev.version = "v4"
  /\ pc \in SdSetup => IsSd

\* No capability that would change the mode is left by an attempt that fails.
Slow ==
  /\ "DDR" \in dev.caps => pc \in Probing \/ dev.isInit
  /\ chip.kind # "sd" /\ dev.caps \cap {"HS", "HS52"} # {} => pc \in Probing \/ dev.isInit
  /\ pc \in Identifying \cup ExtCsd =>
       host.mode = Mode(1, FALSE) /\ card.mode = Mode(1, FALSE)
  /\ pc \in Identifying => host.clock \in 1 .. MMC_CCLK_MIN
  /\ pc \in {"select", "probe", "test", "clock"} \cup ExtCsd => dev.speed = CsdSpeed
                                                       \/ chip.kind = "sd"

\* The timing of an MMC when no command has failed.
Timed ==
  chip.kind # "sd" /\ "failed" \notin events =>
    /\ pc = "timing" => card.hs
    /\ pc \in {"hs", "timing"} => local.freq /\ ("52" \in local.types => chip.fast)
    /\ pc \in Probing =>
         /\ "HS" \in dev.caps => card.hs
         /\ "HS52" \in dev.caps => chip.fast
    /\ dev.isInit =>
         host.clock <= (IF ~card.hs THEN 200 ELSE IF chip.fast THEN 520 ELSE 260)

\* The premises of FindsMode.
Sound ==
  /\ chip.kind = "mmc4" /\ "failed" \notin events /\ ~chip.rev0
  /\ chip.ddr => {Widths[1], Widths[2]} \cap chip.works # {}

\* What an MMC of version 4 has told when no command has failed.
Offered ==
  chip.kind = "mmc4" /\ "failed" \notin events =>
    /\ pc \in {"type", "hs", "timing"} \cup Probing => local.rev
    /\ pc \in {"hs", "timing"} => ("DDR" \in local.types <=> chip.ddr)
                               /\ ("52" \in local.types <=> chip.fast)
    /\ pc \in {"probe", "test"} => ("DDR" \in dev.caps <=> chip.ddr)

\* What the marks of an attempt and test_ext_csd tell.
Marked ==
  /\ "late" \in events => "failed" \in events
  /\ test => pc \in Probing \/ dev.isInit
  /\ "accepted" \in events => (pc = "clock" \/ dev.isInit) /\ chip.kind = "mmc4"

\* The rounds of the width test.  Data that has arrived ends them, unless it
\* came with a failure.
Rounds ==
  /\ pc \in {"probe", "test"} =>
       /\ "late" \notin events /\ local.rev /\ ~chip.rev0 => ~test
       /\ idx <= 2 /\ chip.kind = "mmc4" => card.mode = Mode(1, FALSE) \/ card.mode.ddr
  /\ pc = "test" => dev.width = Widths[idx].width
                   /\ host.mode = Mode(dev.width, "DDR" \in dev.caps)

\* A mode that has been accepted works already before set_ios is called.
Accepted ==
  /\ pc = "clock" /\ {"accepted", "late"} \cap events = {"accepted"}
       /\ local.rev /\ ~chip.rev0
     => card.mode \in chip.works /\ card.mode = Mode(dev.width, "DDR" \in dev.caps)
  /\ AcceptedWorks

\* The modes that have been tried without success do not work.
Searched ==
  Sound =>
    /\ pc \in {"probe", "test"} /\ chip.ddr =>
         idx <= 2 /\ (idx = 2 => Widths[1] \notin chip.works)
    /\ pc = "test" /\ (Widths[idx].ddr => chip.ddr) => card.mode = Widths[idx]
    /\ pc = "clock" \/ dev.isInit => "accepted" \in events /\ local.rev

\* What check_ext_csd has found and done.
Checked ==
  /\ "blind" \notin events /\ pc = "boot_part" => local.access = "user"
  /\ "blind" \in events => dev.isInit
  /\ dev.isInit /\ events \subseteq {"accepted"} /\ Talking /\ chip.kind = "mmc4" =>
       /\ pc = "boot_part" => local.part = card.part /\ local.width = card.bootWidth
       /\ pc = "boot_width" => card.part /\ local.width = card.bootWidth
       /\ pc = "off" => card.part /\ card.bootWidth
  /\ BootSettings

IInv == /\ TypeOK /\ Course /\ Versions /\ Slow /\ Timed /\ Offered /\ Marked
        /\ Rounds /\ Accepted /\ Searched /\ Checked

-----------------------------------------------------------------------------
(* Types *)

\* The type of each variable.
ModeSet == [width : {1, 4, 8}, ddr : BOOLEAN]
Cards == [state : {"idle", "ready", "ident", "tran"}, mode : ModeSet, rca : 0 .. 2,
          access : {"user", "other"}, part : BOOLEAN, bootWidth : BOOLEAN, hs : BOOLEAN]
Hosts == [mode : ModeSet, clock : 0 .. MMC_CLK]
Clocks == {0} \cup MMC_CCLK_MIN .. MMC_CCLK_MAX
BusWidths == {0, 1, 4, 8}
VersionNames == {"none", "unknown", "old", "v4", "sd1", "sd110", "sd2"}
Caps == {"4", "8", "HS", "HS52", "DDR"}
Devs == [version : VersionNames,
         caps : SUBSET Caps, width : BusWidths,
         rca : 0 .. 2, speed : 0 .. 520, clock : Clocks,
         isInit : BOOLEAN]
Buffers == [rev : BOOLEAN, freq : BOOLEAN, types : SUBSET {"52", "DDR"},
            part : BOOLEAN, width : BOOLEAN, access : {"user", "other"}]
Marks == {"failed", "late", "accepted", "blind"}
Positions == Identifying \cup ExtCsd \cup Probing \cup SdSetup \cup Booting \cup {"off"}

LEMMA Types ==
  TypeOK <=> /\ chip \in Chips /\ card \in Cards /\ host \in Hosts /\ dev \in Devs
             /\ test \in BOOLEAN /\ pc \in Positions /\ idx \in 1 .. 5
             /\ polls \in Nat /\ attempts \in 0 .. MaxAttempts
             /\ local \in Buffers /\ events \subseteq Marks
<1>1. pc \in Positions <=>
        pc \in Identifying \cup {"off", "ext_csd", "type", "hs", "timing", "probe", "test",
                            "clock", "scr_app", "scr", "sd_check", "sd_hs", "sd_width",
                            "boot", "boot_part", "boot_width"}
  BY DEF Positions, ExtCsd, Probing, SdSetup, Booting
<1> QED
  BY <1>1, Modes DEF TypeOK, Buffers, Marks, Clocks, BusWidths, Cards, Hosts, Devs,
       ModeSet, VersionNames, Caps

LEMMA ModeType ==
  /\ \A d \in BOOLEAN : Mode(1, d) \in ModeSet /\ Mode(4, d) \in ModeSet /\ Mode(8, d) \in ModeSet
  /\ \A i \in 1 .. 5 : Widths[i] \in ModeSet
  /\ \A i \in 1 .. 5 : Widths[i].width \in {1, 4, 8} /\ Cap(Widths[i]) \in SUBSET Caps
<1>1. \A d \in BOOLEAN : Mode(1, d) \in ModeSet /\ Mode(4, d) \in ModeSet /\ Mode(8, d) \in ModeSet
  BY DEF Mode, ModeSet
<1>2. ASSUME NEW i \in 1 .. 5
      PROVE  \E w \in {1, 4, 8}, d \in BOOLEAN : Widths[i] = Mode(w, d)
  <2>1. i \in {1, 2, 3, 4, 5}
    OBVIOUS
  <2> QED BY <2>1, Modes
<1>3. ASSUME NEW w \in {1, 4, 8}, NEW d \in BOOLEAN
      PROVE  Mode(w, d).width = w /\ Cap(Mode(w, d)) \in SUBSET Caps
  <2>1. Mode(w, d).width = w /\ Mode(w, d).ddr = d
    BY DEF Mode
  <2>2. Cap(Mode(w, d)) \in {{}, {"DDR"}, {"8"}, {"4"}}
    BY <2>1 DEF Cap
  <2> QED BY <2>1, <2>2 DEF Caps
<1> QED BY <1>1, <1>2, <1>3

\* The mode the controller takes from the capabilities.
LEMMA ModeOf ==
  ASSUME NEW w, NEW S
  PROVE  Mode(w, "DDR" \in S) = IF "DDR" \in S THEN Mode(w, TRUE) ELSE Mode(w, FALSE)
<1> DEFINE b == "DDR" \in S
<1>1. b = FALSE \/ b = TRUE
  OBVIOUS
<1> HIDE DEF b
<1>2. Mode(w, b) = IF b THEN Mode(w, TRUE) ELSE Mode(w, FALSE)
  BY <1>1
<1> QED BY <1>2 DEF b

LEMMA ModeFields ==
  ASSUME NEW w, NEW S
  PROVE  /\ Mode(w, "DDR" \in S).width = w
         /\ Mode(w, "DDR" \in S).ddr <=> "DDR" \in S
<1>1. Mode(w, TRUE).width = w /\ Mode(w, TRUE).ddr
  BY DEF Mode
<1>2. Mode(w, FALSE).width = w /\ ~Mode(w, FALSE).ddr
  BY DEF Mode
<1>3. CASE "DDR" \in S
  BY <1>1, <1>3, ModeOf
<1>4. CASE "DDR" \notin S
  BY <1>2, <1>4, ModeOf
<1> QED BY <1>3, <1>4

LEMMA CapsOfMode ==
  ASSUME NEW i \in 1 .. 5
  PROVE  /\ "HS" \notin Cap(Widths[i]) /\ "HS52" \notin Cap(Widths[i])
         /\ "DDR" \in Cap(Widths[i]) <=> i <= 2
         /\ Widths[i].ddr <=> i <= 2
<1>1. i \in {1, 2, 3, 4, 5}
  OBVIOUS
<1>2. Mode(8, TRUE).ddr /\ Mode(4, TRUE).ddr /\ ~Mode(8, FALSE).ddr
      /\ ~Mode(4, FALSE).ddr /\ ~Mode(1, FALSE).ddr
  BY DEF Mode
<1>3. Cap(Mode(8, TRUE)) = {"DDR"} /\ Cap(Mode(4, TRUE)) = {"DDR"}
  BY <1>2 DEF Cap
<1>4. Mode(8, FALSE).width = 8 /\ Mode(4, FALSE).width = 4 /\ Mode(1, FALSE).width = 1
  BY DEF Mode
<1>5. \A m : ~m.ddr /\ m.width = 8 => Cap(m) = {"8"}
  BY DEF Cap
<1>6. \A m : ~m.ddr /\ m.width = 4 => Cap(m) = {"4"}
  BY DEF Cap
<1>7. \A m : ~m.ddr /\ m.width = 1 => Cap(m) = {}
  BY DEF Cap
<1>8. Cap(Mode(8, FALSE)) = {"8"} /\ Cap(Mode(4, FALSE)) = {"4"} /\ Cap(Mode(1, FALSE)) = {}
  BY <1>2, <1>4, <1>5, <1>6, <1>7
<1>9. CASE i \in {1, 2}
  <2>1. Cap(Widths[i]) = {"DDR"}
    BY <1>3, <1>9, Modes
  <2>2. Widths[i].ddr
    BY <1>2, <1>9, Modes
  <2>3. "HS" \notin Cap(Widths[i]) /\ "HS52" \notin Cap(Widths[i]) /\ "DDR" \in Cap(Widths[i])
    BY <2>1
  <2>4. i <= 2
    BY <1>9
  <2> QED BY <2>2, <2>3, <2>4
<1>10. CASE i \in {3, 4, 5}
  <2>1. Cap(Widths[i]) \in {{"8"}, {"4"}, {}}
    BY <1>8, <1>10, Modes
  <2>2. ~Widths[i].ddr
    BY <1>2, <1>10, Modes
  <2>3. "HS" \notin Cap(Widths[i]) /\ "HS52" \notin Cap(Widths[i]) /\ "DDR" \notin Cap(Widths[i])
    BY <2>1
  <2>4. ~(i <= 2)
    BY <1>10
  <2> QED BY <2>2, <2>3, <2>4
<1> QED BY <1>1, <1>9, <1>10

LEMMA CardUpdate ==
  ASSUME NEW c \in Cards
  PROVE  /\ \A s \in {"idle", "ready", "ident", "tran"} : [c EXCEPT !.state = s] \in Cards
         /\ \A m \in ModeSet : [c EXCEPT !.mode = m] \in Cards
         /\ \A r \in 0 .. 2 : [c EXCEPT !.rca = r] \in Cards
         /\ \A h \in BOOLEAN : [c EXCEPT !.hs = h] \in Cards
         /\ \A a \in {"user", "other"} : [c EXCEPT !.part = TRUE, !.access = a] \in Cards
         /\ [c EXCEPT !.bootWidth = TRUE] \in Cards
  BY DEF Cards

LEMMA DevUpdate ==
  ASSUME NEW d \in Devs
  PROVE  /\ \A v \in VersionNames : [d EXCEPT !.version = v] \in Devs
         /\ \A v \in VersionNames, r \in 0 .. 2 :
               [d EXCEPT !.version = v, !.rca = r] \in Devs
         /\ \A v \in VersionNames, s \in 0 .. 520 :
               [d EXCEPT !.version = v, !.speed = s] \in Devs
         /\ \A c \in SUBSET Caps : [d EXCEPT !.caps = c] \in Devs
         /\ \A w \in BusWidths : [d EXCEPT !.width = w] \in Devs
         /\ \A r \in 0 .. 2 : [d EXCEPT !.rca = r] \in Devs
         /\ \A s \in 0 .. 520, i \in BOOLEAN :
               [d EXCEPT !.speed = s, !.isInit = i] \in Devs
<1>1. \A v \in VersionNames : [d EXCEPT !.version = v] \in Devs
  BY DEF Devs
<1>2. \A v \in VersionNames, r \in 0 .. 2 : [d EXCEPT !.version = v, !.rca = r] \in Devs
  BY ZenonT(40) DEF Devs
<1>3. \A v \in VersionNames, s \in 0 .. 520 :
        [d EXCEPT !.version = v, !.speed = s] \in Devs
  BY ZenonT(40) DEF Devs
<1>4. \A c \in SUBSET Caps : [d EXCEPT !.caps = c] \in Devs
  BY DEF Devs
<1>5. \A w \in BusWidths : [d EXCEPT !.width = w] \in Devs
  BY DEF Devs
<1>6. \A r \in 0 .. 2 : [d EXCEPT !.rca = r] \in Devs
  BY DEF Devs
<1>7. \A s \in 0 .. 520, i \in BOOLEAN : [d EXCEPT !.speed = s, !.isInit = i] \in Devs
  <2> TAKE s \in 0 .. 520, i \in BOOLEAN
  <2> DEFINE e == [d EXCEPT !.speed = s]
  <2>1. e \in Devs
    BY DEF Devs
  <2> HIDE DEF e
  <2>2. [e EXCEPT !.isInit = i] \in Devs
    BY <2>1 DEF Devs
  <2>3. [d EXCEPT !.speed = s, !.isInit = i] = [e EXCEPT !.isInit = i]
    BY DEF e, Devs
  <2> QED BY <2>2, <2>3
<1> QED
  BY <1>1, <1>2, <1>3, <1>4, <1>5, <1>6, <1>7, Zenon

LEMMA TypeInit == Init => TypeOK
<1> SUFFICES ASSUME Init PROVE TypeOK
  OBVIOUS
<1>1. card \in Cards /\ host \in Hosts
  BY DEF Init, Cards, Hosts, ModeSet, Mode, MMC_CLK
<1>2. dev \in Devs /\ local \in Buffers /\ events \subseteq Marks
  BY DEF Init, Devs, VersionNames, Clocks, BusWidths, NoBuffers, Buffers
<1> QED
  <2>1. pc \in Positions /\ idx \in 1 .. 5 /\ polls \in Nat /\ attempts \in 0 .. MaxAttempts
    BY MmcAssumption DEF Init, Positions
  <2> QED BY <1>1, <1>2, <2>1, Types DEF Init

LEMMA HostType ==
  ASSUME NEW d \in Devs, d.width # 0
  PROVE  /\ SetIos(d) \in Hosts
         /\ SetIos(d).mode = Mode(d.width, "DDR" \in d.caps)
         /\ d.clock # 0 => SetIos(d).clock \in 1 .. d.clock
<1>1. d.clock # 0 => SetCclk(d.clock) \in 1 .. d.clock
  BY ClockNotAbove DEF Devs, Clocks
<1>2. d.clock \in 0 .. 500 /\ d.width \in {1, 4, 8}
  BY DEF Devs, Clocks, BusWidths, MMC_CCLK_MIN, MMC_CCLK_MAX
<1> QED
  BY <1>1, <1>2, SMTT(60) DEF SetIos, Mode, ModeSet, MMC_CLK, Hosts

\* mmc_set_clock keeps the frequency in its range, and takes it down only when
\* it is beyond the highest one.
LEMMA ClockType ==
  ASSUME NEW d \in Devs, NEW f \in 0 .. 520
  PROVE  /\ WithClock(d, f) \in Devs
         /\ WithClock(d, f) = [d EXCEPT !.clock = WithClock(d, f).clock]
         /\ WithClock(d, f).clock \in MMC_CCLK_MIN .. MMC_CCLK_MAX
         /\ f >= MMC_CCLK_MIN => WithClock(d, f).clock <= f
         /\ f < MMC_CCLK_MIN => WithClock(d, f).clock = MMC_CCLK_MIN
<1> DEFINE c == CASE f < MMC_CCLK_MIN -> MMC_CCLK_MIN
                  [] f > MMC_CCLK_MAX -> MMC_CCLK_MAX
                  [] OTHER -> f
<1>1. /\ c \in MMC_CCLK_MIN .. MMC_CCLK_MAX
      /\ f >= MMC_CCLK_MIN => c <= f
      /\ f < MMC_CCLK_MIN => c = MMC_CCLK_MIN
  BY DEF MMC_CCLK_MIN, MMC_CCLK_MAX
<1>2. WithClock(d, f) = [d EXCEPT !.clock = c]
  BY DEF WithClock
<1> HIDE DEF c
<1> QED BY <1>1, <1>2 DEF Devs, Clocks

LEMMA SpeedType ==
  ASSUME dev \in Devs
  PROVE  /\ Speed \in 0 .. 520
         /\ WithClock(dev, Speed) \in Devs
         /\ [WithClock(dev, Speed) EXCEPT !.speed = Speed, !.isInit = TRUE] \in Devs
<1>1. Speed \in 0 .. 520
  BY DEF Speed, Devs
<1>2. WithClock(dev, Speed) \in Devs
  BY <1>1, ClockType
<1> QED BY <1>1, <1>2, DevUpdate, ZenonT(60)

LEMMA TypeStep == TypeOK /\ Course /\ [Next]_vars => TypeOK'
<1> SUFFICES ASSUME TypeOK, Course, [Next]_vars PROVE TypeOK'
  OBVIOUS
<1>0. /\ chip \in Chips /\ card \in Cards /\ host \in Hosts /\ dev \in Devs
      /\ test \in BOOLEAN /\ pc \in Positions /\ idx \in 1 .. 5
      /\ polls \in Nat /\ attempts \in 0 .. MaxAttempts
      /\ local \in Buffers /\ events \subseteq Marks
  BY Types
<1>t. (/\ chip \in Chips /\ card \in Cards /\ host \in Hosts /\ dev \in Devs
       /\ test \in BOOLEAN /\ pc \in Positions /\ idx \in 1 .. 5
       /\ polls \in Nat /\ attempts \in 0 .. MaxAttempts
       /\ local \in Buffers /\ events \subseteq Marks)' => TypeOK'
  BY Types, PTL
<1>1. CASE Begin
  <2>1. card' \in Cards
    <3>1. ASSUME NEW st \in {"idle", "ready", "ident", "tran"}, NEW m \in ModeSet,
                 NEW r \in 0 .. 2, NEW a \in {"user", "other"}, NEW h \in BOOLEAN
          PROVE  [card EXCEPT !.state = st, !.mode = m, !.rca = r,
                              !.access = a, !.hs = h] \in Cards
      BY <1>0 DEF Cards
    <3>2. Mode(1, FALSE) \in ModeSet
      BY ModeType
    <3>3. PowerCycled \in Cards
      <4> DEFINE m == Mode(1, FALSE)
                 P(st, r, a, h) == [card EXCEPT !.state = st, !.mode = m, !.rca = r,
                                                !.access = a, !.hs = h]
      <4>1. \A st \in {"idle", "ready", "ident", "tran"}, r \in 0 .. 2,
               a \in {"user", "other"}, h \in BOOLEAN : P(st, r, a, h) \in Cards
        BY <3>1, <3>2, ZenonT(60)
      <4>2. PowerCycled = P("idle", 0, "user", FALSE)
        BY DEF PowerCycled
      <4>3. 0 \in 0 .. 2
        OBVIOUS
      <4> HIDE DEF P
      <4> QED BY <4>1, <4>2, <4>3, ZenonT(60)
    <3> QED BY <1>0, <1>1, <3>3 DEF Begin
  <2>2. dev' \in Devs
    <3> DEFINE d == [dev EXCEPT !.width = 1]
    <3>1. d \in Devs
      <4>1. 1 \in BusWidths
        BY DEF BusWidths
      <4> QED BY <1>0, <4>1, DevUpdate, Zenon
    <3> HIDE DEF d
    <3>2. WithClock(d, 0) \in Devs
      <4>1. 0 \in 0 .. 520
        OBVIOUS
      <4> QED BY <3>1, <4>1, ClockType, Zenon
    <3>3. dev' = dev \/ dev' = WithClock(d, 0)
      BY <1>1 DEF Begin, d
    <3> QED BY <1>0, <3>2, <3>3
  <2>3. host' \in Hosts
    <3> DEFINE d == [dev EXCEPT !.width = 1]
    <3>1. d \in Devs
      <4>1. 1 \in BusWidths
        BY DEF BusWidths
      <4> QED BY <1>0, <4>1, DevUpdate, Zenon
    <3>2. d.width = 1
      BY <1>0 DEF Devs
    <3> HIDE DEF d
    <3>3. WithClock(d, 0).width = 1
      <4> DEFINE c == WithClock(d, 0).clock
      <4>1. WithClock(d, 0) = [d EXCEPT !.clock = c]
        <5>1. 0 \in 0 .. 520
          OBVIOUS
        <5> QED BY <3>1, <5>1, ClockType, ZenonT(60)
      <4> HIDE DEF c
      <4> QED BY <3>1, <3>2, <4>1 DEF Devs
    <3>4. host' = host \/ (dev' = WithClock(d, 0) /\ host' = SetIos(dev'))
      BY <1>1 DEF Begin, d
    <3> QED BY <1>0, <2>2, <3>3, <3>4, HostType
  <2>4. pc' \in Positions
    BY <1>0, <1>1 DEF Begin, Command, PowerCycled, Mode, Positions, Identifying,
         ExtCsd, Probing, SdSetup, Booting
  <2>5. attempts' \in 0 .. MaxAttempts
    BY <1>0, <1>1, MmcAssumption DEF Begin
  <2>8. local' \in Buffers
    BY <1>0, <1>1 DEF Begin, Buffers, NoBuffers
  <2>9. events' \subseteq Marks
    BY <1>0, <1>1 DEF Begin, Marks, Read, Switch
  <2>6. UNCHANGED <<chip, test, idx, polls>>
    BY <1>1 DEF Begin
  <2> QED BY <1>0, <1>t, <2>1, <2>2, <2>3, <2>4, <2>5, <2>6, <2>8, <2>9
<1>2. CASE GoIdle
  <2>1. pc' \in Positions
    BY <1>2 DEF GoIdle, Command, Positions, Identifying
  <2> QED BY <1>0, <1>t, <1>2, <2>1 DEF GoIdle
<1>3. CASE SendIfCond
  <2>1. pc' \in Positions
    BY <1>0, <1>3 DEF SendIfCond, Positions, Identifying
  <2> QED BY <1>0, <1>t, <1>3, <2>1, MmcAssumption DEF SendIfCond
<1>4. CASE SdSendOpCond
  <2>1. card' \in Cards
    BY <1>0, <1>4, CardUpdate DEF SdSendOpCond, CardReady
  <2>2. dev' \in Devs
    <3>1. \A v \in VersionNames : [dev EXCEPT !.version = v, !.rca = 0] \in Devs
      <4>1. 0 \in 0 .. 2
        OBVIOUS
      <4> QED BY <1>0, <4>1, DevUpdate, ZenonT(60)
    <3>2. PICK v \in VersionNames :
            dev' = dev \/ dev' = [dev EXCEPT !.version = v, !.rca = 0]
      <4>1. dev.version \in VersionNames /\ "sd1" \in VersionNames /\ "sd2" \in VersionNames
            /\ "unknown" \in VersionNames
        BY <1>0 DEF Devs, VersionNames
      <4> QED BY <4>1, <1>4 DEF SdSendOpCond
    <3> QED BY <1>0, <3>1, <3>2
  <2>3. pc' \in Positions
    BY <1>0, <1>4 DEF SdSendOpCond, Command, CardReady, Positions, Identifying,
         ExtCsd, Probing, SdSetup, Booting
  <2>4. polls' \in Nat
    BY <1>0, <1>4, MmcAssumption DEF SdSendOpCond, CardReady
  <2> QED BY <1>0, <1>t, <1>4, <2>1, <2>2, <2>3, <2>4 DEF SdSendOpCond
<1>5. CASE MmcSendOpCond
  <2>1. card' \in Cards
    BY <1>0, <1>5, CardUpdate DEF MmcSendOpCond, CardReady
  <2>2. dev' \in Devs
    <3>1. \A v \in VersionNames : [dev EXCEPT !.version = v, !.rca = 0] \in Devs
      <4>1. 0 \in 0 .. 2
        OBVIOUS
      <4> QED BY <1>0, <4>1, DevUpdate, Zenon
    <3>2. PICK v \in VersionNames :
            dev' = dev \/ dev' = [dev EXCEPT !.version = v, !.rca = 0]
      <4>1. dev.version \in VersionNames /\ "sd1" \in VersionNames /\ "sd2" \in VersionNames
            /\ "unknown" \in VersionNames
        BY <1>0 DEF Devs, VersionNames
      <4> QED BY <4>1, <1>5 DEF MmcSendOpCond
    <3> QED BY <1>0, <3>1, <3>2
  <2>3. pc' \in Positions
    BY <1>0, <1>5 DEF MmcSendOpCond, Command, CardReady, Positions, Identifying,
         ExtCsd, Probing, SdSetup, Booting
  <2>4. polls' \in Nat
    BY <1>0, <1>5, MmcAssumption DEF MmcSendOpCond, CardReady
  <2> QED BY <1>0, <1>t, <1>5, <2>1, <2>2, <2>3, <2>4 DEF MmcSendOpCond
<1>6. CASE AllSendCid
  <2>1. card' \in Cards
    BY <1>0, <1>6, CardUpdate DEF AllSendCid
  <2>2. pc' \in Positions
    BY <1>0, <1>6 DEF AllSendCid, Command, Positions, Identifying, ExtCsd, Probing,
         SdSetup, Booting
  <2> QED BY <1>0, <1>t, <1>6, <2>1, <2>2, SMTT(60) DEF AllSendCid
<1>7. CASE RelativeAddr
  <2>1. card' \in Cards
    <3>1. dev.rca \in 0 .. 2
      BY <1>0 DEF Devs
    <3>2. PICK r \in 0 .. 2 : card' = [card EXCEPT !.rca = r]
      BY <1>7, <3>1, SMTT(60) DEF RelativeAddr
    <3> QED BY <1>0, <3>2, CardUpdate
  <2>2. dev' \in Devs
    <3>1. dev.rca \in 0 .. 2 /\ card'.rca \in 0 .. 2
      BY <1>0, <2>1 DEF Devs, Cards
    <3>2. PICK r \in 0 .. 2 : dev' = [dev EXCEPT !.rca = r]
      BY <1>7, <3>1 DEF RelativeAddr
    <3> QED BY <1>0, <3>2, DevUpdate, ZenonT(60)
  <2>3. pc' \in Positions
    BY <1>0, <1>7 DEF RelativeAddr, Command, Positions, Identifying, ExtCsd,
         Probing, SdSetup, Booting
  <2> QED BY <1>0, <1>t, <1>7, <2>1, <2>2, <2>3, SMTT(60) DEF RelativeAddr
<1>8. CASE SendCsd
  <2>1. dev' \in Devs
    <3>1. PICK ok \in BOOLEAN : 
            dev' = [dev EXCEPT !.version =
                    IF ~ok \/ @ # "unknown" THEN @
                    ELSE IF chip.kind = "mmc4" THEN "v4" ELSE "old",
                  !.speed = IF ok THEN CsdSpeed ELSE @]
      BY <1>8 DEF SendCsd
    <3> DEFINE v == IF ~ok \/ dev.version # "unknown" THEN dev.version
                    ELSE IF chip.kind = "mmc4" THEN "v4" ELSE "old"
               sp == IF ok THEN CsdSpeed ELSE dev.speed
    <3>2. v \in VersionNames
      BY <1>0 DEF Devs, VersionNames
    <3>3. sp \in 0 .. 520
      BY <1>0 DEF Devs, CsdSpeed
    <3>4. dev' = [dev EXCEPT !.version = v, !.speed = sp]
      BY <3>1
    <3> HIDE DEF v, sp
    <3> QED BY <1>0, <3>2, <3>3, <3>4, DevUpdate, ZenonT(60)
  <2>2. pc' \in Positions
    BY <1>0, <1>8 DEF SendCsd, Command, CsdSpeed, Positions, Identifying, ExtCsd,
         Probing, SdSetup, Booting
  <2> QED BY <1>0, <1>t, <1>8, <2>1, <2>2 DEF SendCsd
<1>9. CASE SelectCard
  <2>1. card' \in Cards
    BY <1>0, <1>9, CardUpdate DEF SelectCard
  <2>2. dev' \in Devs
    <3>1. PICK c \in SUBSET Caps : dev' = dev \/ dev' = [dev EXCEPT !.caps = c]
      <4>1. {} \in SUBSET Caps /\ {"4", "8"} \in SUBSET Caps
        BY DEF Caps
      <4> QED BY <1>9, <4>1 DEF SelectCard
    <3> QED BY <1>0, <3>1, DevUpdate, ZenonT(60)
  <2>3. pc' \in Positions
    BY <1>0, <1>9 DEF SelectCard, Command, Positions, Identifying, ExtCsd, Probing,
         SdSetup, Booting
  <2> QED BY <1>0, <1>t, <1>9, <2>1, <2>2, <2>3 DEF SelectCard
<1>10. CASE SendExtCsd
  <2>1. dev' \in Devs
    <3>1. PICK c \in SUBSET Caps : dev' = dev \/ dev' = [dev EXCEPT !.caps = c]
      <4>1. {} \in SUBSET Caps /\ {"4", "8"} \in SUBSET Caps
        BY DEF Caps
      <4> QED BY <1>10, <4>1 DEF SendExtCsd
    <3> QED BY <1>0, <3>1, DevUpdate, ZenonT(60)
  <2>2. pc' \in Positions
    BY <1>0, <1>10 DEF SendExtCsd, Command, Positions, Identifying, ExtCsd, Probing,
         SdSetup, Booting
  <2>8. local' \in Buffers
    BY <1>0, <1>10 DEF SendExtCsd, Buffers, NoBuffers
  <2>9. events' \subseteq Marks
    BY <1>0, <1>10 DEF SendExtCsd, Marks, Read, Switch
  <2> QED BY <1>0, <1>t, <1>10, <2>1, <2>2, <2>8, <2>9 DEF SendExtCsd
<1>11. CASE CardType
  <2>1. pc' \in Positions
    BY <1>0, <1>11 DEF CardType, Command, Positions, Identifying, ExtCsd, Probing,
         SdSetup, Booting
  <2>8. local' \in Buffers
    BY <1>0, <1>11 DEF CardType, Buffers, NoBuffers
  <2>9. events' \subseteq Marks
    BY <1>0, <1>11 DEF CardType, Marks, Read, Switch
  <2> QED BY <1>0, <1>t, <1>11, <2>1, <2>8, <2>9 DEF CardType
<1>12. CASE SwitchHs
  <2>1. card' \in Cards
    <3>1. PICK h \in BOOLEAN : card' = [card EXCEPT !.hs = h]
      <4>1. \A done \in BOOLEAN : (card.hs \/ done) \in BOOLEAN
        OBVIOUS
      <4> QED BY <1>12, <4>1 DEF SwitchHs
    <3> QED BY <1>0, <3>1, CardUpdate
  <2>2. pc' \in Positions
    BY <1>0, <1>12 DEF SwitchHs, Command, Positions, Identifying, ExtCsd, Probing,
         SdSetup, Booting
  <2>9. events' \subseteq Marks
    BY <1>0, <1>12 DEF SwitchHs, Marks, Read, Switch
  <2> QED BY <1>0, <1>t, <1>12, <2>1, <2>2, <2>9, SMTT(60) DEF SwitchHs
<1>13. CASE Timing
  <2>1. dev' \in Devs
    <3>1. PICK ca \in SUBSET Caps : dev' = dev \/ dev' = [dev EXCEPT !.caps = ca]
      <4>1. PICK c \in SUBSET {"DDR"} :
              \/ dev' = dev
              \/ dev' = [dev EXCEPT !.caps = @ \cup {"HS"} \cup ({"HS52"} \cup c)]
              \/ dev' = [dev EXCEPT !.caps = @ \cup {"HS"} \cup {}]
        <5> WITNESS local.types \cap {"DDR"} \in SUBSET {"DDR"}
        <5> QED BY <1>13 DEF Timing
      <4>2. /\ dev.caps \cup {"HS"} \cup ({"HS52"} \cup c) \in SUBSET Caps
            /\ dev.caps \cup {"HS"} \cup {} \in SUBSET Caps
        BY <1>0 DEF Devs, Caps
      <4> QED BY <4>1, <4>2
    <3> QED BY <1>0, <3>1, DevUpdate, ZenonT(60)
  <2>2. pc' \in Positions
    BY <1>0, <1>13 DEF Timing, Command, Positions, Identifying, ExtCsd, Probing,
         SdSetup, Booting
  <2>8. local' \in Buffers
    BY <1>0, <1>13 DEF Timing, Buffers, NoBuffers
  <2>9. events' \subseteq Marks
    BY <1>0, <1>13 DEF Timing, Marks, Read, Switch
  <2> QED BY <1>0, <1>t, <1>13, <2>1, <2>2, <2>8, <2>9 DEF Timing
<1>14. CASE ProbeWidth
  <2>1. card' \in Cards
    <3>1. PICK m \in ModeSet : card' = card \/ card' = [card EXCEPT !.mode = m]
      BY <1>0, <1>14, ModeType DEF ProbeWidth
    <3> QED BY <1>0, <3>1, CardUpdate
  <2>2. dev' \in Devs
    <3>1. PICK w \in BusWidths : dev' = dev \/ dev' = [dev EXCEPT !.width = w]
      BY <1>0, <1>14, ModeType DEF ProbeWidth, BusWidths
    <3> QED BY <1>0, <3>1, DevUpdate, ZenonT(60)
  <2>3. host' \in Hosts
    <3>1. host' = host \/ (dev' = [dev EXCEPT !.width = Widths[idx].width] /\ host' = SetIos(dev'))
      BY <1>14 DEF ProbeWidth
    <3>2. [dev EXCEPT !.width = Widths[idx].width].width # 0
      BY <1>0, ModeType DEF Devs
    <3> QED BY <1>0, <2>2, <3>1, <3>2, HostType
  <2>4. pc' \in Positions
    BY <1>0, <1>14, Modes DEF ProbeWidth, Command, NextProbe, Positions,
         Identifying, ExtCsd, Probing, SdSetup, Booting
  <2>5. idx' \in 1 .. 5
    BY <1>0, <1>14, Modes DEF ProbeWidth, NextProbe
  <2>9. events' \subseteq Marks
    BY <1>0, <1>14 DEF ProbeWidth, Marks, Read, Switch
  <2> QED BY <1>0, <1>t, <1>14, <2>1, <2>2, <2>3, <2>4, <2>5, <2>9, SMTT(60) DEF ProbeWidth
<1>15. CASE TestWidth
  <2>1. dev' \in Devs
    <3>1. PICK c \in SUBSET Caps : dev' = dev \/ dev' = [dev EXCEPT !.caps = c]
      <4>1. dev.caps \cup Cap(Widths[idx]) \in SUBSET Caps
        BY <1>0, ModeType DEF Devs
      <4> QED BY <1>15, <4>1 DEF TestWidth
    <3> QED BY <1>0, <3>1, DevUpdate, ZenonT(60)
  <2>2. pc' \in Positions
    BY <1>0, <1>15, Modes DEF TestWidth, Command, NextProbe, Cap, Positions,
         Identifying, ExtCsd, Probing, SdSetup, Booting
  <2>3. idx' \in 1 .. 5
    BY <1>0, <1>15, Modes DEF TestWidth, NextProbe, Cap
  <2>9. events' \subseteq Marks
    BY <1>0, <1>15 DEF TestWidth, Marks, Read, Switch
  <2> QED BY <1>0, <1>t, <1>15, <2>1, <2>2, <2>3, <2>9 DEF TestWidth
<1>16. CASE SetClock
  <2>1. dev' \in Devs
    BY <1>0, <1>16, SpeedType DEF SetClock
  <2>2. host' \in Hosts
    <3>1. dev' \in Devs /\ dev'.width # 0
      <4> DEFINE c == WithClock(dev, Speed).clock
      <4>1. WithClock(dev, Speed) = [dev EXCEPT !.clock = c]
        BY <1>0, SpeedType, ClockType, Zenon
      <4>2. dev' = [WithClock(dev, Speed) EXCEPT !.speed = Speed, !.isInit = TRUE]
        BY <1>16 DEF SetClock
      <4> HIDE DEF c
      <4>3. WithClock(dev, Speed).width = dev.width
        BY <1>0, <4>1 DEF Devs
      <4>4. dev'.width = dev.width
        BY <1>0, <4>2, <4>3, SpeedType DEF Devs
      <4> QED BY <1>0, <1>16, <4>4, <2>1 DEF SetClock, Course
    <3> QED BY <1>0, <1>16, <3>1, HostType DEF SetClock
  <2>3. pc' \in Positions
    BY <1>0, <1>16 DEF SetClock, Command, Positions, Identifying, ExtCsd, Probing,
         SdSetup, Booting
  <2> QED BY <1>0, <1>t, <1>16, <2>1, <2>2, <2>3 DEF SetClock
<1>17. CASE SdApp
  <2>1. pc' \in Positions
    BY <1>0, <1>17 DEF SdApp, Command, Positions, Identifying, ExtCsd, Probing,
         SdSetup, Booting
  <2> QED BY <1>0, <1>t, <1>17, <2>1 DEF SdApp
<1>18. CASE SdScr
  <2>1. dev' \in Devs
    <3>1. PICK v \in VersionNames : dev' = dev \/ dev' = [dev EXCEPT !.version = v]
      <4>1. \A v \in {"sd1", "sd110", "sd2"} : v \in VersionNames
        BY DEF VersionNames
      <4>2. "sd1" \in VersionNames
        BY DEF VersionNames
      <4> QED BY <1>18, <4>1, <4>2 DEF SdScr
    <3> QED BY <1>0, <3>1, DevUpdate, ZenonT(60)
  <2>2. pc' \in Positions
    BY <1>0, <1>18 DEF SdScr, Command, Positions, Identifying, ExtCsd, Probing,
         SdSetup, Booting
  <2>3. polls' \in Nat
    BY <1>0, <1>18, MmcAssumption DEF SdScr
  <2> QED BY <1>0, <1>t, <1>18, <2>1, <2>2, <2>3 DEF SdScr
<1>19. CASE SdCheck
  <2>1. dev' \in Devs
    <3>1. PICK c \in SUBSET Caps : dev' = dev \/ dev' = [dev EXCEPT !.caps = c]
      <4>1. \A c \in SUBSET {"4"} : c \in SUBSET Caps
        BY DEF Caps
      <4>2. {} \in SUBSET Caps
        OBVIOUS
      <4> QED BY <1>19, <4>1, <4>2 DEF SdCheck
    <3> QED BY <1>0, <3>1, DevUpdate, ZenonT(60)
  <2>2. pc' \in Positions
    BY <1>0, <1>19 DEF SdCheck, Command, Positions, Identifying, ExtCsd, Probing,
         SdSetup, Booting
  <2>3. polls' \in Nat
    BY <1>0, <1>19, MmcAssumption DEF SdCheck
  <2> QED BY <1>0, <1>t, <1>19, <2>1, <2>2, <2>3 DEF SdCheck
<1>20. CASE SdSwitchHs
  <2>1. dev' \in Devs
    <3>1. PICK c \in SUBSET Caps : dev' = dev \/ dev' = [dev EXCEPT !.caps = c]
      <4>1. \A c \in SUBSET {"HS"} : dev.caps \cup c \in SUBSET Caps
        BY <1>0 DEF Devs, Caps
      <4> QED BY <1>20, <4>1 DEF SdSwitchHs
    <3> QED BY <1>0, <3>1, DevUpdate, ZenonT(60)
  <2>2. pc' \in Positions
    BY <1>0, <1>20 DEF SdSwitchHs, Command, Positions, Identifying, ExtCsd, Probing,
         SdSetup, Booting
  <2> QED BY <1>0, <1>t, <1>20, <2>1, <2>2 DEF SdSwitchHs
<1>21. CASE SdWidth
  <2>1. card' \in Cards
    <3>1. PICK m \in ModeSet : card' = card \/ card' = [card EXCEPT !.mode = m]
      BY <1>21, ModeType DEF SdWidth
    <3> QED BY <1>0, <3>1, CardUpdate
  <2>2. dev' \in Devs
    <3>1. PICK w \in BusWidths : dev' = dev \/ dev' = [dev EXCEPT !.width = w]
      BY <1>21 DEF SdWidth, BusWidths
    <3> QED BY <1>0, <3>1, DevUpdate, ZenonT(60)
  <2>3. host' \in Hosts
    <3>1. host' = host \/ (dev' = [dev EXCEPT !.width = 4] /\ host' = SetIos(dev'))
      BY <1>21 DEF SdWidth
    <3>2. [dev EXCEPT !.width = 4].width # 0
      BY <1>0 DEF Devs
    <3> QED BY <1>0, <2>2, <3>1, <3>2, HostType
  <2>4. pc' \in Positions
    BY <1>0, <1>21 DEF SdWidth, Command, Positions, Identifying, ExtCsd, Probing,
         SdSetup, Booting
  <2> QED BY <1>0, <1>t, <1>21, <2>1, <2>2, <2>3, <2>4 DEF SdWidth
<1>22. CASE BootRead
  <2>1. pc' \in Positions
    BY <1>0, <1>22 DEF BootRead, Command, Positions, Identifying, ExtCsd, Probing,
         SdSetup, Booting
  <2>8. local' \in Buffers
    <3>1. PICK ok, moved, ends \in BOOLEAN, part, width \in BOOLEAN, access \in {"user", "other"} :
            /\ Read(ok, moved, (IF ok /\ ~moved THEN {"blind"} ELSE {})
                                \cup (IF ends THEN {"failed"} ELSE {}))
            /\ moved => /\ part = card.part /\ width = card.bootWidth
                        /\ access = card.access
            /\ local' = [local EXCEPT !.part = part, !.width = width, !.access = access]
            /\ pc' = IF ~ok \/ ends \/ (part /\ width) THEN "off" ELSE "boot_part"
      BY <1>22 DEF BootRead
    <3> DEFINE l == [local EXCEPT !.part = part]
               k == [l EXCEPT !.width = width]
    <3>2. l \in Buffers
      BY <1>0 DEF Buffers
    <3>3. local' = [k EXCEPT !.access = access]
      BY <1>0, <3>1 DEF Buffers
    <3> HIDE DEF l
    <3>4. k \in Buffers
      BY <3>2 DEF Buffers
    <3> HIDE DEF k
    <3> QED BY <3>3, <3>4 DEF Buffers
  <2>9. events' \subseteq Marks
    BY <1>0, <1>22 DEF BootRead, Marks, Read, Switch
  <2> QED BY <1>0, <1>t, <1>22, <2>1, <2>8, <2>9 DEF BootRead
<1>23. CASE BootPart
  <2>1. card' \in Cards
    <3>1. \/ card' = card
          \/ card' = [card EXCEPT !.part = TRUE, !.access = local.access]
      BY <1>23 DEF BootPart
    <3>2. local.access \in {"user", "other"}
      BY <1>0 DEF Buffers
    <3>3. [card EXCEPT !.part = TRUE, !.access = local.access] \in Cards
      BY <1>0, <3>2, CardUpdate, Zenon
    <3> QED BY <1>0, <3>1, <3>3
  <2>2. pc' \in Positions
    BY <1>0, <1>23 DEF BootPart, Command, Positions, Identifying, ExtCsd, Probing,
         SdSetup, Booting
  <2>9. events' \subseteq Marks
    BY <1>0, <1>23 DEF BootPart, Marks, Read, Switch
  <2> QED BY <1>0, <1>t, <1>23, <2>1, <2>2, <2>9 DEF BootPart
<1>24. CASE BootWidth
  <2>1. card' \in Cards
    BY <1>0, <1>24 DEF BootWidth, Cards
  <2>2. pc' \in Positions
    BY <1>0, <1>24 DEF BootWidth, Command, Positions, Identifying, ExtCsd, Probing,
         SdSetup, Booting
  <2>9. events' \subseteq Marks
    BY <1>0, <1>24 DEF BootWidth, Marks, Read, Switch
  <2> QED BY <1>0, <1>t, <1>24, <2>1, <2>2, <2>9 DEF BootWidth
<1>25. CASE UNCHANGED vars
  BY <1>25, <1>0, <1>t DEF vars
<1> QED
  BY <1>1, <1>2, <1>3, <1>4, <1>5, <1>6, <1>7, <1>8, <1>9, <1>10, <1>11, <1>12, <1>13,
       <1>14, <1>15, <1>16, <1>17, <1>18, <1>19, <1>20, <1>21, <1>22, <1>23, <1>24,
       <1>25 DEF Next, Step

-----------------------------------------------------------------------------
(* What the actions that call set_ios do to each field *)

\* The driver's record, but for what an action names.
Rest(d, e) == d.version = e.version /\ d.rca = e.rca

LEMMA BeginFields ==
  ASSUME TypeOK, Begin
  PROVE  /\ pc = "off" /\ ~dev.isInit
         /\ UNCHANGED <<chip, test, idx, polls>> /\ local' = NoBuffers
         /\ \/ UNCHANGED <<card, host, dev, pc, events>>
            \/ /\ Rest(dev', dev) /\ dev'.caps = dev.caps /\ dev'.speed = dev.speed
               /\ dev'.isInit = dev.isInit /\ dev'.width = 1
               /\ host'.mode = Mode(1, "DDR" \in dev.caps) /\ host'.clock = MMC_CCLK_MIN
               /\ card'.state = "idle" /\ card'.mode = Mode(1, FALSE) /\ card'.rca = 0
               /\ card'.access = "user" /\ ~card'.hs
               /\ card'.part = card.part /\ card'.bootWidth = card.bootWidth
               /\ pc' = "go_idle" /\ events' = {}
<1>0. dev \in Devs /\ card \in Cards
  BY Types
<1> DEFINE d == [dev EXCEPT !.width = 1]
           c == WithClock(d, 0).clock
<1>1. d \in Devs
  <2>1. 1 \in BusWidths
    BY DEF BusWidths
  <2> QED BY <1>0, <2>1, DevUpdate, Zenon
<1>2. WithClock(d, 0) = [d EXCEPT !.clock = c] /\ c = MMC_CCLK_MIN /\ WithClock(d, 0) \in Devs
  <2>1. 0 \in 0 .. 520 /\ 0 < MMC_CCLK_MIN
    BY DEF MMC_CCLK_MIN
  <2> HIDE DEF d
  <2> QED BY <1>1, <2>1, ClockType, ZenonT(60)
<1>b. pc = "off" /\ ~dev.isInit /\ UNCHANGED <<chip, test, idx, polls>> /\ local' = NoBuffers
  BY DEF Begin
<1>3. SUFFICES ASSUME dev' = WithClock(d, 0), host' = SetIos(dev'), card' = PowerCycled,
                      pc' = "go_idle", events' = {}
               PROVE  /\ Rest(dev', dev) /\ dev'.caps = dev.caps /\ dev'.speed = dev.speed
                      /\ dev'.isInit = dev.isInit /\ dev'.width = 1
                      /\ host'.mode = Mode(1, "DDR" \in dev.caps)
                      /\ host'.clock = MMC_CCLK_MIN
                      /\ card'.state = "idle" /\ card'.mode = Mode(1, FALSE)
                      /\ card'.rca = 0 /\ card'.access = "user" /\ ~card'.hs
                      /\ card'.part = card.part /\ card'.bootWidth = card.bootWidth
  BY <1>b DEF Begin
<1> DEFINE m == Mode(1, FALSE)
<1>4. /\ card'.state = "idle" /\ card'.mode = m /\ card'.rca = 0
      /\ card'.access = "user" /\ ~card'.hs
      /\ card'.part = card.part /\ card'.bootWidth = card.bootWidth
  <2> HIDE DEF m
  <2> QED BY <1>0, <1>3 DEF PowerCycled, Cards, m
<1> HIDE DEF c
<1>5. /\ Rest(dev', dev) /\ dev'.caps = dev.caps /\ dev'.speed = dev.speed
      /\ dev'.isInit = dev.isInit /\ dev'.width = 1 /\ dev'.clock = MMC_CCLK_MIN
  <2>1. /\ Rest(d, dev) /\ d.caps = dev.caps /\ d.speed = dev.speed
        /\ d.isInit = dev.isInit /\ d.width = 1
    BY <1>0 DEF Devs, Rest
  <2> HIDE DEF d
  <2> QED BY <1>1, <1>2, <1>3, <2>1 DEF Devs, Rest
<1>6. host'.mode = Mode(1, "DDR" \in dev.caps)
  BY <1>3, <1>5 DEF SetIos
<1>7. host'.clock = MMC_CCLK_MIN
  BY <1>3, <1>5, LowestClock DEF SetIos, MMC_CCLK_MIN
<1> QED BY <1>4, <1>5, <1>6, <1>7

LEMMA ProbeFields ==
  ASSUME TypeOK, ProbeWidth
  PROVE  /\ pc = "probe" /\ UNCHANGED <<chip, test, local, polls>>
         /\ Rest(dev', dev) /\ dev'.caps = dev.caps /\ dev'.speed = dev.speed
         /\ dev'.isInit = dev.isInit /\ dev'.width \in {dev.width, Widths[idx].width}
         /\ pc' = "test" => /\ dev'.width = Widths[idx].width /\ idx' = idx
                            /\ host'.mode = Mode(dev'.width, "DDR" \in dev.caps)
         /\ pc' # "test" => UNCHANGED <<dev, host>> /\ "failed" \in events'
         /\ Widths[idx].width # 0
         /\ card'.state = card.state /\ card'.access = card.access
         /\ card'.hs = card.hs /\ card'.rca = card.rca
         /\ card' = card \/ card' = [card EXCEPT !.mode = Widths[idx]]
         /\ card'.mode # card.mode =>
              card'.mode = Widths[idx] /\ (Widths[idx].ddr => chip.ddr)
         /\ pc' = "probe" => idx < 5 /\ idx' = idx + 1
         /\ pc' \in Probing
<1>0. dev \in Devs /\ card \in Cards /\ idx \in 1 .. 5
  BY Types
<1>1. PICK ok, done \in BOOLEAN :
        /\ Switch(ok, done)
        /\ card' = IF done /\ (Widths[idx].ddr => chip.ddr)
                   THEN [card EXCEPT !.mode = Widths[idx]] ELSE card
        /\ \/ /\ ok
              /\ dev' = [dev EXCEPT !.width = Widths[idx].width]
              /\ host' = SetIos(dev')
              /\ pc' = "test" /\ UNCHANGED idx
           \/ /\ ~ok
              /\ NextProbe /\ UNCHANGED <<dev, host>>
  BY DEF ProbeWidth
<1>2. Widths[idx].width # 0
  BY <1>0, ModeType
<1>3. card' = card \/ card' = [card EXCEPT !.mode = Widths[idx]]
  BY <1>1
<1>4. /\ card'.state = card.state /\ card'.access = card.access
      /\ card'.hs = card.hs /\ card'.rca = card.rca
  BY <1>0, <1>3 DEF Cards
<1>m. card'.mode # card.mode => card'.mode = Widths[idx] /\ (Widths[idx].ddr => chip.ddr)
  BY <1>0, <1>1 DEF Cards
<1>p. pc = "probe" /\ UNCHANGED <<chip, test, local, polls>>
  BY DEF ProbeWidth
<1>5. CASE ~ok
  BY <1>1, <1>2, <1>3, <1>4, <1>5, <1>m, <1>p, Modes DEF NextProbe, Switch, Rest, Probing
<1>6. CASE ok
  <2>1. dev' = [dev EXCEPT !.width = Widths[idx].width]
    BY <1>1, <1>6
  <2>2. /\ Rest(dev', dev) /\ dev'.caps = dev.caps /\ dev'.speed = dev.speed
        /\ dev'.isInit = dev.isInit /\ dev'.width = Widths[idx].width
    BY <1>0, <2>1 DEF Devs, Rest
  <2>3. host'.mode = Mode(dev'.width, "DDR" \in dev.caps)
    BY <1>1, <1>6, <2>2 DEF SetIos
  <2> QED BY <1>1, <1>2, <1>3, <1>4, <1>6, <1>m, <1>p, <2>2, <2>3 DEF Probing
<1> QED BY <1>5, <1>6

LEMMA SetClockFields ==
  ASSUME TypeOK, SetClock, dev.width # 0
  PROVE  /\ pc = "clock" /\ pc' = "boot"
         /\ UNCHANGED <<chip, card, test, local, idx, polls, events>>
         /\ Rest(dev', dev) /\ dev'.caps = dev.caps /\ dev'.speed = Speed
         /\ dev'.isInit /\ dev'.width = dev.width
         /\ host'.mode = Mode(dev.width, "DDR" \in dev.caps)
         /\ host'.clock \in 1 .. MMC_CCLK_MAX
         /\ Speed >= MMC_CCLK_MIN => host'.clock <= Speed
         /\ Speed < MMC_CCLK_MIN => host'.clock <= MMC_CCLK_MIN
<1>0. dev \in Devs
  BY Types
<1> DEFINE w == WithClock(dev, Speed)
           c == w.clock
<1>1. /\ w \in Devs /\ w = [dev EXCEPT !.clock = c] /\ c \in MMC_CCLK_MIN .. MMC_CCLK_MAX
      /\ Speed >= MMC_CCLK_MIN => c <= Speed
      /\ Speed < MMC_CCLK_MIN => c = MMC_CCLK_MIN
  BY <1>0, SpeedType, ClockType, ZenonT(60)
<1>2. dev' = [w EXCEPT !.speed = Speed, !.isInit = TRUE] /\ host' = SetIos(dev')
  BY DEF SetClock
<1>3. dev' \in Devs
  BY <1>0, <1>2, SpeedType
<1> HIDE DEF c
<1>4. /\ Rest(w, dev) /\ w.caps = dev.caps /\ w.width = dev.width /\ w.clock = c
  BY <1>0, <1>1 DEF Devs, Rest, c
<1> HIDE DEF w
<1>5. /\ Rest(dev', dev) /\ dev'.caps = dev.caps /\ dev'.speed = Speed
      /\ dev'.isInit /\ dev'.width = dev.width /\ dev'.clock = c
  BY <1>1, <1>2, <1>4 DEF Devs, Rest
<1>6. c # 0 /\ c \in Int
  BY <1>1 DEF MMC_CCLK_MIN, MMC_CCLK_MAX
<1>7. /\ SetIos(dev').mode = Mode(dev'.width, "DDR" \in dev'.caps)
      /\ SetIos(dev').clock \in 1 .. c
  BY <1>3, <1>5, <1>6, HostType
<1>8. Speed \in 0 .. 520
  BY <1>0, SpeedType
<1>9. host'.mode = Mode(dev.width, "DDR" \in dev.caps) /\ host'.clock \in 1 .. c
  BY <1>2, <1>5, <1>7
<1>10. /\ host'.clock \in 1 .. MMC_CCLK_MAX
       /\ Speed >= MMC_CCLK_MIN => host'.clock <= Speed
       /\ Speed < MMC_CCLK_MIN => host'.clock <= MMC_CCLK_MIN
  <2> DEFINE h == host'.clock
  <2>1. c \in 4 .. 500 /\ (Speed >= 4 => c <= Speed) /\ (Speed < 4 => c = 4)
    BY <1>1 DEF MMC_CCLK_MIN, MMC_CCLK_MAX
  <2>2. h \in 1 .. c
    BY <1>9
  <2> HIDE DEF h
  <2>3. h \in 1 .. 500 /\ (Speed >= 4 => h <= Speed) /\ (Speed < 4 => h <= 4)
    BY <1>8, <2>1, <2>2
  <2> QED BY <2>3 DEF h, MMC_CCLK_MIN, MMC_CCLK_MAX
<1> QED BY <1>5, <1>9, <1>10 DEF SetClock

LEMMA SdWidthFields ==
  ASSUME TypeOK, SdWidth
  PROVE  /\ Rest(dev', dev) /\ dev'.caps = dev.caps /\ dev'.speed = dev.speed
         /\ dev'.isInit = dev.isInit /\ dev'.width \in {dev.width, 4}
         /\ card'.state = card.state /\ card'.access = card.access /\ card'.rca = card.rca
         /\ pc' \in {"off", "clock"} /\ pc = "sd_width"
         /\ UNCHANGED <<chip, test, local, idx, polls, events>>
<1>0. dev \in Devs /\ card \in Cards
  BY Types
<1>1. card' = card \/ card' = [card EXCEPT !.mode = Mode(4, FALSE)]
  BY DEF SdWidth
<1>2. dev' = dev \/ dev' = [dev EXCEPT !.width = 4]
  BY DEF SdWidth
<1>3. card'.state = card.state /\ card'.access = card.access /\ card'.rca = card.rca
  BY <1>0, <1>1 DEF Cards
<1>4. /\ Rest(dev', dev) /\ dev'.caps = dev.caps /\ dev'.speed = dev.speed
      /\ dev'.isInit = dev.isInit /\ dev'.width \in {dev.width, 4}
  BY <1>0, <1>2 DEF Devs, Rest
<1> QED BY <1>3, <1>4 DEF SdWidth, Command

\* A step that changes no more of the card than its state.
LEMMA ReadyFields ==
  ASSUME TypeOK, CardReady
  PROVE  /\ card'.state = "ready" /\ card'.mode = card.mode /\ card'.rca = card.rca
         /\ card'.access = card.access /\ card'.hs = card.hs
  BY Types DEF CardReady, Cards

LEMMA SdOpFields ==
  ASSUME TypeOK, SdSendOpCond
  PROVE  /\ pc = "sd_op" /\ pc' \in {"sd_op", "mmc_op", "cid"}
         /\ UNCHANGED <<chip, host, test, local, idx, events>>
         /\ UNCHANGED card \/ (chip.kind = "sd" /\ CardReady)
         /\ dev'.caps = dev.caps /\ dev'.speed = dev.speed
         /\ dev'.isInit = dev.isInit /\ dev'.width = dev.width
         /\ \/ Rest(dev', dev)
            \/ chip.kind = "sd" /\ dev'.version \in {"sd1", "sd2"} /\ dev'.rca = 0
<1>0. dev \in Devs
  BY Types
<1>1. PICK v \in {"sd1", "sd2"} :
        \/ dev' = dev
        \/ chip.kind = "sd" /\ dev' = [dev EXCEPT !.version = v, !.rca = 0]
  BY DEF SdSendOpCond
<1>2. /\ dev'.caps = dev.caps /\ dev'.speed = dev.speed
      /\ dev'.isInit = dev.isInit /\ dev'.width = dev.width
      /\ \/ Rest(dev', dev)
         \/ chip.kind = "sd" /\ dev'.version \in {"sd1", "sd2"} /\ dev'.rca = 0
  BY <1>0, <1>1 DEF Devs, Rest
<1>3. UNCHANGED card \/ (chip.kind = "sd" /\ CardReady)
  BY DEF SdSendOpCond
<1> QED BY <1>2, <1>3 DEF SdSendOpCond

LEMMA MmcOpFields ==
  ASSUME TypeOK, MmcSendOpCond
  PROVE  /\ pc = "mmc_op"
         /\ UNCHANGED <<chip, host, test, local, idx, events>>
         /\ dev'.caps = dev.caps /\ dev'.speed = dev.speed
         /\ dev'.isInit = dev.isInit /\ dev'.width = dev.width
         /\ \/ Rest(dev', dev) /\ UNCHANGED card /\ pc' \in {"off", "mmc_op"}
            \/ /\ chip.kind # "sd" /\ dev'.version = "unknown" /\ dev'.rca = 0
               /\ CardReady /\ pc' = "cid"
<1>0. dev \in Devs
  BY Types
<1>1. CASE UNCHANGED <<card, dev>> /\ pc' \in {"off", "mmc_op"}
  BY <1>1 DEF Rest, MmcSendOpCond
<1>2. CASE /\ dev' = [dev EXCEPT !.version = "unknown", !.rca = 0]
           /\ chip.kind # "sd" /\ CardReady /\ pc' = "cid"
  <2>1. /\ dev'.caps = dev.caps /\ dev'.speed = dev.speed
        /\ dev'.isInit = dev.isInit /\ dev'.width = dev.width
        /\ dev'.version = "unknown" /\ dev'.rca = 0
    BY <1>0, <1>2 DEF Devs
  <2> QED BY <1>2, <2>1 DEF MmcSendOpCond
<1> QED BY <1>1, <1>2 DEF MmcSendOpCond

LEMMA CsdFields ==
  ASSUME TypeOK, SendCsd
  PROVE  /\ pc = "csd" /\ UNCHANGED <<chip, card, host, test, local, idx, polls, events>>
         /\ dev'.caps = dev.caps /\ dev'.rca = dev.rca
         /\ dev'.isInit = dev.isInit /\ dev'.width = dev.width
         /\ \/ pc' = "off" /\ dev'.version = dev.version
            \/ /\ pc' = "select" /\ dev.rca = card.rca /\ dev'.speed = CsdSpeed
               /\ dev'.version = IF dev.version # "unknown" THEN dev.version
                                 ELSE IF chip.kind = "mmc4" THEN "v4" ELSE "old"
<1>0. dev \in Devs
  BY Types
<1>1. PICK ok \in BOOLEAN :
        /\ ok => dev.rca = card.rca
        /\ Command("csd", ok, "select")
        /\ dev' = [dev EXCEPT !.version =
                     IF ~ok \/ @ # "unknown" THEN @
                     ELSE IF chip.kind = "mmc4" THEN "v4" ELSE "old",
                   !.speed = IF ok THEN CsdSpeed ELSE @]
  BY DEF SendCsd
<1> DEFINE v == IF ~ok \/ dev.version # "unknown" THEN dev.version
                ELSE IF chip.kind = "mmc4" THEN "v4" ELSE "old"
           sp == IF ok THEN CsdSpeed ELSE dev.speed
<1>2. dev' = [dev EXCEPT !.version = v, !.speed = sp]
  BY <1>1
<1> HIDE DEF v, sp
<1>3. /\ dev'.caps = dev.caps /\ dev'.rca = dev.rca
      /\ dev'.isInit = dev.isInit /\ dev'.width = dev.width
      /\ dev'.version = v /\ dev'.speed = sp
  BY <1>0, <1>2 DEF Devs
<1>4. UNCHANGED <<chip, card, host, test, local, idx, polls, events>>
  BY DEF SendCsd
<1> QED BY <1>1, <1>3, <1>4 DEF Command, v, sp

LEMMA SelectFields ==
  ASSUME TypeOK, SelectCard
  PROVE  /\ pc = "select" /\ idx' = 1 /\ UNCHANGED <<chip, host, test, local, polls, events>>
         /\ Rest(dev', dev) /\ dev'.speed = dev.speed
         /\ dev'.isInit = dev.isInit /\ dev'.width = dev.width
         /\ card'.mode = card.mode /\ card'.rca = card.rca
         /\ card'.access = card.access /\ card'.hs = card.hs
         /\ \/ pc' = "off" /\ card'.state = card.state /\ dev'.caps = dev.caps
            \/ /\ card'.state = "tran"
               /\ dev'.caps = IF dev.version = "v4" THEN dev.caps ELSE {}
               /\ pc' = IF IsSd THEN "scr_app"
                        ELSE IF dev.version = "v4" THEN "ext_csd" ELSE "probe"
<1>0. dev \in Devs /\ card \in Cards
  BY Types
<1>1. PICK ok \in BOOLEAN :
        /\ Command("select", ok, IF IsSd THEN "scr_app"
                                 ELSE IF dev.version = "v4" THEN "ext_csd" ELSE "probe")
        /\ card' = IF ok THEN [card EXCEPT !.state = "tran"] ELSE card
        /\ dev' = IF ok /\ dev.version # "v4" THEN [dev EXCEPT !.caps = {}] ELSE dev
  BY DEF SelectCard
<1>2. /\ card'.mode = card.mode /\ card'.rca = card.rca
      /\ card'.access = card.access /\ card'.hs = card.hs
      /\ card'.state = IF ok THEN "tran" ELSE card.state
  BY <1>0, <1>1 DEF Cards
<1>3. /\ Rest(dev', dev) /\ dev'.speed = dev.speed
      /\ dev'.isInit = dev.isInit /\ dev'.width = dev.width
      /\ dev'.caps = IF ok /\ dev.version # "v4" THEN {} ELSE dev.caps
  BY <1>0, <1>1 DEF Devs, Rest
<1>4. idx' = 1 /\ UNCHANGED <<chip, host, test, local, polls, events>>
  BY DEF SelectCard
<1> QED BY <1>1, <1>2, <1>3, <1>4 DEF Command

\* The steps that set the capabilities alone.
LEMMA CapsFields ==
  ASSUME TypeOK, SendExtCsd \/ Timing \/ TestWidth \/ SdCheck \/ SdSwitchHs
  PROVE  /\ UNCHANGED <<chip, card, host>>
         /\ Rest(dev', dev) /\ dev'.speed = dev.speed
         /\ dev'.isInit = dev.isInit /\ dev'.width = dev.width
<1>0. dev \in Devs
  BY Types
<1>1. \E c : dev' = dev \/ dev' = [dev EXCEPT !.caps = c]
  <2>1. CASE SendExtCsd
    BY <2>1 DEF SendExtCsd
  <2>2. CASE Timing
    BY <2>2 DEF Timing
  <2>3. CASE TestWidth
    BY <2>3 DEF TestWidth
  <2>4. CASE SdCheck
    BY <2>4 DEF SdCheck
  <2>5. CASE SdSwitchHs
    BY <2>5 DEF SdSwitchHs
  <2> QED BY <2>1, <2>2, <2>3, <2>4, <2>5
<1>2. /\ Rest(dev', dev) /\ dev'.speed = dev.speed
      /\ dev'.isInit = dev.isInit /\ dev'.width = dev.width
  BY <1>0, <1>1 DEF Devs, Rest
<1>3. UNCHANGED <<chip, card, host>>
  BY DEF SendExtCsd, Timing, TestWidth, SdCheck, SdSwitchHs
<1> QED BY <1>2, <1>3

LEMMA ScrFields ==
  ASSUME TypeOK, SdScr
  PROVE  /\ pc = "scr" /\ pc' \in {"scr", "off", "sd_width", "sd_check"}
         /\ UNCHANGED <<chip, card, host, test, local, idx, events>>
         /\ dev'.caps = dev.caps /\ dev'.speed = dev.speed /\ dev'.rca = dev.rca
         /\ dev'.isInit = dev.isInit /\ dev'.width = dev.width
         /\ dev'.version = dev.version \/ dev'.version \in {"sd1", "sd110", "sd2"}
<1>0. dev \in Devs
  BY Types
<1>1. PICK v \in {"sd1", "sd110", "sd2"} : dev' = dev \/ dev' = [dev EXCEPT !.version = v]
  BY DEF SdScr
<1>2. /\ dev'.caps = dev.caps /\ dev'.speed = dev.speed /\ dev'.rca = dev.rca
      /\ dev'.isInit = dev.isInit /\ dev'.width = dev.width
      /\ dev'.version = dev.version \/ dev'.version = v
  BY <1>0, <1>1 DEF Devs
<1> QED BY <1>2 DEF SdScr

LEMMA HsFields ==
  ASSUME TypeOK, SwitchHs
  PROVE  /\ pc = "hs" /\ pc' \in {"timing", "off"}
         /\ UNCHANGED <<chip, host, dev, test, local, idx, polls>>
         /\ card'.state = card.state /\ card'.mode = card.mode /\ card'.rca = card.rca
         /\ card'.access = card.access
         /\ "failed" \notin events' => card'.hs
<1>0. card \in Cards
  BY Types
<1>1. PICK ok, done \in BOOLEAN :
        /\ Command("hs", ok, "timing") /\ Switch(ok, done)
        /\ card' = [card EXCEPT !.hs = @ \/ done]
  BY DEF SwitchHs
<1>2. /\ card'.state = card.state /\ card'.mode = card.mode /\ card'.rca = card.rca
      /\ card'.access = card.access /\ (done => card'.hs)
  BY <1>0, <1>1 DEF Cards
<1>3. "failed" \notin events' => done
  BY <1>1 DEF Switch
<1> QED BY <1>1, <1>2, <1>3 DEF SwitchHs, Command

LEMMA BootFields ==
  ASSUME TypeOK, BootPart \/ BootWidth
  PROVE  /\ UNCHANGED <<chip, host, dev, test, local, idx, polls>>
         /\ card'.state = card.state /\ card'.mode = card.mode /\ card'.rca = card.rca
         /\ card'.hs = card.hs
         /\ pc \in {"boot_part", "boot_width"} /\ pc' \in {"boot_width", "off"}
<1>0. card \in Cards
  BY Types
<1>1. \E a : \/ card' = card
             \/ card' = [card EXCEPT !.part = TRUE, !.access = a]
             \/ card' = [card EXCEPT !.bootWidth = TRUE]
  <2>1. CASE BootPart
    BY <2>1 DEF BootPart
  <2>2. CASE BootWidth
    BY <2>2 DEF BootWidth
  <2> QED BY <2>1, <2>2
<1>2. /\ card'.state = card.state /\ card'.mode = card.mode /\ card'.rca = card.rca
      /\ card'.hs = card.hs
  BY <1>0, <1>1 DEF Cards
<1>3. /\ UNCHANGED <<chip, host, dev, test, local, idx, polls>>
      /\ pc \in {"boot_part", "boot_width"} /\ pc' \in {"boot_width", "off"}
  <2>1. CASE BootPart
    BY <2>1 DEF BootPart
  <2>2. CASE BootWidth
    BY <2>2 DEF BootWidth
  <2> QED BY <2>1, <2>2
<1> QED BY <1>2, <1>3

LEMMA BootReadFields ==
  ASSUME TypeOK, BootRead
  PROVE  /\ pc = "boot" /\ UNCHANGED <<chip, card, host, dev, test, idx, polls>>
         /\ local'.rev = local.rev
         /\ \E ok, moved, ends \in BOOLEAN :
              /\ Read(ok, moved, (IF ok /\ ~moved THEN {"blind"} ELSE {})
                                  \cup (IF ends THEN {"failed"} ELSE {}))
              /\ moved => /\ local'.part = card.part /\ local'.width = card.bootWidth
                          /\ local'.access = card.access
              /\ pc' = IF ~ok \/ ends \/ (local'.part /\ local'.width) THEN "off"
                       ELSE "boot_part"
<1>0. local \in Buffers
  BY Types
<1>1. PICK ok, moved, ends \in BOOLEAN, part, width \in BOOLEAN, access \in {"user", "other"} :
        /\ Read(ok, moved, (IF ok /\ ~moved THEN {"blind"} ELSE {})
                            \cup (IF ends THEN {"failed"} ELSE {}))
        /\ moved => /\ part = card.part /\ width = card.bootWidth
                    /\ access = card.access
        /\ local' = [local EXCEPT !.part = part, !.width = width, !.access = access]
        /\ pc' = IF ~ok \/ ends \/ (part /\ width) THEN "off" ELSE "boot_part"
  BY DEF BootRead
<1>2. /\ local'.rev = local.rev /\ local'.part = part /\ local'.width = width
      /\ local'.access = access
  BY <1>0, <1>1 DEF Buffers
<1>3. /\ moved => /\ local'.part = card.part /\ local'.width = card.bootWidth
                  /\ local'.access = card.access
      /\ pc' = IF ~ok \/ ends \/ (local'.part /\ local'.width) THEN "off" ELSE "boot_part"
  BY <1>1, <1>2
<1>4. pc = "boot" /\ UNCHANGED <<chip, card, host, dev, test, idx, polls>>
  BY DEF BootRead
<1> QED BY <1>1, <1>2, <1>3, <1>4

\* Only a new attempt forgets what has gone wrong.
LEMMA EventsGrow == Step => events \subseteq events'
<1> USE DEF Read, Switch
<1>1. GoIdle \/ SendIfCond \/ SdSendOpCond \/ MmcSendOpCond \/ AllSendCid => events' = events
  BY DEF GoIdle, SendIfCond, SdSendOpCond, MmcSendOpCond, AllSendCid
<1>2. RelativeAddr \/ SendCsd \/ SelectCard \/ SetClock => events' = events
  BY DEF RelativeAddr, SendCsd, SelectCard, SetClock
<1>3. SdApp \/ SdScr \/ SdCheck \/ SdSwitchHs \/ SdWidth => events' = events
  BY DEF SdApp, SdScr, SdCheck, SdSwitchHs, SdWidth
<1>4. SendExtCsd => events \subseteq events'
  BY DEF SendExtCsd
<1>5. CardType => events \subseteq events'
  BY DEF CardType
<1>6. SwitchHs => events \subseteq events'
  BY DEF SwitchHs
<1>7. Timing => events \subseteq events'
  BY DEF Timing
<1>8. ProbeWidth => events \subseteq events'
  BY DEF ProbeWidth
<1>9. TestWidth => events \subseteq events'
  BY DEF TestWidth
<1>10. BootRead => events \subseteq events'
  BY DEF BootRead
<1>11. BootPart => events \subseteq events'
  BY DEF BootPart
<1>12. BootWidth => events \subseteq events'
  BY DEF BootWidth
<1> QED
  BY <1>1, <1>2, <1>3, <1>4, <1>5, <1>6, <1>7, <1>8, <1>9, <1>10, <1>11, <1>12 DEF Step

LEMMA OneBitWorks ==
  ASSUME chip \in Chips
  PROVE  Mode(1, FALSE) \in chip.works
<1> DEFINE m == Mode(1, FALSE)
<1>1. \E b : chip.works = {m} \cup b
  BY DEF Chips
<1> HIDE DEF m
<1>2. m \in chip.works
  BY <1>1
<1> QED BY <1>2 DEF m

\* While the extended CSD is read the first times one bit is all that is used,
\* and any card works with that.
LEMMA TalkingFirst ==
  ASSUME IInv, pc \in ExtCsd
  PROVE  Talking /\ chip.kind = "mmc4" /\ ~dev.isInit
<1>1. card.state = "tran"
  BY DEF IInv, Course
<1>2. host.mode = Mode(1, FALSE) /\ card.mode = Mode(1, FALSE)
  BY DEF IInv, Slow
<1>3. Mode(1, FALSE) \in chip.works
  BY OneBitWorks, Types DEF IInv
<1>4. chip.kind = "mmc4"
  BY DEF IInv, Versions
<1>5. ~dev.isInit
  BY DEF IInv, Course, ExtCsd, Booting
<1> QED BY <1>1, <1>2, <1>3, <1>4, <1>5 DEF Talking

\* A read that nothing stands in the way of has moved its data or is a failure.
LEMMA ReadDone ==
  ASSUME NEW ok \in BOOLEAN, NEW moved \in BOOLEAN, NEW more, Read(ok, moved, more),
         Talking, "failed" \notin events'
  PROVE  ok /\ moved /\ "failed" \notin events
  BY DEF Read

LEMMA CourseStep ==
  ASSUME IInv, [Next]_vars
  PROVE  Course'
<1>0. /\ card \in Cards /\ dev \in Devs /\ idx \in 1 .. 5 /\ TypeOK /\ Course
  BY Types DEF IInv
<1>1. CASE Begin
  <2>1. CASE UNCHANGED <<card, host, dev, pc, events>>
    BY <1>0, <1>1, <2>1, BeginFields DEF Rest, Course, ExtCsd, Probing, SdSetup, Booting
  <2>2. CASE pc' = "go_idle"
    BY <1>0, <1>1, <2>2, BeginFields DEF Rest, Course, ExtCsd, Probing, SdSetup, Booting
  <2> QED BY <1>0, <1>1, <2>1, <2>2, BeginFields
<1>2. CASE GoIdle
  BY <1>0, <1>2 DEF GoIdle, Command, Course, ExtCsd, Probing, SdSetup, Booting
<1>3. CASE SendIfCond
  BY <1>0, <1>3 DEF SendIfCond, Course, ExtCsd, Probing, SdSetup, Booting
<1>4. CASE SdSendOpCond
  BY <1>0, <1>4, SdOpFields, ReadyFields DEF Rest, Course, ExtCsd, Probing, SdSetup, Booting
<1>5. CASE MmcSendOpCond
  BY <1>0, <1>5, MmcOpFields, ReadyFields DEF Rest, Course, ExtCsd, Probing, SdSetup,
       Booting
<1>6. CASE AllSendCid
  BY <1>0, <1>6 DEF AllSendCid, Command, Course, ExtCsd, Probing, SdSetup, Booting, Cards
<1>7. CASE RelativeAddr
  BY <1>0, <1>7 DEF RelativeAddr, Command, Course, ExtCsd, Probing, SdSetup, Booting,
       Cards, Devs
<1>8. CASE SendCsd
  BY <1>0, <1>8, CsdFields DEF Rest, Course, ExtCsd, Probing, SdSetup, Booting
<1>9. CASE SelectCard
  BY <1>0, <1>9, SelectFields DEF Rest, Course, ExtCsd, Probing, SdSetup, Booting
<1>10. CASE SendExtCsd
  BY <1>0, <1>10 DEF SendExtCsd, Command, Course, ExtCsd, Probing, SdSetup, Booting, Devs
<1>11. CASE CardType
  BY <1>0, <1>11 DEF CardType, Command, Course, ExtCsd, Probing, SdSetup, Booting
<1>12. CASE SwitchHs
  BY <1>0, <1>12 DEF SwitchHs, Command, Course, ExtCsd, Probing, SdSetup, Booting, Cards
<1>13. CASE Timing
  BY <1>0, <1>13 DEF Timing, Command, Course, ExtCsd, Probing, SdSetup, Booting, Devs
<1>14. CASE ProbeWidth
  BY <1>0, <1>14, ProbeFields DEF Rest, Course, ExtCsd, Probing, SdSetup, Booting
<1>15. CASE TestWidth
  BY <1>0, <1>15 DEF TestWidth, NextProbe, Course, ExtCsd, Probing, SdSetup, Booting, Devs
<1>16. CASE SetClock
  BY <1>0, <1>16, SetClockFields DEF SetClock, Course, ExtCsd, Probing, SdSetup, Booting
<1>17. CASE SdApp
  BY <1>0, <1>17 DEF SdApp, Command, Course, ExtCsd, Probing, SdSetup, Booting
<1>18. CASE SdScr
  BY <1>0, <1>18, ScrFields DEF Rest, Course, ExtCsd, Probing, SdSetup, Booting
<1>19. CASE SdCheck
  BY <1>0, <1>19 DEF SdCheck, Course, ExtCsd, Probing, SdSetup, Booting, Devs
<1>20. CASE SdSwitchHs
  BY <1>0, <1>20 DEF SdSwitchHs, Command, Course, ExtCsd, Probing, SdSetup, Booting, Devs
<1>21. CASE SdWidth
  BY <1>0, <1>21, SdWidthFields DEF Rest, Course, ExtCsd, Probing, SdSetup, Booting
<1>22. CASE BootRead
  BY <1>0, <1>22 DEF BootRead, Course, ExtCsd, Probing, SdSetup, Booting
<1>23. CASE BootPart
  BY <1>0, <1>23 DEF BootPart, Course, ExtCsd, Probing, SdSetup, Booting, Cards
<1>24. CASE BootWidth
  BY <1>0, <1>24 DEF BootWidth, Course, ExtCsd, Probing, SdSetup, Booting, Cards
<1>25. CASE UNCHANGED vars
  BY <1>0, <1>25 DEF vars, Course, ExtCsd, Probing, SdSetup, Booting
<1> QED BY <1>1, <1>2, <1>3, <1>4, <1>5, <1>6, <1>7, <1>8, <1>9, <1>10, <1>11, <1>12,
       <1>13, <1>14, <1>15, <1>16, <1>17, <1>18, <1>19, <1>20, <1>21, <1>22, <1>23,
       <1>24, <1>25 DEF Next, Step

LEMMA VersionsStep ==
  ASSUME IInv, [Next]_vars
  PROVE  Versions'
<1>0. /\ card \in Cards /\ dev \in Devs /\ chip \in Chips /\ TypeOK /\ Course /\ Versions
  BY Types DEF IInv
<1>1. CASE Begin
  <2>1. CASE UNCHANGED <<card, host, dev, pc, events>>
    BY <1>0, <1>1, <2>1, BeginFields DEF Rest, Versions, IsSd, Course, ExtCsd, Probing,
       SdSetup, Booting
  <2>2. CASE pc' = "go_idle"
    BY <1>0, <1>1, <2>2, BeginFields DEF Rest, Versions, IsSd, Course, ExtCsd, Probing,
       SdSetup, Booting
  <2> QED BY <1>0, <1>1, <2>1, <2>2, BeginFields
<1>2. CASE GoIdle
  BY <1>0, <1>2 DEF GoIdle, Command, Versions, IsSd, Course, ExtCsd, Probing, SdSetup,
       Booting
<1>3. CASE SendIfCond
  BY <1>0, <1>3 DEF SendIfCond, Versions, IsSd, Course, ExtCsd, Probing, SdSetup, Booting
<1>4. CASE SdSendOpCond
  BY <1>0, <1>4, SdOpFields, ReadyFields DEF Rest, Versions, IsSd, Course, ExtCsd,
       Probing, SdSetup, Booting
<1>5. CASE MmcSendOpCond
  BY <1>0, <1>5, MmcOpFields, ReadyFields DEF Rest, Versions, IsSd, Course, ExtCsd,
       Probing, SdSetup, Booting
<1>6. CASE AllSendCid
  BY <1>0, <1>6 DEF AllSendCid, Command, Versions, IsSd, Course, ExtCsd, Probing,
       SdSetup, Booting, Cards
<1>7. CASE RelativeAddr
  BY <1>0, <1>7 DEF RelativeAddr, Command, Versions, IsSd, Course, ExtCsd, Probing,
       SdSetup, Booting, Cards, Devs
<1>8. CASE SendCsd
  <2>1. chip.kind \in {"sd", "old", "mmc4"}
    BY <1>0 DEF Chips
  <2> QED
    BY <1>0, <1>8, <2>1, CsdFields DEF Versions, IsSd, Course, ExtCsd, Probing, SdSetup,
       Booting
<1>9. CASE SelectCard
  BY <1>0, <1>9, SelectFields DEF Rest, Versions, IsSd, Course, ExtCsd, Probing, SdSetup,
       Booting
<1>10. CASE SendExtCsd
  BY <1>0, <1>10 DEF SendExtCsd, Command, Versions, IsSd, Course, ExtCsd, Probing,
       SdSetup, Booting, Devs
<1>11. CASE CardType
  BY <1>0, <1>11 DEF CardType, Command, Versions, IsSd, Course, ExtCsd, Probing, SdSetup,
       Booting
<1>12. CASE SwitchHs
  BY <1>0, <1>12 DEF SwitchHs, Command, Versions, IsSd, Course, ExtCsd, Probing, SdSetup,
       Booting, Cards
<1>13. CASE Timing
  BY <1>0, <1>13 DEF Timing, Command, Versions, IsSd, Course, ExtCsd, Probing, SdSetup,
       Booting, Devs
<1>14. CASE ProbeWidth
  BY <1>0, <1>14, ProbeFields DEF Rest, Versions, IsSd, Course, ExtCsd, Probing, SdSetup,
       Booting
<1>15. CASE TestWidth
  BY <1>0, <1>15 DEF TestWidth, NextProbe, Versions, IsSd, Course, ExtCsd, Probing,
       SdSetup, Booting, Devs
<1>16. CASE SetClock
  BY <1>0, <1>16, SetClockFields DEF Rest, SetClock, Versions, IsSd, Course, ExtCsd,
       Probing, SdSetup, Booting
<1>17. CASE SdApp
  BY <1>0, <1>17 DEF SdApp, Command, Versions, IsSd, Course, ExtCsd, Probing, SdSetup,
       Booting
<1>18. CASE SdScr
  BY <1>0, <1>18, ScrFields DEF Rest, Versions, IsSd, Course, ExtCsd, Probing, SdSetup,
       Booting
<1>19. CASE SdCheck
  BY <1>0, <1>19 DEF SdCheck, Versions, IsSd, Course, ExtCsd, Probing, SdSetup, Booting,
       Devs
<1>20. CASE SdSwitchHs
  BY <1>0, <1>20 DEF SdSwitchHs, Command, Versions, IsSd, Course, ExtCsd, Probing,
       SdSetup, Booting, Devs
<1>21. CASE SdWidth
  BY <1>0, <1>21, SdWidthFields DEF Rest, Versions, IsSd, Course, ExtCsd, Probing,
       SdSetup, Booting
<1>22. CASE BootRead
  BY <1>0, <1>22 DEF BootRead, Versions, IsSd, Course, ExtCsd, Probing, SdSetup, Booting
<1>23. CASE BootPart
  BY <1>0, <1>23 DEF BootPart, Versions, IsSd, Course, ExtCsd, Probing, SdSetup, Booting,
       Cards
<1>24. CASE BootWidth
  BY <1>0, <1>24 DEF BootWidth, Versions, IsSd, Course, ExtCsd, Probing, SdSetup,
       Booting, Cards
<1>25. CASE UNCHANGED vars
  BY <1>0, <1>25 DEF vars, Versions, IsSd, Course, ExtCsd, Probing, SdSetup, Booting
<1> QED BY <1>1, <1>2, <1>3, <1>4, <1>5, <1>6, <1>7, <1>8, <1>9, <1>10, <1>11, <1>12,
       <1>13, <1>14, <1>15, <1>16, <1>17, <1>18, <1>19, <1>20, <1>21, <1>22, <1>23,
       <1>24, <1>25 DEF Next, Step

LEMMA SlowStep ==
  ASSUME IInv, [Next]_vars
  PROVE  Slow'
<1>0. /\ card \in Cards /\ dev \in Devs /\ host \in Hosts /\ TypeOK /\ Course /\ Versions /\ Slow
  BY Types DEF IInv
<1>1. CASE Begin
  <2>1. CASE UNCHANGED <<card, host, dev, pc, events>>
    BY <1>0, <1>1, <2>1, BeginFields DEF Rest, Slow, ExtCsd, Probing, Identifying, CsdSpeed
  <2>2. CASE pc' = "go_idle"
    <3>1. "DDR" \notin dev.caps
      BY <1>0, <1>1, BeginFields DEF Slow, Probing
    <3>2. Mode(1, "DDR" \in dev.caps) = Mode(1, FALSE)
      BY <3>1, ModeOf
    <3>3. host'.mode = Mode(1, FALSE) /\ host'.clock = 4
      BY <1>0, <1>1, <2>2, <3>2, BeginFields DEF MMC_CCLK_MIN
    <3>4. /\ dev'.caps = dev.caps /\ dev'.isInit = dev.isInit /\ UNCHANGED chip
          /\ card'.mode = Mode(1, FALSE) /\ pc = "off" /\ ~dev.isInit
      BY <1>0, <1>1, <2>2, BeginFields
    <3>5. 4 \in 1 .. MMC_CCLK_MIN
      BY DEF MMC_CCLK_MIN
    <3> QED
      BY <1>0, <2>2, <3>3, <3>4, <3>5 DEF Slow, ExtCsd, Probing, Identifying
  <2> QED BY <1>0, <1>1, <2>1, <2>2, BeginFields
<1>2. CASE GoIdle
  BY <1>0, <1>2 DEF GoIdle, Command, Slow, Versions, IsSd, Course, ExtCsd, Probing,
       SdSetup, Booting, Identifying, CsdSpeed
<1>3. CASE SendIfCond
  BY <1>0, <1>3 DEF SendIfCond, Slow, Versions, IsSd, Course, ExtCsd, Probing, SdSetup,
       Booting, Identifying, CsdSpeed
<1>4. CASE SdSendOpCond
  BY <1>0, <1>4, SdOpFields, ReadyFields DEF Rest, Slow, Versions, IsSd, Course, ExtCsd,
       Probing, SdSetup, Booting, Identifying, CsdSpeed
<1>5. CASE MmcSendOpCond
  BY <1>0, <1>5, MmcOpFields, ReadyFields DEF Rest, Slow, Versions, IsSd, Course, ExtCsd,
       Probing, SdSetup, Booting, Identifying, CsdSpeed
<1>6. CASE AllSendCid
  BY <1>0, <1>6 DEF AllSendCid, Command, Slow, Versions, IsSd, Course, ExtCsd, Probing,
       SdSetup, Booting, Identifying, Cards, CsdSpeed
<1>7. CASE RelativeAddr
  BY <1>0, <1>7, ZenonT(40) DEF RelativeAddr, Command, Slow, Versions, IsSd, Course, ExtCsd, Probing,
       SdSetup, Booting, Identifying, Cards, Devs, CsdSpeed
<1>8. CASE SendCsd
  BY <1>0, <1>8, CsdFields DEF Rest, Slow, Versions, IsSd, Course, ExtCsd, Probing,
       SdSetup, Booting, Identifying, CsdSpeed
<1>9. CASE SelectCard
  BY <1>0, <1>9, SelectFields, ZenonT(40) DEF Rest, Slow, Versions, IsSd, Course, ExtCsd, Probing,
       SdSetup, Booting, Identifying, CsdSpeed
<1>10. CASE SendExtCsd
  <2>1. dev'.caps = dev.caps \/ dev'.caps = {"4", "8"}
    BY <1>0, <1>10 DEF SendExtCsd, Devs
  <2>2. pc = "ext_csd" /\ pc' \in {"type", "off"}
    BY <1>10 DEF SendExtCsd, Command
  <2> QED
    BY <1>0, <1>10, <2>1, <2>2, CapsFields DEF Rest, Slow, Course, ExtCsd, Probing, Booting,
       Identifying, CsdSpeed
<1>11. CASE CardType
  BY <1>0, <1>11, ZenonT(40) DEF CardType, Command, Slow, Versions, IsSd, Course, ExtCsd, Probing,
       SdSetup, Booting, Identifying, CsdSpeed
<1>12. CASE SwitchHs
  BY <1>0, <1>12, ZenonT(40) DEF SwitchHs, Command, Slow, Versions, IsSd, Course, ExtCsd, Probing,
       SdSetup, Booting, Identifying, Cards, CsdSpeed
<1>13. CASE Timing
  <2>1. pc = "timing" /\ pc' \in {"probe", "off"} /\ (pc' = "off" => dev' = dev)
    BY <1>13 DEF Timing, Command
  <2> QED
    BY <1>0, <1>13, <2>1, CapsFields DEF Rest, Slow, Course, ExtCsd, Probing, Booting,
       Identifying, CsdSpeed
<1>14. CASE ProbeWidth
  BY <1>0, <1>14, ProbeFields DEF Rest, Slow, Versions, IsSd, Course, ExtCsd, Probing,
       SdSetup, Booting, Identifying, CsdSpeed
<1>15. CASE TestWidth
  <2>1. pc = "test" /\ pc' \in Probing
    BY <1>15 DEF TestWidth, NextProbe, Probing
  <2> QED
    BY <1>0, <1>15, <2>1, CapsFields DEF Rest, Slow, Course, ExtCsd, Probing, Booting,
       Identifying, CsdSpeed
<1>16. CASE SetClock
  BY <1>0, <1>16, SetClockFields DEF Rest, SetClock, Slow, Course, ExtCsd, Probing,
       SdSetup, Booting, Identifying
<1>17. CASE SdApp
  BY <1>0, <1>17 DEF SdApp, Command, Slow, Versions, IsSd, Course, ExtCsd, Probing,
       SdSetup, Booting, Identifying, CsdSpeed
<1>18. CASE SdScr
  BY <1>0, <1>18, ScrFields DEF Rest, Slow, Versions, IsSd, Course, ExtCsd, Probing,
       SdSetup, Booting, Identifying, CsdSpeed
<1>19. CASE SdCheck
  <2>1. dev'.caps = dev.caps \/ dev'.caps \in SUBSET {"4"}
    BY <1>0, <1>19 DEF SdCheck, Devs
  <2>2. pc = "sd_check" /\ pc' \in {"sd_check", "off", "sd_hs", "sd_width"}
    BY <1>19 DEF SdCheck
  <2> QED
    BY <1>0, <1>19, <2>1, <2>2, CapsFields DEF Rest, Slow, Versions, Course, ExtCsd,
       Probing,
       SdSetup, Booting, Identifying, CsdSpeed, IsSd
<1>20. CASE SdSwitchHs
  BY <1>0, <1>20 DEF SdSwitchHs, Command, Slow, Versions, IsSd, Course, ExtCsd, Probing,
       SdSetup, Booting, Identifying, Devs, CsdSpeed
<1>21. CASE SdWidth
  BY <1>0, <1>21, SdWidthFields DEF Rest, Slow, Versions, IsSd, Course, ExtCsd, Probing,
       SdSetup, Booting, Identifying, CsdSpeed
<1>22. CASE BootRead
  BY <1>0, <1>22 DEF BootRead, Slow, Versions, IsSd, Course, ExtCsd, Probing, SdSetup,
       Booting, Identifying, CsdSpeed
<1>23. CASE BootPart
  BY <1>0, <1>23 DEF BootPart, Slow, Versions, IsSd, Course, ExtCsd, Probing, SdSetup,
       Booting, Identifying, Cards, CsdSpeed
<1>24. CASE BootWidth
  BY <1>0, <1>24 DEF BootWidth, Slow, Versions, IsSd, Course, ExtCsd, Probing, SdSetup,
       Booting, Identifying, Cards, CsdSpeed
<1>25. CASE UNCHANGED vars
  BY <1>0, <1>25 DEF vars, Slow, Versions, IsSd, Course, ExtCsd, Probing, SdSetup,
       Booting, Identifying, CsdSpeed
<1> QED BY <1>1, <1>2, <1>3, <1>4, <1>5, <1>6, <1>7, <1>8, <1>9, <1>10, <1>11, <1>12,
       <1>13, <1>14, <1>15, <1>16, <1>17, <1>18, <1>19, <1>20, <1>21, <1>22, <1>23,
       <1>24, <1>25 DEF Next, Step

LEMMA TimedStep ==
  ASSUME IInv, [Next]_vars
  PROVE  Timed'
<1>0. /\ TypeOK /\ Course /\ Versions /\ Slow /\ Timed
  BY Types DEF IInv
<1>e. /\ SwitchHs \/ Timing \/ ProbeWidth \/ TestWidth \/ BootRead \/ BootPart \/ BootWidth
      /\ "failed" \notin events'
      => "failed" \notin events
  BY EventsGrow DEF Step
<1>1. CASE Begin
  <2>1. /\ pc' \notin {"hs", "timing"} \cup Probing
        /\ ~dev'.isInit
    BY <1>0, <1>1, BeginFields DEF Probing
  <2> QED BY <2>1 DEF Timed
<1>2. CASE GoIdle
  BY <1>0, <1>2 DEF GoIdle, Command, Timed, Course, ExtCsd, Probing, SdSetup, Booting
<1>3. CASE SendIfCond
  BY <1>0, <1>3 DEF SendIfCond, Timed, Course, ExtCsd, Probing, SdSetup, Booting
<1>4. CASE SdSendOpCond
  BY <1>0, <1>4, SdOpFields DEF Timed, Course, ExtCsd, Probing, SdSetup, Booting,
       Versions, IsSd
<1>5. CASE MmcSendOpCond
  BY <1>0, <1>5, MmcOpFields DEF Timed, Course, ExtCsd, Probing, SdSetup, Booting,
       Versions, IsSd
<1>6. CASE AllSendCid
  BY <1>0, <1>6 DEF AllSendCid, Command, Timed, Course, ExtCsd, Probing, SdSetup, Booting
<1>7. CASE RelativeAddr
  BY <1>0, <1>7 DEF RelativeAddr, Command, Timed, Course, ExtCsd, Probing, SdSetup, Booting
<1>8. CASE SendCsd
  BY <1>0, <1>8, CsdFields DEF Timed, Course, ExtCsd, Probing, SdSetup, Booting,
       Versions, IsSd
<1>9. CASE SelectCard
  BY <1>0, <1>9, SelectFields DEF Timed, Course, ExtCsd, Probing, SdSetup, Booting
<1>10. CASE SendExtCsd
  <2>1. pc \in ExtCsd \cup SdSetup /\ pc' \in SdSetup \cup {"type", "off"}
    BY <1>10 DEF SendExtCsd, Command, ExtCsd, SdSetup
  <2> QED BY <1>0, <1>10, <2>1, CapsFields DEF Timed, Course, ExtCsd, Probing,
       SdSetup, Booting
<1>11. CASE CardType
  <2>1. PICK ok, moved \in BOOLEAN, types \in SUBSET {"52", "DDR"} :
          /\ Command("type", ok, "hs") /\ Read(ok, moved, {})
          /\ moved => types = (IF chip.fast THEN {"52"} ELSE {})
                                \cup (IF chip.ddr THEN {"DDR"} ELSE {})
          /\ local' = [local EXCEPT !.freq = moved, !.types = types]
    BY <1>11 DEF CardType
  <2>2. Talking /\ ~dev.isInit
    BY <2>1, TalkingFirst DEF Command, ExtCsd
  <2>3. local'.freq = moved /\ local'.types = types
    <3> DEFINE l == [local EXCEPT !.freq = moved]
    <3>1. l \in Buffers /\ l.freq = moved
      BY Types DEF IInv, Buffers
    <3>2. local' = [l EXCEPT !.types = types]
      BY <2>1
    <3> HIDE DEF l
    <3> QED BY <3>1, <3>2 DEF Buffers
  <2>4. UNCHANGED <<chip, dev>> /\ pc' \in {"hs", "off"}
    BY <1>11, <2>1 DEF CardType, Command
  <2>5. "failed" \notin events' => moved
    BY <2>1, <2>2, ReadDone
  <2>6. "52" \in types /\ moved => chip.fast
    BY <2>1
  <2> QED BY <2>2, <2>3, <2>4, <2>5, <2>6 DEF Timed, Probing
<1>12. CASE SwitchHs
  BY <1>0, <1>12, <1>e, HsFields DEF Timed, Course, ExtCsd, Probing, SdSetup, Booting
<1>13. CASE Timing
  <2>1. PICK ok, moved, hs \in BOOLEAN :
          /\ Command("timing", ok, "probe")
          /\ dev' = IF ~ok \/ ~hs THEN dev
                    ELSE [dev EXCEPT !.caps = @ \cup {"HS"} \cup
                            (IF "52" \in local.types
                             THEN {"HS52"} \cup (local.types \cap {"DDR"}) ELSE {})]
    BY <1>13 DEF Timing
  <2>2. pc = "timing" /\ pc' \in {"probe", "off"} /\ ~dev.isInit /\ UNCHANGED <<chip, card>>
    BY <1>0, <1>13, <2>1 DEF Timing, Command, Course, Booting
  <2>3. "HS52" \in dev'.caps => "52" \in local.types \/ "HS52" \in dev.caps
    BY <2>1, Types DEF IInv, Devs
  <2> QED
    BY <1>0, <1>13, <1>e, <2>2, <2>3, CapsFields DEF Timed, Slow, Probing
<1>14. CASE ProbeWidth
  BY <1>0, <1>14, <1>e, ProbeFields DEF Timed, Course, ExtCsd, Probing, SdSetup, Booting
<1>15. CASE TestWidth
  <2>1. idx \in 1 .. 5
    BY Types DEF IInv
  <2>2. pc = "test" /\ pc' \in Probing /\ UNCHANGED <<chip, card>>
        /\ (dev' = dev \/ dev' = [dev EXCEPT !.caps = @ \cup Cap(Widths[idx])])
    BY <1>15 DEF TestWidth, NextProbe, Probing
  <2>3. "HS" \notin Cap(Widths[idx]) /\ "HS52" \notin Cap(Widths[idx])
    BY <2>1, CapsOfMode
  <2>4. dev'.caps \in {dev.caps, dev.caps \cup Cap(Widths[idx])}
    BY <2>2, Types DEF IInv, Devs
  <2> QED
    BY <1>0, <1>15, <1>e, <2>2, <2>3, <2>4, CapsFields DEF Timed, Course, Probing, Booting
<1>16. CASE SetClock
  <2>1. dev.width # 0 /\ pc = "clock"
    BY <1>0, <1>16 DEF SetClock, Course
  <2>2. SUFFICES ASSUME chip.kind # "sd", "failed" \notin events
                 PROVE  host'.clock <= (IF ~card.hs THEN 200 ELSE IF chip.fast THEN 520 ELSE 260)
    BY <1>0, <1>16, <2>1, SetClockFields DEF Timed, Probing
  <2>3. ~IsSd /\ dev.speed = 200
    BY <1>0, <2>1, <2>2 DEF Versions, IsSd, Slow, CsdSpeed
  <2>4. /\ "HS" \in dev.caps => card.hs
        /\ "HS52" \in dev.caps => chip.fast
    BY <1>0, <2>1, <2>2 DEF Timed, Probing
  <2>5. /\ Speed <= (IF ~card.hs THEN 200 ELSE IF chip.fast THEN 520 ELSE 260)
        /\ Speed >= MMC_CCLK_MIN
    BY <2>3, <2>4 DEF Speed, MMC_CCLK_MIN
  <2>6. host'.clock \in 1 .. MMC_CCLK_MAX /\ host'.clock <= Speed
    BY <1>0, <1>16, <2>1, <2>5, SetClockFields
  <2>7. Speed \in 0 .. 520
    BY <1>0, Types, SpeedType
  <2> DEFINE h == host'.clock
  <2> HIDE DEF h
  <2>8. h \in Int /\ h <= Speed
    BY <2>6 DEF h
  <2> QED BY <2>5, <2>7, <2>8 DEF h
<1>17. CASE SdApp
  BY <1>0, <1>17 DEF SdApp, Command, Timed, Course, ExtCsd, Probing, SdSetup, Booting
<1>18. CASE SdScr
  BY <1>0, <1>18, ScrFields DEF Timed, Course, ExtCsd, Probing, SdSetup, Booting,
       Versions, IsSd
<1>19. CASE SdCheck
  <2>1. pc \in ExtCsd \cup SdSetup /\ pc' \in SdSetup \cup {"type", "off"}
    BY <1>19 DEF SdCheck, Command, ExtCsd, SdSetup
  <2> QED BY <1>0, <1>19, <2>1, CapsFields DEF Timed, Course, ExtCsd, Probing,
       SdSetup, Booting
<1>20. CASE SdSwitchHs
  <2>1. pc \in ExtCsd \cup SdSetup /\ pc' \in SdSetup \cup {"type", "off"}
    BY <1>20 DEF SdSwitchHs, Command, ExtCsd, SdSetup
  <2> QED BY <1>0, <1>20, <2>1, CapsFields DEF Timed, Course, ExtCsd, Probing,
       SdSetup, Booting
<1>21. CASE SdWidth
  BY <1>0, <1>21, SdWidthFields DEF Timed, Course, ExtCsd, Probing, SdSetup, Booting,
       Versions, IsSd
<1>22. CASE BootRead
  <2>1. UNCHANGED <<chip, card, host, dev>> /\ pc' \in {"off", "boot_part"}
    BY <1>22 DEF BootRead
  <2> QED BY <1>0, <1>22, <1>e, <2>1 DEF Timed, Probing
<1>23. CASE BootPart
  BY <1>0, <1>23, <1>e, BootFields DEF Timed, Probing
<1>24. CASE BootWidth
  BY <1>0, <1>24, <1>e, BootFields DEF Timed, Probing
<1>25. CASE UNCHANGED vars
  BY <1>0, <1>25 DEF vars, Timed, Course, ExtCsd, Probing, SdSetup, Booting
<1> QED BY <1>1, <1>2, <1>3, <1>4, <1>5, <1>6, <1>7, <1>8, <1>9, <1>10, <1>11, <1>12,
       <1>13, <1>14, <1>15, <1>16, <1>17, <1>18, <1>19, <1>20, <1>21, <1>22, <1>23,
       <1>24, <1>25 DEF Next, Step

LEMMA OfferedStep ==
  ASSUME IInv, [Next]_vars
  PROVE  Offered'
<1>0. /\ TypeOK /\ Course /\ Versions /\ Slow /\ Offered
  BY Types DEF IInv
<1>e. (SwitchHs \/ ProbeWidth \/ TestWidth) /\ "failed" \notin events' => "failed" \notin events
  BY EventsGrow DEF Step
<1>1. CASE Begin
  <2>1. pc' \in {"off", "go_idle"}
    BY <1>0, <1>1, BeginFields
  <2> QED BY <2>1 DEF Offered, Probing
<1>2. CASE GoIdle
  BY <1>0, <1>2 DEF GoIdle, Command, Offered, Probing
<1>3. CASE SendIfCond
  BY <1>0, <1>3 DEF SendIfCond, Offered, Probing
<1>4. CASE SdSendOpCond
  BY <1>0, <1>4, SdOpFields DEF Offered, Course, ExtCsd, Probing, SdSetup, Booting,
       Versions, IsSd
<1>5. CASE MmcSendOpCond
  BY <1>0, <1>5, MmcOpFields DEF Offered, Course, ExtCsd, Probing, SdSetup, Booting,
       Versions, IsSd
<1>6. CASE AllSendCid
  BY <1>0, <1>6 DEF AllSendCid, Command, Offered, Probing
<1>7. CASE RelativeAddr
  BY <1>0, <1>7 DEF RelativeAddr, Command, Offered, Probing
<1>8. CASE SendCsd
  BY <1>0, <1>8, CsdFields DEF Offered, Course, ExtCsd, Probing, SdSetup, Booting,
       Versions, IsSd
<1>9. CASE SelectCard
  <2>1. ASSUME chip.kind = "mmc4" PROVE pc' # "probe"
    <3>1. dev.version \in VersionNames
      BY Types DEF IInv, Devs
    <3> QED BY <1>0, <1>9, <2>1, <3>1, SelectFields DEF Versions, IsSd, VersionNames
  <2> QED BY <1>0, <1>9, <2>1, SelectFields DEF Offered, Probing
<1>10. CASE SendExtCsd
  <2>1. PICK ok, moved \in BOOLEAN :
          /\ Command("ext_csd", ok, "type") /\ Read(ok, moved, {})
          /\ local' = [local EXCEPT !.rev = moved]
    BY <1>10 DEF SendExtCsd
  <2>2. Talking
    BY <2>1, TalkingFirst DEF Command, ExtCsd
  <2>3. "failed" \notin events' => moved
    BY <2>1, <2>2, ReadDone
  <2>4. local'.rev = moved
    BY <2>1, Types DEF IInv, Buffers
  <2>5. pc' \in {"type", "off"}
    BY <2>1 DEF Command
  <2> QED BY <2>3, <2>4, <2>5 DEF Offered, Probing
<1>11. CASE CardType
  <2>1. PICK ok, moved \in BOOLEAN, types \in SUBSET {"52", "DDR"} :
          /\ Command("type", ok, "hs") /\ Read(ok, moved, {})
          /\ moved => types = (IF chip.fast THEN {"52"} ELSE {})
                                \cup (IF chip.ddr THEN {"DDR"} ELSE {})
          /\ local' = [local EXCEPT !.freq = moved, !.types = types]
    BY <1>11 DEF CardType
  <2>2. Talking
    BY <2>1, TalkingFirst DEF Command, ExtCsd
  <2>3. local'.rev = local.rev /\ local'.types = types
    <3> DEFINE l == [local EXCEPT !.freq = moved]
    <3>1. l \in Buffers /\ l.rev = local.rev
      BY Types DEF IInv, Buffers
    <3>2. local' = [l EXCEPT !.types = types]
      BY <2>1
    <3> HIDE DEF l
    <3> QED BY <3>1, <3>2 DEF Buffers
  <2>4. UNCHANGED <<chip, dev>> /\ pc = "type" /\ pc' \in {"hs", "off"}
    BY <1>11, <2>1 DEF CardType, Command
  <2>5. "failed" \notin events' => moved /\ "failed" \notin events
    BY <2>1, <2>2, ReadDone
  <2>6. moved => ("DDR" \in types <=> chip.ddr) /\ ("52" \in types <=> chip.fast)
    BY <2>1
  <2> QED BY <1>0, <2>3, <2>4, <2>5, <2>6 DEF Offered, Probing
<1>12. CASE SwitchHs
  BY <1>0, <1>12, <1>e, HsFields DEF Offered, Probing
<1>13. CASE Timing
  <2>1. PICK ok, moved, hs \in BOOLEAN :
          /\ Command("timing", ok, "probe") /\ Read(ok, moved, {})
          /\ moved => hs
          /\ dev' = IF ~ok \/ ~hs THEN dev
                    ELSE [dev EXCEPT !.caps = @ \cup {"HS"} \cup
                            (IF "52" \in local.types
                             THEN {"HS52"} \cup (local.types \cap {"DDR"}) ELSE {})]
    BY <1>13 DEF Timing
  <2>2. Talking /\ pc = "timing" /\ pc' \in {"probe", "off"} /\ UNCHANGED chip
    BY <1>13, <2>1, TalkingFirst DEF Timing, Command, ExtCsd
  <2>3. local'.rev = local.rev
    BY <1>13 DEF Timing, NoBuffers
  <2>4. "failed" \notin events' => ok /\ hs /\ "failed" \notin events
    BY <2>1, <2>2, ReadDone
  <2>5. "DDR" \notin dev.caps
    BY <1>0, <2>2 DEF Slow, Probing, Course, Booting
  <2>6. ok /\ hs => ("DDR" \in dev'.caps <=> {"52", "DDR"} \subseteq local.types)
    BY <2>1, <2>5, Types DEF IInv, Devs
  <2>7. chip.ddr => chip.fast
    BY <1>0, Types DEF Chips
  <2> QED
    BY <1>0, <2>2, <2>3, <2>4, <2>6, <2>7 DEF Offered, Probing
<1>14. CASE ProbeWidth
  BY <1>0, <1>14, <1>e, ProbeFields DEF Offered, Probing
<1>15. CASE TestWidth
  <2>1. /\ pc = "test" /\ pc' \in {"probe", "clock"} /\ UNCHANGED <<chip, local>>
        /\ pc' = "probe" => dev' = dev
    BY <1>15 DEF TestWidth, NextProbe
  <2> QED BY <1>0, <1>15, <1>e, <2>1 DEF Offered, Probing
<1>16. CASE SetClock
  BY <1>16 DEF SetClock, Offered, Probing
<1>17. CASE SdApp
  BY <1>0, <1>17 DEF SdApp, Command, Offered, Probing
<1>18. CASE SdScr
  BY <1>0, <1>18, ScrFields DEF Offered, Course, ExtCsd, Probing, SdSetup, Booting,
       Versions, IsSd
<1>19. CASE SdCheck
  <2>1. pc' \in SdSetup \cup {"off"}
    BY <1>19 DEF SdCheck, Command, SdSetup
  <2> QED BY <2>1 DEF Offered, Course, ExtCsd, Probing, SdSetup, Booting
<1>20. CASE SdSwitchHs
  <2>1. pc' \in SdSetup \cup {"off"}
    BY <1>20 DEF SdSwitchHs, Command, SdSetup
  <2> QED BY <2>1 DEF Offered, Course, ExtCsd, Probing, SdSetup, Booting
<1>21. CASE SdWidth
  BY <1>0, <1>21, SdWidthFields DEF Offered, Course, ExtCsd, Probing, SdSetup, Booting,
       Versions, IsSd
<1>22. CASE BootRead
  <2>1. pc' \in {"off", "boot_part"}
    BY <1>22 DEF BootRead
  <2> QED BY <2>1 DEF Offered, Probing
<1>23. CASE BootPart
  BY <1>0, <1>23, BootFields DEF Offered, Probing
<1>24. CASE BootWidth
  BY <1>0, <1>24, BootFields DEF Offered, Probing
<1>25. CASE UNCHANGED vars
  BY <1>0, <1>25 DEF vars, Offered, Probing
<1> QED BY <1>1, <1>2, <1>3, <1>4, <1>5, <1>6, <1>7, <1>8, <1>9, <1>10, <1>11, <1>12,
       <1>13, <1>14, <1>15, <1>16, <1>17, <1>18, <1>19, <1>20, <1>21, <1>22, <1>23,
       <1>24, <1>25 DEF Next, Step

LEMMA MarkedStep ==
  ASSUME IInv, [Next]_vars
  PROVE  Marked'
<1>0. /\ TypeOK /\ Course /\ Marked
  BY Types DEF IInv
<1>1. CASE Begin
  <2>1. ~test /\ "accepted" \notin events /\ UNCHANGED <<test, chip>>
    BY <1>0, <1>1, BeginFields DEF Marked, Probing
  <2>2. events' = events \/ events' = {}
    BY <1>0, <1>1, BeginFields
  <2> QED BY <1>0, <2>1, <2>2 DEF Marked
<1>2. CASE GoIdle
  BY <1>0, <1>2 DEF GoIdle, Command, Marked, Course, Probing, ExtCsd, SdSetup, Booting
<1>3. CASE SendIfCond
  BY <1>0, <1>3 DEF SendIfCond, Marked, Course, Probing, ExtCsd, SdSetup, Booting
<1>4. CASE SdSendOpCond
  BY <1>0, <1>4, SdOpFields DEF Marked, Course, ExtCsd, Probing, SdSetup, Booting
<1>5. CASE MmcSendOpCond
  BY <1>0, <1>5, MmcOpFields DEF Marked, Course, ExtCsd, Probing, SdSetup, Booting
<1>6. CASE AllSendCid
  BY <1>0, <1>6 DEF AllSendCid, Command, Marked, Course, Probing, ExtCsd, SdSetup, Booting
<1>7. CASE RelativeAddr
  BY <1>0, <1>7 DEF RelativeAddr, Command, Marked, Course, Probing, ExtCsd, SdSetup, Booting
<1>8. CASE SendCsd
  BY <1>0, <1>8, CsdFields DEF Marked, Course, ExtCsd, Probing, SdSetup, Booting
<1>9. CASE SelectCard
  BY <1>0, <1>9, SelectFields DEF Marked, Course, ExtCsd, Probing, SdSetup, Booting
<1>10. CASE SendExtCsd
  <2>1. PICK ok, moved \in BOOLEAN : Read(ok, moved, {})
    BY <1>10 DEF SendExtCsd
  <2>2. pc \in ExtCsd /\ UNCHANGED <<test, chip>>
    BY <1>10 DEF SendExtCsd, Command, ExtCsd
  <2>3. dev'.isInit = dev.isInit
    BY <1>0, <1>10, CapsFields DEF CardType
  <2>4. /\ "accepted" \in events' => "accepted" \in events
        /\ "late" \in events' /\ "late" \notin events => "failed" \in events'
        /\ "failed" \in events => "failed" \in events'
    BY <2>1 DEF Read
  <2> QED BY <1>0, <2>2, <2>3, <2>4 DEF Marked, Course, ExtCsd, Probing, SdSetup, Booting
<1>11. CASE CardType
  <2>1. PICK ok, moved \in BOOLEAN : Read(ok, moved, {})
    BY <1>11 DEF CardType
  <2>2. pc \in ExtCsd /\ UNCHANGED <<test, chip>>
    BY <1>11 DEF CardType, Command, ExtCsd
  <2>3. dev'.isInit = dev.isInit
    BY <1>0, <1>11, CapsFields DEF CardType
  <2>4. /\ "accepted" \in events' => "accepted" \in events
        /\ "late" \in events' /\ "late" \notin events => "failed" \in events'
        /\ "failed" \in events => "failed" \in events'
    BY <2>1 DEF Read
  <2> QED BY <1>0, <2>2, <2>3, <2>4 DEF Marked, Course, ExtCsd, Probing, SdSetup, Booting
<1>12. CASE SwitchHs
  <2>1. events' = events \/ events' = events \cup {"failed"}
    BY <1>12 DEF SwitchHs, Switch
  <2> QED BY <1>0, <1>12, <2>1, HsFields DEF Marked, Course, ExtCsd, Probing, SdSetup,
       Booting
<1>13. CASE Timing
  <2>1. PICK ok, moved \in BOOLEAN : Read(ok, moved, {})
    BY <1>13 DEF Timing
  <2>2. pc \in ExtCsd /\ UNCHANGED <<test, chip>>
    BY <1>13 DEF Timing, Command, ExtCsd
  <2>3. dev'.isInit = dev.isInit
    BY <1>0, <1>13, CapsFields DEF CardType
  <2>4. /\ "accepted" \in events' => "accepted" \in events
        /\ "late" \in events' /\ "late" \notin events => "failed" \in events'
        /\ "failed" \in events => "failed" \in events'
    BY <2>1 DEF Read
  <2> QED BY <1>0, <2>2, <2>3, <2>4 DEF Marked, Course, ExtCsd, Probing, SdSetup, Booting
<1>14. CASE ProbeWidth
  <2>1. events' = events \/ events' = events \cup {"failed"}
    BY <1>14 DEF ProbeWidth, Switch
  <2> QED BY <1>0, <1>14, <2>1, ProbeFields DEF Marked, Course, ExtCsd, Probing,
       SdSetup, Booting
<1>15. CASE TestWidth
  <2>1. PICK ok, moved, same \in BOOLEAN :
          /\ Read(ok, moved, IF ok /\ same THEN {"accepted"} ELSE {})
          /\ ok /\ same => pc' = "clock"
    BY <1>15 DEF TestWidth
  <2>2. pc = "test" /\ pc' \in Probing /\ UNCHANGED chip
    BY <1>15 DEF TestWidth, NextProbe, Probing
  <2>3. "accepted" \notin events
    BY <1>0, <2>2 DEF Marked, Course, Booting
  <2>4. /\ "accepted" \in events' => pc' = "clock" /\ chip.kind = "mmc4"
        /\ "late" \in events' /\ "late" \notin events => "failed" \in events'
        /\ "failed" \in events => "failed" \in events'
    BY <2>1, <2>3 DEF Read
  <2> QED BY <1>0, <2>2, <2>4 DEF Marked
<1>16. CASE SetClock
  BY <1>0, <1>16, SetClockFields DEF SetClock, Marked, Course, ExtCsd, Probing, SdSetup,
       Booting
<1>17. CASE SdApp
  BY <1>0, <1>17 DEF SdApp, Command, Marked, Course, Probing, ExtCsd, SdSetup, Booting
<1>18. CASE SdScr
  BY <1>0, <1>18, ScrFields DEF Marked, Course, ExtCsd, Probing, SdSetup, Booting
<1>19. CASE SdCheck
  <2>1. pc \in SdSetup /\ UNCHANGED <<test, events>>
    BY <1>19 DEF SdCheck, Command, SdSetup
  <2> QED BY <1>0, <1>19, <2>1, CapsFields DEF Marked, Course, ExtCsd, Probing,
       SdSetup, Booting
<1>20. CASE SdSwitchHs
  <2>1. pc \in SdSetup /\ UNCHANGED <<test, events>>
    BY <1>20 DEF SdSwitchHs, Command, SdSetup
  <2> QED BY <1>0, <1>20, <2>1, CapsFields DEF Marked, Course, ExtCsd, Probing,
       SdSetup, Booting
<1>21. CASE SdWidth
  BY <1>0, <1>21, SdWidthFields DEF Marked, Course, ExtCsd, Probing, SdSetup, Booting
<1>22. CASE BootRead
  <2>1. PICK ok, moved, ends \in BOOLEAN :
          Read(ok, moved, (IF ok /\ ~moved THEN {"blind"} ELSE {})
                           \cup (IF ends THEN {"failed"} ELSE {}))
    BY <1>22 DEF BootRead
  <2>2. dev.isInit /\ UNCHANGED <<dev, chip>>
    BY <1>0, <1>22 DEF BootRead, Course, Booting
  <2>3. /\ "accepted" \in events' => "accepted" \in events
        /\ "late" \in events' /\ "late" \notin events => "failed" \in events'
        /\ "failed" \in events => "failed" \in events'
    BY <2>1 DEF Read
  <2> QED BY <1>0, <2>2, <2>3 DEF Marked, Course, ExtCsd, Probing, SdSetup, Booting
<1>23. CASE BootPart
  <2>1. events' = events \/ events' = events \cup {"failed"}
    BY <1>23 DEF BootPart, Switch
  <2>2. dev.isInit
    BY <1>0, <1>23, BootFields DEF Course, Booting
  <2> QED BY <1>0, <1>23, <2>1, <2>2, BootFields DEF Marked, Course, ExtCsd, Probing,
       SdSetup, Booting
<1>24. CASE BootWidth
  <2>1. events' = events \/ events' = events \cup {"failed"}
    BY <1>24 DEF BootWidth, Switch
  <2>2. dev.isInit
    BY <1>0, <1>24, BootFields DEF Course, Booting
  <2> QED BY <1>0, <1>24, <2>1, <2>2, BootFields DEF Marked, Course, ExtCsd, Probing,
       SdSetup, Booting
<1>25. CASE UNCHANGED vars
  BY <1>0, <1>25 DEF vars, Marked, Course, Probing, ExtCsd, SdSetup, Booting
<1> QED BY <1>1, <1>2, <1>3, <1>4, <1>5, <1>6, <1>7, <1>8, <1>9, <1>10, <1>11, <1>12,
       <1>13, <1>14, <1>15, <1>16, <1>17, <1>18, <1>19, <1>20, <1>21, <1>22, <1>23,
       <1>24, <1>25 DEF Next, Step

\* Where the rounds of the width test begin and go on.
LEMMA ProbeEntry ==
  ASSUME TypeOK, Next, pc' \in {"probe", "test"}
  PROVE  SelectCard \/ Timing \/ ProbeWidth \/ TestWidth
<1>1. ~Begin
  BY BeginFields
<1>2. ~GoIdle /\ ~SendIfCond /\ ~AllSendCid /\ ~RelativeAddr
  BY DEF GoIdle, SendIfCond, AllSendCid, RelativeAddr, Command
<1>3. ~SdSendOpCond /\ ~MmcSendOpCond /\ ~SendCsd
  BY SdOpFields, MmcOpFields, CsdFields
<1>4. ~SendExtCsd /\ ~CardType /\ ~SwitchHs
  BY DEF SendExtCsd, CardType, SwitchHs, Command
<1>5. ~SetClock /\ ~SdApp /\ ~SdCheck /\ ~SdSwitchHs
  BY DEF SetClock, SdApp, SdCheck, SdSwitchHs, Command
<1>6. ~SdScr /\ ~SdWidth
  BY ScrFields, SdWidthFields, SMTT(60)
<1>7. ~BootRead /\ ~BootPart /\ ~BootWidth
  BY DEF BootRead, BootPart, BootWidth
<1> QED BY <1>1, <1>2, <1>3, <1>4, <1>5, <1>6, <1>7 DEF Next, Step

\* Where they end.
LEMMA ClockEntry ==
  ASSUME TypeOK, Next, pc' = "clock"
  PROVE  ProbeWidth \/ TestWidth \/ SdWidth
<1>1. ~Begin
  BY BeginFields
<1>2. ~GoIdle /\ ~SendIfCond /\ ~AllSendCid /\ ~RelativeAddr
  BY DEF GoIdle, SendIfCond, AllSendCid, RelativeAddr, Command
<1>3. ~SdSendOpCond /\ ~MmcSendOpCond /\ ~SendCsd /\ ~SelectCard
  BY SdOpFields, MmcOpFields, CsdFields, SelectFields
<1>4. ~SendExtCsd /\ ~CardType /\ ~SwitchHs /\ ~Timing
  BY DEF SendExtCsd, CardType, SwitchHs, Timing, Command
<1>5. ~SetClock /\ ~SdApp /\ ~SdCheck /\ ~SdSwitchHs
  BY DEF SetClock, SdApp, SdCheck, SdSwitchHs, Command
<1>6. ~SdScr
  BY ScrFields
<1>7. ~BootRead /\ ~BootPart /\ ~BootWidth
  BY DEF BootRead, BootPart, BootWidth
<1> QED BY <1>1, <1>2, <1>3, <1>4, <1>5, <1>6, <1>7 DEF Next, Step

\* The steps from a position of check_ext_csd, or from none.
LEMMA OffSteps ==
  ASSUME TypeOK, Next, pc \in Booting \cup {"off"}
  PROVE  Begin \/ BootRead \/ BootPart \/ BootWidth
<1>1. ~GoIdle /\ ~SendIfCond /\ ~SdSendOpCond /\ ~MmcSendOpCond /\ ~AllSendCid
      /\ ~RelativeAddr /\ ~SendCsd /\ ~SelectCard
  BY DEF Booting, GoIdle, SendIfCond, SdSendOpCond, MmcSendOpCond, AllSendCid,
     RelativeAddr, SendCsd, SelectCard, Command
<1>2. ~SendExtCsd /\ ~CardType /\ ~SwitchHs /\ ~Timing /\ ~ProbeWidth /\ ~TestWidth
  BY DEF Booting, SendExtCsd, CardType, SwitchHs, Timing, ProbeWidth, TestWidth, Command
<1>3. ~SdApp /\ ~SdScr /\ ~SdCheck /\ ~SdSwitchHs /\ ~SdWidth /\ ~SetClock
  BY DEF Booting, SdApp, SdScr, SdCheck, SdSwitchHs, SdWidth, SetClock, Command
<1> QED BY <1>1, <1>2, <1>3 DEF Next, Step

LEMMA PartEntry ==
  ASSUME TypeOK, Next, pc' = "boot_part"
  PROVE  BootRead \/ BootPart \/ BootWidth
<1>1. ~Begin
  BY BeginFields
<1>2. ~GoIdle /\ ~SendIfCond /\ ~AllSendCid /\ ~RelativeAddr
  BY DEF GoIdle, SendIfCond, AllSendCid, RelativeAddr, Command
<1>3. ~SdSendOpCond /\ ~MmcSendOpCond /\ ~SendCsd /\ ~SelectCard
  BY SdOpFields, MmcOpFields, CsdFields, SelectFields
<1>4. ~SendExtCsd /\ ~CardType /\ ~SwitchHs /\ ~Timing
  BY DEF SendExtCsd, CardType, SwitchHs, Timing, Command
<1>5. ~SetClock /\ ~SdApp /\ ~SdCheck /\ ~SdSwitchHs
  BY DEF SetClock, SdApp, SdCheck, SdSwitchHs, Command
<1>6. ~SdScr /\ ~SdWidth
  BY ScrFields, SdWidthFields
<1>7. ~ProbeWidth /\ ~TestWidth
  BY ProbeFields DEF Probing, TestWidth, NextProbe
<1> QED BY <1>1, <1>2, <1>3, <1>4, <1>5, <1>6, <1>7 DEF Next, Step

\* The steps of a card that is set up.
LEMMA InitEntry ==
  ASSUME TypeOK, Course, Next, dev'.isInit
  PROVE  SetClock \/ BootRead \/ BootPart \/ BootWidth
<1>1. SUFFICES ASSUME ~SetClock, dev.isInit PROVE BootRead \/ BootPart \/ BootWidth
  <2>1. ASSUME ~SetClock PROVE dev'.isInit = dev.isInit \/ ~dev'.isInit
    <3>1. Begin => ~dev'.isInit
      BY BeginFields
    <3>2. GoIdle \/ SendIfCond \/ AllSendCid \/ CardType \/ SwitchHs \/ SdApp => dev' = dev
      BY DEF GoIdle, SendIfCond, AllSendCid, CardType, SwitchHs, SdApp
    <3>3. RelativeAddr => dev'.isInit = dev.isInit
      BY Types DEF RelativeAddr, Devs
    <3>4. SdSendOpCond \/ MmcSendOpCond \/ SendCsd \/ SelectCard \/ SdScr \/ SdWidth
            \/ ProbeWidth => dev'.isInit = dev.isInit
      BY SdOpFields, MmcOpFields, CsdFields, SelectFields, ScrFields,
           SdWidthFields, ProbeFields
    <3>5. SendExtCsd \/ Timing \/ TestWidth \/ SdCheck \/ SdSwitchHs => dev'.isInit = dev.isInit
      BY CapsFields
    <3>6. BootRead \/ BootPart \/ BootWidth => dev' = dev
      BY DEF BootRead, BootPart, BootWidth
    <3> QED BY <2>1, <3>1, <3>2, <3>3, <3>4, <3>5, <3>6 DEF Next, Step
  <2> QED BY <2>1
<1>2. pc \in Booting \cup {"off"} /\ ~Begin
  BY <1>1 DEF Course, Begin
<1> QED BY <1>2, OffSteps

\* A mode is accepted in the round whose read has filled test_ext_csd, and in
\* no other, unless a read has failed and still left its data there.
LEMMA TestRound ==
  ASSUME IInv, TestWidth, local.rev, ~chip.rev0, "late" \notin events'
  PROVE  /\ ~test
         /\ \/ /\ pc' = "clock" /\ test' /\ Talking /\ "accepted" \in events'
               /\ dev' = [dev EXCEPT !.caps = @ \cup Cap(Widths[idx])]
            \/ /\ ~test' /\ UNCHANGED dev /\ NextProbe /\ "accepted" \notin events'
               /\ Talking => "failed" \in events'
<1>1. PICK ok, moved, same \in BOOLEAN :
        /\ Read(ok, moved, IF ok /\ same THEN {"accepted"} ELSE {})
        /\ test' = (test \/ moved)
        /\ SameRev(same)
        /\ \/ /\ ok /\ same
              /\ dev' = [dev EXCEPT !.caps = @ \cup Cap(Widths[idx])]
              /\ pc' = "clock" /\ idx' = 1
           \/ /\ ~(ok /\ same)
              /\ NextProbe /\ UNCHANGED dev
  BY DEF TestWidth
<1>2. pc = "test" /\ UNCHANGED <<chip, local>>
  BY DEF TestWidth
<1>3. "late" \notin events /\ ~(~ok /\ moved)
  BY <1>1 DEF Read
<1>4. test = FALSE
  BY <1>2, <1>3, Types DEF IInv, Rounds
<1>5. same = moved
  BY <1>1, <1>4 DEF SameRev
<1>6. "accepted" \notin events
  BY <1>2 DEF IInv, Marked, Course, Booting
<1>7. CASE ok /\ same
  BY <1>1, <1>4, <1>5, <1>7 DEF Read
<1>8. CASE ~(ok /\ same)
  BY <1>1, <1>3, <1>4, <1>5, <1>6, <1>8 DEF Read
<1> QED BY <1>7, <1>8

LEMMA RoundsStep ==
  ASSUME IInv, [Next]_vars
  PROVE  Rounds'
<1>0. /\ TypeOK /\ Course /\ Slow /\ Marked /\ Rounds /\ idx \in 1 .. 5
  BY Types DEF IInv
<1>1. CASE pc' \notin {"probe", "test"}
  BY <1>1 DEF Rounds
<1>2. CASE UNCHANGED vars
  BY <1>0, <1>2 DEF vars, Rounds
<1>3. ASSUME SelectCard \/ Timing PROVE Rounds'
  <2>1. pc \in {"select", "timing"} /\ pc' # "test" /\ UNCHANGED <<test, chip>>
        /\ card'.mode = card.mode
    BY <1>0, <1>3, SelectFields DEF Timing, Command
  <2>2. card.mode = Mode(1, FALSE)
    BY <1>0, <2>1 DEF Slow, Identifying, ExtCsd
  <2>3. ~test
    BY <1>0, <2>1 DEF Marked, Course, Probing, Booting
  <2> QED BY <2>1, <2>2, <2>3 DEF Rounds
<1>4. CASE ProbeWidth
  <2>1. "late" \in events => "late" \in events'
    BY <1>4, EventsGrow DEF Step
  <2>2. idx' <= 2 /\ pc' \in {"probe", "test"} => idx <= 2
    BY <1>0, <1>4, ProbeFields
  <2>3. idx <= 2 /\ chip.kind = "mmc4" => card'.mode = Mode(1, FALSE) \/ card'.mode.ddr
    BY <1>0, <1>4, ProbeFields, CapsOfMode DEF Rounds
  <2>4. pc' = "test" => dev'.width = Widths[idx'].width
                      /\ host'.mode = Mode(dev'.width, "DDR" \in dev'.caps)
    BY <1>0, <1>4, ProbeFields
  <2>5. ("late" \notin events' /\ local'.rev /\ ~chip'.rev0 => ~test') /\ chip' = chip
    BY <1>0, <1>4, <2>1, ProbeFields DEF Rounds
  <2> QED BY <2>2, <2>3, <2>4, <2>5 DEF Rounds
<1>5. CASE TestWidth /\ pc' = "probe"
  <2>1. pc = "test" /\ UNCHANGED <<card, chip, local>>
    BY <1>5 DEF TestWidth
  <2>2. idx' = idx + 1
    BY <1>5 DEF TestWidth, NextProbe
  <2>3. "late" \notin events' /\ local.rev /\ ~chip.rev0 => ~test'
    BY <1>5, TestRound
  <2>4. idx' <= 2 => idx <= 2
    BY <1>0, <2>2
  <2> QED BY <1>0, <1>5, <2>1, <2>3, <2>4 DEF Rounds
<1>6. TestWidth => pc' # "test"
  BY DEF TestWidth, NextProbe
<1> QED
  BY <1>0, <1>1, <1>2, <1>3, <1>4, <1>5, <1>6, ProbeEntry

LEMMA AcceptedStep ==
  ASSUME IInv, [Next]_vars
  PROVE  Accepted'
<1>0. /\ TypeOK /\ Course /\ Slow /\ Marked /\ Rounds /\ Accepted /\ Versions
      /\ idx \in 1 .. 5 /\ dev \in Devs
  BY Types DEF IInv
<1>1. CASE UNCHANGED vars
  BY <1>0, <1>1 DEF vars, Accepted, AcceptedWorks
<1>2. ASSUME Next, dev'.isInit PROVE pc' # "clock" /\ AcceptedWorks'
  <2>1. pc' # "clock"
    BY <1>0, <1>2, CourseStep DEF Course, Booting
  <2>2. CASE SetClock
    <3>1. dev.width # 0 /\ pc = "clock"
      BY <1>0, <2>2 DEF SetClock, Course
    <3>2. SUFFICES ASSUME "accepted" \in events, "late" \notin events, local.rev, ~chip.rev0
                   PROVE  /\ host'.mode = card.mode /\ card.mode \in chip.works
                          /\ dev'.width = card.mode.width
                          /\ "DDR" \in dev'.caps <=> card.mode.ddr
      BY <1>0, <2>2, <3>1, SetClockFields DEF AcceptedWorks
    <3>3. card.mode \in chip.works /\ card.mode = Mode(dev.width, "DDR" \in dev.caps)
      BY <1>0, <3>1, <3>2 DEF Accepted
    <3>4. card.mode.width = dev.width /\ ("DDR" \in dev.caps <=> card.mode.ddr)
      BY <3>3, ModeFields
    <3>5. host'.mode = card.mode /\ dev'.width = dev.width /\ dev'.caps = dev.caps
      BY <1>0, <2>2, <3>1, <3>3, SetClockFields
    <3> QED BY <3>3, <3>4, <3>5
  <2>3. CASE BootRead
    <3>1. /\ "accepted" \in events' => "accepted" \in events
          /\ "late" \notin events' => "late" \notin events
      BY <1>0, <2>3, BootReadFields DEF Read
    <3> QED BY <1>0, <1>2, <2>1, <2>3, <3>1, BootReadFields DEF Accepted, AcceptedWorks
  <2>4. CASE BootPart \/ BootWidth
    <3>1. /\ "accepted" \in events' => "accepted" \in events
          /\ "late" \notin events' => "late" \notin events
      BY <2>4 DEF BootPart, BootWidth, Switch
    <3> QED BY <1>0, <1>2, <2>1, <2>4, <3>1, BootFields DEF Accepted, AcceptedWorks
  <2> QED BY <1>0, <1>2, <2>1, <2>2, <2>3, <2>4, InitEntry
<1>3. CASE pc' # "clock" /\ ~dev'.isInit
  BY <1>3 DEF Accepted, AcceptedWorks
<1>4. ASSUME Next, pc' = "clock", ~dev'.isInit PROVE Accepted'
  <2>1. CASE ProbeWidth \/ SdWidth
    <3>1. "accepted" \notin events
      BY <1>0, <2>1, ProbeFields, SdWidthFields DEF Marked, Course, Booting
    <3>2. "accepted" \notin events'
      <4>1. CASE ProbeWidth
        BY <3>1, <4>1 DEF ProbeWidth, Switch
      <4>2. CASE SdWidth
        BY <3>1, <4>2 DEF SdWidth
      <4> QED BY <2>1, <4>1, <4>2
    <3> QED BY <1>4, <3>2 DEF Accepted, AcceptedWorks
  <2>2. CASE TestWidth
    <3>1. UNCHANGED <<chip, card, host, local>> /\ pc = "test"
      BY <2>2 DEF TestWidth
    <3>2. SUFFICES ASSUME "accepted" \in events', "late" \notin events', local.rev, ~chip.rev0
                   PROVE  /\ card.mode \in chip.works
                          /\ card.mode = Mode(dev'.width, "DDR" \in dev'.caps)
      BY <1>4, <3>1 DEF Accepted, AcceptedWorks
    <3>3. Talking /\ dev' = [dev EXCEPT !.caps = @ \cup Cap(Widths[idx])]
      BY <1>0, <2>2, <3>2, TestRound
    <3>4. /\ dev'.caps = dev.caps \cup Cap(Widths[idx]) /\ dev'.width = dev.width
      BY <1>0, <3>3 DEF Devs
    <3>5. card.mode = Mode(dev.width, "DDR" \in dev.caps) /\ card.mode \in chip.works
      BY <1>0, <3>1, <3>3 DEF Rounds, Talking
    <3>6. "DDR" \in dev'.caps <=> "DDR" \in dev.caps
      <4>1. CASE idx > 2
        BY <1>0, <3>4, <4>1, CapsOfMode
      <4>2. CASE idx <= 2
        <5>1. dev.width \in {4, 8}
          BY <1>0, <3>1, <4>2, Modes DEF Rounds, Mode
        <5>2. card.mode # Mode(1, FALSE)
          BY <3>5, <5>1 DEF Mode
        <5>3. chip.kind = "mmc4"
          BY <1>0, <2>2, <3>2, MarkedStep, <3>1 DEF Marked
        <5>4. card.mode.ddr
          BY <1>0, <3>1, <4>2, <5>2, <5>3 DEF Rounds
        <5>5. "DDR" \in dev.caps
          BY <3>5, <5>4, ModeFields
        <5> QED BY <3>4, <5>5
      <4> QED BY <1>0, <4>1, <4>2
    <3>7. Mode(dev.width, "DDR" \in dev'.caps) = Mode(dev.width, "DDR" \in dev.caps)
      BY <3>6, ModeOf
    <3> QED BY <3>4, <3>5, <3>7
  <2> QED BY <1>0, <1>4, <2>1, <2>2, ClockEntry
<1> QED
  BY <1>1, <1>2, <1>3, <1>4 DEF Accepted

LEMMA SearchedStep ==
  ASSUME IInv, [Next]_vars
  PROVE  Searched'
<1>0. /\ TypeOK /\ Course /\ Slow /\ Marked /\ Rounds /\ Accepted /\ Versions
      /\ Offered /\ Searched /\ idx \in 1 .. 5 /\ chip \in Chips
  BY Types DEF IInv
<1>1. CASE UNCHANGED vars
  BY <1>1, <1>0 DEF vars, Searched, Sound
<1>2. CASE pc' \notin {"probe", "test", "clock"} /\ ~dev'.isInit
  BY <1>2 DEF Searched
<1>3. ASSUME Step, Sound' PROVE Sound
  <2>1. chip' = chip
    BY <1>3 DEF Step, GoIdle, SendIfCond, SdSendOpCond, MmcSendOpCond, AllSendCid,
       RelativeAddr, SendCsd, SelectCard, SendExtCsd, CardType, SwitchHs, Timing,
       ProbeWidth, TestWidth, SetClock, SdApp, SdScr, SdCheck, SdSwitchHs, SdWidth,
       BootRead, BootPart, BootWidth
  <2>2. "failed" \notin events
    BY <1>3, EventsGrow DEF Sound
  <2>3. Widths' = Widths
    BY DEF Widths, Mode
  <2> QED BY <1>3, <2>1, <2>2, SMTT(60) DEF Sound
<1>4. ASSUME SelectCard \/ Timing, pc' = "probe" PROVE Searched'
  <2>1. idx' = 1 /\ ~dev'.isInit
    <3>1. pc \in {"select", "timing"}
      BY <1>0, <1>4, SelectFields DEF Timing, Command
    <3>2. ~dev.isInit
      BY <1>0, <3>1 DEF Course, Booting
    <3> QED BY <1>0, <1>4, <3>2, SelectFields, CapsFields DEF Timing
  <2> QED BY <1>4, <2>1 DEF Searched
<1>5. ASSUME ProbeWidth, Sound' PROVE Searched'
  <2>1. Sound
    BY <1>3, <1>5 DEF Step
  <2>2. PICK ok, done \in BOOLEAN :
          /\ Switch(ok, done)
          /\ card' = IF done /\ (Widths[idx].ddr => chip.ddr)
                     THEN [card EXCEPT !.mode = Widths[idx]] ELSE card
          /\ ok => pc' = "test"
    BY <1>5 DEF ProbeWidth
  <2>3. done /\ pc' = "test"
    BY <1>5, <2>2 DEF Switch, Sound
  <2>4. idx' = idx /\ chip' = chip /\ ~dev'.isInit
    BY <1>0, <1>5, <2>3, ProbeFields DEF Course, Booting
  <2>5. (Widths[idx].ddr => chip.ddr) => card'.mode = Widths[idx]
    BY <2>2, <2>3, Types, <1>0 DEF Cards
  <2>6. chip.ddr => idx <= 2 /\ (idx = 2 => Widths[1] \notin chip.works)
    BY <1>0, <1>5, <2>1, ProbeFields DEF Searched
  <2> QED BY <2>3, <2>4, <2>5, <2>6 DEF Searched
<1>6. ASSUME TestWidth, Sound' PROVE Searched'
  <2>1. Sound /\ pc = "test" /\ UNCHANGED <<chip, local, card>>
    BY <1>3, <1>6 DEF Step, TestWidth
  <2>2. local.rev /\ ("DDR" \in dev.caps <=> chip.ddr) /\ ~chip.rev0
    BY <1>0, <2>1 DEF Offered, Sound, Probing
  <2>3. "late" \notin events' /\ "failed" \notin events'
    BY <1>0, <1>6, MarkedStep DEF Marked, Sound
  <2>4. CASE pc' = "clock" /\ "accepted" \in events'
    BY <2>1, <2>2, <2>4 DEF Searched
  <2>5. CASE NextProbe /\ ~Talking
    <3>1. (Widths[idx].ddr => chip.ddr) => card.mode = Widths[idx]
      BY <1>0, <2>1 DEF Searched
    <3>2. host.mode = Mode(Widths[idx].width, "DDR" \in dev.caps)
      BY <1>0, <2>1 DEF Rounds
    <3>3. card.state = "tran"
      BY <1>0, <2>1 DEF Course, Probing
    <3>4. Mode(8, TRUE).width = 8 /\ Mode(4, TRUE).width = 4 /\ Mode(1, FALSE).width = 1
      BY DEF Mode
    <3>5. CASE chip.ddr
      <4>1. idx \in {1, 2} /\ (idx = 2 => Widths[1] \notin chip.works)
        BY <1>0, <2>1, <3>5 DEF Searched
      <4>2. host.mode = Widths[idx]
        <5>1. host.mode = Mode(Widths[idx].width, TRUE)
          BY <2>2, <3>2, <3>5, ModeOf
        <5>2. Widths[idx] = Mode(8, TRUE) \/ Widths[idx] = Mode(4, TRUE)
          BY <4>1, Modes
        <5> QED BY <3>4, <5>1, <5>2
      <4>3. Widths[idx] \notin chip.works
        BY <2>5, <3>1, <3>3, <3>5, <4>2 DEF Talking
      <4>4. idx = 1
        BY <2>1, <3>5, <4>1, <4>3 DEF Sound
      <4>5. pc' = "probe" /\ idx' = 2
        BY <2>5, <4>4, Modes DEF NextProbe
      <4>6. ~dev'.isInit
        BY <1>0, <1>6, <2>1, CapsFields DEF Course, Booting
      <4> QED BY <2>1, <4>3, <4>4, <4>5, <4>6 DEF Searched
    <3>6. CASE ~chip.ddr
      <4>1. CASE idx < 5
        <5>1. pc' = "probe"
          BY <2>5, <4>1, Modes DEF NextProbe
        <5>2. ~dev'.isInit
          BY <1>0, <1>6, <2>1, CapsFields DEF Course, Booting
        <5> QED BY <2>1, <3>6, <5>1, <5>2 DEF Searched
      <4>2. CASE idx = 5
        <5>1. card.mode = Mode(1, FALSE)
          <6>1. ~Widths[idx].ddr
            BY <1>0, <4>2, CapsOfMode
          <6>2. card.mode = Widths[idx]
            BY <3>1, <6>1
          <6> QED BY <4>2, <6>2, Modes
        <5>2. host.mode = Mode(1, FALSE)
          <6>1. host.mode = Mode(Widths[idx].width, FALSE)
            BY <2>2, <3>2, <3>6, ModeOf
          <6> QED BY <3>4, <4>2, <6>1, Modes
        <5>3. Mode(1, FALSE) \in chip.works
          BY <1>0, OneBitWorks
        <5> QED BY <2>5, <3>3, <5>1, <5>2, <5>3 DEF Talking
      <4> QED BY <1>0, <4>1, <4>2
    <3> QED BY <3>5, <3>6
  <2> QED BY <1>6, <2>2, <2>3, <2>4, <2>5, TestRound
<1>7. SdWidth => ~Sound'
  BY <1>0, SdWidthFields DEF Versions, SdSetup, Sound
<1>8. ASSUME SetClock \/ BootRead \/ BootPart \/ BootWidth, Sound' PROVE Searched'
  <2>1. Sound
    BY <1>3, <1>8 DEF Step
  <2>2. pc \in {"clock"} \cup Booting /\ local'.rev = local.rev
    BY <1>0, <1>8, BootReadFields, BootFields DEF SetClock, Booting
  <2>3. pc = "clock" \/ dev.isInit
    BY <1>0, <2>2 DEF Course, Booting
  <2>4. "accepted" \in events /\ local.rev
    BY <1>0, <2>1, <2>3 DEF Searched
  <2>5. "accepted" \in events'
    BY <1>8, <2>4, EventsGrow DEF Step
  <2>6. pc' \notin {"probe", "test"}
    BY <1>0, <1>8, BootReadFields, BootFields DEF SetClock
  <2> QED BY <2>2, <2>4, <2>5, <2>6 DEF Searched
<1>9. CASE ~Sound'
  BY <1>9 DEF Searched
<1>10. SelectCard \/ Timing => pc' # "test"
  BY <1>0, SelectFields DEF Timing, Command
<1>11. CASE Next /\ pc' \in {"probe", "test"}
  BY <1>0, <1>4, <1>5, <1>6, <1>9, <1>10, <1>11, ProbeEntry
<1>12. CASE Next /\ pc' = "clock"
  BY <1>0, <1>5, <1>6, <1>7, <1>9, <1>12, ClockEntry
<1>13. CASE Next /\ dev'.isInit
  BY <1>0, <1>8, <1>9, <1>13, InitEntry
<1> QED BY <1>1, <1>2, <1>11, <1>12, <1>13

\* Before check_ext_csd the access is to the user area, and nothing is known of
\* the other settings.
LEMMA CheckedEarly ==
  ASSUME IInv, Next, ~dev'.isInit \/ SetClock, card'.access \in {card.access, "user"},
         "blind" \notin events', pc' # "boot_part"
  PROVE  Checked'
<1>1. card.access = "user" \/ card'.access = "user"
  <2>1. ASSUME "blind" \in events PROVE FALSE
    <3>1. dev.isInit
      BY <2>1 DEF IInv, Checked
    <3>2. ~Begin
      BY <3>1 DEF Begin
    <3>3. "blind" \in events'
      BY <2>1, <3>2, EventsGrow DEF Next
    <3> QED BY <3>3
  <2> QED BY <2>1 DEF IInv, Checked, BootSettings
<1>2. card'.access = "user"
  BY <1>1
<1>3. CASE ~dev'.isInit
  BY <1>2, <1>3 DEF Checked, BootSettings
<1>4. CASE SetClock
  <2>1. pc' = "boot"
    BY <1>4 DEF SetClock
  <2> QED BY <1>2, <2>1 DEF Checked, BootSettings
<1> QED BY <1>3, <1>4

LEMMA CheckedStep ==
  ASSUME IInv, [Next]_vars
  PROVE  Checked'
<1>0. /\ TypeOK /\ Course /\ Checked
      /\ card \in Cards /\ local \in Buffers /\ events \subseteq Marks
  BY Types DEF IInv
<1>1. CASE UNCHANGED vars
  BY <1>0, <1>1 DEF vars, Checked, BootSettings, Talking
<1>2. CASE BootRead
  <2>1. PICK ok, moved, ends \in BOOLEAN :
          /\ Read(ok, moved, (IF ok /\ ~moved THEN {"blind"} ELSE {})
                              \cup (IF ends THEN {"failed"} ELSE {}))
          /\ moved => /\ local'.part = card.part /\ local'.width = card.bootWidth
                      /\ local'.access = card.access
          /\ pc' = IF ~ok \/ ends \/ (local'.part /\ local'.width) THEN "off"
                   ELSE "boot_part"
    BY <1>0, <1>2, BootReadFields
  <2>2. /\ pc = "boot" /\ UNCHANGED <<chip, card, host, dev>> /\ dev.isInit
    BY <1>0, <1>2, BootReadFields DEF Course, Booting
  <2>3. Talking' <=> Talking
    BY <2>2 DEF Talking
  <2>4. ASSUME "blind" \notin events' PROVE card.access = "user" /\ (ok => moved)
    <3>1. "blind" \notin events /\ (ok => moved)
      BY <2>1, <2>4 DEF Read
    <3> QED BY <1>0, <3>1 DEF Checked, BootSettings
  <2>5. ASSUME events' \subseteq {"accepted"}, Talking
        PROVE  ok /\ moved /\ ~ends
    BY <2>1, <2>5 DEF Read
  <2>6. pc' = "boot_part" => ok
    BY <2>1
  <2>7. "blind" \notin events' /\ pc' = "boot_part" => local'.access = "user"
    BY <2>1, <2>4, <2>6
  <2>8. events' \subseteq {"accepted"} /\ Talking =>
          /\ pc' = "boot_part" => local'.part = card.part /\ local'.width = card.bootWidth
          /\ pc' = "off" => card.part /\ card.bootWidth
    BY <2>1, <2>5
  <2>9. pc' # "boot_width"
    BY <2>1
  <2> QED BY <2>2, <2>3, <2>4, <2>7, <2>8, <2>9 DEF Checked, BootSettings
<1>3. CASE BootPart
  <2>1. PICK ok, done \in BOOLEAN :
          /\ local.part => ok
          /\ IF local.part THEN UNCHANGED <<card, events>>
             ELSE /\ Switch(ok, done)
                  /\ card' = IF done THEN [card EXCEPT !.part = TRUE, !.access = local.access]
                             ELSE card
          /\ pc' = IF ok THEN "boot_width" ELSE "off"
    BY <1>3 DEF BootPart
  <2>2. pc = "boot_part" /\ dev.isInit /\ UNCHANGED <<chip, host, dev, local>>
    BY <1>0, <1>3 DEF BootPart, Course, Booting
  <2>3. /\ card'.bootWidth = card.bootWidth
        /\ card'.access \in {card.access, local.access}
        /\ ~local.part /\ done => card'.part
        /\ local.part => card' = card
    BY <1>0, <2>1 DEF Cards
  <2>4. events' = events \/ events' = events \cup {"failed"}
    BY <2>1 DEF Switch
  <2>5. Talking' <=> Talking
    BY <1>0, <1>3, <2>2, BootFields DEF Talking
  <2>6. "blind" \notin events' => card'.access = "user"
    BY <1>0, <2>2, <2>3, <2>4 DEF Checked, BootSettings
  <2>7. ASSUME events' \subseteq {"accepted"}, Talking, chip.kind = "mmc4"
        PROVE  pc' = "boot_width" /\ card'.part /\ local'.width = card'.bootWidth
    <3>1. "failed" \notin events' /\ events \subseteq {"accepted"}
      BY <2>4, <2>7
    <3>2. local.part = card.part /\ local.width = card.bootWidth
      BY <1>0, <2>2, <2>7, <3>1 DEF Checked
    <3>3. CASE local.part
      BY <2>1, <2>2, <2>3, <3>2, <3>3
    <3>4. CASE ~local.part
      BY <2>1, <2>2, <2>3, <3>1, <3>2, <3>4 DEF Switch
    <3> QED BY <3>3, <3>4
  <2> QED
    BY <1>0, <1>3, <2>2, <2>4, <2>5, <2>6, <2>7, BootFields DEF Checked, BootSettings
<1>4. CASE BootWidth
  <2>1. /\ pc = "boot_width" /\ pc' = "off" /\ dev.isInit
        /\ UNCHANGED <<chip, host, dev, local>>
    BY <1>0, <1>4 DEF BootWidth, Course, Booting
  <2>2. \/ local.width /\ UNCHANGED <<card, events>>
        \/ \E ok, done \in BOOLEAN :
             /\ Switch(ok, done)
             /\ card' = IF done THEN [card EXCEPT !.bootWidth = TRUE] ELSE card
    BY <1>4 DEF BootWidth
  <2>3. /\ card'.part = card.part /\ card'.access = card.access
        /\ "failed" \notin events' => (local.width /\ card' = card) \/ card'.bootWidth
    BY <1>0, <2>2 DEF Cards, Switch
  <2>4. events' = events \/ events' = events \cup {"failed"}
    BY <2>2 DEF Switch
  <2>5. Talking' <=> Talking
    BY <1>0, <1>4, <2>1, BootFields DEF Talking
  <2>6. "blind" \notin events' => card'.access = "user"
    BY <1>0, <2>3, <2>4 DEF Checked, BootSettings
  <2>7. ASSUME events' \subseteq {"accepted"}, Talking, chip.kind = "mmc4"
        PROVE  card'.part /\ card'.bootWidth
    <3>1. "failed" \notin events' /\ events \subseteq {"accepted"}
      BY <2>4, <2>7
    <3>2. card.part /\ local.width = card.bootWidth
      BY <1>0, <2>1, <2>7, <3>1 DEF Checked
    <3> QED BY <2>3, <3>1, <3>2
  <2> QED
    BY <1>0, <2>1, <2>4, <2>5, <2>6, <2>7 DEF Checked, BootSettings
<1>5. ASSUME Next, ~BootRead, ~BootPart, ~BootWidth PROVE Checked'
  <2>1. ~dev'.isInit \/ SetClock
    BY <1>0, <1>5, InitEntry
  <2>2. card'.access \in {card.access, "user"}
    <3>1. Begin \/ ProbeWidth \/ SdWidth \/ SwitchHs \/ SelectCard =>
            card'.access \in {card.access, "user"}
      BY <1>0, BeginFields, ProbeFields, SdWidthFields, HsFields, SelectFields
    <3>2. SdSendOpCond \/ MmcSendOpCond => card'.access = card.access
      BY <1>0, SdOpFields, MmcOpFields, ReadyFields
    <3>3. AllSendCid \/ RelativeAddr => card'.access = card.access
      BY <1>0 DEF AllSendCid, RelativeAddr, Cards
    <3>4. GoIdle \/ SendIfCond \/ SendCsd \/ SendExtCsd \/ CardType \/ Timing \/ TestWidth
            \/ SetClock \/ SdApp \/ SdScr \/ SdCheck \/ SdSwitchHs => card' = card
      BY DEF GoIdle, SendIfCond, SendCsd, SendExtCsd, CardType, Timing, TestWidth,
         SetClock, SdApp, SdScr, SdCheck, SdSwitchHs
    <3> QED BY <1>5, <3>1, <3>2, <3>3, <3>4 DEF Next, Step
  <2>3. "blind" \notin events'
    <3>1. dev.isInit => Begin
      <4>1. dev.isInit => pc \in Booting \cup {"off"}
        BY <1>0 DEF Course
      <4> QED BY <1>0, <1>5, <4>1, OffSteps
    <3>2. ~dev.isInit
      BY <3>1 DEF Begin
    <3>3. "blind" \notin events
      BY <1>0, <3>2 DEF Checked
    <3>4. Begin => "blind" \notin events'
      BY <1>0, <3>3, BeginFields
    <3>5. GoIdle \/ SendIfCond \/ SdSendOpCond \/ MmcSendOpCond \/ AllSendCid \/ RelativeAddr
            \/ SendCsd \/ SelectCard \/ SetClock \/ SdApp \/ SdScr \/ SdCheck \/ SdSwitchHs
            \/ SdWidth => events' = events
      BY DEF GoIdle, SendIfCond, SdSendOpCond, MmcSendOpCond, AllSendCid, RelativeAddr,
         SendCsd, SelectCard, SetClock, SdApp, SdScr, SdCheck, SdSwitchHs, SdWidth
    <3>6. SendExtCsd => "blind" \notin events'
      BY <3>3 DEF SendExtCsd, Read
    <3>7. CardType => "blind" \notin events'
      BY <3>3 DEF CardType, Read
    <3>8. Timing => "blind" \notin events'
      BY <3>3 DEF Timing, Read
    <3>9. TestWidth => "blind" \notin events'
      BY <3>3 DEF TestWidth, Read
    <3>10. SwitchHs => "blind" \notin events'
      BY <3>3 DEF SwitchHs, Switch
    <3>11. ProbeWidth => "blind" \notin events'
      BY <3>3 DEF ProbeWidth, Switch
    <3> QED
      BY <1>5, <3>3, <3>4, <3>5, <3>6, <3>7, <3>8, <3>9, <3>10, <3>11 DEF Next, Step
  <2>4. pc' # "boot_part"
    BY <1>0, <1>5, PartEntry
  <2> QED BY <1>5, <2>1, <2>2, <2>3, <2>4, CheckedEarly
<1> QED BY <1>1, <1>2, <1>3, <1>4, <1>5

-----------------------------------------------------------------------------
(* The theorems *)

LEMMA Initially == Init => IInv
<1> SUFFICES ASSUME Init PROVE IInv
  OBVIOUS
<1>1. TypeOK
  BY TypeInit
<1>2. /\ pc = "off" /\ events = {} /\ test = FALSE
      /\ dev.version = "none" /\ dev.caps = {} /\ dev.rca = 0 /\ dev.isInit = FALSE
      /\ card.state = "idle" /\ card.access = "user"
  BY DEF Init
<1>3. Course /\ Versions
  BY <1>2 DEF Course, Versions, IsSd, ExtCsd, Probing, SdSetup, Booting
<1>4. Slow /\ Timed /\ Offered
  BY <1>2 DEF Slow, Timed, Offered, Identifying, ExtCsd, Probing
<1>5. Marked /\ Rounds /\ Accepted
  BY <1>2 DEF Marked, Rounds, Accepted, AcceptedWorks
<1>6. Searched /\ Checked
  BY <1>2 DEF Searched, Checked, BootSettings
<1> QED BY <1>1, <1>3, <1>4, <1>5, <1>6 DEF IInv

LEMMA Invariance == Spec => []IInv
<1>1. IInv /\ [Next]_vars => IInv'
  <2> SUFFICES ASSUME IInv, [Next]_vars PROVE IInv'
    OBVIOUS
  <2>1. TypeOK'
    BY TypeStep DEF IInv
  <2> QED
    BY <2>1, CourseStep, VersionsStep, SlowStep, TimedStep, OfferedStep, MarkedStep,
       RoundsStep, AcceptedStep, SearchedStep, CheckedStep DEF IInv
<1> QED BY Initially, <1>1, PTL DEF Spec

\* The variables hold what the code's types and registers can, whatever the
\* card, the board and the failures.
THEOREM TypeCorrect == Spec => []TypeOK
<1>1. IInv => TypeOK
  BY DEF IInv
<1> QED BY Invariance, <1>1, PTL

\* mmc_dev_init talks to a card it does not know yet with one bit, without DDR
\* and slowly, in the first attempt and in each one after a failure; and an MMC
\* is not clocked beyond the timing it has been switched to.
THEOREM Slowly == Spec => []IdentifiedSlowly
<1>1. IInv => IdentifiedSlowly
  <2> SUFFICES ASSUME IInv PROVE IdentifiedSlowly
    OBVIOUS
  <2>1. pc \in Identifying => host.mode = Mode(1, FALSE) /\ host.clock \in 1 .. MMC_CCLK_MIN
    BY DEF IInv, Slow
  <2>2. chip.kind # "sd" => CsdSpeed = 200
    BY DEF CsdSpeed
  <2>3. dev.isInit /\ chip.kind # "sd" /\ "failed" \notin events =>
          host.clock <= (IF ~card.hs THEN 200 ELSE IF chip.fast THEN 520 ELSE 260)
    BY DEF IInv, Timed
  <2>4. dev.isInit /\ chip.kind # "sd" /\ "failed" \notin events =>
          host.clock <= (IF ~card.hs THEN CsdSpeed ELSE IF chip.fast THEN 520 ELSE 260)
    <3>1. CASE card.hs
      BY <2>3, <3>1
    <3>2. CASE ~card.hs
      BY <2>2, <2>3, <3>2
    <3> QED BY <3>1, <3>2
  <2> QED BY <2>1, <2>4, Zenon DEF IdentifiedSlowly
<1> QED BY Invariance, <1>1, PTL

\* sd_send_op_cond and mmc_dev_send_op_cnd never let a card of one kind be set
\* up as one of the other, also when a failure is taken for an answer.
THEOREM Kind == Spec => []KindRight
<1>1. IInv => KindRight
  <2> SUFFICES ASSUME IInv, dev.isInit PROVE IsSd <=> chip.kind = "sd"
    BY DEF KindRight
  <2>1. dev.version \in VersionNames
    BY Types DEF IInv, Devs
  <2> QED BY <2>1 DEF IInv, Versions, IsSd, VersionNames
<1> QED BY Invariance, <1>1, PTL

\* What the width test has accepted the card, the controller and the board
\* agree on, also after mmc_set_clock has called set_ios again.
THEOREM AcceptedRight == Spec => []AcceptedWorks
<1>1. IInv => AcceptedWorks
  BY DEF IInv, Accepted
<1> QED BY Invariance, <1>1, PTL

\* Without a failure the width test ends with a mode that works, for any set of
\* modes the board may carry, under the stated premise on DDR.
THEOREM ModeFound == Spec => []FindsMode
<1>1. IInv => FindsMode
  <2> SUFFICES ASSUME IInv, dev.isInit, Sound PROVE Talking
    BY DEF FindsMode, Sound
  <2>1. "accepted" \in events /\ local.rev
    BY DEF IInv, Searched
  <2>2. "late" \notin events /\ ~chip.rev0
    BY DEF IInv, Marked, Sound
  <2>3. host.mode = card.mode /\ card.mode \in chip.works
    BY <2>1, <2>2 DEF IInv, Accepted, AcceptedWorks
  <2>4. card.state = "tran"
    BY DEF IInv, Course
  <2> QED BY <2>3, <2>4 DEF Talking
<1> QED BY Invariance, <1>1, PTL

\* check_ext_csd leaves the user area selected, and the boot settings right when
\* nothing has failed.
THEOREM BootRight == Spec => []BootSettings
<1>1. IInv => BootSettings
  BY DEF IInv, Checked
<1> QED BY Invariance, <1>1, PTL

=============================================================================
