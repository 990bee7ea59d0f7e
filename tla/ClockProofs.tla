---------------------------- MODULE ClockProofs -----------------------------
(***************************************************************************)
(* Proofs about the two procedures of MCG.c that measure a clock: the check *)
(* of the RTC oscillator in fei_fee_rtc and the automatic trim in atc.      *)
(***************************************************************************)
EXTENDS RtcCheck, AutoTrim, TLAPS

-----------------------------------------------------------------------------
(* The prescaler of the RTC.                                               *)

\* The prescaler goes up by one and starts again at 0.
LEMMA TickOfPrescaler ==
  ASSUME NEW m \in Nat, NEW a \in 0..(m - 1)
  PROVE  (a + 1) % m = IF a + 1 = m THEN 0 ELSE a + 1
<1>1. CASE a + 1 = m
  <2>1. \A n \in Nat \ {0} : n % n = 0
    BY Z3
  <2>. QED
    BY <1>1, <2>1
<1>2. CASE a + 1 < m
  <2>1. \A b, n \in Nat : b < n => b % n = b
    BY Z3
  <2>. QED
    BY <1>2, <2>1
<1>. QED
  BY <1>1, <1>2

\* How many ticks the prescaler is away from the value the loop waits for.
Away ==
  IF rtcCall.count >= rtc.tpr THEN rtcCall.count - rtc.tpr ELSE rtcCall.count - rtc.tpr + TPR_MOD

RtcTypeOK ==
  /\ rtc \in [gate : BOOLEAN, tce : BOOLEAN, osce : BOOLEAN, tif : BOOLEAN, oscUp : BOOLEAN,
              tpr : 0..(TPR_MOD - 1)]
  /\ rtcPc \in {"idle", "snapshot", "high", "low", "poll", "recheck"}
  /\ rtcCall \in [gate : BOOLEAN, tce : BOOLEAN, count : Nat, result : {NotYet, 0, \h25}]
  /\ seen \in [waited : Nat, looked : BOOLEAN, counted : Nat, moved : BOOLEAN, torn : BOOLEAN]

\* The first read still says where the second one will be, as long as no tick fell between them.
SnapshotInv ==
  /\ rtcPc \in {"snapshot", "high", "low"} => seen.counted = 0 /\ seen.looked
  /\ ~seen.torn \/ ~seen.moved =>
       /\ rtcPc = "high" => rtc.tpr > TPR_MOD - TPR_AHEAD - 1
       /\ rtcPc = "low" => rtc.tpr <= TPR_MOD - TPR_AHEAD - 1

\* The ticks counted and the ticks still to come are at most a quarter of a second, and the loop
\* does not miss the value it waits for; without any tick that value is never there.
LoopInv ==
  rtcPc \in {"poll", "recheck"} =>
    /\ ~seen.torn => /\ rtcCall.count < TPR_MOD
                     /\ seen.counted + Away <= 2 * TPR_AHEAD
                     /\ rtcPc = "poll" /\ seen.looked => Away > 0
    /\ ~seen.moved => rtcCall.count # rtc.tpr

RtcInv ==
  /\ RtcTypeOK
  /\ rtcPc # "idle" => rtcCall.result = NotYet
  /\ SnapshotInv
  /\ LoopInv
  /\ RtcCheckSound

\* No call has been made at the start.
LEMMA RtcInvInit == RtcInit => RtcInv
<1>. SUFFICES ASSUME RtcInit
              PROVE  RtcInv
  OBVIOUS
<1>1. RtcTypeOK
  <2>1. rtcCall \in [gate : BOOLEAN, tce : BOOLEAN, count : Nat, result : {NotYet, 0, \h25}]
    BY DEF RtcInit, FreshCall
  <2>2. seen \in [waited : Nat, looked : BOOLEAN, counted : Nat, moved : BOOLEAN, torn : BOOLEAN]
    BY DEF RtcInit, NothingSeen
  <2>. QED
    BY <2>1, <2>2 DEF RtcInit, RtcTypeOK
<1>2. rtcPc = "idle" /\ rtcCall.result = NotYet
  BY DEF RtcInit, FreshCall
<1>. QED
  BY <1>1, <1>2 DEF RtcInv, SnapshotInv, LoopInv, RtcCheckSound, NotYet, PassedMeansCounting,
     FailureExplained, RtcLeftAsFound

\* Every step of fei_fee_rtc, of the oscillator and of the prescaler keeps the invariant.
LEMMA RtcInvNext == RtcInv /\ [RtcNext]_rtcVars => RtcInv'
<1>. SUFFICES ASSUME RtcInv, [RtcNext]_rtcVars
              PROVE  RtcInv'
  OBVIOUS
<1>. USE RtcCheckAssumption
<1>. USE DEF RtcInv, NotYet
<1>a. rtc.tpr \in 0..(TPR_MOD - 1) /\ rtcCall.count \in Nat /\ seen.counted \in Nat
  BY DEF RtcTypeOK
<1>1. CASE RtcPrepare
  <2>1. /\ rtcCall' = [gate |-> rtc.gate, tce |-> rtc.tce, count |-> 0, result |-> NotYet]
        /\ rtc' = [rtc EXCEPT !.gate = TRUE, !.tce = TRUE, !.osce = TRUE, !.tif = FALSE]
        /\ seen' = NothingSeen /\ rtcPc' = "snapshot"
    BY <1>1 DEF RtcPrepare, FreshCall
  <2>2. RtcTypeOK'
    <3>1. rtcCall' \in [gate : BOOLEAN, tce : BOOLEAN, count : Nat, result : {NotYet, 0, \h25}]
      BY <2>1 DEF RtcTypeOK
    <3>2. seen' \in [waited : Nat, looked : BOOLEAN, counted : Nat, moved : BOOLEAN, torn : BOOLEAN]
      BY <2>1 DEF NothingSeen
    <3>3. rtc' \in [gate : BOOLEAN, tce : BOOLEAN, osce : BOOLEAN, tif : BOOLEAN, oscUp : BOOLEAN,
                    tpr : 0..(TPR_MOD - 1)]
      BY <2>1 DEF RtcTypeOK
    <3>. QED
      BY <2>1, <3>1, <3>2, <3>3 DEF RtcTypeOK
  <2>. QED
    BY <2>1, <2>2 DEF NothingSeen, SnapshotInv, LoopInv, RtcCheckSound,
       PassedMeansCounting, FailureExplained, RtcLeftAsFound
<1>2. CASE RtcLook
  BY <1>2 DEF RtcLook, RtcTypeOK, SnapshotInv, LoopInv, RtcCheckSound,
     PassedMeansCounting, FailureExplained, RtcLeftAsFound
<1>3. CASE RtcSnapshot
  <2>. USE <1>3 DEF RtcSnapshot
  <2>1. Ahead(rtcPc = "high") \in Nat
    BY <1>a DEF Ahead
  <2>2. RtcTypeOK'
    BY <2>1 DEF RtcTypeOK
  <2>3. LoopInv'
    <3>1. rtcCall'.count = Ahead(rtcPc = "high") /\ rtc' = rtc /\ seen' = seen
      BY DEF RtcTypeOK
    <3>2. CASE rtcPc = "high"
      BY <3>1, <3>2, <1>a DEF SnapshotInv, LoopInv, Away, Ahead
    <3>3. CASE rtcPc = "low"
      BY <3>1, <3>3, <1>a DEF SnapshotInv, LoopInv, Away, Ahead
    <3>. QED
      BY <3>2, <3>3
  <2>. QED
    BY <2>2, <2>3 DEF RtcTypeOK, SnapshotInv, RtcCheckSound,
       PassedMeansCounting, FailureExplained, RtcLeftAsFound
<1>4. CASE RtcPoll
  <2>. USE <1>4 DEF RtcPoll
  <2>1. RtcTypeOK'
    BY DEF RtcTypeOK
  <2>2. LoopInv'
    BY <1>a DEF LoopInv, Away, RtcTypeOK
  <2>. QED
    BY <2>1, <2>2 DEF RtcTypeOK, SnapshotInv, RtcCheckSound,
       PassedMeansCounting, FailureExplained, RtcLeftAsFound
<1>5. CASE RtcDecide
  <2>. USE <1>5 DEF RtcDecide, RtcUndo
  <2>1. RtcTypeOK'
    BY DEF RtcTypeOK
  <2>2. PassedMeansCounting'
    BY <1>a DEF PassedMeansCounting, LoopInv, RtcTypeOK
  <2>3. FailureExplained'
    BY <1>a DEF FailureExplained, LoopInv, Away, RtcTypeOK
  <2>4. RtcLeftAsFound'
    BY DEF RtcLeftAsFound, RtcTypeOK
  <2>. QED
    BY <2>1, <2>2, <2>3, <2>4 DEF SnapshotInv, LoopInv, RtcCheckSound
<1>6. CASE RtcTick
  <2>. USE <1>6 DEF RtcTick
  <2>1. Counting => rtc' = [rtc EXCEPT !.tpr = IF rtc.tpr + 1 = TPR_MOD THEN 0 ELSE rtc.tpr + 1]
    BY <1>a, TickOfPrescaler DEF RtcTypeOK
  <2>2. ~Counting => rtc' = rtc
    OBVIOUS
  <2>3. RtcTypeOK'
    <3>1. rtc' \in [gate : BOOLEAN, tce : BOOLEAN, osce : BOOLEAN, tif : BOOLEAN, oscUp : BOOLEAN,
                    tpr : 0..(TPR_MOD - 1)]
      BY <2>1, <2>2, <1>a DEF RtcTypeOK
    <3>2. Counting \in BOOLEAN
      BY DEF Counting, RtcTypeOK
    <3>3. seen' \in [waited : Nat, looked : BOOLEAN, counted : Nat, moved : BOOLEAN, torn : BOOLEAN]
      BY <3>2 DEF RtcTypeOK
    <3>. QED
      BY <3>1, <3>3 DEF RtcTypeOK
  <2>4. SnapshotInv'
    BY <2>1, <2>2, <1>a DEF SnapshotInv, RtcTypeOK
  <2>5. LoopInv'
    <3>1. CASE Counting
      <4>1. rtc'.tpr = IF rtc.tpr + 1 = TPR_MOD THEN 0 ELSE rtc.tpr + 1
        BY <3>1, <2>1 DEF RtcTypeOK
      <4>2. seen'.moved /\ rtcCall' = rtcCall /\ rtcPc' = rtcPc
        BY <3>1
      <4>3. CASE rtcPc = "poll" /\ ~seen'.torn
        <5>1. ~seen.torn /\ seen.looked /\ ~seen'.looked
          BY <4>3 DEF RtcTypeOK
        <5>2. rtcCall.count < TPR_MOD /\ seen.counted + Away <= 2 * TPR_AHEAD /\ Away > 0
          BY <5>1, <4>3 DEF LoopInv
        <5>3. Away' = Away - 1
          BY <5>2, <4>1, <4>2, <1>a DEF Away
        <5>4. seen'.counted \in Nat /\ seen'.counted <= seen.counted + 1
          BY <1>a
        <5>5. Away \in Int
          BY <1>a DEF Away
        <5>. QED
          BY <5>1, <5>2, <5>3, <5>4, <5>5, <4>2, <4>3, <1>a DEF LoopInv
      <4>4. CASE rtcPc = "recheck"
        BY <4>4, <4>2, <3>1 DEF LoopInv
      <4>. QED
        BY <4>2, <4>3, <4>4 DEF LoopInv
    <3>2. CASE ~Counting
      BY <3>2, <2>2, <1>a DEF LoopInv, Away, RtcTypeOK
    <3>. QED
      BY <3>1, <3>2
  <2>. QED
    BY <2>3, <2>4, <2>5 DEF RtcCheckSound, PassedMeansCounting, FailureExplained, RtcLeftAsFound
<1>7. CASE OscStarts
  <2>1. rtcPc' = rtcPc /\ rtcCall' = rtcCall /\ seen' = seen
    BY <1>7 DEF OscStarts
  <2>2. RtcTypeOK' /\ rtc'.tpr = rtc.tpr /\ rtc'.gate = rtc.gate /\ rtc'.tce = rtc.tce
    BY <1>7 DEF OscStarts, RtcTypeOK
  <2>3. SnapshotInv' /\ LoopInv'
    BY <2>1, <2>2 DEF SnapshotInv, LoopInv, Away
  <2>4. RtcCheckSound'
    BY <2>1, <2>2 DEF RtcCheckSound, PassedMeansCounting, FailureExplained, RtcLeftAsFound
  <2>. QED
    BY <2>1, <2>2, <2>3, <2>4
<1>8. CASE UNCHANGED rtcVars
  BY <1>8 DEF rtcVars, RtcTypeOK, SnapshotInv, LoopInv, Away, RtcCheckSound,
     PassedMeansCounting, FailureExplained, RtcLeftAsFound
<1>. QED
  BY <1>1, <1>2, <1>3, <1>4, <1>5, <1>6, <1>7, <1>8 DEF RtcNext

\* For every size of the prescaler and every distance it is checked over: fei_fee_rtc passes the RTC
\* only when it has counted, fails it only when it counted for less than the distance or a tick fell
\* between two reads, and leaves the clock gate and the time counter as they were.
THEOREM RtcCheckIsSound == RtcSpec => []RtcCheckSound
<1>1. RtcInv => RtcCheckSound
  BY DEF RtcInv
<1>. QED
  BY <1>1, RtcInvInit, RtcInvNext, PTL DEF RtcSpec

-----------------------------------------------------------------------------
(* The automatic trim.                                                     *)

\* A quotient is below a bound when the dividend is below the bound times the divisor.
LEMMA QuotientBelow ==
  ASSUME NEW a \in Nat, NEW b \in Nat \ {0}, NEW q \in Nat, a < b * q
  PROVE  a \div b \in Nat /\ a \div b < q
  BY Z3

\* The divider that atc writes brings every clock of at least 8 MHz into the range of the trim
\* machine, and none above it.
LEMMA DividerServes ==
  ASSUME NEW out \in Nat, out < 256000000
  PROVE  /\ BusDivider(out) \in 0..15
         /\ BusHz(out, BusDivider(out)) \in Nat
         /\ BusHz(out, BusDivider(out)) <= 16000000
         /\ out >= 8000000 => BusHz(out, BusDivider(out)) >= 8000000
<1>. DEFINE k == out \div 16000000
<1>1. k \in Nat /\ k < 16 /\ 16000000 * k <= out /\ out < 16000000 * (k + 1)
  BY Z3
<1>2. BusDivider(out) = k
  <2>1. \A n \in 0..15 : n % 16 = n
    BY Z3
  <2>. QED
    BY <2>1, <1>1, SMT DEF BusDivider
<1>. HIDE DEF k
<1>3. k \in 0..15
  BY <1>1, SMT
<1>4. out \div (k + 1) \in Nat /\ out \div (k + 1) <= 16000000
  BY <1>1, <1>3, Z3
<1>5. out >= 8000000 => out \div (k + 1) >= 8000000
  BY <1>1, <1>3, Z3
<1>. QED
  BY <1>2, <1>3, <1>4, <1>5, SMT DEF BusHz

\* For the frequencies that atc accepts the count fits the 16 bits of ATCV.
LEMMA CountFits ==
  ASSUME NEW fast \in BOOLEAN, NEW bus \in Nat, bus <= 16000000, NEW freq \in Nat \ {0},
         IrcResult(fast, freq) = 0
  PROVE  Atcv(fast, bus, freq) = TrimCount(fast, bus, freq) /\ TrimCount(fast, bus, freq) \in Nat
<1>1. \A n \in Nat : n < 65536 => n % 65536 = n
  BY Z3
<1>2. TrimCount(fast, bus, freq) \in Nat /\ TrimCount(fast, bus, freq) < 65536
  <2>1. CASE fast
    <3>. DEFINE b == bus \div 1000
                f == freq \div 1000
    <3>1. freq >= 3000000
      BY <2>1, SMT DEF IrcResult
    <3>2. b \in Nat /\ b <= 16000 /\ f \in Nat /\ f >= 3000
      BY <3>1, Z3
    <3>. HIDE DEF b, f
    <3>3. 128 * 21 * b \in Nat /\ 128 * 21 * b < f * 65536
      BY <3>2, SMT
    <3>4. (128 * 21 * b) \div f \in Nat /\ (128 * 21 * b) \div f < 65536
      BY <3>2, <3>3, QuotientBelow, SMT
    <3>. QED
      BY <2>1, <3>4, SMT DEF TrimCount, b, f
  <2>2. CASE ~fast
    <3>1. freq >= 31250
      BY <2>2, SMT DEF IrcResult
    <3>2. 21 * bus \in Nat /\ 21 * bus < freq * 65536
      BY <3>1, SMT
    <3>3. (21 * bus) \div freq \in Nat /\ (21 * bus) \div freq < 65536
      BY <3>2, QuotientBelow, SMT
    <3>. QED
      BY <2>2, <3>3, SMT DEF TrimCount
  <2>. QED
    BY <2>1, <2>2, SMT
<1>. QED
  BY <1>1, <1>2, SMT DEF Atcv

AtcRecord == [running : BOOLEAN, orig : [bus : 0..15, flash : 0..15], out : Nat, fast : BOOLEAN,
              freq : Nat, result : Int]
TrimmerRecord == [atme : BOOLEAN, atms : BOOLEAN, atmf : BOOLEAN, atcv : Nat, limit : BOOLEAN]

TrimTypeOK ==
  /\ outdiv \in [bus : 0..15, flash : 0..15]
  /\ trimmer \in TrimmerRecord
  /\ atcCall \in AtcRecord

\* From its start to its return a call keeps the dividers and the count it has set up, and the
\* machine runs only in a call.
TrimInv ==
  /\ TrimTypeOK
  /\ trimmer.atme => atcCall.running
  /\ atcCall.running =>
       /\ BusHz(atcCall.out, outdiv.bus) >= 8000000
       /\ BusHz(atcCall.out, outdiv.bus) <= 16000000
       /\ outdiv.flash = outdiv.bus
       /\ trimmer.atcv = TrimCount(atcCall.fast, BusHz(atcCall.out, outdiv.bus), atcCall.freq)
       /\ atcCall.result = NotCalled
  /\ RefusedOnlyWhenSlow
  /\ DividersRestored

\* The machine is off at the start.
LEMMA TrimInvInit == TrimInit => TrimInv
<1>. SUFFICES ASSUME TrimInit
              PROVE  TrimInv
  OBVIOUS
<1>1. outdiv \in [bus : 0..15, flash : 0..15]
  BY AutoTrimAssumption, SMT DEF TrimInit
<1>2. atcCall = [running |-> FALSE, orig |-> outdiv, out |-> 0, fast |-> FALSE, freq |-> 0,
                 result |-> NotCalled]
  BY DEF TrimInit, NoCall
<1>3. atcCall \in AtcRecord
  BY <1>1, <1>2, SMT DEF AtcRecord, NotCalled
<1>4. trimmer \in TrimmerRecord /\ ~trimmer.atme
  BY SMT DEF TrimInit, TrimmerRecord
<1>. QED
  BY <1>1, <1>2, <1>3, <1>4, SMT DEF TrimInv, TrimTypeOK, RefusedOnlyWhenSlow, DividersRestored, NotCalled

\* atc up to its polling loop: a refused call leaves all as it was, an accepted one sets up a bus
\* clock in range and a count that fits.
LEMMA AtcKeepsTrimInv ==
  ASSUME TrimInv, NEW mode, NEW fast \in BOOLEAN, NEW freq \in TrimFreqs, NEW out \in TrimOuts,
         atc(mode, fast, freq, out)
  PROVE  TrimInv'
<1>. DEFINE div == BusDivider(out)
            bus == BusHz(out, div)
            result == IF mode \notin {"PEE", "PBE", "FBE"} THEN 1
                      ELSE IF BusResult(bus) # 0 THEN BusResult(bus) ELSE IrcResult(fast, freq)
            call == [running |-> FALSE, orig |-> outdiv, out |-> out, fast |-> fast, freq |-> freq,
                     result |-> NotCalled]
<1>t. TrimTypeOK
  BY SMT DEF TrimInv
<1>1. out \in Nat /\ out < 256000000 /\ freq \in Nat \ {0}
  BY AutoTrimAssumption, SMT
<1>2. /\ div \in 0..15 /\ bus \in Nat /\ bus <= 16000000
      /\ out >= 8000000 => bus >= 8000000
  BY <1>1, DividerServes, SMT
<1>3. /\ result # 0 => atcCall' = [call EXCEPT !.result = result] /\ outdiv' = outdiv /\ trimmer' = trimmer
      /\ result = 0 => /\ outdiv' = [bus |-> div, flash |-> div]
                       /\ trimmer' = [trimmer EXCEPT !.atme = TRUE, !.atms = fast, !.atmf = FALSE,
                                                     !.atcv = Atcv(fast, bus, freq)]
                       /\ atcCall' = [call EXCEPT !.running = TRUE]
      /\ ~atcCall.running
  <2>1. Restored(call, result) = outdiv
    BY DEF Restored
  <2>2. IF result # 0 THEN /\ atcCall' = [call EXCEPT !.result = result]
                           /\ outdiv' = Restored(call, result) /\ trimmer' = trimmer
        ELSE /\ outdiv' = [bus |-> div, flash |-> div]
             /\ trimmer' = [trimmer EXCEPT !.atme = TRUE, !.atms = fast, !.atmf = FALSE,
                                           !.atcv = Atcv(fast, bus, freq)]
             /\ atcCall' = [call EXCEPT !.running = TRUE]
    BY Zenon DEF atc
  <2>3. ~atcCall.running
    BY Zenon DEF atc
  <2>. HIDE DEF result, call, div, bus
  <2>. QED
    BY <2>1, <2>2, <2>3, SMT
<1>4. call \in AtcRecord
  BY <1>t, <1>1, SMT DEF AtcRecord, TrimTypeOK, NotCalled
<1>5. result \in Int
  BY SMT DEF BusResult, IrcResult
<1>8. result = 3 => out < 8000000
  BY <1>1, <1>2, SMT DEF BusResult, IrcResult
<1>6. CASE result # 0
  <2>1. atcCall' = [call EXCEPT !.result = result] /\ outdiv' = outdiv /\ trimmer' = trimmer
    BY <1>3, <1>6
  <2>. HIDE DEF result
  <2>2. atcCall' \in AtcRecord /\ ~atcCall'.running /\ atcCall'.orig = outdiv /\ atcCall'.result = result
        /\ atcCall'.out = out
    BY <2>1, <1>4, <1>5 DEF AtcRecord
  <2>3. ~trimmer.atme
    BY <1>3, SMT DEF TrimInv
  <2>. QED
    BY <2>1, <2>2, <2>3, <1>8, SMT DEF TrimInv, TrimTypeOK, RefusedOnlyWhenSlow, DividersRestored
<1>7. CASE result = 0
  <2>1. /\ outdiv' = [bus |-> div, flash |-> div]
        /\ trimmer' = [trimmer EXCEPT !.atme = TRUE, !.atms = fast, !.atmf = FALSE,
                                      !.atcv = Atcv(fast, bus, freq)]
        /\ atcCall' = [call EXCEPT !.running = TRUE]
    BY <1>3, <1>7
  <2>2. bus >= 8000000 /\ IrcResult(fast, freq) = 0
    BY <1>1, <1>2, <1>7, SMT DEF BusResult, IrcResult
  <2>. HIDE DEF result
  <2>3. Atcv(fast, bus, freq) = TrimCount(fast, bus, freq) /\ TrimCount(fast, bus, freq) \in Nat
    BY <1>1, <1>2, <2>2, CountFits, SMT
  <2>. HIDE DEF div, bus
  <2>4. /\ atcCall' \in AtcRecord /\ atcCall'.running /\ atcCall'.out = out /\ atcCall'.fast = fast
        /\ atcCall'.freq = freq /\ atcCall'.result = NotCalled
    BY <2>1, <1>4 DEF AtcRecord
  <2>5. trimmer' \in TrimmerRecord /\ trimmer'.atcv = TrimCount(fast, bus, freq)
    BY <1>t, <2>1, <2>3 DEF TrimTypeOK, TrimmerRecord
  <2>6. outdiv' \in [bus : 0..15, flash : 0..15] /\ outdiv'.bus = div /\ outdiv'.flash = div
    BY <2>1, <1>2, SMT
  <2>7. BusHz(atcCall'.out, outdiv'.bus) = bus
    BY <2>4, <2>6, SMT DEF bus
  <2>8. RefusedOnlyWhenSlow' /\ DividersRestored'
    BY <2>4, SMT DEF RefusedOnlyWhenSlow, DividersRestored, NotCalled
  <2>. QED
    BY <2>2, <2>4, <2>5, <2>6, <2>7, <2>8, <1>2, SMT DEF TrimInv, TrimTypeOK
<1>. QED
  BY <1>6, <1>7, SMT

\* Every step of atc and of the trim machine keeps the invariant.
LEMMA TrimInvNext == TrimInv /\ [TrimNext]_trimVars => TrimInv'
<1>. SUFFICES ASSUME TrimInv, [TrimNext]_trimVars
              PROVE  TrimInv'
  OBVIOUS
<1>t. TrimTypeOK
  BY SMT DEF TrimInv
<1>1. ASSUME NEW mode \in TrimModes, NEW fast \in BOOLEAN, NEW freq \in TrimFreqs, NEW out \in TrimOuts,
             atc(mode, fast, freq, out)
      PROVE  TrimInv'
  BY <1>1, AtcKeepsTrimInv, SMT
<1>2. CASE TrimMachine
  <2>1. trimmer' \in TrimmerRecord /\ ~trimmer'.atme /\ trimmer'.atcv = trimmer.atcv
    BY <1>t, <1>2 DEF TrimMachine, TrimTypeOK, TrimmerRecord
  <2>2. outdiv' = outdiv /\ atcCall' = atcCall
    BY <1>2, SMT DEF TrimMachine
  <2>. QED
    BY <2>1, <2>2, SMT DEF TrimInv, TrimTypeOK, RefusedOnlyWhenSlow, DividersRestored
<1>3. CASE AtcReturns
  <2>1. PICK result \in {0, 8, 9, 10} :
          /\ atcCall' = [atcCall EXCEPT !.running = FALSE, !.result = result]
          /\ outdiv' = atcCall.orig
    BY <1>3 DEF AtcReturns, Restored
  <2>2. ~trimmer.atme /\ trimmer' = trimmer
    BY <1>3, SMT DEF AtcReturns
  <2>3. /\ atcCall' \in AtcRecord /\ ~atcCall'.running /\ atcCall'.orig = atcCall.orig
        /\ atcCall'.result = result
    <3>1. result \in Int
      BY SMT
    <3>. QED
      BY <1>t, <2>1, <3>1 DEF TrimTypeOK, AtcRecord
  <2>4. outdiv' \in [bus : 0..15, flash : 0..15]
    BY <2>1, SMT DEF TrimInv, TrimTypeOK, AtcRecord
  <2>. QED
    BY <2>1, <2>2, <2>3, <2>4, SMT DEF TrimInv, TrimTypeOK, RefusedOnlyWhenSlow, DividersRestored
<1>4. CASE UNCHANGED trimVars
  BY <1>4, SMT DEF trimVars, TrimInv, TrimTypeOK, RefusedOnlyWhenSlow, DividersRestored
<1>. QED
  BY <1>1, <1>2, <1>3, <1>4, SMT DEF TrimNext

\* For every output frequency the clock generator can have, every reference and all dividers: the
\* trim machine of atc only runs with a bus clock between 8 and 16 MHz and a count that fits its
\* register, only a clock below 8 MHz is refused for its bus clock, and every return restores the
\* dividers.
THEOREM TrimIsSound == TrimSpec => []TrimSound
<1>1. TrimInv => TrimSound
  BY SMT DEF TrimInv, TrimSound, TrimBusInRange, AtcvFits
<1>. QED
  BY <1>1, TrimInvInit, TrimInvNext, PTL DEF TrimSpec
=============================================================================
