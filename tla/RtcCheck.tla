------------------------------ MODULE RtcCheck ------------------------------
(***************************************************************************)
(* The check of fei_fee_rtc (MCG.c) that the RTC oscillator runs, before    *)
(* the clock generator is switched to it: the function turns on what it     *)
(* needs, reads the prescaler of the RTC, waits for it to be an eighth of a *)
(* second ahead, and turns off what it has turned on.  MCG.tla has the rest *)
(* of the function; there the outcome of this check is a choice.           *)
(***************************************************************************)
EXTENDS Integers

CONSTANTS
  TPR_MOD,         \* the prescaler counts 0 .. TPR_MOD - 1; 0x8000
  TPR_AHEAD,       \* 4096
  LoopTicks        \* how long the polling loop takes, in ticks of a running RTC

ASSUME RtcCheckAssumption ==
  /\ TPR_MOD \in Nat /\ TPR_AHEAD \in Nat \ {0} /\ 4 * TPR_AHEAD < TPR_MOD
  /\ LoopTicks \in Nat /\ LoopTicks > TPR_MOD         \* "allows for > 1 second osc start up time"

VARIABLES
  rtc,             \* registers: gate (SCGC6), tce, osce, tif, TPR; oscUp: the oscillator runs
  rtcPc,           \* next step of the check
  rtcCall,         \* what the call has found (gate, tce), rtc_count and the result
  seen             \* ghost: ticks while polling, whether TPR was read since the last one, ticks of
                   \* the RTC while polling (up to a bound), any tick in the call, one between reads

rtcVars == <<rtc, rtcPc, rtcCall, seen>>

NotYet == -1
FreshCall == [gate |-> TRUE, tce |-> TRUE, count |-> 0, result |-> NotYet]
NothingSeen == [waited |-> 0, looked |-> TRUE, counted |-> 0, moved |-> FALSE, torn |-> FALSE]

RtcInit ==
  /\ rtc \in [gate : BOOLEAN, tce : BOOLEAN, osce : BOOLEAN, tif : BOOLEAN, oscUp : {FALSE},
              tpr : 0..(TPR_MOD - 1)]
  /\ rtcPc = "idle" /\ rtcCall = FreshCall /\ seen = NothingSeen

\* The clock gate, the time counter and the oscillator are on, and an invalid time is set.
RtcPrepare ==
  /\ rtcPc = "idle" /\ rtcPc' = "snapshot"
  /\ rtc' = [rtc EXCEPT !.gate = TRUE, !.tce = TRUE, !.osce = TRUE, !.tif = FALSE]
  /\ rtcCall' = [FreshCall EXCEPT !.gate = rtc.gate, !.tce = rtc.tce]
  /\ seen' = NothingSeen

\* RTC->TPR > 0x6FFF: the first read.
RtcLook ==
  /\ rtcPc = "snapshot"
  /\ rtcPc' = IF rtc.tpr > TPR_MOD - TPR_AHEAD - 1 THEN "high" ELSE "low"
  /\ UNCHANGED <<rtc, rtcCall, seen>>

\* Seeded fault: the roll-over is not handled.
Ahead_NoRollOver(high) == rtc.tpr + TPR_AHEAD

\* The value to wait for; the second read.
Ahead(high) == IF high THEN TPR_MOD - rtc.tpr ELSE rtc.tpr + TPR_AHEAD

RtcSnapshot ==
  /\ rtcPc \in {"high", "low"} /\ rtcPc' = "poll"
  /\ rtcCall' = [rtcCall EXCEPT !.count = Ahead(rtcPc = "high")]
  /\ UNCHANGED <<rtc, seen>>

\* One turn of the loop.
RtcPoll ==
  /\ rtcPc = "poll"
  /\ IF rtc.tpr = rtcCall.count \/ seen.waited >= LoopTicks
       THEN rtcPc' = "recheck" /\ UNCHANGED seen
       ELSE ~seen.looked /\ seen' = [seen EXCEPT !.looked = TRUE] /\ UNCHANGED rtcPc
  /\ UNCHANGED <<rtc, rtcCall>>

\* What was off before is off again; both paths do the same.
RtcUndo(ok) == [rtc EXCEPT !.gate = rtcCall.gate, !.tce = rtcCall.tce]

\* The last read of TPR decides.
RtcDecide ==
  /\ rtcPc = "recheck" /\ rtcPc' = "idle"
  /\ LET ok == rtc.tpr = rtcCall.count
     IN rtc' = RtcUndo(ok) /\ rtcCall' = [rtcCall EXCEPT !.result = IF ok THEN 0 ELSE \h25]
  /\ UNCHANGED seen

Counting == rtc.oscUp /\ rtc.tce /\ ~rtc.tif

\* A tick of 1/32768 s.  The loop looks at every value of the prescaler, it is much faster; between
\* two reads outside of the loop there may be a tick.
RtcTick ==
  /\ rtcPc = "poll" => seen.looked /\ seen.waited < LoopTicks
  /\ rtcPc # "idle"
  /\ rtc' = IF Counting THEN [rtc EXCEPT !.tpr = (@ + 1) % TPR_MOD] ELSE rtc
  /\ seen' = [waited |-> seen.waited + (IF rtcPc = "poll" THEN 1 ELSE 0), looked |-> rtcPc # "poll",
              counted |-> IF rtcPc = "poll" /\ Counting /\ seen.counted < 2 * TPR_AHEAD
                           THEN seen.counted + 1 ELSE seen.counted,
              moved |-> seen.moved \/ Counting,
              torn |-> seen.torn \/ (Counting /\ rtcPc \in {"high", "low", "recheck"})]
  /\ UNCHANGED <<rtcPc, rtcCall>>

\* The oscillator runs some time after it was turned on, or never.
OscStarts ==
  /\ rtc.osce /\ ~rtc.oscUp /\ rtc' = [rtc EXCEPT !.oscUp = TRUE]
  /\ UNCHANGED <<rtcPc, rtcCall, seen>>

RtcNext ==
  RtcPrepare \/ RtcLook \/ RtcSnapshot \/ RtcPoll \/ RtcDecide \/ RtcTick \/ OscStarts

RtcSpec == RtcInit /\ [][RtcNext]_rtcVars

----------------------------------------------------------------------------
(* Properties *)

\* The check is passed only when the RTC has been seen to count: an oscillator that stands still, at
\* whatever value of the prescaler, is never taken for the reference of the FLL.
PassedMeansCounting == rtcCall.result = 0 => seen.moved

\* A failure of the check means that the RTC counted for less than an eighth of a second (a quarter,
\* near the roll-over) while it was polled, or that a tick fell between two reads that should have
\* been one: the two of the snapshot, or the one that ends the loop and the one that decides.
FailureExplained ==
  rtcCall.result = \h25 => seen.counted < 2 * TPR_AHEAD \/ seen.torn

\* On both paths the clock gate and the time counter are left as they were found.
RtcLeftAsFound ==
  rtcPc = "idle" /\ rtcCall.result # NotYet => rtc.gate = rtcCall.gate /\ rtc.tce = rtcCall.tce

\* The check of fei_fee_rtc as a whole: it passes only for an RTC that counts, fails only for one that
\* does not or for a tick between two reads, and leaves the RTC as it found it.
RtcCheckSound == PassedMeansCounting /\ FailureExplained /\ RtcLeftAsFound
=============================================================================
