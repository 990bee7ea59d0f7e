------------------------------ MODULE AutoTrim ------------------------------
(***************************************************************************)
(* atc of MCG.c, the automatic trim of an internal reference clock: the bus *)
(* clock is brought between 8 and 16 MHz, the trim machine counts it        *)
(* against the reference, and the dividers are put back.                   *)
(***************************************************************************)
EXTENDS Integers

CONSTANTS
  TrimModes,       \* modes of the clock generator, of which PEE, PBE and FBE allow the trim
  TrimOuts,        \* values of mcg_out_freq, in Hz
  TrimFreqs,       \* values of irc_freq, in Hz
  Dividers         \* values of OUTDIV2 and OUTDIV4 before

\* pll_init and fll_freq refuse an output above 100 MHz; the four bits of a divider serve 256 MHz.
ASSUME AutoTrimAssumption ==
  /\ TrimOuts \subseteq Nat /\ \A out \in TrimOuts : out < 256000000
  /\ TrimFreqs \subseteq Nat \ {0} /\ Dividers \subseteq 0..15

VARIABLES
  outdiv,          \* [bus, flash]: OUTDIV2 and OUTDIV4 of SIM->CLKDIV1
  trimmer,         \* registers of the trim machine: ATME, ATMS, ATMF, ATCV, and a trim value at its limit
  atcCall          \* running, orig_div, mcg_out_freq, irc_select, irc_freq, result

trimVars == <<outdiv, trimmer, atcCall>>

NotCalled == -1
NoCall == [running |-> FALSE, orig |-> [bus |-> 0, flash |-> 0], out |-> 0, fast |-> FALSE, freq |-> 0,
           result |-> NotCalled]

TrimInit ==
  /\ outdiv \in [bus : Dividers, flash : Dividers]
  /\ trimmer = [atme |-> FALSE, atms |-> FALSE, atmf |-> FALSE, atcv |-> 0, limit |-> FALSE]
  /\ atcCall = [NoCall EXCEPT !.orig = outdiv]

BusHz(out, div) == out \div (div + 1)

\* OUTDIV2 and OUTDIV4 have four bits.
BusDivider(out) == (out \div 16000000) % 16

BusResult(bus) == IF bus < 8000000 \/ bus > 16000000 THEN 3 ELSE 0

\* Seeded fault: the least frequency of the reference is not checked.
IrcResult_NoMin(fast, freq) ==
  IF fast THEN (IF freq > 5000000 THEN 7 ELSE 0) ELSE (IF freq > 39062 THEN 5 ELSE 0)
IrcResult(fast, freq) ==
  IF fast THEN (IF freq < 3000000 THEN 6 ELSE IF freq > 5000000 THEN 7 ELSE 0)
  ELSE (IF freq < 31250 THEN 4 ELSE IF freq > 39062 THEN 5 ELSE 0)

\* The count, which the code calculates in float (in kHz for the fast clock), and the cast to an
\* unsigned short.
TrimCount(fast, bus, freq) ==
  IF fast THEN (128 * 21 * (bus \div 1000)) \div (freq \div 1000) ELSE (21 * bus) \div freq
Atcv(fast, bus, freq) == TrimCount(fast, bus, freq) % 65536

\* SIM->CLKDIV1 after a return with a result.
Restored(call, result) == call.orig

\* Up to the polling loop; the dividers of a refused call are put back at once.  A behaviour has one
\* call: the next one overwrites all that this one leaves behind.
atc(mode, fast, freq, out) ==
  LET div == BusDivider(out)
      bus == BusHz(out, div)
      result == IF mode \notin {"PEE", "PBE", "FBE"} THEN 1
                ELSE IF BusResult(bus) # 0 THEN BusResult(bus) ELSE IrcResult(fast, freq)
      call == [running |-> FALSE, orig |-> outdiv, out |-> out, fast |-> fast, freq |-> freq,
               result |-> NotCalled]
  IN /\ ~atcCall.running /\ atcCall.result = NotCalled
     /\ IF result # 0 THEN /\ atcCall' = [call EXCEPT !.result = result]
                           /\ outdiv' = Restored(call, result) /\ UNCHANGED trimmer
        ELSE /\ outdiv' = [bus |-> div, flash |-> div]
             /\ trimmer' = [trimmer EXCEPT !.atme = TRUE, !.atms = fast, !.atmf = FALSE,
                                           !.atcv = Atcv(fast, bus, freq)]
             /\ atcCall' = [call EXCEPT !.running = TRUE]

\* The trim machine is done; it fails, or ends at one end of the range of the trim value, or not.
TrimMachine ==
  /\ trimmer.atme
  /\ \E failed, limit \in BOOLEAN :
       trimmer' = [trimmer EXCEPT !.atme = FALSE, !.atmf = failed, !.limit = limit]
  /\ UNCHANGED <<outdiv, atcCall>>

\* After the loop.
AtcReturns ==
  /\ atcCall.running /\ ~trimmer.atme
  /\ LET result == IF trimmer.atmf THEN 8
                   ELSE IF trimmer.limit THEN (IF atcCall.fast THEN 10 ELSE 9) ELSE 0
     IN /\ atcCall' = [atcCall EXCEPT !.running = FALSE, !.result = result]
        /\ outdiv' = Restored(atcCall, result)
  /\ UNCHANGED trimmer

TrimNext ==
  \/ \E mode \in TrimModes, fast \in BOOLEAN, freq \in TrimFreqs, out \in TrimOuts : atc(mode, fast, freq, out)
  \/ TrimMachine \/ AtcReturns

TrimSpec == TrimInit /\ [][TrimNext]_trimVars

----------------------------------------------------------------------------
(* Properties *)

\* Whenever the trim machine runs, the bus clock it counts is between 8 and 16 MHz and the flash
\* clock is as fast.
TrimBusInRange ==
  trimmer.atme => /\ BusHz(atcCall.out, outdiv.bus) >= 8000000
                  /\ BusHz(atcCall.out, outdiv.bus) <= 16000000
                  /\ outdiv.flash = outdiv.bus

\* The rounded-down quotient is a divider that serves every clock from 8 MHz on: only a slower one
\* is refused for its bus clock.
RefusedOnlyWhenSlow == atcCall.result = 3 => atcCall.out < 8000000

\* Whichever way atc returns, the dividers of the bus and of the flash are those it found.
DividersRestored == ~atcCall.running => outdiv = atcCall.orig

\* The count given to the trim machine fits its 16 bits for all frequencies atc accepts: it is the
\* quotient and not what is left of it after the cut.
AtcvFits ==
  trimmer.atme =>
    trimmer.atcv = TrimCount(atcCall.fast, BusHz(atcCall.out, outdiv.bus), atcCall.freq)

\* atc as a whole: the trim machine counts a bus clock in its range against a count that fits, no
\* clock that could be divided into that range is refused, and the dividers are put back on every path.
TrimSound == TrimBusInRange /\ RefusedOnlyWhenSlow /\ DividersRestored /\ AtcvFits
=============================================================================
