------------------------------ MODULE MCGBoot ------------------------------
(***************************************************************************)
(* The clock set-up at the start of main() in                              *)
(* src/source/TCP_UDP_AUDIO_main.c: four transitions of the clock driver,  *)
(* FEI -> FBI -> FBE -> PBE -> PEE, whose results overwrite one another.   *)
(* main tests none of them.                                                *)
(***************************************************************************)
EXTENDS MCG

VARIABLES
  line,         \* the next statement of main's clock set-up, 1..6; 0: main is not running
  mcg_clk_hz,   \* the local that receives every result
  modeMCG       \* what_mcg_mode() at the end

bootVars == <<line, mcg_clk_hz, modeMCG>>

SLOW_IRC_FREQ == 32768
\* Seeded fault: one more than the largest divider.
PLL0_PRDIV_OffByOne == 26

PLL0_PRDIV == 25
PLL0_VDIV == 30

\* 50 MHz on CLKIN0, an external clock (CLK0_TYPE 0); FLL and IRC settings as
\* after reset.  SLOW_IRC_FREQ is "the approximate value": the untrimmed
\* reference of a chip lies anywhere in its range.
BootBoard(slow) == [xtal |-> 50000000, erefs |-> 0, slow |-> slow, fast |-> 4000000,
                    rtc |-> 32768, drs |-> 0, dmx32 |-> 0, fcrdiv |-> 1,
                    timely |-> FALSE, dividers |-> {<<PLL0_PRDIV, PLL0_VDIV>>}]

BootInit == Init /\ line = 1 /\ mcg_clk_hz = 0 /\ modeMCG = "none"

\* Statement k: store the result of the call before it, then call.
Statement ==
  /\ Idle
  /\ line < 6
  /\ line' = line + 1
  /\ mcg_clk_hz' = IF line > 1 THEN ret ELSE mcg_clk_hz
  /\ CASE line = 1 -> fei_fbi(SLOW_IRC_FREQ, 0) /\ UNCHANGED modeMCG
       [] line = 2 -> fbi_fbe /\ UNCHANGED modeMCG
       [] line = 3 -> fbe_pbe(PLL0_PRDIV, PLL0_VDIV) /\ UNCHANGED modeMCG
       [] line = 4 -> pbe_pee /\ UNCHANGED modeMCG
       [] line = 5 -> modeMCG' = what_mcg_mode /\ UNCHANGED vars

BootNext ==
  \/ Statement
  \/ Step /\ UNCHANGED bootVars
  \/ Settle /\ UNCHANGED bootVars

BootSpec == BootInit /\ [][BootNext]_<<vars, bootVars>>

BootFairSpec ==
  /\ BootSpec
  /\ WF_<<vars, bootVars>>(Statement)
  /\ WF_<<vars, bootVars>>(Step /\ UNCHANGED bootVars)
  /\ WF_<<vars, bootVars>>(Settle /\ UNCHANGED bootVars)

Booted == line = 6

\* The last result tells main the truth about the whole chain although the
\* earlier ones are thrown away: a frequency means that the clock generator
\* is in PEE with the PLL locked at 60 MHz, whatever timed out on the way.
LastResultTruthful ==
  Booted /\ mcg_clk_hz >= FirstFrequency =>
    /\ mcg_clk_hz = 60000000
    /\ modeMCG = "PEE" /\ what_mcg_mode = "PEE"
    /\ MCGOUTCLK(board, mcg, st) = 60000000
    /\ st.lock0 = 1

\* Even when polls run out on the way, main never arms the clock monitor while OSC0 is not
\* running, which would reset the chip: it goes on after an error of fbi_fbe.
BootMonitorSafe == line > 0 => MonitorSafe

\* The clock monitor never finds its clock gone, which would reset the chip: in
\* any sequence of calls that are answered in time, and in main with any error.
MonitorNeverFires == MonitorNeedsExternalClock /\ BootMonitorSafe

\* The set-up ends once it has begun: main reaches the scheduler.
BootCompletes == line = 1 ~> Booted

\* The code of a poll that ran out.
TimedOut == Idle /\ ret \in {\h11, \h12, \h13, \h14, \h15, \h16, \h18, \h19, \h1A, \h1B, \h23, \h44}

\* Unless a poll runs out the chain ends in PEE: no call of it is refused, so
\* the arguments fit one another, the board and the mode the last call left.
BootReachesPee == line = 1 /\ []~TimedOut => <>(modeMCG = "PEE")

\* main gets through its clock set-up, and to PEE when the hardware is in time.
BootEnds == BootCompletes /\ BootReachesPee
=============================================================================
