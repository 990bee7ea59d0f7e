------------------------------- MODULE MCMCG -------------------------------
(* Boards and dividers of the clock driver for TLC. *)
EXTENDS MCG

\* In range for 50 MHz; in range for 8 MHz; and one pair for each check:
\* PRDIV too small, VDIV too large, reference and output out of range.
MCDividers == {<<25, 30>>, <<4, 25>>, <<2, 24>>, <<0, 30>>, <<25, 56>>, <<13, 55>>}

\* The speakers' board: 50 MHz from the Ethernet PHY, no crystal.
SpeakersBoard == [xtal |-> 50000000, erefs |-> 0, slow |-> 32768, fast |-> 4000000,
             rtc |-> 32768, drs |-> 0, dmx32 |-> 0, fcrdiv |-> 1, timely |-> TRUE,
             dividers |-> MCDividers]

\* An 8 MHz crystal: the FLL can be used with it.
Crystal8M == [SpeakersBoard EXCEPT !.xtal = 8000000, !.erefs = 1]

\* A watch crystal (RANGE = 0), and an RTC too slow for the FLL.
Crystal32K == [SpeakersBoard EXCEPT !.xtal = 32768, !.erefs = 1, !.rtc = 30500]

TimelyBoards == {SpeakersBoard, Crystal8M, Crystal32K}

=============================================================================
