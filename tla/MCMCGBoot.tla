----------------------------- MODULE MCMCGBoot -----------------------------
(* The clock driver for TLC.  Without main (line = 0): any sequence of     *)
(* calls on three boards whose hardware is in time, and on a board with a  *)
(* watch crystal and late status bits, where the six modes without the PLL *)
(* can be reached and every call that uses it is refused.  With main: its  *)
(* set-up on the speakers' board with late status bits.                    *)
EXTENDS MCGBoot, MCMCG

BootBoards == {BootBoard(31250), BootBoard(SLOW_IRC_FREQ), BootBoard(39062)}
LateBoard == [Crystal32K EXCEPT !.timely = FALSE, !.dividers = {<<2, 24>>}]
MCBoards == TimelyBoards \cup BootBoards \cup {LateBoard}

MCInit ==
  \/ BootInit /\ board \in BootBoards
  \/ Init /\ board \in TimelyBoards \cup {LateBoard}
     /\ line = 0 /\ mcg_clk_hz = 0 /\ modeMCG = "none"

AnyCall == line = 0 /\ Next /\ UNCHANGED bootVars
MCNext == (line > 0 /\ BootNext) \/ AnyCall

MCFairSpec ==
  /\ MCInit /\ [][MCNext]_<<vars, bootVars>>
  /\ WF_<<vars, bootVars>>(line > 0 /\ Statement)
  /\ WF_<<vars, bootVars>>(Step /\ UNCHANGED bootVars)
  /\ WF_<<vars, bootVars>>(Settle /\ UNCHANGED bootVars)
=============================================================================
