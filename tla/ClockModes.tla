----------------------------- MODULE ClockModes -----------------------------
(***************************************************************************)
(* What a caller of src/source/MCG.c sees: the clock generator is in one   *)
(* mode, a call of a transition function either ends in the mode the       *)
(* function is named for and returns a frequency, or returns an error code *)
(* and leaves the mode alone.                                              *)
(***************************************************************************)
VARIABLES
  mode,     \* the mode of the clock generator
  fun,      \* the function called last
  result    \* "busy" during a call, then "frequency" or "error"

vars == <<mode, fun, result>>

\* The prototypes of MCG.h: the mode each transition starts from and ends in.
Edge == [
  pll_init |-> <<"FEI", "PEE">>,  pee_pbe  |-> <<"PEE", "PBE">>,  pbe_pee  |-> <<"PBE", "PEE">>,
  pbe_fbe  |-> <<"PBE", "FBE">>,  fbe_pbe  |-> <<"FBE", "PBE">>,  pbe_blpe |-> <<"PBE", "BLPE">>,
  blpe_pbe |-> <<"BLPE", "PBE">>, blpe_fbe |-> <<"BLPE", "FBE">>, fbe_blpe |-> <<"FBE", "BLPE">>,
  fbe_fei  |-> <<"FBE", "FEI">>,  fei_fbe  |-> <<"FEI", "FBE">>,  fbe_fee  |-> <<"FBE", "FEE">>,
  fee_fbe  |-> <<"FEE", "FBE">>,  fbe_fbi  |-> <<"FBE", "FBI">>,  fbi_fbe  |-> <<"FBI", "FBE">>,
  fbi_blpi |-> <<"FBI", "BLPI">>, blpi_fbi |-> <<"BLPI", "FBI">>, fbi_fee  |-> <<"FBI", "FEE">>,
  fee_fbi  |-> <<"FEE", "FBI">>,  fbi_fei  |-> <<"FBI", "FEI">>,  fei_fbi  |-> <<"FEI", "FBI">>,
  fei_fee  |-> <<"FEI", "FEE">>,  fee_fei  |-> <<"FEE", "FEI">>,
  fei_fee_rtc |-> <<"FEI", "FEE">>, fee_fei_rtc |-> <<"FEE", "FEI">>]

Init == mode = "FEI" /\ fun = "reset" /\ result = "error"

\* A call is refused on the spot or accepted; only a call made in the mode
\* the function starts from is accepted.
Begin ==
  /\ result # "busy"
  /\ \E f \in DOMAIN Edge :
       /\ fun' = f
       /\ \/ result' = "error"
          \/ mode = Edge[f][1] /\ result' = "busy"
  /\ mode' = mode

Succeed ==
  /\ result = "busy" /\ fun \in DOMAIN Edge
  /\ mode' = Edge[fun][2]
  /\ result' = "frequency"
  /\ fun' = fun

\* fei_fee_rtc looks at the FLL frequency after it has switched.
Fail ==
  /\ result = "busy" /\ fun \in DOMAIN Edge
  /\ mode' = mode \/ (fun = "fei_fee_rtc" /\ mode' = "FEE")
  /\ result' = "error"
  /\ fun' = fun

\* clk_monitor_0 works in every mode, changes none and returns nothing.
Monitor ==
  /\ \/ result # "busy" /\ fun' = "clk_monitor_0" /\ result' = "busy"
     \/ result = "busy" /\ fun = "clk_monitor_0" /\ fun' = fun
        /\ result' \in {"frequency", "error"}
  /\ mode' = mode

Next == Begin \/ Succeed \/ Fail \/ Monitor

Spec == Init /\ [][Next]_vars
=============================================================================
