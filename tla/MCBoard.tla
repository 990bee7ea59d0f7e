------------------------------- MODULE MCBoard ------------------------------
(***************************************************************************)
(* The two threads of the firmware, and next to them the UDP control       *)
(* blocks of lwIP, the UART driver and two functions of the clock driver,   *)
(* for TLC.  They share no state: a behaviour is one of one of them, and   *)
(* the fairness is that of the threads.                                    *)
(***************************************************************************)
EXTENDS MCSpeakers, UdpPcbs, UartTransfer, RtcCheck, AutoTrim

VARIABLE topic

boardVars == <<topic, vars, udpPcbVars, uartVars, rtcVars, trimVars>>

AnRtc == [gate |-> TRUE, tce |-> TRUE, osce |-> TRUE, tif |-> FALSE, oscUp |-> FALSE, tpr |-> 0]

BoardInit ==
  /\ Init /\ UdpPcbsInit /\ UartInit /\ RtcInit /\ TrimInit
  /\ topic \in {"threads", "udp", "uart", "rtc", "trim"}
  /\ netifIp = "x" /\ udp_port = RANGE_START     \* the other values are reached as well
  /\ topic # "rtc" => rtc = AnRtc
  /\ topic # "trim" => outdiv = [bus |-> 1, flash |-> 4]

BoardNext ==
  /\ UNCHANGED topic
  /\ topic # "threads" => UNCHANGED vars
  /\ topic # "udp" => UNCHANGED udpPcbVars
  /\ topic # "uart" => UNCHANGED uartVars
  /\ topic # "rtc" => UNCHANGED rtcVars
  /\ topic # "trim" => UNCHANGED trimVars
  /\ \/ topic = "threads" /\ Next
     \/ topic = "udp" /\ UdpPcbsNext
     \/ topic = "uart" /\ UartNext
     \/ topic = "rtc" /\ RtcNext
     \/ topic = "trim" /\ TrimNext

BoardSpec ==
  /\ BoardInit /\ [][BoardNext]_boardVars
  /\ ThreadFairness /\ WF_vars(Running /\ ThreadsRun /\ SendStatus)
=============================================================================
