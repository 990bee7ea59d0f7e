------------------------------ MODULE Speakers ------------------------------
(***************************************************************************)
(* The running speakers: the UDP thread, the menu thread and the timer     *)
(* interrupt, which share the audio state, the queue port_selection and    *)
(* the heap, together with the network.                                    *)
(*                                                                         *)
(* The two threads have the same priority; the tcpip thread above them     *)
(* makes the scheduler switch between them at any point, so their steps    *)
(* interleave freely.  The interrupt comes between any two steps.  A fault *)
(* stops everything; an interrupt that is never left stops the threads.    *)
(***************************************************************************)
EXTENDS TCP

vars == <<audioVars, udpVars, tcpVars>>

Init == AudioInit(0) /\ UdpInit /\ TcpInit

Running == tpc # "fault"

Udp == Running /\ ThreadsRun /\ UDP_thread /\ UNCHANGED tcpVars

Tcp == Running /\ ThreadsRun /\ tcp_thread

Interrupt == Running /\ (PIT0_IRQHandler \/ PIT1_Default) /\ UNCHANGED <<udpVars, tcpVars>>

\* What the network brings needs the tcpip thread.
Network ==
  /\ Running /\ ThreadsRun
  /\ \/ Datagram /\ UNCHANGED tcpVars
     \/ Client
     \/ SendStatus

Next == Udp \/ Tcp \/ Interrupt \/ Network

Spec == Init /\ [][Next]_vars

\* FreeRTOS runs a ready thread sooner or later.
ThreadFairness == WF_vars(Udp) /\ WF_vars(Tcp)

FairSpec == Spec /\ ThreadFairness

\* ... and whoever sends the statistics answers when asked.
ServedSpec == FairSpec /\ WF_vars(Running /\ ThreadsRun /\ SendStatus)

-----------------------------------------------------------------------------
(* Properties.                                                             *)

\* Type correctness; in particular the index of the interrupt handler stays
\* inside the buffers although UDP.c stores to its low byte between any two
\* interrupts.
TypeOK == AudioTypeOK /\ UdpTypeOK /\ TcpTypeOK

\* The cells that some part of the program can still reach.
InQueue == {port_selection[k] : k \in 1..Len(port_selection)}
InTransit == {transporter} \ {NoCell}
InHand == IF upc = "check" THEN {received_port} \ {NoCell} ELSE {}

\* A port travels from the menu to the UDP thread through the heap without
\* ever being in two hands: what the UDP thread dereferences and frees at
\* the top of its loop is allocated and nobody else's, and the queue holds
\* at most one cell, allocated as well.
PortCellHandover ==
  /\ \A c \in InQueue \cup InTransit \cup InHand : heap[c] # Free
  /\ Len(port_selection) <= 1
  /\ InQueue \cap InTransit = {} /\ InQueue \cap InHand = {} /\ InTransit \cap InHand = {}
  /\ transporter # NoCell <=> tpc = "send"

\* Once AudioOutput(0) is done the speakers are silent for as long as the
\* timer is stopped: no late interrupt leaves a sample on the DAC.
StoppedIsSilent == ~pit0 /\ tpc # "clear" => dac = Mute

\* MusicState = 0 means that the timer runs: the next "1" has something to
\* mute.
UnmutedRuns == MusicState = 0 /\ tpc # "clear" => pit0

\* The selector is left before the next command is looked at, so no command
\* is taken for a port or refused because of a selection that has ended.
SelectorIsLeft == tpc \in {"recv", "dispatch", "accept"} => current_menu # "port_selector"

\* What tcp_thread keeps between commands agrees with the rest of the program: MusicState with the
\* timer, which the UDP thread starts behind its back, and current_menu with the selection in progress.
MenuConsistent == UnmutedRuns /\ SelectorIsLeft

\* The menu always comes back to its client: whatever was sent is read, so no
\* wait of the thread (for the answer to the selector, for room in the queue,
\* for the statistics) is for ever.  Only the default handler of timer channel
\* 1, which AudioConfig starts without a handler of its own, ends the service.
CommandsAreRead ==
  inbox # <<>> ~> (inbox = <<>> \/ tpc \in {"fault", "returned"} \/ ~ThreadsRun)

-----------------------------------------------------------------------------
(* What the comments of TCP.c say and the code does not do.                *)

\* TCP.c:197 "if the state was previously on, turns it off".
MuteTurnsOff == [][MusicState = 1 /\ MusicState' = 0 => ~pit0']_vars

\* TCP.c:244 "Got EOF, looping": a client may leave at any time.
EofLoops == tpc # "fault"
=============================================================================
