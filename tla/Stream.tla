------------------------------- MODULE Stream -------------------------------
(***************************************************************************)
(* The way of a stream of samples through the speakers: datagrams, the UDP *)
(* thread that copies them, the timer interrupt that plays them.  The menu *)
(* appears only as somebody who puts ports into port_selection.            *)
(***************************************************************************)
EXTENDS UDP

vars == <<audioVars, udpVars>>

Init == AudioInit(0) /\ UdpInit

Thread == ThreadsRun /\ UDP_thread

Interrupt == (PIT0_IRQHandler \/ PIT1_Default) /\ UNCHANGED udpVars

\* The menu: a port in a fresh cell, sent while the queue is empty.
SelectPort ==
  /\ ThreadsRun /\ port_selection = <<>>
  /\ \E c \in Cells, p \in PortValues :
       /\ heap[c] = Free
       /\ heap' = [heap EXCEPT ![c] = p]
       /\ port_selection' = <<c>>
  /\ UNCHANGED <<udpLocals, mbox, sent, audioVars>>

\* Numbered datagrams: what is in a buffer can be told.
Next == Thread \/ Interrupt \/ SelectPort \/ (ThreadsRun /\ Datagram)

Spec == Init /\ [][Next]_vars

\* Endless traffic on the bound port: numbered datagrams at first, then all alike.
Traffic ==
  /\ ThreadsRun
  /\ \/ Datagram
     \/ sent = MaxFrames /\ Deliver(0) /\ UNCHANGED sent

TrafficNext == Thread \/ Interrupt \/ SelectPort \/ Traffic

\* The scheduler runs a ready thread sooner or later, and the sender of the
\* stream goes on sending.
TrafficSpec == Init /\ [][TrafficNext]_vars /\ WF_vars(Thread) /\ WF_vars(Traffic)

\* The same when the sender may stop.
FairSpec == Init /\ [][TrafficNext]_vars /\ WF_vars(Thread)

-----------------------------------------------------------------------------
(* Properties.                                                             *)

\* Type correctness: in particular the index of the interrupt handler stays
\* inside the buffers although UDP.c stores to its low byte between any two
\* interrupts.
TypeOK == AudioTypeOK /\ UdpTypeOK

Selected == IF buffer_flag THEN buffer2 ELSE buffer1
Other    == IF buffer_flag THEN buffer1 ELSE buffer2

Holds(b, n) == \A k \in Index : b[k] = n

Before(n) == IF n > 0 THEN n - 1 ELSE 0

\* Datagrams that fill a buffer.
FullDatagrams == \A n \in Lengths : n >= audio_buffer_sizes

\* A stream of full datagrams is played one datagram behind: once datagram n
\* is handled the interrupt plays all of datagram n - 1 and n waits in the
\* other buffer.  While n is copied, into the very buffer that is played, the
\* part copied so far is heard in the middle of datagram n - 2.  No datagram
\* is ever lost or repeated by the two threads of control, whatever the
\* moment the interrupt strikes and whatever ports are selected.
PlaybackOneBehind ==
  LET n == buf.frame
  IN CASE upc = "copy" ->
            /\ \A k \in Index : Selected[k] = IF k < copied THEN n ELSE Before(Before(n))
            /\ Holds(Other, Before(n))
       [] upc = "flip" -> Holds(Selected, n) /\ Holds(Other, Before(n))
       [] OTHER        -> Holds(Selected, Before(n)) /\ Holds(Other, n)

\* Every datagram that reached the mailbox is handled, in the order of
\* arrival and exactly once.
HandledInOrder ==
  /\ \A k \in 1..Len(mbox) : mbox[k].frame = buf.frame + k
  /\ sent = buf.frame + Len(mbox)

\* A port other than 0 that was put into the queue is bound to, if datagrams
\* go on arriving on the port bound to before and the default handler of
\* channel 1 has not taken the processor from the threads.
SelectedPortIsBound ==
  \A p \in Ports :
    (port_selection # <<>> /\ heap[Head(port_selection)] = p)
      ~> (bound = p \/ upc = "returned" \/ ~ThreadsRun)

\* With datagrams of any length a buffer keeps what a short one does not
\* overwrite: each sample is from the datagram the buffer was last filled
\* with or from an older one of the same buffer, an even number of datagrams
\* before; never from the buffer's neighbour, and never from nowhere.
SamplesKeepTheirBuffer ==
  LET n == buf.frame
      from(b, m) == \A k \in Index : b[k] = 0 \/ (b[k] <= m /\ (m - b[k]) % 2 = 0)
  IN n = 0 \/ IF upc \in {"copy", "flip"} THEN from(Selected, n) /\ from(Other, Before(n))
     ELSE from(Selected, Before(n)) /\ from(Other, n)

-----------------------------------------------------------------------------
(* What the comments of UDP.c say and the code does not do.                *)

\* UDP.c:129 "resets the index of the buffer, so no errors with the buffer
\* are done": the next buffer is played from its first sample.
IndexIsReset == [][upc = "reset" /\ upc' = "poll" => i' = 0]_vars

\* UDP.c:177 "if something was received by the queue, then it breaks the
\* loop": a selection is taken, traffic or not.
QueueBreaksTheLoop == port_selection # <<>> ~> (port_selection = <<>> \/ upc = "returned")
=============================================================================
