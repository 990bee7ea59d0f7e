------------------------------ MODULE TcpConn ------------------------------
(***************************************************************************)
(* One TCP connection of lwIP, end to end: a client that connects and the  *)
(* board that listens, both running core/tcp.c, tcp_in.c and tcp_out.c, on *)
(* a network that loses, duplicates and reorders segments.                 *)
(*                                                                         *)
(* The functions of lwIP are operators on a "context" c: c.p is the pcb,   *)
(* c.out the set of segments given to IP, c.ev the events reported to the  *)
(* application.  Time is abstracted: a timer step may find any counter at  *)
(* its limit.  Pools and the driver are out of memory for a whole step     *)
(* (mem = FALSE) or not at all.  Sequence numbers wrap at SeqSpace.          *)
(* TCP_QUEUE_OOSEQ is 0, as in lwipopts.h.                                 *)
(***************************************************************************)
EXTENDS Integers, Sequences, FiniteSets, SequencesExt

CONSTANTS
  SeqSpace,          \* sequence numbers are 0 .. SeqSpace - 1
  MSS,             \* pcb->mss, in bytes of the model
  TCP_WND, TCP_SND_BUF,
  TCP_MAXRTX, TCP_SYNMAXRTX,
  ClientISS, BoardISS,
  ToWrite,         \* [Ends -> Nat], how many bytes each application writes
  MaxInFlight,     \* segments a direction of the network holds; more are lost
  MaxOpens,        \* how many times the board may enter SYN_RCVD
  MaxFaults,       \* how many things may go wrong: a segment lost or duplicated, a timer that
                   \* fires too early, a step without memory, a full application mailbox
  MayStarve        \* whether memory may run out

ASSUME TcpAssumption ==
  /\ MSS \in Nat \ {0} /\ TCP_WND = 2 * MSS      \* lwipopts.h; the congestion window is
  /\ TCP_SND_BUF >= MSS                          \* cut at TCP_WND, which it never limits
  /\ SeqSpace > 4 * TCP_WND /\ SeqSpace % 2 = 0

VARIABLES
  pcb,      \* pcb[e]: the protocol control block of end e
  net,      \* net[e]: segments on their way to e
  app,      \* app[e]: what the application of e knows
  opens,    \* number of pcbs the listener has made
  faults    \* how many things went wrong

tcpvars == <<pcb, net, app, opens, faults>>

Ends == {"client", "board"}
Peer(e) == CHOOSE f \in Ends : f # e

----------------------------------------------------------------------------
(* Sequence numbers *)

Plus(a, n) == (a + n) % SeqSpace
Minus(a, b) == (a - b) % SeqSpace

TCP_SEQ_LT(a, b) == Minus(a, b) >= SeqSpace \div 2
TCP_SEQ_LEQ(a, b) == a = b \/ TCP_SEQ_LT(a, b)
TCP_SEQ_BETWEEN(a, b, c) == TCP_SEQ_LEQ(b, a) /\ TCP_SEQ_LEQ(a, c)
MinOf(a, b) == IF a < b THEN a ELSE b

----------------------------------------------------------------------------
(* Data *)

TcpStates == {"CLOSED", "LISTEN", "SYN_SENT", "SYN_RCVD", "ESTABLISHED", "FIN_WAIT_1",
              "FIN_WAIT_2", "CLOSE_WAIT", "CLOSING", "LAST_ACK", "TIME_WAIT"}

\* A segment in a queue of a pcb; TCP_TCPLEN counts SYN and FIN.
Seg(seq, data, syn, fin) == [seq |-> seq, data |-> data, syn |-> syn, fin |-> fin]
TCPLEN(s) == Len(s.data) + (IF s.syn \/ s.fin THEN 1 ELSE 0)

\* A segment on the network.
Wire(s, ack, rst, ackno, wnd) ==
  [seq |-> s.seq, data |-> s.data, syn |-> s.syn, fin |-> s.fin,
   ack |-> ack, rst |-> rst, ackno |-> ackno, wnd |-> wnd]

tcp_rst(seqno, ackno) == Wire(Seg(seqno, <<>>, FALSE, FALSE), TRUE, TRUE, ackno, TCP_WND)

\* What a callback tells the application.
Ev(kind, data) == [kind |-> kind, data |-> data]

\* tcp_alloc: the fields the model keeps, as memset and the assignments leave them.
tcp_alloc ==
  [state |-> "CLOSED", list |-> "none", flags |-> {}, unsent |-> <<>>, unacked |-> <<>>,
   snd_nxt |-> 0, lastack |-> 0, snd_lbb |-> 0, snd_wnd |-> 0, snd_wl1 |-> 0, snd_wl2 |-> 0,
   snd_buf |-> TCP_SND_BUF, cwnd |-> 1, rtime |-> FALSE, nrtx |-> 0, dupacks |-> 0,
   persist |-> FALSE, rcv_nxt |-> 0, rcv_wnd |-> TCP_WND, rcv_ann_wnd |-> TCP_WND,
   ann_edge |-> 0, refused |-> <<>>, refusedFin |-> FALSE]

\* memp_free: nothing is left of the pcb.
Freed == tcp_alloc

----------------------------------------------------------------------------
(* Output *)

tcp_ack_now(p) == [p EXCEPT !.flags = @ \cup {"ACK_NOW"}]
tcp_ack(p) == IF "ACK_DELAY" \in p.flags
                THEN [p EXCEPT !.flags = (@ \ {"ACK_DELAY"}) \cup {"ACK_NOW"}]
                ELSE [p EXCEPT !.flags = @ \cup {"ACK_DELAY"}]

\* tcp_output_alloc_header announces the window.
Announce(p) == [p EXCEPT !.ann_edge = Plus(p.rcv_nxt, p.rcv_ann_wnd)]

tcp_send_empty_ack(c, mem) ==
  IF ~mem THEN [c EXCEPT !.p.flags = @ \cup {"ACK_DELAY", "ACK_NOW"}]
  ELSE [c EXCEPT !.p = [Announce(c.p) EXCEPT !.flags = @ \ {"ACK_DELAY", "ACK_NOW"}],
                 !.out = @ \cup {Wire(Seg(c.p.snd_nxt, <<>>, FALSE, FALSE), TRUE, FALSE,
                                      c.p.rcv_nxt, c.p.rcv_ann_wnd)}]

tcp_do_output_nagle(p) ==
  \/ p.unacked = <<>>
  \/ "INFR" \in p.flags
  \/ Len(p.unsent) > 1
  \/ p.unsent # <<>> /\ Len(Head(p.unsent).data) >= MSS
  \/ p.snd_buf = 0

Window(p) == MinOf(p.snd_wnd, p.cwnd)

Fits(p, s) == Plus(Minus(s.seq, p.lastack), Len(s.data)) <= Window(p)

\* Queue of unacknowledged segments, kept in the order of sequence numbers.
Insert(q, s) ==
  LET before == SelectSeq(q, LAMBDA t : TCP_SEQ_LT(t.seq, s.seq))
      after == SelectSeq(q, LAMBDA t : ~TCP_SEQ_LT(t.seq, s.seq))
  IN before \o <<s>> \o after

Advance(p, seq) == IF TCP_SEQ_LT(p.snd_nxt, seq) THEN seq ELSE p.snd_nxt

\* The loop of tcp_output.
RECURSIVE OutputLoop(_, _)
OutputLoop(c, mem) ==
  LET p == c.p
      s == Head(p.unsent)
      go == p.unsent # <<>> /\ Fits(p, s)
              /\ (tcp_do_output_nagle(p) \/ p.flags \cap {"NAGLEMEMERR", "FIN"} # {})
  IN IF ~go THEN [c EXCEPT !.p.flags = @ \ {"NAGLEMEMERR"}]
     ELSE IF ~mem THEN [c EXCEPT !.p = [Announce(p) EXCEPT !.flags = @ \cup {"NAGLEMEMERR"},
                                                           !.rtime = TRUE]]
     ELSE LET acks == IF p.state = "SYN_SENT" THEN {} ELSE {"ACK_DELAY", "ACK_NOW"}
              q == [Announce(p) EXCEPT
                      !.unsent = Tail(@), !.flags = @ \ acks, !.rtime = TRUE,
                      !.snd_nxt = Advance(p, Plus(s.seq, TCPLEN(s))),
                      !.unacked = IF TCPLEN(s) > 0 THEN Insert(@, s) ELSE @]
          IN OutputLoop([c EXCEPT !.p = q,
                !.out = @ \cup {Wire(s, p.state # "SYN_SENT", FALSE, p.rcv_nxt, p.rcv_ann_wnd)}],
                mem)

tcp_output(c, mem) ==
  LET p == c.p
      tooBig == p.unsent # <<>> /\ ~Fits(p, Head(p.unsent))
  IN IF c.input THEN c       \* tcp_input_pcb = pcb: tcp_input calls again when it is done
     ELSE IF "ACK_NOW" \in p.flags /\ (p.unsent = <<>> \/ tooBig) THEN tcp_send_empty_ack(c, mem)
     ELSE IF tooBig /\ Window(p) > 0 /\ Window(p) = p.snd_wnd /\ p.unacked = <<>>
       THEN [c EXCEPT !.p.persist = TRUE, !.p.flags = @ \ {"NAGLEMEMERR"}]
     ELSE OutputLoop(c, mem)

\* tcp_enqueue_flags for SYN and FIN; a failure is remembered for the timers.
tcp_enqueue_flags(p, syn, fin) ==
  [p EXCEPT !.unsent = Append(@, Seg(p.snd_lbb, <<>>, syn, fin)),
            !.snd_lbb = Plus(@, 1),
            !.flags = IF fin THEN @ \cup {"FIN"} ELSE @]

tcp_send_fin(p) ==
  IF p.unsent # <<>> /\ ~Last(p.unsent).syn /\ ~Last(p.unsent).fin
    THEN [p EXCEPT !.unsent[Len(p.unsent)].fin = TRUE, !.flags = @ \cup {"FIN"}]
    ELSE tcp_enqueue_flags(p, FALSE, TRUE)

\* Whether tcp_send_fin succeeds: only the second form allocates.
FinPossible(p, mem) == mem \/ (p.unsent # <<>> /\ ~Last(p.unsent).syn /\ ~Last(p.unsent).fin)

\* The last unsent segment takes what fits below the MSS, the rest gets segments of its own.
RECURSIVE Enqueue(_, _)
Enqueue(p, data) ==
  IF data = <<>> THEN p
  ELSE LET n == Len(p.unsent)
           room == IF n > 0 /\ Len(p.unsent[n].data) > 0 THEN MSS - Len(p.unsent[n].data) ELSE 0
           take == MinOf(IF room > 0 THEN room ELSE MSS, Len(data))
           some == SubSeq(data, 1, take)
           q == IF room > 0 THEN [p EXCEPT !.unsent[n].data = @ \o some]
                ELSE [p EXCEPT !.unsent = Append(@, Seg(p.snd_lbb, some, FALSE, FALSE))]
       IN Enqueue([q EXCEPT !.snd_lbb = Plus(@, take), !.snd_buf = @ - take],
                  SubSeq(data, take + 1, Len(data)))

tcp_write(p, data) == Enqueue(p, data)

\* nrtx is only compared with the two limits, and stops at 0xFF: it is cut at the larger one.
Again(n) == MinOf(n + 1, IF TCP_MAXRTX > TCP_SYNMAXRTX THEN TCP_MAXRTX ELSE TCP_SYNMAXRTX)

tcp_rexmit_rto(c, mem) ==
  IF c.p.unacked = <<>> THEN c
  ELSE tcp_output([c EXCEPT !.p.unsent = c.p.unacked \o @, !.p.unacked = <<>>, !.p.nrtx = Again(@)],
                  mem)

tcp_rexmit(p) ==
  IF p.unacked = <<>> THEN p
  ELSE [p EXCEPT !.unacked = Tail(@), !.unsent = Insert(@, Head(p.unacked)), !.nrtx = Again(@)]

tcp_rexmit_fast(p) ==
  IF p.unacked = <<>> \/ "INFR" \in p.flags THEN p
  ELSE [tcp_rexmit(p) EXCEPT !.cwnd = TCP_WND, !.flags = @ \cup {"INFR"}, !.rtime = TRUE]

tcp_zero_window_probe(c, mem) ==
  LET p == c.p
      q == p.unacked \o p.unsent
      s == Head(q)
      fin == s.fin /\ s.data = <<>>
      probe == Seg(s.seq, IF fin THEN <<>> ELSE SubSeq(s.data, 1, 1), FALSE, fin)
  IN IF q = <<>> \/ ~mem THEN c
     ELSE [c EXCEPT !.p = [Announce(p) EXCEPT !.snd_nxt = Advance(p, Plus(s.seq, 1))],
                    !.out = @ \cup {Wire(probe, TRUE, FALSE, p.rcv_nxt, p.rcv_ann_wnd)}]
----------------------------------------------------------------------------
(* Closing *)

\* tcp_pcb_purge: the queues go, in the states that have any.
tcp_pcb_purge(p) ==
  IF p.state \in {"CLOSED", "TIME_WAIT", "LISTEN"} THEN p
  ELSE [p EXCEPT !.unsent = <<>>, !.unacked = <<>>, !.rtime = FALSE,
                 !.refused = <<>>, !.refusedFin = FALSE]

\* tcp_pcb_remove, then memp_free: a delayed acknowledgement still goes out.
RemoveAndFree(c, mem) ==
  LET q == [tcp_pcb_purge(c.p) EXCEPT !.list = "none"]
      d == IF q.state # "TIME_WAIT" /\ "ACK_DELAY" \in q.flags
             THEN tcp_output([c EXCEPT !.p = tcp_ack_now(q)], mem)
             ELSE c
  IN [d EXCEPT !.p = Freed]

tcp_abandon(c, reset, mem) ==
  IF c.p.state = "TIME_WAIT" THEN RemoveAndFree(c, mem)
  ELSE LET rst == tcp_rst(c.p.snd_nxt, c.p.rcv_nxt)
           d == RemoveAndFree(c, mem)
       IN [d EXCEPT !.out = IF reset /\ mem THEN @ \cup {rst} ELSE @,
                    !.ev = Append(@, Ev("err", <<>>))]

ToTimeWait(p) == [tcp_pcb_purge(p) EXCEPT !.state = "TIME_WAIT", !.list = "tw"]

AfterFin(state) == IF state = "CLOSE_WAIT" THEN "LAST_ACK" ELSE "FIN_WAIT_1"

tcp_close_shutdown_fin(c, mem) ==
  IF c.p.state \notin {"SYN_RCVD", "ESTABLISHED", "CLOSE_WAIT"} THEN c
  ELSE IF FinPossible(c.p, mem)
    THEN tcp_output([c EXCEPT !.p = [tcp_send_fin(c.p) EXCEPT !.state = AfterFin(c.p.state)]], mem)
    ELSE [c EXCEPT !.p.flags = @ \cup {"CLOSEPEND"}]

tcp_close_shutdown(c, mem) ==
  LET p == c.p IN
  CASE p.state \in {"ESTABLISHED", "CLOSE_WAIT"} /\ (p.refused # <<>> \/ p.rcv_wnd # TCP_WND) ->
         [c EXCEPT !.out = IF mem THEN @ \cup {tcp_rst(p.snd_nxt, p.rcv_nxt)} ELSE @,
                   !.p = IF p.state = "ESTABLISHED" THEN ToTimeWait(p) ELSE Freed]
    [] p.state = "CLOSED" -> [c EXCEPT !.p = Freed]
    [] p.state = "SYN_SENT" -> RemoveAndFree(c, mem)
    [] OTHER -> tcp_close_shutdown_fin(c, mem)

tcp_close(c, mem) ==
  tcp_close_shutdown([c EXCEPT !.p.flags = @ \cup {"RXCLOSED"}], mem)

----------------------------------------------------------------------------
(* Receive window *)

\* Seeded fault: a window that has not grown by enough is announced as closed.
StillAnnounced_Closed(p) == 0

\* What is left of the window announced before.
StillAnnounced(p) ==
  IF TCP_SEQ_LT(p.ann_edge, p.rcv_nxt) THEN 0 ELSE Minus(p.ann_edge, p.rcv_nxt)

\* The window is announced when it has grown by enough; the result is by how much.
tcp_update_rcv_ann_wnd(p) ==
  LET edge == Plus(p.rcv_nxt, p.rcv_wnd)
      step == MinOf(TCP_WND \div 2, MSS)
  IN IF TCP_SEQ_LEQ(Plus(p.ann_edge, step), edge)
       THEN [p |-> [p EXCEPT !.rcv_ann_wnd = p.rcv_wnd], inflation |-> Minus(edge, p.ann_edge)]
       ELSE [p |-> [p EXCEPT !.rcv_ann_wnd = StillAnnounced(p)], inflation |-> 0]

\* TCP_WND_UPDATE_THRESHOLD of opt.h: a quarter of the window.
Threshold == TCP_WND \div 4

tcp_recved(c, len, mem) ==
  LET grown == MinOf(c.p.rcv_wnd + len, TCP_WND)
      u == tcp_update_rcv_ann_wnd([c.p EXCEPT !.rcv_wnd = grown])
  IN IF u.inflation >= Threshold
       THEN tcp_output([c EXCEPT !.p = tcp_ack_now(u.p)], mem)
       ELSE [c EXCEPT !.p = u.p]

----------------------------------------------------------------------------
(* Input.  t is the segment; c.data is recv_data, c.gotFin TF_GOT_FIN,     *)
(* c.closed TF_CLOSED, c.reset TF_RESET; c.quit says that the pcb is gone,  *)
(* c.input that tcp_input is working on it.                                *)

Context(p) == [p |-> p, out |-> {}, ev |-> <<>>, data |-> <<>>,
               gotFin |-> FALSE, closed |-> FALSE, reset |-> FALSE, quit |-> FALSE, input |-> FALSE]

\* The window update of tcp_receive.
UpdateWindow(p, t) ==
  IF \/ TCP_SEQ_LT(p.snd_wl1, t.seq)
     \/ p.snd_wl1 = t.seq /\ TCP_SEQ_LT(p.snd_wl2, t.ackno)
     \/ p.snd_wl2 = t.ackno /\ t.wnd > p.snd_wnd
  THEN [p EXCEPT !.snd_wnd = t.wnd, !.snd_wl1 = t.seq, !.snd_wl2 = t.ackno,
                 !.persist = IF t.wnd = 0 THEN TRUE ELSE FALSE]
  ELSE p

\* Duplicate acknowledgements; the third one retransmits.
DupAck(p, t, edge) ==
  IF TCPLEN(t) = 0 /\ Plus(p.snd_wl2, p.snd_wnd) = edge /\ p.rtime /\ p.lastack = t.ackno
    THEN LET q == [p EXCEPT !.dupacks = MinOf(@ + 1, 4)]
         IN IF q.dupacks = 3 THEN tcp_rexmit_fast(q)
            ELSE IF q.dupacks > 3 THEN [q EXCEPT !.cwnd = MinOf(@ + MSS, TCP_WND)] ELSE q
    ELSE [p EXCEPT !.dupacks = 0]

Bytes(q) == FoldLeft(LAMBDA n, s : n + Len(s.data), 0, q)

\* Segments the acknowledgement covers leave the unacked queue.
AckedSegs(q, ackno) ==
  SelectSeq(q, LAMBDA s : TCP_SEQ_LEQ(Plus(s.seq, TCPLEN(s)), ackno))

\* snd_buf once the segments of q are acknowledged.
Released(p, q) == p.snd_buf + Bytes(q)

\* Whether rtime counts on with these segments unacknowledged.
TimerRuns(rest) == rest # <<>>

NewAck(p, t) ==
  LET n == Len(AckedSegs(p.unacked, t.ackno))
      rest == SubSeq(p.unacked, n + 1, Len(p.unacked))
  IN [p EXCEPT !.flags = @ \ {"INFR"}, !.nrtx = 0, !.dupacks = 0, !.lastack = t.ackno,
               !.cwnd = MinOf(@ + MSS, TCP_WND), !.unacked = rest, !.rtime = TimerRuns(rest),
               !.snd_buf = Released(p, SubSeq(p.unacked, 1, n))]

\* Seeded fault: what was sent before counts as acknowledged.
UnneededAgain_Sent(p, t, s) == TCP_SEQ_LEQ(Plus(s.seq, TCPLEN(s)), p.snd_nxt)

\* The acknowledgement covers a segment that is to be sent again.
UnneededAgain(p, t, s) == TCP_SEQ_BETWEEN(t.ackno, Plus(s.seq, TCPLEN(s)), p.snd_nxt)

\* What waits to be sent again and is acknowledged meanwhile leaves the unsent queue.
UnsentAcked(p, t) ==
  LET acked(s) == UnneededAgain(p, t, s)
      n == IF \A i \in 1..Len(p.unsent) : acked(p.unsent[i]) THEN Len(p.unsent)
           ELSE (CHOOSE i \in 1..Len(p.unsent) :
                   ~acked(p.unsent[i]) /\ \A j \in 1..(i - 1) : acked(p.unsent[j])) - 1
  IN [p EXCEPT !.unsent = SubSeq(@, n + 1, Len(@)), !.snd_buf = Released(p, SubSeq(p.unsent, 1, n))]

\* The acknowledgement of a segment.
ReceiveAck(c, t, mem) ==
  LET edge == Plus(c.p.snd_wl2, c.p.snd_wnd)
      p == UpdateWindow(c.p, t)
      d == IF TCP_SEQ_LEQ(t.ackno, p.lastack) THEN [c EXCEPT !.p = DupAck(p, t, edge)]
           ELSE IF TCP_SEQ_BETWEEN(t.ackno, Plus(p.lastack, 1), p.snd_nxt)
             THEN [c EXCEPT !.p = NewAck(p, t)]
           ELSE tcp_send_empty_ack([c EXCEPT !.p = p], mem)
  IN [d EXCEPT !.p = UnsentAcked(@, t)]

\* The part of a segment that lies in the window.
Trim(p, t) ==
  LET cut == IF TCP_SEQ_BETWEEN(p.rcv_nxt, Plus(t.seq, 1), Plus(t.seq, TCPLEN(t) - 1))
               THEN Minus(p.rcv_nxt, t.seq) ELSE 0
      data == SubSeq(t.data, cut + 1, Len(t.data))
      over == Len(data) + (IF t.fin THEN 1 ELSE 0) > p.rcv_wnd
  IN [seq |-> Plus(t.seq, cut),
      data |-> IF over THEN SubSeq(data, 1, p.rcv_wnd) ELSE data,
      fin |-> t.fin /\ ~over]

InWindow(p, seq) == TCP_SEQ_BETWEEN(seq, p.rcv_nxt, Plus(p.rcv_nxt, p.rcv_wnd - 1))

\* Without TCP_QUEUE_OOSEQ only the next segment is taken.
IsNext(p, seq) == seq = p.rcv_nxt

\* The data of a segment.
ReceiveData(c, t, mem) ==
  LET p == c.p
      u == Trim(p, t)
      n == Len(u.data) + (IF u.fin THEN 1 ELSE 0)
      q == IF u.seq = t.seq /\ TCP_SEQ_LT(t.seq, p.rcv_nxt) THEN tcp_ack_now(p) ELSE p
      d == [c EXCEPT !.p = q]
  IN CASE ~InWindow(p, u.seq) -> tcp_send_empty_ack(d, mem)
       [] InWindow(p, u.seq) /\ ~IsNext(p, u.seq) -> tcp_send_empty_ack(d, mem)
       [] OTHER ->
            [d EXCEPT !.p = tcp_ack(tcp_update_rcv_ann_wnd(
                               [q EXCEPT !.rcv_nxt = Plus(@, n), !.rcv_wnd = @ - n]).p),
                      !.data = u.data, !.gotFin = u.fin]

\* What tcp_receive does once the acknowledgement is dealt with.
AfterAck(d, t, mem) ==
  IF TCPLEN(t) > 0 /\ d.p.state \in {"SYN_SENT", "SYN_RCVD", "ESTABLISHED", "FIN_WAIT_1",
                                     "FIN_WAIT_2"}
    THEN ReceiveData(d, t, mem)
    ELSE IF InWindow(d.p, t.seq) THEN d ELSE [d EXCEPT !.p = tcp_ack_now(@)]

tcp_receive(c, t, mem) == AfterAck(IF t.ack THEN ReceiveAck(c, t, mem) ELSE c, t, mem)

----------------------------------------------------------------------------
(* tcp_input.  take: whether the application accepts what is offered. *)

tcp_process_refused_data(c, take) ==
  IF c.p.refused = <<>> \/ ~take THEN c
  ELSE LET fin == c.p.refusedFin
       IN [c EXCEPT !.p.refused = <<>>, !.p.refusedFin = FALSE,
                    !.p.rcv_wnd = IF fin THEN MinOf(@ + 1, TCP_WND) ELSE @,
                    !.ev = @ \o <<Ev("recv", c.p.refused)>>
                             \o (IF fin THEN <<Ev("eof", <<>>)>> ELSE <<>>)]

\* Seeded fault: the end of the stream overtakes the data the application refused.
Notify_FinFirst(c, take, mem) ==
  CASE c.quit -> c
    [] c.reset -> RemoveAndFree([c EXCEPT !.ev = Append(@, Ev("err", <<>>))], mem)
    [] c.closed -> RemoveAndFree(c, mem)
    [] c.data # <<>> /\ "RXCLOSED" \in c.p.flags ->
         [tcp_abandon(c, TRUE, mem) EXCEPT !.quit = TRUE]
    [] OTHER ->
         LET d == IF c.data = <<>> THEN c
                  ELSE IF take THEN [c EXCEPT !.ev = Append(@, Ev("recv", c.data))]
                  ELSE [c EXCEPT !.p.refused = c.data]
             f == IF c.gotFin THEN [d EXCEPT !.ev = Append(@, Ev("eof", <<>>))] ELSE d
         IN tcp_output([f EXCEPT !.input = FALSE], mem)

\* The events of tcp_input after tcp_process has done its work.
Notify(c, take, mem) ==
  CASE c.quit -> c
    [] c.reset -> RemoveAndFree([c EXCEPT !.ev = Append(@, Ev("err", <<>>))], mem)
    [] c.closed -> RemoveAndFree(c, mem)
    [] c.data # <<>> /\ "RXCLOSED" \in c.p.flags ->
         [tcp_abandon(c, TRUE, mem) EXCEPT !.quit = TRUE]
    [] OTHER ->
         LET d == IF c.data = <<>> THEN c
                  ELSE IF take THEN [c EXCEPT !.ev = Append(@, Ev("recv", c.data))]
                  ELSE [c EXCEPT !.p.refused = c.data]
             f == IF ~c.gotFin THEN d
                  ELSE IF d.p.refused # <<>> THEN [d EXCEPT !.p.refusedFin = TRUE]
                  ELSE [d EXCEPT !.p.rcv_wnd = MinOf(@ + 1, TCP_WND),
                                 !.ev = Append(@, Ev("eof", <<>>))]
         IN tcp_output([f EXCEPT !.input = FALSE], mem)

\* An acceptable reset, as tcp_process sees it.
ProcessReset(c, t) ==
  LET p == c.p
      good == IF p.state = "SYN_SENT" THEN t.ackno = p.snd_nxt ELSE t.seq = p.rcv_nxt
  IN IF good THEN [c EXCEPT !.reset = TRUE, !.p.flags = @ \ {"ACK_DELAY"}]
     ELSE IF p.state # "SYN_SENT"
             /\ TCP_SEQ_BETWEEN(t.seq, p.rcv_nxt, Plus(p.rcv_nxt, p.rcv_wnd))
       THEN [c EXCEPT !.p = tcp_ack_now(p)] ELSE c

ProcessSynSent(c, t, mem) ==
  LET p == c.p IN
  IF t.ack /\ t.syn /\ t.ackno = Plus(p.lastack, 1)
  THEN LET fromUnsent == p.unacked = <<>>
           rest == IF fromUnsent THEN <<>> ELSE Tail(p.unacked)
           q == [p EXCEPT !.rcv_nxt = Plus(t.seq, 1), !.ann_edge = Plus(t.seq, 1),
                          !.lastack = t.ackno, !.snd_wnd = t.wnd, !.snd_wl1 = Minus(t.seq, 1),
                          !.state = "ESTABLISHED", !.cwnd = TCP_WND,
                          !.unacked = rest, !.unsent = IF fromUnsent THEN Tail(@) ELSE @,
                          !.rtime = TimerRuns(rest), !.nrtx = IF rest = <<>> THEN @ ELSE 0]
       IN [c EXCEPT !.p = tcp_ack_now(q), !.ev = Append(@, Ev("connected", <<>>))]
  ELSE IF t.ack
    THEN LET d == [c EXCEPT !.out = IF mem THEN @ \cup {tcp_rst(t.ackno, Plus(t.seq, TCPLEN(t)))}
                                   ELSE @]
         IN IF p.nrtx < TCP_SYNMAXRTX THEN tcp_rexmit_rto([d EXCEPT !.p.rtime = TRUE], mem) ELSE d
    ELSE c

\* A connection that was accepted, after the rest of its first segment is received.
Accepted(d) ==
  LET q == [d.p EXCEPT !.cwnd = TCP_WND]
  IN [d EXCEPT !.p = IF d.gotFin THEN [tcp_ack_now(q) EXCEPT !.state = "CLOSE_WAIT"] ELSE q]

ProcessSynRcvd(c, t, take, mem) ==
  LET p == c.p IN
  CASE t.ack /\ TCP_SEQ_BETWEEN(t.ackno, Plus(p.lastack, 1), p.snd_nxt) /\ ~take ->
         [tcp_abandon([c EXCEPT !.p.state = "ESTABLISHED"], TRUE, mem) EXCEPT !.quit = TRUE]
    [] t.ack /\ TCP_SEQ_BETWEEN(t.ackno, Plus(p.lastack, 1), p.snd_nxt) /\ take ->
         Accepted(tcp_receive([c EXCEPT !.p.state = "ESTABLISHED",
                                        !.ev = Append(@, Ev("accept", <<>>))], t, mem))
    [] t.ack /\ ~TCP_SEQ_BETWEEN(t.ackno, Plus(p.lastack, 1), p.snd_nxt) ->
         [c EXCEPT !.out = IF mem THEN @ \cup {tcp_rst(t.ackno, Plus(t.seq, TCPLEN(t)))} ELSE @]
    [] ~t.ack /\ t.syn /\ t.seq = Minus(p.rcv_nxt, 1) -> [c EXCEPT !.p = tcp_rexmit(p)]
    [] OTHER -> c

\* The states of an open connection, after tcp_receive: d is its result, q the pcb with a FIN
\* acknowledged.
Transition(d, q, s, finAcked) ==
  CASE s \in {"ESTABLISHED", "CLOSE_WAIT"} ->
         [d EXCEPT !.p = IF d.gotFin THEN [q EXCEPT !.state = "CLOSE_WAIT"] ELSE q]
    [] s = "FIN_WAIT_1" ->
         [d EXCEPT !.p = IF d.gotFin /\ finAcked THEN ToTimeWait(q)
                         ELSE IF d.gotFin THEN [q EXCEPT !.state = "CLOSING"]
                         ELSE IF finAcked THEN [q EXCEPT !.state = "FIN_WAIT_2"] ELSE q]
    [] s = "FIN_WAIT_2" -> [d EXCEPT !.p = IF d.gotFin THEN ToTimeWait(q) ELSE q]
    [] s = "CLOSING" -> [d EXCEPT !.p = IF finAcked THEN ToTimeWait(q) ELSE q]
    [] s = "LAST_ACK" -> [d EXCEPT !.p = q, !.closed = finAcked]

FinAcked(p, t) == t.ack /\ t.ackno = p.snd_nxt /\ p.unsent = <<>>

Received(d, t, s) ==
  Transition(d, IF d.gotFin THEN tcp_ack_now(d.p) ELSE d.p, s, FinAcked(d.p, t))

\* The other states: receive, then look at the FIN and at the acknowledgement of ours.
ProcessOpen(c, t, mem) == Received(tcp_receive(c, t, mem), t, c.p.state)

tcp_process(c, t, take, mem) ==
  CASE t.rst -> ProcessReset(c, t)
    [] ~t.rst /\ t.syn /\ c.p.state \notin {"SYN_SENT", "SYN_RCVD"} ->
         [c EXCEPT !.p = tcp_ack_now(c.p)]
    [] ~t.rst /\ c.p.state = "SYN_SENT" -> ProcessSynSent(c, t, mem)
    [] ~t.rst /\ c.p.state = "SYN_RCVD" -> ProcessSynRcvd(c, t, take, mem)
    [] OTHER -> ProcessOpen(c, t, mem)

\* A segment for a connection on the list of active ones.
ActiveInput(p, t, take, mem) ==
  LET c == tcp_process_refused_data(Context(p), take)
  IN IF c.p.refused # <<>> /\ TCPLEN(t) > 0
       THEN IF c.p.rcv_ann_wnd = 0 THEN tcp_send_empty_ack(c, mem) ELSE c
       ELSE Notify(tcp_process([c EXCEPT !.input = TRUE], t, take, mem), take, mem)

tcp_timewait_input(p, t, mem) ==
  LET c == Context(p) IN
  CASE t.rst -> c
    [] ~t.rst /\ t.syn /\ TCP_SEQ_BETWEEN(t.seq, p.rcv_nxt, Plus(p.rcv_nxt, p.rcv_wnd)) ->
         [c EXCEPT !.out = IF mem THEN {tcp_rst(t.ackno, Plus(t.seq, TCPLEN(t)))} ELSE {}]
    [] OTHER -> IF TCPLEN(t) > 0 THEN tcp_output([c EXCEPT !.p = tcp_ack_now(p)], mem) ELSE c

tcp_listen_input(t, iss, mem) ==
  CASE t.rst -> Context(Freed)
    [] ~t.rst /\ t.ack -> [Context(Freed) EXCEPT
         !.out = IF mem THEN {tcp_rst(t.ackno, Plus(t.seq, TCPLEN(t)))} ELSE {}]
    [] ~t.rst /\ ~t.ack /\ t.syn /\ mem /\ opens < MaxOpens ->
         LET n == [tcp_alloc EXCEPT !.state = "SYN_RCVD", !.list = "active",
                     !.rcv_nxt = Plus(t.seq, 1), !.ann_edge = Plus(t.seq, 1),
                     !.snd_nxt = iss, !.lastack = iss, !.snd_lbb = iss, !.snd_wl2 = iss,
                     !.snd_wl1 = Minus(t.seq, 1), !.snd_wnd = t.wnd]
         IN tcp_output(Context(tcp_enqueue_flags(n, TRUE, FALSE)), TRUE)
    [] OTHER -> Context(Freed)       \* no pcb or no segment: tcp_abandon(npcb, 0)

----------------------------------------------------------------------------
(* The system *)

\* What the application of an end knows: whether it holds the connection, what it wrote and
\* got, how much of it tcp_recved has been told of, whether the stream ended.
NewApp == [handle |-> FALSE, wrote |-> <<>>, got |-> <<>>, told |-> 0, eof |-> FALSE,
           done |-> FALSE]

Report(a, ev) ==
  FoldLeft(LAMBDA b, v :
             CASE v.kind \in {"connected", "accept"} -> [b EXCEPT !.handle = TRUE]
               [] v.kind = "recv" -> [b EXCEPT !.got = @ \o v.data]
               [] v.kind = "eof" -> [b EXCEPT !.eof = TRUE]
               [] v.kind = "err" -> [b EXCEPT !.handle = FALSE, !.done = TRUE],
           a, ev)

\* ip_output: what does not fit into the network is lost.
Transmit(n, e, out) ==
  LET f == Peer(e) IN
  [n EXCEPT ![f] = IF Cardinality(@ \cup out) <= MaxInFlight THEN @ \cup out ELSE @]

Finish(e, n, c) ==
  /\ pcb' = [pcb EXCEPT ![e] = c.p]
  /\ net' = Transmit(n, e, c.out)
  /\ app' = [app EXCEPT ![e] = Report(@, c.ev)]

TcpInit ==
  /\ pcb = [e \in Ends |-> tcp_alloc]
  /\ net = [e \in Ends |-> {}]
  /\ app = [e \in Ends |-> NewApp]
  /\ opens = 0
  /\ faults = 0

Mem == IF MayStarve THEN BOOLEAN ELSE {TRUE}

\* One fault for every condition that holds.
Blame(conds) ==
  LET n == faults + Cardinality({i \in DOMAIN conds : conds[i]})
  IN n <= MaxFaults /\ faults' = n

tcp_connect ==
  /\ pcb["client"].state = "CLOSED" /\ app["client"] = NewApp
  /\ LET p == [tcp_alloc EXCEPT !.state = "SYN_SENT", !.list = "active", !.snd_nxt = ClientISS,
                 !.lastack = Minus(ClientISS, 1), !.snd_wl2 = Minus(ClientISS, 1),
                 !.snd_lbb = Minus(ClientISS, 1), !.snd_wnd = TCP_WND]
     IN Finish("client", net, tcp_output(Context(tcp_enqueue_flags(p, TRUE, FALSE)), TRUE))
  /\ UNCHANGED <<opens, faults>>

\* The application writes one more byte, and lwIP sends what it may.
Write(e) ==
  /\ app[e].handle /\ Len(app[e].wrote) < ToWrite[e]
  /\ pcb[e].state \in {"ESTABLISHED", "CLOSE_WAIT", "SYN_SENT", "SYN_RCVD"}
  /\ pcb[e].snd_buf > 0
  /\ LET byte == <<Len(app[e].wrote) + 1>>
         c == tcp_output(Context(tcp_write(pcb[e], byte)), TRUE)
     IN /\ pcb' = [pcb EXCEPT ![e] = c.p]
        /\ net' = Transmit(net, e, c.out)
        /\ app' = [app EXCEPT ![e].wrote = @ \o byte]
  /\ UNCHANGED <<opens, faults>>

\* The application has consumed everything it got.
Recved(e) ==
  /\ app[e].handle /\ app[e].told < Len(app[e].got)
  /\ LET c == tcp_recved(Context(pcb[e]), Len(app[e].got) - app[e].told, TRUE)
     IN /\ pcb' = [pcb EXCEPT ![e] = c.p]
        /\ net' = Transmit(net, e, c.out)
        /\ app' = [app EXCEPT ![e].told = Len(app[e].got)]
  /\ UNCHANGED <<opens, faults>>

Close(e, mem) ==
  /\ app[e].handle
  /\ Blame(<<~mem>>)
  /\ LET c == tcp_close(Context(pcb[e]), mem)
     IN /\ pcb' = [pcb EXCEPT ![e] = c.p]
        /\ net' = Transmit(net, e, c.out)
        /\ app' = [app EXCEPT ![e].done = TRUE, ![e].handle = FALSE]
  /\ UNCHANGED opens

\* The end of tcp_input; new: a listening end has made a pcb.
FinishInput(e, n, c, new) ==
  /\ opens' = IF new THEN opens + 1 ELSE opens
  /\ pcb' = [pcb EXCEPT ![e] = c.p]
  /\ net' = Transmit(n, e, c.out)
  /\ app' = [app EXCEPT ![e] = Report(IF new THEN NewApp ELSE @, c.ev)]

\* A segment arrives; the network may keep a copy.
tcp_input(e, t, keep, take, mem) ==
  /\ t \in net[e]
  /\ Blame(<<keep, ~take, ~mem>>)
  /\ LET n == IF keep THEN net ELSE [net EXCEPT ![e] = @ \ {t}]
     IN \/ /\ pcb[e].list = "active"
           /\ FinishInput(e, n, ActiveInput(pcb[e], t, take, mem), FALSE)
        \/ /\ pcb[e].list = "tw"
           /\ FinishInput(e, n, tcp_timewait_input(pcb[e], t, mem), FALSE)
        \/ /\ pcb[e].list = "none" /\ e = "board"
           /\ \E c \in {tcp_listen_input(t, Plus(BoardISS, 5 * opens), mem)} :
                FinishInput(e, n, c, c.p.state = "SYN_RCVD")
        \/ /\ pcb[e].list = "none" /\ e = "client"
           /\ FinishInput(e, n, [Context(pcb[e]) EXCEPT
                  !.out = IF mem /\ ~t.rst THEN {tcp_rst(t.ackno, Plus(t.seq, TCPLEN(t)))} ELSE {}],
                FALSE)

Lose(e) ==
  /\ \E t \in net[e] : net' = [net EXCEPT ![e] = @ \ {t}]
  /\ Blame(<<TRUE>>)
  /\ UNCHANGED <<pcb, app, opens>>

FastDue(p) == p.refused # <<>> \/ p.flags \cap {"ACK_DELAY", "CLOSEPEND"} # {}

tcp_fasttmr(e, take, mem) ==
  /\ pcb[e].list = "active" /\ FastDue(pcb[e])
  /\ Blame(<<~take, ~mem>>)
  /\ LET a == IF "ACK_DELAY" \in pcb[e].flags
                THEN LET o == tcp_output(Context(tcp_ack_now(pcb[e])), mem)
                     IN [o EXCEPT !.p.flags = @ \ {"ACK_DELAY", "ACK_NOW"}]
                ELSE Context(pcb[e])
         b == IF "CLOSEPEND" \in a.p.flags
                THEN tcp_close_shutdown_fin([a EXCEPT !.p.flags = @ \ {"CLOSEPEND"}], mem)
                ELSE a
         c == tcp_process_refused_data(b, take)
     IN Finish(e, net, c)
  /\ UNCHANGED opens

\* Seeded fault: nothing ends FIN_WAIT_2.
TooOld_NotFinWait(p) == p.state \in {"SYN_RCVD", "LAST_ACK"}

\* States that last for a limited time.
TooOld(p) == \/ p.state = "FIN_WAIT_2" /\ "RXCLOSED" \in p.flags
             \/ p.state \in {"SYN_RCVD", "LAST_ACK"}

\* The loop over the active connections.  rto: the retransmission or persist timer is at its
\* limit; old: the connection has been in its state for as long as it may.
Slow(p, rto, old, mem) ==
  LET giveUp == \/ p.state = "SYN_SENT" /\ p.nrtx >= TCP_SYNMAXRTX
                \/ p.nrtx >= TCP_MAXRTX
      c == CASE giveUp \/ ~rto -> Context(p)
             [] ~giveUp /\ rto /\ p.persist -> tcp_zero_window_probe(Context(p), mem)
             [] ~giveUp /\ rto /\ ~p.persist /\ p.rtime /\ p.unacked # <<>> ->
                  tcp_rexmit_rto(Context([p EXCEPT !.cwnd = MSS]), mem)
             [] OTHER -> Context(p)
      remove == giveUp \/ (old /\ TooOld(c.p))
  IN IF remove THEN [c EXCEPT !.p = Freed, !.ev = Append(@, Ev("err", <<>>))]
     ELSE tcp_output(c, mem)                        \* the poll at the end

NetEmpty == \A e \in Ends : net[e] = {}

\* A timer that is at its limit while a segment is still on its way fires too early.
SlowActive(e, rto, old, mem) ==
  /\ pcb[e].list = "active"
  /\ Blame(<<(rto \/ old) /\ ~NetEmpty, ~mem>>)
  /\ LET f == Slow(pcb[e], rto, old, mem)
     IN f # Context(pcb[e]) /\ Finish(e, net, f)
  /\ UNCHANGED opens

\* The loop over the connections in TIME_WAIT: 2 MSL, no segment is left in the network.
SlowTimeWait(e) ==
  /\ pcb[e].list = "tw"
  /\ NetEmpty
  /\ pcb' = [pcb EXCEPT ![e] = Freed]
  /\ UNCHANGED <<net, app, opens, faults>>

TcpNext ==
  \/ tcp_connect
  \/ \E e \in Ends :
       \/ Write(e) \/ Recved(e) \/ Lose(e) \/ SlowTimeWait(e)
       \/ \E mem \in Mem :
            \/ Close(e, mem)
            \/ \E take \in BOOLEAN : tcp_fasttmr(e, take, mem)
            \/ \E rto, old \in BOOLEAN : SlowActive(e, rto, old, mem)
            \/ \E t \in net[e], keep, take \in BOOLEAN : tcp_input(e, t, keep, take, mem)

TcpSpec == TcpInit /\ [][TcpNext]_tcpvars

\* What happens without a fault and without the applications writing or closing: the network
\* delivers, the timers run, the applications read.
\* (That no fault is counted and that the rest of what is on its way to e stays follows from the
\* actions; said first, it spares TLC most of the comparisons.)
Helpful ==
  /\ faults' = faults
  /\ \E e \in Ends :
       \/ \E t \in net[e] \ net'[e] : tcp_input(e, t, FALSE, TRUE, TRUE)
       \/ /\ net'[e] = net[e]
          /\ \/ tcp_fasttmr(e, TRUE, TRUE) \/ Recved(e) \/ SlowTimeWait(e)
             \/ NetEmpty /\ SlowActive(e, TRUE, TRUE, TRUE)

\* Whether a helpful step is possible.
HelpfulDue ==
  \/ ~NetEmpty
  \/ \E e \in Ends :
       \/ pcb[e].list = "tw"
       \/ app[e].handle /\ app[e].told < Len(app[e].got)
       \/ /\ pcb[e].list = "active"
          /\ FastDue(pcb[e]) \/ Slow(pcb[e], TRUE, TRUE, TRUE) # Context(pcb[e])

\* WF_tcpvars(Helpful), with ENABLED written out.
TcpFairness == []<>~HelpfulDue \/ []<><<Helpful>>_tcpvars

TcpFairSpec == TcpSpec /\ TcpFairness

----------------------------------------------------------------------------
(* Type invariant. *)
TcpTypeOK ==
  /\ \A e \in Ends :
       /\ pcb[e].state \in TcpStates /\ pcb[e].list \in {"none", "active", "tw"}
       /\ pcb[e].snd_buf \in 0..TCP_SND_BUF /\ pcb[e].rcv_wnd \in 0..TCP_WND
       /\ pcb[e].snd_nxt \in 0..(SeqSpace - 1)
  /\ opens \in 0..MaxOpens

(* What tcp_receive and tcp_input hand to an application is a prefix of what the other one     *)
(* gave to tcp_write: nothing is lost, doubled or out of order, whatever the network loses,    *)
(* repeats or reorders and whichever timer fires early.                                       *)
StreamIntact == \A e \in Ends : IsPrefix(app[e].got, app[Peer(e)].wrote)

(* The FIN that tcp_send_fin adds is after the last byte: an application that is told of the   *)
(* end of the stream has everything the other one wrote.                                      *)
EofIsLast == \A e \in Ends : app[e].eof => app[e].got = app[Peer(e)].wrote

(* What tcp_pcbs_sane asserts: the list a pcb is on and its state agree after every segment,   *)
(* timer and call (tcp_input searches the lists, the timers run over them).                   *)
ListsMatchStates ==
  \A e \in Ends :
    /\ pcb[e].list = "active" => pcb[e].state \notin {"CLOSED", "LISTEN", "TIME_WAIT"}
    /\ pcb[e].list = "tw" <=> pcb[e].state = "TIME_WAIT"

(* While something is unacknowledged the retransmission timer runs, through every way a        *)
(* segment gets on or off the queue: otherwise one lost segment stops the connection.          *)
TimerArmed == \A e \in Ends : pcb[e].unacked # <<>> => pcb[e].rtime

(* snd_buf is what the two queues leave of TCP_SND_BUF: acknowledgements that come while a     *)
(* segment waits to be sent again neither leak the space nor give it back twice.              *)
SndBufExact == \A e \in Ends :
   pcb[e].list = "active" => pcb[e].snd_buf = TCP_SND_BUF - Bytes(pcb[e].unsent \o pcb[e].unacked)

Synchronized == {"ESTABLISHED", "FIN_WAIT_1", "FIN_WAIT_2", "CLOSE_WAIT", "CLOSING", "LAST_ACK"}

(* What the other end waits for next is in one of the queues until it has arrived: no          *)
(* acknowledgement, retransmission or shortage of memory drops a byte or the FIN too early.    *)
AwaitedIsQueued ==
  \A e \in Ends : LET next == pcb[Peer(e)].rcv_nxt IN
    pcb[e].state \in Synchronized /\ pcb[Peer(e)].state \in Synchronized
      => \/ TCP_SEQ_LEQ(pcb[e].snd_lbb, next)
         \/ \E s \in ToSet(pcb[e].unsent \o pcb[e].unacked) :
              TCP_SEQ_LEQ(s.seq, next) /\ TCP_SEQ_LT(next, Plus(s.seq, TCPLEN(s)))

(* tcp_update_rcv_ann_wnd never takes back what was announced: the right edge of the receive   *)
(* window only moves forward while the connection lasts.                                      *)
WindowNeverShrinks ==
  [][\A e \in Ends :
       pcb[e].state \in Synchronized /\ pcb'[e].state \in Synchronized
         => TCP_SEQ_LEQ(pcb[e].ann_edge, pcb'[e].ann_edge)]_tcpvars

(* A pcb is given back: once the application of an end has closed, or was told of an error,    *)
(* the timers and the other end bring its pcb off the lists, whatever was lost on the way;     *)
(* unless one end probes a zero window, which tcp_slowtmr does without a limit (and a FIN as   *)
(* probe keeps the other end's TIME_WAIT from ending: tcp_timewait_input).                     *)
PcbIsFreed ==
  \A e \in Ends : app[e].done ~> (pcb[e].list = "none" \/ \E g \in Ends : pcb[g].persist)

(* The stream between two applications as a whole: nothing lost, doubled or out of order, and    *)
(* all of it before its end is told.                                                          *)
StreamDelivered == StreamIntact /\ EofIsLast

(* The queues of a pcb as a whole: on the right list, a timer while something is               *)
(* unacknowledged, the send buffer counted exactly, and in them whatever the peer awaits.      *)
QueuesExact == TcpTypeOK /\ ListsMatchStates /\ TimerArmed /\ SndBufExact /\ AwaitedIsQueued
============================================================================
