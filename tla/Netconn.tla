------------------------------ MODULE Netconn ------------------------------
(***************************************************************************)
(* TCP connections of the sequential API, api/api_lib.c and api/api_msg.c: *)
(* an application thread that accepts, writes, receives, closes and        *)
(* deletes as tcp_thread does, and the callbacks of the stack into the     *)
(* netconns (LWIP_TCPIP_CORE_LOCKING 1: each runs under the core lock, and *)
(* so does the part of a call that is passed to netconn_apimsg).  The pcbs *)
(* are the part of core/tcp.c the callbacks see; TcpConn has the protocol. *)
(***************************************************************************)
EXTENDS Integers, Sequences, FiniteSets

CONSTANTS
  MEMP_NUM_TCP_PCB, MEMP_NUM_NETCONN, \* connections; netconns left for them
  DEFAULT_TCP_RECVMBOX_SIZE, DEFAULT_ACCEPTMBOX_SIZE,
  ListenBacklog, SndBuf, WriteLen,
  RecvWindow,            \* segments the peer may have unread
  ClosePolls,            \* polls_left of a close
  MaxNoMem               \* times the heap may be exhausted

ASSUME NetconnAssumption ==
  /\ MEMP_NUM_TCP_PCB \in Nat \ {0} /\ MEMP_NUM_NETCONN \in Nat \ {0}
  /\ DEFAULT_TCP_RECVMBOX_SIZE \in Nat \ {0} /\ DEFAULT_ACCEPTMBOX_SIZE \in Nat \ {0}
  /\ ListenBacklog \in 1..255 /\ SndBuf \in Nat \ {0} /\ WriteLen \in Nat \ {0}
  /\ RecvWindow \in Nat \ {0} /\ ClosePolls \in Nat /\ MaxNoMem \in Nat

VARIABLES
  tpcb,                  \* the pcbs
  conn,                  \* the netconns
  accepts_pending,       \* of the listening pcb
  acceptmbox,            \* of the listening netconn
  apiPbufs,              \* pbufs of received data that are not freed
  nomem,                 \* how often the heap was exhausted
  app                    \* the application thread

apiVars == <<tpcb, conn, accepts_pending, acceptmbox, apiPbufs, nomem, app>>

Pcbs == 1..MEMP_NUM_TCP_PCB
Conns == 1..MEMP_NUM_NETCONN
ABORTED == MEMP_NUM_NETCONN + 1          \* &netconn_aborted

\* arg: the netconn the callbacks belong to, 0 for none; pend: TF_BACKLOGPEND; snd: bytes queued;
\* refused: refused_data, "fin" with PBUF_FLAG_TCP_FIN; unread: segments not yet tcp_recved.
NoPcb == [state |-> "CLOSED", arg |-> 0, pend |-> FALSE, snd |-> 0, refused |-> "none",
          unread |-> 0, rxclosed |-> FALSE]
\* msg: current_msg; sem: op_completed; left: bytes to write, or polls_left of a close.
NoConn == [alive |-> FALSE, pcb |-> 0, state |-> "NONE", last_err |-> "OK", valid |-> FALSE,
           recvmbox |-> <<>>, msg |-> "NULL", left |-> 0, sem |-> 0]

NetconnInit ==
  /\ tpcb = [p \in Pcbs |-> NoPcb]
  /\ conn = [n \in Conns |-> NoConn]
  /\ accepts_pending = 0 /\ acceptmbox = <<>> /\ apiPbufs = 0 /\ nomem = 0
  /\ app = [pc |-> "accept", n |-> 0, got |-> "none"]

\* The state of the stack that the operators below transform.
Stack == [pcb |-> tpcb, conn |-> conn, pending |-> accepts_pending, mbox |-> acceptmbox, pbufs |-> apiPbufs]

Becomes(s) ==
  /\ tpcb' = s.pcb /\ conn' = s.conn /\ accepts_pending' = s.pending
  /\ acceptmbox' = s.mbox /\ apiPbufs' = s.pbufs

Least(S) == CHOOSE k \in S : \A j \in S : k <= j

----------------------------------------------------------------------------
(* Callbacks *)

tcp_backlog_accepted(s, p) ==
  IF s.pcb[p].pend
    THEN [s EXCEPT !.pcb[p].pend = FALSE, !.pending = @ - 1]
    ELSE s

\* The pcb is freed with what it holds, by tcp_pcb_purge.
FreePcb(s, p) ==
  LET t == tcp_backlog_accepted(s, p)
  IN [t EXCEPT !.pcb[p] = NoPcb, !.pbufs = @ - (IF s.pcb[p].refused = "none" THEN 0 ELSE 1)]

\* The waiting caller is told; the signal of a binary semaphore that is set is lost.
Finish(s, n, signal) ==
  [s EXCEPT !.conn[n] = [s.conn[n] EXCEPT !.msg = "NULL", !.state = "NONE", !.left = 0, !.sem = IF signal THEN 1 ELSE @]]

\* sys_mbox_trypost of a segment or of NULL: a full mailbox takes nothing.
Post(s, n, item) ==
  IF s.conn[n].valid /\ Len(s.conn[n].recvmbox) < DEFAULT_TCP_RECVMBOX_SIZE
    THEN [s EXCEPT !.conn[n].recvmbox = Append(@, item)] ELSE s
CanPost(s, n) == Len(s.conn[n].recvmbox) < DEFAULT_TCP_RECVMBOX_SIZE

\* Seeded fault: the netconn keeps the pointer to the freed pcb.
err_tcp_KeepsPcb(s, n) ==
  LET old == s.conn[n].state
      t == [s EXCEPT !.conn[n].state = "NONE", !.conn[n].last_err = IF old = "CLOSE" THEN @ ELSE "FATAL"]
      u == Post(t, n, "NULL")
  IN IF old \in {"WRITE", "CLOSE"} THEN Finish(u, n, TRUE) ELSE u

\* Seeded fault: an error while closing does not wake the caller.
err_tcp_WakesWriters(s, n) ==
  LET old == s.conn[n].state
      t == [s EXCEPT !.conn[n] = [s.conn[n] EXCEPT !.pcb = 0, !.state = "NONE",
                                           !.last_err = IF old = "CLOSE" THEN @ ELSE "FATAL"]]
      u == Post(t, n, "NULL")
  IN IF old = "WRITE" THEN Finish(u, n, TRUE) ELSE u

\* err_tcp: the pcb is already gone. An error that hits a close is its success.
err_tcp(s, n) ==
  LET old == s.conn[n].state
      t == [s EXCEPT !.conn[n] = [s.conn[n] EXCEPT !.pcb = 0, !.state = "NONE",
                                           !.last_err = IF old = "CLOSE" THEN @ ELSE "FATAL"]]
      u == Post(t, n, "NULL")
  IN IF old \in {"WRITE", "CLOSE"} THEN Finish(u, n, TRUE) ELSE u

\* The connection is reset by the peer, given up by the timer, or aborted.
Abort(s, p) ==
  LET n == s.pcb[p].arg
      t == FreePcb(s, p)
  IN IF n = 0 THEN t ELSE err_tcp(t, n)

\* recv_tcp for a segment, with what tcp_input or tcp_process_refused_data does with the result.
recv_tcp(s, p, fin) ==
  LET n == s.pcb[p].arg
  IN IF n = 0 \/ ~s.conn[n].valid THEN [s EXCEPT !.pcb[p].unread = @ - 1, !.pbufs = @ - 1]
     ELSE IF ~CanPost(s, n) THEN [s EXCEPT !.pcb[p].refused = IF fin THEN "fin" ELSE "data"]
     ELSE Post(s, n, "data")

\* recv_tcp with NULL for the end of the stream: its result is ignored.
Closed(s, p) ==
  LET n == s.pcb[p].arg IN IF n # 0 /\ ~s.pcb[p].rxclosed THEN Post(s, n, "NULL") ELSE s

\* tcp_process_refused_data: the segment, then the FIN that came behind it.
RetryRefused(s, p) ==
  LET fin == s.pcb[p].refused = "fin"
      t == recv_tcp([s EXCEPT !.pcb[p].refused = "none"], p, fin)
  IN IF s.pcb[p].refused = "none" THEN s
     ELSE IF t.pcb[p].refused = "none" /\ fin THEN Closed(t, p) ELSE t

\* lwip_netconn_do_writemore: what fits is queued. "mem": tcp_write has no memory; "rte": tcp_output
\* finds no route.
lwip_netconn_do_writemore(s, n, outcome, delayed) ==
  LET p == s.conn[n].pcb
      len == IF outcome = "mem" THEN 0
             ELSE Least({s.conn[n].left, SndBuf - s.pcb[p].snd})
      t == [s EXCEPT !.pcb[p].snd = @ + len, !.conn[n].left = @ - len]
  IN IF t.conn[n].left = 0 \/ outcome = "rte" THEN Finish(t, n, delayed) ELSE t

\* lwip_netconn_do_close_internal. Closing takes the callbacks away; without memory for the FIN
\* they are put back and the close goes on in poll_tcp, which aborts in the end.
lwip_netconn_do_close_internal(s, n, outcome, delayed) ==
  LET p == s.conn[n].pcb
      close == s.conn[n].msg # "shutrd"
      rst == s.pcb[p].refused # "none" \/ s.pcb[p].unread > 0
      gone == [FreePcb(s, p) EXCEPT !.conn[n].pcb = 0]
      shut == [s EXCEPT !.pcb[p].rxclosed = TRUE, !.pcb[p].refused = "none",
                        !.pbufs = @ - (IF s.pcb[p].refused = "none" THEN 0 ELSE 1)]
  IN IF ~close THEN Finish(shut, n, delayed)
     ELSE IF rst \/ outcome # "mem" \/ s.conn[n].left = 0 THEN Finish(gone, n, delayed)
     ELSE [s EXCEPT !.pcb[p].rxclosed = TRUE]

\* accept_function, called for an established connection; the caller aborts it on an error.
accept_function(s, p) ==
  LET free == {n \in Conns : ~s.conn[n].alive}
      n == Least(free)
      room == Len(s.mbox) < DEFAULT_ACCEPTMBOX_SIZE
      post(x) == IF room THEN [s EXCEPT !.mbox = Append(@, x)] ELSE s
  IN IF free = {} THEN Abort(post(ABORTED), p)
     ELSE IF ~room THEN Abort(s, p)
     ELSE [s EXCEPT !.mbox = Append(@, n), !.pending = @ + 1,
                    !.pcb[p].arg = n, !.pcb[p].pend = TRUE,
                    !.conn[n] = [NoConn EXCEPT !.alive = TRUE, !.pcb = p, !.valid = TRUE]]

----------------------------------------------------------------------------
(* The stack and the peer *)

\* Results of an operation on connection n that goes on: memory may be short now and then, the route
\* may be missing for a write.
Tries(o) == IF o = "mem" THEN nomem < MaxNoMem /\ nomem' = nomem + 1 ELSE UNCHANGED nomem
Outcome(n, o) ==
  /\ o = "ok" \/ (n # 0 /\ conn[n].msg = "write") \/ (o = "mem" /\ n # 0 /\ conn[n].msg # "NULL")
  /\ Tries(o)

\* tcp_listen_input: a SYN within the backlog; without a pcb accept_function gets NULL.
Syn ==
  /\ accepts_pending < ListenBacklog
  /\ LET free == {p \in Pcbs : tpcb[p].state = "CLOSED"}
         s == Stack
     IN Becomes(IF free # {}
                  THEN [s EXCEPT !.pcb[Least(free)] = [NoPcb EXCEPT !.state = "SYN_RCVD", !.pend = TRUE],
                                 !.pending = @ + 1]
                ELSE IF Len(s.mbox) < DEFAULT_ACCEPTMBOX_SIZE THEN [s EXCEPT !.mbox = Append(@, ABORTED)]
                ELSE s)
  /\ UNCHANGED <<nomem, app>>

\* tcp_process: the handshake ends.
Established(p) ==
  /\ tpcb[p].state = "SYN_RCVD"
  /\ Becomes(accept_function([tcp_backlog_accepted(Stack, p) EXCEPT !.pcb[p].state = "ESTABLISHED"], p))
  /\ UNCHANGED <<nomem, app>>

\* A segment within the window, after what was refused before.
Data(p, fin) ==
  /\ tpcb[p].state = "ESTABLISHED" /\ tpcb[p].unread < RecvWindow
  /\ LET s == RetryRefused(Stack, p)
         arrived == [s EXCEPT !.pcb[p].unread = @ + 1, !.pbufs = @ + 1,
                              !.pcb[p].state = IF fin THEN "CLOSE_WAIT" ELSE @]
         t == recv_tcp(arrived, p, fin)
     IN Becomes(IF s.pcb[p].refused # "none" THEN s
                ELSE IF s.pcb[p].rxclosed THEN Abort(s, p)
                ELSE IF fin /\ t.pcb[p].refused = "none" THEN Closed(t, p) ELSE t)
  /\ UNCHANGED <<nomem, app>>

\* A FIN without data.
Fin(p) ==
  /\ tpcb[p].state = "ESTABLISHED"
  /\ LET s == RetryRefused(Stack, p)
     IN Becomes(IF s.pcb[p].refused # "none" THEN s
                ELSE Closed([s EXCEPT !.pcb[p].state = "CLOSE_WAIT"], p))
  /\ UNCHANGED <<nomem, app>>

\* tcp_fasttmr offers refused data again.
FastTmr(p) ==
  /\ tpcb[p].refused # "none"
  /\ Becomes(RetryRefused(Stack, p))
  /\ UNCHANGED <<nomem, app>>

\* The operation in progress goes on, from sent_tcp or poll_tcp.
GoOn(s, n, outcome) ==
  IF n = 0 THEN s
  ELSE IF s.conn[n].state = "WRITE" THEN lwip_netconn_do_writemore(s, n, outcome, TRUE)
  ELSE IF s.conn[n].state = "CLOSE" THEN lwip_netconn_do_close_internal(s, n, outcome, TRUE)
  ELSE s

\* All that was sent is acknowledged: sent_tcp.
Acked(p) ==
  /\ tpcb[p].snd > 0
  /\ \E o \in {"ok", "mem", "rte"} :
       /\ Outcome(tpcb[p].arg, o)
       /\ Becomes(GoOn([Stack EXCEPT !.pcb[p].snd = 0], tpcb[p].arg, o))
  /\ UNCHANGED app

\* tcp_slowtmr calls poll_tcp.
PollsLeft(s, n) ==
  IF n # 0 /\ s.conn[n].state = "CLOSE" /\ s.conn[n].left > 0 THEN [s EXCEPT !.conn[n].left = @ - 1] ELSE s

poll_tcp(p) ==
  /\ tpcb[p].state # "CLOSED" /\ tpcb[p].arg # 0 /\ conn[tpcb[p].arg].msg # "NULL"
  /\ \E o \in {"ok", "mem", "rte"} :
       /\ Outcome(tpcb[p].arg, o)
       /\ Becomes(GoOn(PollsLeft(Stack, tpcb[p].arg), tpcb[p].arg, o))
  /\ UNCHANGED app

\* The peer resets the connection, or retransmissions are given up.
Reset(p) ==
  /\ tpcb[p].state # "CLOSED"
  /\ Becomes(Abort(Stack, p))
  /\ UNCHANGED <<nomem, app>>

----------------------------------------------------------------------------
(* The application thread *)

Goes(pc) == app' = [app EXCEPT !.pc = pc]

\* netconn_accept: the mailbox, then lwip_netconn_do_accepted under the core lock.
AcceptFetch ==
  /\ app.pc = "accept" /\ acceptmbox # <<>>
  /\ acceptmbox' = Tail(acceptmbox)
  /\ app' = IF Head(acceptmbox) = ABORTED THEN app ELSE [app EXCEPT !.pc = "accepted", !.n = Head(acceptmbox)]
  /\ UNCHANGED <<tpcb, conn, accepts_pending, apiPbufs, nomem>>

AcceptDone ==
  /\ app.pc = "accepted"
  /\ Becomes(IF conn[app.n].pcb = 0 THEN Stack ELSE tcp_backlog_accepted(Stack, conn[app.n].pcb))
  /\ Goes("run") /\ UNCHANGED nomem

\* netconn_write, blocking: the caller waits when not all could be queued.
netconn_write ==
  /\ app.pc = "run"
  /\ LET n == app.n
         s == [Stack EXCEPT !.conn[n].state = "WRITE", !.conn[n].msg = "write", !.conn[n].left = WriteLen]
     IN IF conn[n].last_err = "FATAL" \/ conn[n].pcb = 0
          THEN UNCHANGED apiVars
          ELSE \E o \in {"ok", "mem", "rte"} :
                 /\ Tries(o)
                 /\ LET t == lwip_netconn_do_writemore(s, n, o, FALSE)
                    IN Becomes(t) /\ Goes(IF t.conn[n].msg = "NULL" THEN "run" ELSE "wait write")

\* netconn_recv: refused at once, or the wait for the mailbox.
netconn_recv ==
  /\ app.pc = "run"
  /\ Goes(IF ~conn[app.n].valid \/ conn[app.n].last_err = "FATAL" THEN "close" ELSE "recv")
  /\ UNCHANGED <<tpcb, conn, accepts_pending, acceptmbox, apiPbufs, nomem>>

RecvFetch ==
  /\ app.pc = "recv" /\ conn[app.n].recvmbox # <<>>
  /\ app' = [app EXCEPT !.pc = "recved", !.got = Head(conn[app.n].recvmbox)]
  /\ conn' = [conn EXCEPT ![app.n].recvmbox = Tail(@)]
  /\ UNCHANGED <<tpcb, accepts_pending, acceptmbox, apiPbufs, nomem>>

\* lwip_netconn_do_recv; the application frees the data. NULL is the end or an error.
RecvDone ==
  /\ app.pc = "recved"
  /\ LET p == conn[app.n].pcb
         data == app.got = "data"
     IN /\ tpcb' = IF data /\ p # 0 THEN [tpcb EXCEPT ![p].unread = @ - 1] ELSE tpcb
        /\ apiPbufs' = IF data THEN apiPbufs - 1 ELSE apiPbufs
        /\ app' = [app EXCEPT !.got = "none",
                              !.pc = IF data THEN "run" ELSE IF p = 0 THEN "close" ELSE "shutrd"]
  /\ UNCHANGED <<conn, accepts_pending, acceptmbox, nomem>>

\* netconn_drain of a connection: every segment is freed, the mailbox deleted.
netconn_drain(s, n) ==
  LET k == Cardinality({j \in DOMAIN s.conn[n].recvmbox : s.conn[n].recvmbox[j] = "data"})
      p == s.conn[n].pcb
      t == [s EXCEPT !.conn[n].recvmbox = <<>>, !.conn[n].valid = FALSE, !.pbufs = @ - k]
  IN IF p = 0 THEN t ELSE [t EXCEPT !.pcb[p].unread = @ - k]

\* lwip_netconn_do_close for SHUT_RD (the end of the stream), RDWR, and lwip_netconn_do_delconn.
CloseCall(pc, op, wait, next) ==
  /\ app.pc = pc
  /\ LET n == app.n
         d == IF op = "delete" \/ conn[n].pcb # 0 THEN netconn_drain(Stack, n) ELSE Stack
         s == [d EXCEPT !.conn[n].state = "CLOSE", !.conn[n].msg = op, !.conn[n].left = ClosePolls]
     IN IF conn[n].pcb = 0
          THEN Becomes(d) /\ Goes(next) /\ UNCHANGED nomem
          ELSE \E o \in {"ok", "mem"} :
                 /\ Tries(o)
                 /\ LET t == lwip_netconn_do_close_internal(s, n, o, FALSE)
                    IN Becomes(t) /\ Goes(IF t.conn[n].msg = "NULL" THEN next ELSE wait)

ShutRd == CloseCall("shutrd", "shutrd", "wait close", "close")
netconn_close == CloseCall("close", "close", "wait delete", "delete")
netconn_delete == CloseCall("delete", "delete", "wait free", "free")

netconn_free ==
  /\ app.pc = "free"
  /\ conn' = [conn EXCEPT ![app.n] = NoConn]
  /\ app' = [app EXCEPT !.pc = "accept", !.n = 0]
  /\ UNCHANGED <<tpcb, accepts_pending, acceptmbox, apiPbufs, nomem>>

\* sys_arch_sem_wait, without the core lock.
WaitOver ==
  /\ \E w \in {<<"wait write", "run">>, <<"wait close", "close">>, <<"wait delete", "delete">>, <<"wait free", "free">>} :
       app.pc = w[1] /\ Goes(w[2])
  /\ conn[app.n].sem = 1
  /\ conn' = [conn EXCEPT ![app.n].sem = 0]
  /\ UNCHANGED <<tpcb, accepts_pending, acceptmbox, apiPbufs, nomem>>

\* Steps the application thread takes once it runs; netconn_write and netconn_recv are its choice.
AppReady ==
  \/ AcceptFetch \/ AcceptDone \/ RecvFetch \/ RecvDone \/ ShutRd \/ netconn_close
  \/ netconn_delete \/ netconn_free \/ WaitOver

StackEvent ==
  \E p \in Pcbs : Established(p) \/ (\E fin \in BOOLEAN : Data(p, fin)) \/ Fin(p) \/ Reset(p)

\* What the timers and the peer do for a connection in the end: the timers offer refused data and
\* poll, the peer acknowledges what was sent (or the connection is given up, which ends a wait too).
StackWork == \E p \in Pcbs : FastTmr(p) \/ Acked(p) \/ poll_tcp(p)

NetconnNext == AppReady \/ netconn_write \/ netconn_recv \/ Syn \/ StackEvent \/ StackWork

NetconnSpec == NetconnInit /\ [][NetconnNext]_apiVars

\* The thread is scheduled, each timer runs, an acknowledgement comes or the pcb dies.
NetconnFairness ==
  WF_apiVars(AppReady) /\ WF_apiVars(netconn_recv) /\ WF_apiVars(StackWork)
NetconnFairSpec == NetconnSpec /\ NetconnFairness

\* An application that returns to netconn_recv after every write, as tcp_thread does.
ReaderSpec == NetconnFairSpec /\ SF_apiVars(netconn_recv)

----------------------------------------------------------------------------
(* Properties *)

\* Type invariant: mailboxes, windows and the semaphore of a netconn keep within their limits.
NetconnTypeOK ==
  /\ \A p \in Pcbs : tpcb[p].arg \in 0..MEMP_NUM_NETCONN /\ tpcb[p].unread \in 0..RecvWindow
                     /\ tpcb[p].snd \in 0..SndBuf
  /\ \A n \in Conns : conn[n].pcb \in 0..MEMP_NUM_TCP_PCB /\ conn[n].sem \in 0..1
                      /\ Len(conn[n].recvmbox) <= DEFAULT_TCP_RECVMBOX_SIZE
  /\ Len(acceptmbox) <= DEFAULT_ACCEPTMBOX_SIZE /\ apiPbufs \in Nat

\* No callback can reach a netconn that was freed, or that belongs to another connection: a pcb
\* with an argument and the netconn it names point at each other.
CallbacksHaveTarget ==
  /\ \A p \in Pcbs : tpcb[p].arg # 0 =>
       conn[tpcb[p].arg].alive /\ conn[tpcb[p].arg].pcb = p
  /\ \A n \in Conns : conn[n].pcb # 0 => conn[n].alive /\ tpcb[conn[n].pcb].arg = n

\* Signals and waits match: op_completed is set only for a thread that waits for it, and a thread
\* waits only for an operation in progress or one that has been signalled. A signal left over
\* would end the next blocking call before it is done, a missing one would block it for ever.
SignalsMatchWaits ==
  LET waits(n) == app.n = n /\ app.pc \in {"wait write", "wait close", "wait delete", "wait free"}
  IN \A n \in Conns :
       /\ conn[n].sem = 1 => waits(n)
       /\ waits(n) => (conn[n].sem = 1) # (conn[n].msg # "NULL")

\* "or else the backlog feature will get out of sync!" (tcp.c, tcp_backlog_delayed): the counter of
\* the listener is the number of connections that have not been accepted.
BacklogInSync == accepts_pending = Cardinality({p \in Pcbs : tpcb[p].pend})

\* No pbuf is lost or freed twice: what is not freed lies in a mailbox, is refused data or is just
\* being received.
PbufsInReach ==
  LET inMbox(n) == {k \in DOMAIN conn[n].recvmbox : conn[n].recvmbox[k] = "data"}
  IN apiPbufs = Cardinality({x \in Conns \X (1..DEFAULT_TCP_RECVMBOX_SIZE) : x[2] \in inMbox(x[1])})
                + Cardinality({p \in Pcbs : tpcb[p].refused # "none"})
                + (IF app.got = "data" THEN 1 ELSE 0)

\* A blocking write, close or delete comes back, whatever the peer does meanwhile.
BlockingCallsReturn ==
  app.pc \in {"wait write", "wait close", "wait delete", "wait free"} ~>
  app.pc \in {"run", "close", "delete", "free"}

Reading(n) == app.n = n /\ app.pc \in {"accepted", "run", "wait write", "recv", "recved"}

\* "we call the callback function with a NULL buffer to indicate EOF" (tcp_in.c): a thread that goes
\* on receiving learns that the peer has closed, and closes.
EofReachesReader ==
  \A n \in Conns :
    (Reading(n) /\ conn[n].pcb # 0 /\ tpcb[conn[n].pcb].state = "CLOSE_WAIT") ~> ~Reading(n)

\* The netconns of api_msg.c as a whole: no callback without its netconn, one signal for each wait, the
\* backlog in step and every pbuf in reach.
NetconnSound ==
  NetconnTypeOK /\ CallbacksHaveTarget /\ SignalsMatchWaits /\ BacklogInSync /\ PbufsInReach
=============================================================================
