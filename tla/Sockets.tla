------------------------------ MODULE Sockets -------------------------------
(***************************************************************************)
(* The socket layer of lwIP, api/sockets.c: the table of sockets, accept,  *)
(* receive and close of one thread, and lwip_select of several threads     *)
(* against event_callback.  Every step is what is done under one           *)
(* SYS_ARCH_PROTECT: event_callback gives the protection up after every    *)
(* entry of select_cb_list, lwip_select after every socket.                *)
(***************************************************************************)
EXTENDS Integers, FiniteSets, SequencesExt

CONSTANTS
  NUM_SOCKETS,               \* sockets; the first one listens
  NumConns,                  \* netconns
  Selectors, Owner,          \* threads that select; the one that also works with the sockets
  Interests,                 \* what a thread may select for: sets of <<"read" or "write", socket>>
  SockMboxSize               \* bound: what a mailbox holds

ASSUME SocketsAssumption ==
  /\ NUM_SOCKETS \in Nat \ {0} /\ NumConns \in Nat \ {0} /\ SockMboxSize \in Nat
  /\ IsFiniteSet(Selectors) /\ Owner \in Selectors /\ "tcpip" \notin Selectors
  /\ Interests \subseteq SUBSET ({"read", "write"} \X (1..NUM_SOCKETS))

VARIABLES
  sock,                      \* sockets: [conn, rcvevent, sendevent, select_waiting, lastdata]
  nconn,                     \* the netconns: [live, socket, mbox]
  sel,                       \* lwip_select of each thread
  owner,                     \* [pc, s, c]: where the owner is in its other calls
  event,                     \* event_callback of the owner and of tcpip_thread
  cbList                     \* select_cb_list, by thread

sockVars == <<sock, nconn, sel, owner, event, cbList>>

Sk == 1..NUM_SOCKETS
NConns == 1..NumConns              \* the first is the listening one
Callers == {Owner, "tcpip"}

FreeSock == [conn |-> 0, rcvevent |-> 0, sendevent |-> FALSE, select_waiting |-> 0, lastdata |-> FALSE]
NoSockConn == [live |-> FALSE, socket |-> -1, mbox |-> 0]
NoSelect == [pc |-> "idle", set |-> {}, at |-> 0, end |-> 0, nready |-> 0, sem |-> FALSE, marked |-> {}]
NoEvent == [pc |-> "idle", c |-> 0, evt |-> "none", cb |-> 0, stale |-> FALSE]

SocketsInit ==
  /\ sock = [s \in Sk |-> IF s = 1 THEN [FreeSock EXCEPT !.conn = 1] ELSE FreeSock]
  /\ nconn = [c \in NConns |-> IF c = 1 THEN [NoSockConn EXCEPT !.live = TRUE, !.socket = 1] ELSE NoSockConn]
  /\ sel = [t \in Selectors |-> NoSelect]
  /\ owner = [pc |-> "idle", s |-> 0, c |-> 0]
  /\ event = [t \in Callers |-> NoEvent]
  /\ cbList = <<>>

----------------------------------------------------------------------------
(* event_callback *)

Raise(t, c, evt) == event' = [event EXCEPT ![t] = [NoEvent EXCEPT !.pc = "update", !.c = c, !.evt = evt]]

\* The socket of a netconn is known, and still in use.
HasSocket(c) == nconn[c].socket > 0 /\ sock[nconn[c].socket].conn # 0

Updated(k, evt) ==
  CASE evt = "RCVPLUS" -> [k EXCEPT !.rcvevent = @ + 1]
    [] evt = "RCVMINUS" -> [k EXCEPT !.rcvevent = @ - 1]
    [] evt = "SENDPLUS" -> [k EXCEPT !.sendevent = TRUE]
    [] evt = "SENDMINUS" -> [k EXCEPT !.sendevent = FALSE]

\* The select at position n of the list is looked at, and signalled when it waits for this socket.
Wakes(k, s, want) ==
  (k.rcvevent > 0 /\ <<"read", s>> \in want) \/ (k.sendevent /\ <<"write", s>> \in want)
Visit(t, k, s, n) ==
  IF n > Len(cbList) THEN /\ event' = [event EXCEPT ![t] = NoEvent] /\ UNCHANGED sel
  ELSE /\ event' = [event EXCEPT ![t].pc = "loop", ![t].cb = n, ![t].stale = FALSE]
       /\ sel' = [sel EXCEPT ![cbList[n]].sem = @ \/ Wakes(k, s, sel[cbList[n]].set)]

\* A connection without a socket counts what it receives below -1.
EventBefore(t) ==
  LET e == event[t]
  IN /\ e.pc = "update" /\ nconn[e.c].socket < 0
     /\ nconn' = IF e.evt = "RCVPLUS" THEN [nconn EXCEPT ![e.c].socket = @ - 1] ELSE nconn
     /\ event' = [event EXCEPT ![t] = NoEvent]
     /\ UNCHANGED <<sock, sel, owner, cbList>>

EventUpdate(t) ==
  LET e == event[t]
      s == nconn[e.c].socket
      k == Updated(sock[s], e.evt)
  IN /\ e.pc = "update" /\ s > 0
     /\ IF ~HasSocket(e.c) THEN event' = [event EXCEPT ![t] = NoEvent] /\ UNCHANGED <<sock, sel>>
        ELSE /\ sock' = [sock EXCEPT ![s] = k]
             /\ IF k.select_waiting = 0 THEN event' = [event EXCEPT ![t] = NoEvent] /\ UNCHANGED sel
                ELSE Visit(t, k, s, 1)
     /\ UNCHANGED <<nconn, owner, cbList>>

\* Seeded fault: a list that was changed meanwhile is not gone through again.
NextEntry_NoRestart(t) == event[t].cb + 1

\* Where the loop goes on: at the beginning when select_cb_ctr has changed.
NextEntry(t) == IF event[t].stale THEN 1 ELSE event[t].cb + 1

EventLoop(t) ==
  LET s == nconn[event[t].c].socket
  IN /\ event[t].pc = "loop"
     /\ Visit(t, sock[s], s, NextEntry(t))
     /\ UNCHANGED <<sock, nconn, owner, cbList>>

\* A change of select_cb_list; select_cb_ctr tells it to the loops that are under way.
ListChanges(l) ==
  /\ cbList' = l
  /\ event' = [t \in Callers |-> IF event[t].pc = "loop" THEN [event[t] EXCEPT !.stale = TRUE] ELSE event[t]]

----------------------------------------------------------------------------
(* lwip_select *)

Ready(s, want) ==
  /\ sock[s].conn # 0
  /\ \/ <<"read", s>> \in want /\ (sock[s].lastdata \/ sock[s].rcvevent > 0)
     \/ <<"write", s>> \in want /\ sock[s].sendevent
Asked(want, s) == <<"read", s>> \in want \/ <<"write", s>> \in want

Sets(t, r) == sel' = [sel EXCEPT ![t] = r]
OnlySelect == UNCHANGED <<sock, nconn, owner, event, cbList>>

\* Descriptors a program can name: those a call has returned.
Known(s) == sock[s].conn # 0 /\ nconn[sock[s].conn].socket = s

Select(t, want) ==
  /\ sel[t].pc = "idle" /\ (t = Owner => owner.pc = "idle" /\ event[t].pc = "idle")
  /\ \A s \in Sk : Asked(want, s) => Known(s)
  /\ Sets(t, [NoSelect EXCEPT !.pc = "scan1", !.set = want, !.at = 1])
  /\ OnlySelect

\* lwip_selscan.  The first and the last scan only say what to return; the sockets they look at one
\* after the other are read here at once.
ReadyOnes(want) == Cardinality({s \in Sk : Ready(s, want)})
FirstScan(t) ==
  /\ sel[t].pc = "scan1"
  /\ Sets(t, IF ReadyOnes(sel[t].set) > 0 THEN NoSelect ELSE [sel[t] EXCEPT !.pc = "register"])
  /\ OnlySelect
LastScan(t) == sel[t].pc = "scan3" /\ Sets(t, NoSelect) /\ OnlySelect

\* The scan that decides whether to wait, one socket at a time.
Scan(t) ==
  LET r == sel[t]
      n == r.nready + (IF Ready(r.at, r.set) THEN 1 ELSE 0)
  IN /\ r.pc = "scan2"
     /\ Sets(t, IF r.at < NUM_SOCKETS THEN [r EXCEPT !.nready = n, !.at = @ + 1]
                ELSE [r EXCEPT !.nready = n, !.pc = IF n > 0 THEN "unmark" ELSE "wait", !.at = 1])
     /\ OnlySelect

\* No time to wait: the empty sets are returned at once.
Poll(t) == sel[t].pc = "register" /\ Sets(t, NoSelect) /\ OnlySelect

Register(t) ==
  /\ sel[t].pc = "register"
  /\ ListChanges(<<t>> \o cbList)
  /\ Sets(t, [sel[t] EXCEPT !.pc = "mark", !.sem = FALSE, !.at = 1, !.end = NUM_SOCKETS + 1])
  /\ UNCHANGED <<sock, nconn, owner>>

\* select_waiting of the sockets asked for; one that is gone ends it.
Mark(t) ==
  LET r == sel[t]
      gone == Asked(r.set, r.at) /\ sock[r.at].conn = 0
      mine == Asked(r.set, r.at) /\ ~gone
  IN /\ r.pc = "mark"
     /\ sock' = IF mine THEN [sock EXCEPT ![r.at].select_waiting = @ + 1] ELSE sock
     /\ Sets(t, IF gone THEN [r EXCEPT !.nready = -1, !.end = r.at, !.pc = "unmark", !.at = 1]
                ELSE [r EXCEPT !.marked = IF mine THEN @ \cup {r.at} ELSE @,
                               !.pc = IF r.at < NUM_SOCKETS THEN "mark" ELSE "scan2",
                               !.at = IF r.at < NUM_SOCKETS THEN @ + 1 ELSE 1])
     /\ UNCHANGED <<nconn, owner, event, cbList>>

\* The semaphore, or the time is over.
Wake(t, timeout) ==
  /\ sel[t].pc = "wait" /\ (sel[t].sem \/ timeout)
  /\ Sets(t, [sel[t] EXCEPT !.pc = "unmark", !.at = 1, !.sem = IF timeout THEN @ ELSE FALSE,
                            !.nready = IF timeout THEN 0 ELSE 1])
  /\ OnlySelect

GivenBack(n) == IF n > 0 THEN n - 1 ELSE n

\* select_waiting is given back, but not to a socket that is gone.
Unmark(t) ==
  LET r == sel[t]
      gone == Asked(r.set, r.at) /\ sock[r.at].conn = 0
      mine == Asked(r.set, r.at) /\ ~gone
  IN /\ r.pc = "unmark" /\ r.at < r.end
     /\ sock' = IF mine THEN [sock EXCEPT ![r.at].select_waiting = GivenBack(@)] ELSE sock
     /\ Sets(t, [r EXCEPT !.at = @ + 1, !.marked = IF mine THEN @ \ {r.at} ELSE @,
                          !.nready = IF gone THEN -1 ELSE @])
     /\ UNCHANGED <<nconn, owner, event, cbList>>

\* The entry leaves the list; a bad descriptor or the time-out end the call without a last scan.
Unregister(t) ==
  LET r == sel[t]
  IN /\ r.pc = "unmark" /\ r.at = r.end
     /\ \E n \in 1..Len(cbList) : cbList[n] = t /\ ListChanges(RemoveAt(cbList, n))
     /\ Sets(t, IF r.nready <= 0 THEN NoSelect
                ELSE [NoSelect EXCEPT !.pc = "scan3"])
     /\ UNCHANGED <<sock, nconn, owner>>

----------------------------------------------------------------------------
(* The owner's other calls *)

OwnerFree == owner.pc = "idle" /\ sel[Owner].pc = "idle" /\ event[Owner].pc = "idle"
GoTo(pc) == owner' = [owner EXCEPT !.pc = pc]
AllButConn == UNCHANGED <<sock, sel, cbList>>

\* lwip_accept: the connection is taken out of the mailbox and the event given.
Accept(c) ==
  /\ OwnerFree /\ nconn[1].mbox > 0
  /\ c # 1 /\ nconn[c].live /\ nconn[c].socket < 0
  /\ nconn' = [nconn EXCEPT ![1].mbox = @ - 1]
  /\ Raise(Owner, 1, "RCVMINUS")
  /\ owner' = [pc |-> "alloc", s |-> 1, c |-> c]
  /\ AllButConn

FreeSlots == {s \in Sk : sock[s].conn = 0 /\ sock[s].select_waiting = 0}

\* alloc_socket, or netconn_delete when there is none.
AllocSocket ==
  /\ owner.pc = "alloc" /\ event[Owner].pc = "idle"
  /\ IF FreeSlots = {}
       THEN /\ event["tcpip"].pc = "idle"
            /\ nconn' = [nconn EXCEPT ![owner.c] = NoSockConn]
            /\ owner' = [owner EXCEPT !.pc = "idle", !.s = 0, !.c = 0] /\ UNCHANGED sock
       ELSE LET s == CHOOSE x \in FreeSlots : \A y \in FreeSlots : x <= y
            IN /\ sock' = [sock EXCEPT ![s] = [FreeSock EXCEPT !.conn = owner.c, !.sendevent = TRUE]]
               /\ owner' = [owner EXCEPT !.pc = "adopt", !.s = s] /\ UNCHANGED nconn
  /\ UNCHANGED <<sel, event, cbList>>

\* What the connection received before it had a socket.
Adopted(k, socket) == [k EXCEPT !.rcvevent = @ + (-1 - socket)]

AdoptSocket ==
  /\ owner.pc = "adopt"
  /\ sock' = [sock EXCEPT ![owner.s] = Adopted(@, nconn[owner.c].socket)]
  /\ nconn' = [nconn EXCEPT ![owner.c].socket = owner.s]
  /\ owner' = [owner EXCEPT !.pc = "idle", !.s = 0, !.c = 0]
  /\ UNCHANGED <<sel, event, cbList>>

\* lwip_recvfrom of one pbuf, all of it or a part, first from what an earlier call left.
SockRecv(s, part) ==
  LET c == sock[s].conn
  IN /\ OwnerFree /\ s # 1 /\ Known(s)
     /\ IF sock[s].lastdata
          THEN /\ sock' = [sock EXCEPT ![s].lastdata = part] /\ UNCHANGED <<nconn, event>>
          ELSE /\ nconn[c].mbox > 0
               /\ nconn' = [nconn EXCEPT ![c].mbox = @ - 1]
               /\ Raise(Owner, c, "RCVMINUS")
               /\ sock' = [sock EXCEPT ![s].lastdata = part]
     /\ UNCHANGED <<sel, owner, cbList>>

\* lwip_close: netconn_delete, done by tcpip_thread between its callbacks, then free_socket.  A select
\* that names the socket may be waiting, but is not just beginning.
SockClose(s) ==
  /\ \A t \in Selectors : sel[t].pc \in {"scan1", "register", "mark"} => ~Asked(sel[t].set, s)
  /\ OwnerFree /\ s # 1 /\ Known(s) /\ event["tcpip"].pc = "idle"
  /\ nconn' = [nconn EXCEPT ![sock[s].conn] = NoSockConn]
  /\ owner' = [pc |-> "free", s |-> s, c |-> 0]
  /\ UNCHANGED <<sock, sel, event, cbList>>
FreeSocket ==
  /\ owner.pc = "free"
  /\ sock' = [sock EXCEPT ![owner.s].conn = 0, ![owner.s].lastdata = FALSE]
  /\ owner' = [owner EXCEPT !.pc = "idle", !.s = 0]
  /\ UNCHANGED <<nconn, sel, event, cbList>>

----------------------------------------------------------------------------
(* tcpip_thread: a connection, data, room to send or none left *)

StackFree == event["tcpip"].pc = "idle"

Connection(c) ==
  /\ StackFree /\ ~nconn[c].live /\ nconn[1].mbox < SockMboxSize
  /\ ~\E s \in Sk : sock[s].conn = c
  /\ nconn' = [nconn EXCEPT ![c].live = TRUE, ![1].mbox = @ + 1]
  /\ Raise("tcpip", 1, "RCVPLUS") /\ AllButConn /\ UNCHANGED owner
SockData(c) ==
  /\ StackFree /\ c # 1 /\ nconn[c].live /\ nconn[c].mbox < SockMboxSize
  /\ nconn' = [nconn EXCEPT ![c].mbox = @ + 1]
  /\ Raise("tcpip", c, "RCVPLUS") /\ AllButConn /\ UNCHANGED owner
SendBuffer(c, evt) ==
  /\ StackFree /\ c # 1 /\ nconn[c].live
  /\ Raise("tcpip", c, evt) /\ AllButConn /\ UNCHANGED <<nconn, owner>>

SocketsNext ==
  \/ \E t \in Callers : EventBefore(t) \/ EventUpdate(t) \/ EventLoop(t)
  \/ \E t \in Selectors :
       \/ \E want \in Interests : Select(t, want)
       \/ FirstScan(t) \/ Scan(t) \/ LastScan(t) \/ Poll(t) \/ Register(t) \/ Mark(t) \/ Unmark(t) \/ Unregister(t)
       \/ \E timeout \in BOOLEAN : Wake(t, timeout)
  \/ \E c \in NConns : Accept(c) \/ Connection(c) \/ SockData(c)
  \/ AllocSocket \/ AdoptSocket \/ FreeSocket
  \/ \E s \in Sk : SockClose(s) \/ \E part \in BOOLEAN : SockRecv(s, part)
  \/ \E c \in NConns, evt \in {"SENDPLUS", "SENDMINUS"} : SendBuffer(c, evt)

SocketsSpec == SocketsInit /\ [][SocketsNext]_sockVars

----------------------------------------------------------------------------
(* Properties *)

\* Type invariant: the counters stay within what the threads and the mailboxes allow.
SocketsTypeOK ==
  /\ \A s \in Sk : sock[s].conn \in NConns \cup {0} /\ sock[s].select_waiting \in 0..Cardinality(Selectors)
                   /\ sock[s].rcvevent \in -1..(SockMboxSize + 1)
  /\ \A c \in NConns : nconn[c].mbox \in 0..SockMboxSize /\ nconn[c].socket \in -(SockMboxSize + 1)..NUM_SOCKETS
  /\ \A n, m \in 1..Len(cbList) : cbList[n] = cbList[m] => n = m

Counted(c) == IF nconn[c].socket < 0 THEN -1 - nconn[c].socket ELSE sock[nconn[c].socket].rcvevent
UnderWay(c, evt) == Cardinality({t \in Callers : event[t].pc = "update" /\ event[t].c = c /\ event[t].evt = evt})

\* The count select looks at is that of the mailbox, but for the callbacks under way: also for what
\* arrived before accept had made a socket, and while the thread fetches as tcpip_thread posts.
RcvEventExact ==
  \A c \in NConns : nconn[c].live =>
    Counted(c) = nconn[c].mbox - UnderWay(c, "RCVPLUS") + UnderWay(c, "RCVMINUS")

\* A thread that sleeps in select does not miss what it waits for: when one of its sockets is ready
\* its semaphore is signalled, or a callback for the socket is still going through the list.
NoLostWakeup ==
  \A t \in Selectors, s \in Sk :
    sel[t].pc = "wait" /\ sock[s].conn # 0 /\ Wakes(sock[s], s, sel[t].set)
      => \/ sel[t].sem
         \/ \E u \in Callers : event[u].pc = "loop" /\ nconn[event[u].c].socket = s

\* select_waiting is exact: "sock->select_waiting > 0" (the assertion before it is counted down)
\* holds, and an event is not kept from a select that waits.
SelectWaitingExact ==
  \A s \in Sk : sock[s].conn # 0 =>
    sock[s].select_waiting = Cardinality({t \in Selectors : s \in sel[t].marked})

\* event_callback goes on from an entry only while that is in the list: the structures are on the
\* stacks of the threads that select.
EntryInList ==
  \A t \in Callers :
    event[t].pc = "loop" /\ ~event[t].stale => event[t].cb <= Len(cbList)

\* select of sockets.c as a whole: exact counts of events and of waits, no event missed, and no step
\* through an entry that has left the list.
SelectSound == SocketsTypeOK /\ RcvEventExact /\ NoLostWakeup /\ SelectWaitingExact /\ EntryInList
============================================================================
