-------------------------------- MODULE TCP --------------------------------
(***************************************************************************)
(* The menu, src/lwip/contrib/apps/TCP/TCP.c: one thread accepts one TCP   *)
(* client at a time and obeys the first byte of every fragment it sends:   *)
(*   x  back to the main menu      1  mute / unmute                        *)
(*   2  choose the UDP port        3  show the UDP statistics              *)
(* The static locals current_menu and MusicState outlive a connection.     *)
(*                                                                         *)
(* The text of the menus and the results of netconn_write, which the code  *)
(* ignores, are left out.                                                  *)
(***************************************************************************)
EXTENDS UDP, FiniteSets

CONSTANTS
  Fragments,      \* what a client sends in one fragment (see Fragment)
  MaxFragments,   \* bound: fragments in one netbuf
  MaxSegments,    \* bound: segments sent in a behaviour
  StatusSender    \* TRUE: somebody sends to UDP_status_values when asked

\* cmd is the first byte; ports are the numbers the code may compute when the
\* fragment is the answer to the port selector.  An answer with fewer than
\* five digits leaves bytes of read_port uninitialized: any number.
Fragment == [cmd : {"x", "1", "2", "3", "other"}, ports : SUBSET PortValues]

ASSUME TCPAssumption ==
  /\ Fragments \subseteq Fragment
  /\ MaxFragments \in Nat /\ MaxSegments \in Nat
  /\ StatusSender \in BOOLEAN

VARIABLES
  tpc,                \* where the thread is
  current_menu,       \* "main_menu", "port_selector", "comm_status"
  MusicState,         \* 0 or 1
  frags,              \* the fragments of the netbuf from the current one on
  transporter,        \* port_transporter: a cell, or NoCell
  ON_UDP_MENU,        \* the bit of the event group
  UDP_status_values,  \* the queue, of length 1, as a number of entries
  client,             \* "away", "connected", "closed" (the client has left)
  inbox,              \* segments received and not read yet
  segments            \* number of segments sent so far

tcpLocals == <<tpc, current_menu, MusicState, frags, transporter>>
clientVars == <<client, inbox, segments>>
tcpVars == <<tcpLocals, ON_UDP_MENU, UDP_status_values, clientVars>>

Netbufs == UNION {[1..n -> Fragments] : n \in 1..MaxFragments}

TcpInit ==
  /\ tpc = "start"
  /\ current_menu = "main_menu"
  /\ MusicState = 1
  /\ frags = <<>>
  /\ transporter = NoCell
  /\ ON_UDP_MENU = FALSE
  /\ UDP_status_values = 0
  /\ client = "away"
  /\ inbox = <<>>
  /\ segments = 0

TcpTypeOK ==
  /\ tpc \in {"start", "accept", "recv", "dispatch", "clear", "reply", "send", "status",
              "fault", "returned"}
  /\ current_menu \in {"main_menu", "port_selector", "comm_status"}
  /\ MusicState \in {0, 1}
  /\ frags \in Seq(Fragments)
  /\ transporter \in Cells \cup {NoCell}
  /\ ON_UDP_MENU \in BOOLEAN
  /\ UDP_status_values \in 0..1
  /\ client \in {"away", "connected", "closed"}
  /\ inbox \in Seq(Netbufs)
  /\ segments \in Nat

\* What the menu thread never touches.
udpPrivate == <<udpLocals, mbox, sent>>

-----------------------------------------------------------------------------
(* The client and the sender of statistics.                                *)

Connect ==
  /\ client = "away" /\ client' = "connected"
  /\ UNCHANGED <<inbox, segments>>

SendSegment ==
  /\ client = "connected" /\ segments < MaxSegments
  /\ \E s \in Netbufs : inbox' = Append(inbox, s)
  /\ segments' = segments + 1
  /\ UNCHANGED client

Leave ==
  /\ client = "connected" /\ client' = "closed"
  /\ UNCHANGED <<inbox, segments>>

Client ==
  /\ Connect \/ SendSegment \/ Leave
  /\ UNCHANGED <<tcpLocals, ON_UDP_MENU, UDP_status_values, udpVars, audioVars>>

\* The comments call it the queue sender function; it is not part of src/.
SendStatus ==
  /\ StatusSender /\ ON_UDP_MENU /\ UDP_status_values = 0
  /\ UDP_status_values' = 1
  /\ UNCHANGED <<tcpLocals, ON_UDP_MENU, clientVars, udpVars, audioVars>>

-----------------------------------------------------------------------------
(* The thread.                                                             *)

\* The main menu is written once the event bit is cleared.
tcp_printMenu == ON_UDP_MENU' = FALSE

\* Without a connection (netconn_new failed) the thread function returns.
Listen ==
  /\ tpc = "start"
  /\ tpc' \in {"accept", "returned"}
  /\ UNCHANGED <<current_menu, MusicState, frags, transporter, ON_UDP_MENU, UDP_status_values,
                 clientVars, udpVars, audioVars>>

Accept ==
  /\ tpc = "accept" /\ client # "away"
  /\ tpc' = "recv"
  /\ tcp_printMenu
  /\ UNCHANGED <<current_menu, MusicState, frags, transporter, UDP_status_values,
                 clientVars, udpVars, audioVars>>

RecvSegment ==
  /\ tpc = "recv" /\ inbox # <<>>
  /\ frags' = Head(inbox)
  /\ inbox' = Tail(inbox)
  /\ tpc' = "dispatch"
  /\ UNCHANGED <<current_menu, MusicState, transporter, ON_UDP_MENU, UDP_status_values,
                 client, segments, udpVars, audioVars>>

\* netconn_recv fails: the connection is closed and deleted.
RecvEof ==
  /\ tpc = "recv" /\ inbox = <<>> /\ client = "closed"
  /\ tpc' = "accept"
  /\ client' = "away"
  /\ UNCHANGED <<current_menu, MusicState, frags, transporter, ON_UDP_MENU, UDP_status_values,
                 inbox, segments, udpVars, audioVars>>

\* while (netbuf_next(buf) >= 0): on to the next fragment, or to the next
\* netbuf.
NextFragment ==
  /\ frags' = Tail(frags)
  /\ tpc' = IF Len(frags) > 1 THEN "dispatch" ELSE "recv"

Cmd(c) == tpc = "dispatch" /\ Head(frags).cmd = c

BackToMenu ==
  /\ Cmd("x")
  /\ current_menu' = "main_menu"
  /\ tcp_printMenu
  /\ NextFragment
  /\ UNCHANGED <<MusicState, transporter, UDP_status_values, clientVars, udpVars, audioVars>>

Unmute ==
  /\ Cmd("1") /\ MusicState = 1
  /\ AudioOn
  /\ MusicState' = 0
  /\ NextFragment
  /\ UNCHANGED <<current_menu, transporter, ON_UDP_MENU, UDP_status_values, clientVars, udpVars>>

MuteStop ==
  /\ Cmd("1") /\ MusicState = 0
  /\ AudioOffStop
  /\ tpc' = "clear"
  /\ UNCHANGED <<current_menu, MusicState, frags, transporter, ON_UDP_MENU, UDP_status_values,
                 clientVars, udpVars>>

MuteClear ==
  /\ tpc = "clear"
  /\ AudioOffClear
  /\ MusicState' = 1
  /\ NextFragment
  /\ UNCHANGED <<current_menu, transporter, ON_UDP_MENU, UDP_status_values, clientVars, udpVars>>

\* The netbuf of the command is deleted; what the client sends next is the
\* answer.
SelectorMenu ==
  /\ Cmd("2") /\ current_menu \in {"main_menu", "port_selector"}
  /\ current_menu' = "port_selector"
  /\ frags' = <<>>
  /\ tpc' = "reply"
  /\ UNCHANGED <<MusicState, transporter, ON_UDP_MENU, UDP_status_values,
                 clientVars, udpVars, audioVars>>

\* new_port is stored in a fresh cell; with none left the store goes through
\* the null pointer.
AllocPort(p) ==
  IF \A c \in Cells : heap[c] # Free
  THEN tpc' = "fault" /\ UNCHANGED <<heap, transporter>>
  ELSE \E c \in Cells :
         /\ heap[c] = Free
         /\ heap' = [heap EXCEPT ![c] = p]
         /\ transporter' = c
         /\ tpc' = "send"

\* Seeded fault: the selector stays the current menu.
EndSelection_Stays(fs) ==
  /\ current_menu' = current_menu
  /\ tcp_printMenu
  /\ frags' = fs
  /\ tpc' = IF fs # <<>> THEN "dispatch" ELSE "recv"

\* The end of the selection: the main menu is printed, and the loop goes on
\* with the fragments fs that follow in the netbuf of the answer.
EndSelection(fs) ==
  /\ current_menu' = "main_menu"
  /\ tcp_printMenu
  /\ frags' = fs
  /\ tpc' = IF fs # <<>> THEN "dispatch" ELSE "recv"

ReplyPort ==
  /\ tpc = "reply" /\ inbox # <<>> /\ Head(Head(inbox)).cmd # "x"
  /\ inbox' = Tail(inbox)
  /\ frags' = Head(inbox)
  /\ \E p \in Head(Head(inbox)).ports : AllocPort(p)
  /\ UNCHANGED <<current_menu, MusicState, ON_UDP_MENU, UDP_status_values,
                 client, segments, udpPrivate, port_selection, audioVars>>

ReplyCancel ==
  /\ tpc = "reply" /\ inbox # <<>> /\ Head(Head(inbox)).cmd = "x"
  /\ inbox' = Tail(inbox)
  /\ EndSelection(Tail(Head(inbox)))
  /\ UNCHANGED <<MusicState, transporter, UDP_status_values,
                 client, segments, udpVars, audioVars>>

\* The client has gone: buf is null and netbuf_copy reads through it.  The
\* read faults, or read_port keeps whatever it held.
ReplyEof ==
  /\ tpc = "reply" /\ inbox = <<>> /\ client = "closed"
  /\ frags' = <<>>
  /\ \/ tpc' = "fault" /\ UNCHANGED <<heap, transporter, current_menu, ON_UDP_MENU>>
     \/ \E p \in PortValues : AllocPort(p) /\ UNCHANGED <<current_menu, ON_UDP_MENU>>
     \/ /\ current_menu' = "main_menu" /\ tcp_printMenu /\ tpc' = "recv"
        /\ UNCHANGED <<heap, transporter>>
  /\ UNCHANGED <<MusicState, UDP_status_values, clientVars, udpPrivate, port_selection, audioVars>>

\* xQueueSend waits at most 100 ticks; its result is ignored.
AfterReply == IF frags = <<>> THEN <<>> ELSE Tail(frags)

\* Seeded fault: the sender frees what the receiver is about to read.
SendPort_Frees ==
  /\ tpc = "send" /\ port_selection = <<>>
  /\ port_selection' = <<transporter>>
  /\ heap' = [heap EXCEPT ![transporter] = Free]
  /\ transporter' = NoCell
  /\ EndSelection(AfterReply)
  /\ UNCHANGED <<MusicState, UDP_status_values, clientVars, udpPrivate, audioVars>>

SendPort ==
  /\ tpc = "send" /\ port_selection = <<>>
  /\ port_selection' = <<transporter>>
  /\ transporter' = NoCell
  /\ EndSelection(AfterReply)
  /\ UNCHANGED <<MusicState, UDP_status_values, clientVars, udpPrivate, heap, audioVars>>

SendPortTimeout ==
  /\ tpc = "send" /\ port_selection # <<>>
  /\ transporter' = NoCell
  /\ EndSelection(AfterReply)
  /\ UNCHANGED <<MusicState, UDP_status_values, clientVars, udpVars, audioVars>>

\* Seeded fault: nobody is told that statistics are wanted.
StatusMenu_NoEvent ==
  /\ Cmd("3") /\ current_menu = "main_menu"
  /\ current_menu' = "comm_status"
  /\ tpc' = "status"
  /\ UNCHANGED <<MusicState, frags, transporter, ON_UDP_MENU, UDP_status_values,
                 clientVars, udpVars, audioVars>>

StatusMenu ==
  /\ Cmd("3") /\ current_menu = "main_menu"
  /\ current_menu' = "comm_status"
  /\ ON_UDP_MENU' = TRUE
  /\ tpc' = "status"
  /\ UNCHANGED <<MusicState, frags, transporter, UDP_status_values, clientVars, udpVars, audioVars>>

\* xQueueReceive(.., portMAX_DELAY): only a sender ends the wait.
StatusPrint ==
  /\ tpc = "status" /\ UDP_status_values = 1
  /\ UDP_status_values' = 0
  /\ NextFragment
  /\ UNCHANGED <<current_menu, MusicState, transporter, ON_UDP_MENU, clientVars, udpVars, audioVars>>

\* A byte that is no command, or a command the present menu does not take.
Ignore ==
  /\ \/ Cmd("other")
     \/ Cmd("2") /\ current_menu = "comm_status"
     \/ Cmd("3") /\ current_menu # "main_menu"
  /\ NextFragment
  /\ UNCHANGED <<current_menu, MusicState, transporter, ON_UDP_MENU, UDP_status_values,
                 clientVars, udpVars, audioVars>>

tcp_thread ==
  \/ Listen \/ Accept \/ RecvSegment \/ RecvEof \/ BackToMenu \/ Unmute \/ MuteStop \/ MuteClear
  \/ SelectorMenu \/ ReplyPort \/ ReplyCancel \/ ReplyEof \/ SendPort \/ SendPortTimeout
  \/ StatusMenu \/ StatusPrint \/ Ignore
=============================================================================
