--------------------------- MODULE SpeakersProofs ---------------------------
(***************************************************************************)
(* Proofs about the running speakers, for every number of ports, cells,    *)
(* fragments and segments and every size of the buffers.                   *)
(***************************************************************************)
EXTENDS Speakers, UDPProofs

-----------------------------------------------------------------------------
(* The inductive invariant.  PortCellHandover is followed cell by cell:    *)
(* CellInv has the queue and the UDP thread's hand, TransitInv the cell    *)
(* the menu is about to send.                                              *)

TransitInv ==
  /\ transporter # NoCell <=> tpc = "send"
  /\ transporter # NoCell =>
       /\ heap[transporter] # Free
       /\ port_selection # <<>> => Head(port_selection) # transporter
       /\ upc = "check" => received_port # transporter

\* The menu thread has a fragment at hand wherever it looks at one.
FragsInv == tpc \in {"dispatch", "clear", "status"} => frags # <<>>

MenuInv == tpc \notin {"reply", "send", "fault"} => current_menu # "port_selector"

SoundInv == StoppedIsSilent /\ UnmutedRuns

Inv == TypeInv /\ TcpTypeOK /\ TransitInv /\ FragsInv /\ MenuInv /\ SoundInv

-----------------------------------------------------------------------------
(* Lemmas about what a client sends.                                       *)

\* A netbuf has at least one fragment.
LEMMA NetbufIsSequence ==
  ASSUME NEW s \in Netbufs
  PROVE  s \in Seq(Fragments) /\ s # <<>>
<1>1. PICK m \in 1..MaxFragments : s \in [1..m -> Fragments]
  BY DEF Netbufs
<1>2. m \in Nat /\ m > 0
  BY <1>1, TCPAssumption
<1>3. s \in Seq(Fragments)
  BY <1>1, <1>2
<1>4. Len(s) = m
  BY <1>1, <1>2, <1>3
<1>. QED
  BY <1>2, <1>3, <1>4

\* The numbers an answer to the selector can mean are port numbers.
LEMMA AnswerIsPort ==
  ASSUME NEW s \in Netbufs
  PROVE  Head(s).ports \subseteq PortValues
<1>1. Head(s) \in Fragments
  BY NetbufIsSequence
<1>. QED
  BY <1>1, TCPAssumption DEF Fragment

-----------------------------------------------------------------------------
(* The steps.                                                              *)

\* Nothing is allocated, sent or played when the speakers start.
LEMMA InitInv == Init => Inv
<1>. SUFFICES ASSUME Init
              PROVE  Inv
  OBVIOUS
<1>1. TypeInv
  BY InitTypeInv DEF Init
<1>2. TcpTypeOK
  <2>1. frags \in Seq(Fragments) /\ inbox \in Seq(Netbufs)
    BY DEF Init, TcpInit
  <2>2. MusicState \in {0, 1} /\ UDP_status_values \in 0..1 /\ segments \in Nat
    BY DEF Init, TcpInit
  <2>3. ON_UDP_MENU \in BOOLEAN /\ transporter \in Cells \cup {NoCell}
    BY DEF Init, TcpInit
  <2>. QED
    BY <2>1, <2>2, <2>3 DEF Init, TcpInit, TcpTypeOK
<1>3. TransitInv /\ FragsInv /\ MenuInv
  BY DEF Init, TcpInit, TransitInv, FragsInv, MenuInv
<1>4. SoundInv
  BY DEF Init, TcpInit, AudioInit, SoundInv, StoppedIsSilent, UnmutedRuns
<1>. QED
  BY <1>1, <1>2, <1>3, <1>4 DEF Inv

\* What a step that leaves the menu alone has to keep.
LEMMA MenuUnchanged ==
  ASSUME Inv, UNCHANGED tcpVars
  PROVE  TcpTypeOK' /\ FragsInv' /\ MenuInv'
<1>1. UNCHANGED <<tpc, current_menu, MusicState, frags, transporter, ON_UDP_MENU,
                  UDP_status_values, client, inbox, segments>>
  BY DEF tcpVars, tcpLocals, clientVars
<1>. QED
  BY <1>1 DEF Inv, TcpTypeOK, FragsInv, MenuInv

\* The UDP thread takes a cell from the queue and frees what it holds: neither
\* is the cell the menu is about to send.
LEMMA UdpInv == Inv /\ Udp => Inv'
<1>. SUFFICES ASSUME Inv, Udp
              PROVE  Inv'
  OBVIOUS
<1>1. TypeInv'
  BY ThreadTypeInv DEF Inv, Udp
<1>2. TcpTypeOK' /\ FragsInv' /\ MenuInv' /\ UNCHANGED <<tpc, transporter, MusicState>>
  BY MenuUnchanged DEF Udp, tcpVars, tcpLocals
<1>3. TransitInv'
  <2>1. CASE CheckPort
    <3>1. PICK p \in IF received_port = NoCell THEN NullWords ELSE {heap[received_port]} :
            heap' = IF p # 0 /\ received_port # NoCell
                    THEN [heap EXCEPT ![received_port] = Free] ELSE heap
      BY <2>1 DEF CheckPort
    <3>2. upc = "check" /\ upc' = "bind" /\ port_selection' = port_selection
      BY <2>1 DEF CheckPort
    <3>3. heap \in [Cells -> PortValues \cup {Free}] /\ transporter \in Cells \cup {NoCell}
      BY DEF Inv, TypeInv, UdpTypeOK, TcpTypeOK
    <3>4. transporter # NoCell => heap'[transporter] = heap[transporter]
      BY <3>1, <3>2, <3>3 DEF Inv, TransitInv
    <3>. QED
      BY <1>2, <3>2, <3>4 DEF Inv, TransitInv
  <2>2. CASE PollSelection
    BY <1>2, <2>2 DEF PollSelection, Inv, TransitInv, TypeInv, UdpTypeOK, CellInv
  <2>3. CASE Bind \/ ConfigAudio \/ Recv \/ CopySample \/ CopyDone \/ Flip \/ ResetIndex
    <3>1. UNCHANGED <<heap, port_selection>> /\ upc' # "check"
      BY <2>3 DEF Bind, ConfigAudio, Recv, CopySample, CopyDone, Flip, ResetIndex
    <3>. QED
      BY <1>2, <3>1 DEF Inv, TransitInv
  <2>. QED
    BY <2>1, <2>2, <2>3 DEF Udp, UDP_thread
<1>4. dac' = dac /\ (pit0' = pit0 \/ pit0')
  BY DEF Udp, UDP_thread, CheckPort, Bind, ConfigAudio, AudioConfig, PIT_ConfigAndStart,
         Recv, CopySample, CopyDone,
         Flip, ResetIndex, PollSelection, audioVars
<1>5. SoundInv'
  BY <1>2, <1>4 DEF Inv, SoundInv, StoppedIsSilent, UnmutedRuns
<1>. QED
  BY <1>1, <1>2, <1>3, <1>5 DEF Inv

\* The interrupts change the DAC only while channel 0 runs.
LEMMA InterruptInv == Inv /\ Interrupt => Inv'
<1>. SUFFICES ASSUME Inv, Interrupt
              PROVE  Inv'
  OBVIOUS
<1>1. TypeInv'
  BY InterruptTypeInv DEF Inv, Interrupt
<1>2. TcpTypeOK' /\ FragsInv' /\ MenuInv' /\ UNCHANGED <<tpc, transporter, MusicState>>
  BY MenuUnchanged DEF Interrupt, tcpVars, tcpLocals
<1>3. TransitInv'
  BY <1>2 DEF Inv, TransitInv, Interrupt, udpVars, udpLocals
<1>4. pit0' = pit0 /\ (pit0 \/ dac' = dac)
  BY DEF Interrupt, PIT0_IRQHandler, PIT1_Default
<1>5. SoundInv'
  BY <1>2, <1>4 DEF Inv, SoundInv, StoppedIsSilent, UnmutedRuns
<1>. QED
  BY <1>1, <1>2, <1>3, <1>5 DEF Inv

\* The network: datagrams reach the mailbox, segments the inbox, statistics
\* their queue.
LEMMA NetworkInv == Inv /\ Network => Inv'
<1>. SUFFICES ASSUME Inv, Network
              PROVE  Inv'
  OBVIOUS
<1>1. CASE Datagram /\ UNCHANGED tcpVars
  <2>1. sent \in 0..MaxFrames /\ MaxFrames \in Nat
    BY UDPAssumption DEF Inv, TypeInv, UdpTypeOK
  <2>2. sent < MaxFrames /\ sent' = sent + 1 /\ Deliver(sent + 1)
    BY <1>1 DEF Datagram
  <2>3. sent + 1 \in 0..MaxFrames
    BY <2>1, <2>2
  <2>4. TypeInv'
    BY <2>2, <2>3, DeliverTypeInv DEF Inv
  <2>5. TcpTypeOK' /\ FragsInv' /\ MenuInv' /\ UNCHANGED <<tpc, transporter, MusicState>>
    BY <1>1, MenuUnchanged DEF tcpVars, tcpLocals
  <2>6. TransitInv'
    BY <2>2, <2>5 DEF Inv, TransitInv, Deliver, udpLocals
  <2>7. SoundInv'
    BY <2>2, <2>5 DEF Inv, SoundInv, StoppedIsSilent, UnmutedRuns, Deliver, audioVars
  <2>. QED
    BY <2>4, <2>5, <2>6, <2>7 DEF Inv
<1>2. CASE Client \/ SendStatus
  <2>1. UNCHANGED <<udpVars, audioVars, tcpLocals>>
    BY <1>2 DEF Client, SendStatus
  <2>2. TypeInv' /\ TransitInv' /\ FragsInv' /\ MenuInv' /\ SoundInv'
    BY <2>1 DEF Inv, TypeInv, AudioTypeOK, UdpTypeOK, CellInv, TransitInv, FragsInv, MenuInv,
           SoundInv, StoppedIsSilent, UnmutedRuns, udpVars, udpLocals, audioVars, tcpLocals
  <2>3. TcpTypeOK'
    BY <1>2, <2>1 DEF Inv, TcpTypeOK, Client, Connect, SendSegment, Leave, SendStatus, tcpLocals,
           clientVars
  <2>. QED
    BY <2>2, <2>3 DEF Inv
<1>. QED
  BY <1>1, <1>2 DEF Network

\* The menu: what it keeps of its own state.
LEMMA TcpMenuInv == Inv /\ tcp_thread => TcpTypeOK' /\ FragsInv' /\ MenuInv'
<1>. SUFFICES ASSUME Inv, tcp_thread
              PROVE  TcpTypeOK' /\ FragsInv' /\ MenuInv'
  OBVIOUS
<1>. USE DEF TcpTypeOK, FragsInv, MenuInv
<1>0. TcpTypeOK /\ FragsInv /\ MenuInv
  BY DEF Inv
<1>1. ASSUME NextFragment, frags # <<>>
      PROVE  /\ frags' \in Seq(Fragments) /\ tpc' \in {"dispatch", "recv"}
             /\ tpc' = "dispatch" => frags' # <<>>
  BY <1>0, <1>1 DEF NextFragment
<1>2. ASSUME NEW fs \in Seq(Fragments), EndSelection(fs)
      PROVE  /\ frags' \in Seq(Fragments) /\ tpc' \in {"dispatch", "recv"}
             /\ tpc' = "dispatch" => frags' # <<>>
             /\ current_menu' = "main_menu" /\ ON_UDP_MENU' = FALSE
  BY <1>2 DEF EndSelection, tcp_printMenu
<1>3. inbox # <<>> => /\ Head(inbox) \in Netbufs /\ Head(inbox) \in Seq(Fragments)
                      /\ Head(inbox) # <<>> /\ Tail(inbox) \in Seq(Netbufs)
  BY <1>0, NetbufIsSequence
<1>4. ASSUME NEW p, AllocPort(p)
      PROVE  tpc' \in {"fault", "send"} /\ transporter' \in Cells \cup {NoCell}
  BY <1>0, <1>4 DEF AllocPort
<1>5. CASE Listen \/ Accept
  BY <1>0, <1>5 DEF Listen, Accept, clientVars, tcp_printMenu
<1>6. CASE RecvSegment
  BY <1>0, <1>3, <1>6 DEF RecvSegment
<1>7. CASE RecvEof
  BY <1>0, <1>7 DEF RecvEof
<1>8. CASE BackToMenu \/ Unmute \/ MuteClear \/ StatusPrint \/ Ignore
  <2>1. frags # <<>> /\ NextFragment
    BY <1>0, <1>8 DEF BackToMenu, Unmute, MuteClear, StatusPrint, Ignore, Cmd
  <2>2. /\ ON_UDP_MENU' \in BOOLEAN /\ MusicState' \in {0, 1} /\ UDP_status_values' \in 0..1
        /\ current_menu' \in {"main_menu", "port_selector", "comm_status"}
        /\ current_menu' # "port_selector"
        /\ UNCHANGED <<transporter, clientVars>>
    <3>1. CASE BackToMenu
      BY <1>0, <3>1 DEF BackToMenu, tcp_printMenu
    <3>2. CASE Unmute \/ MuteClear
      BY <1>0, <3>2 DEF Unmute, MuteClear, Cmd
    <3>3. CASE StatusPrint \/ Ignore
      BY <1>0, <3>3 DEF StatusPrint, Ignore, Cmd
    <3>. QED
      BY <1>8, <3>1, <3>2, <3>3
  <2>. QED
    BY <1>0, <1>1, <2>1, <2>2 DEF clientVars
<1>9. CASE MuteStop
  BY <1>0, <1>9 DEF MuteStop, Cmd, clientVars
<1>10. CASE SelectorMenu
  BY <1>0, <1>10 DEF SelectorMenu, clientVars
<1>11. CASE ReplyPort
  <2>1. PICK p \in Head(Head(inbox)).ports : AllocPort(p)
    BY <1>11 DEF ReplyPort
  <2>. QED
    BY <1>0, <1>3, <1>4, <1>11, <2>1 DEF ReplyPort
<1>12. CASE ReplyCancel
  <2>1. inbox # <<>> /\ inbox' = Tail(inbox) /\ EndSelection(Tail(Head(inbox)))
    BY <1>12 DEF ReplyCancel
  <2>2. Tail(Head(inbox)) \in Seq(Fragments)
    BY <1>3, <2>1
  <2>. QED
    BY <1>0, <1>2, <1>3, <1>12, <2>1, <2>2 DEF ReplyCancel
<1>13. CASE ReplyEof
  <2>1. frags' = <<>> /\ UNCHANGED <<MusicState, UDP_status_values, clientVars>>
    BY <1>13 DEF ReplyEof
  <2>2. /\ tpc' \in {"fault", "send", "recv"} /\ transporter' \in Cells \cup {NoCell}
        /\ ON_UDP_MENU' \in BOOLEAN
        /\ current_menu' \in {"main_menu", "port_selector", "comm_status"}
        /\ tpc' = "recv" => current_menu' = "main_menu"
    BY <1>0, <1>4, <1>13 DEF ReplyEof, tcp_printMenu
  <2>. QED
    BY <1>0, <2>1, <2>2 DEF clientVars
<1>14. CASE SendPort \/ SendPortTimeout
  <2>1. AfterReply \in Seq(Fragments)
    BY <1>0 DEF AfterReply
  <2>. QED
    BY <1>0, <1>2, <1>14, <2>1 DEF SendPort, SendPortTimeout, clientVars
<1>15. CASE StatusMenu
  BY <1>0, <1>15 DEF StatusMenu, Cmd, clientVars
<1>. QED
  BY <1>5, <1>6, <1>7, <1>8, <1>9, <1>10, <1>11, <1>12, <1>13, <1>14, <1>15 DEF tcp_thread

\* A cell the menu fills was free, so it is neither in the queue nor in the
\* hand of the UDP thread.
LEMMA AllocPortInv ==
  ASSUME Inv, tpc # "send", NEW p \in PortValues, AllocPort(p),
         UNCHANGED <<udpPrivate, port_selection, audioVars>>
  PROVE  TypeInv' /\ TransitInv'
<1>. USE DEF udpPrivate, udpLocals, audioVars
<1>0. TypeInv /\ TransitInv /\ transporter = NoCell
  BY DEF Inv, TransitInv
<1>1. CASE \A c \in Cells : heap[c] # Free
  <2>1. tpc' = "fault" /\ UNCHANGED <<heap, transporter>>
    BY <1>1 DEF AllocPort
  <2>. QED
    BY <1>0, <2>1 DEF TypeInv, AudioTypeOK, UdpTypeOK, CellInv, TransitInv
<1>2. CASE ~(\A c \in Cells : heap[c] # Free)
  <2>1. PICK c \in Cells : /\ heap[c] = Free
                           /\ heap' = [heap EXCEPT ![c] = p]
                           /\ transporter' = c
                           /\ tpc' = "send"
    BY <1>2 DEF AllocPort
  <2>2. p # Free /\ c # NoCell
    BY <2>1, PortIsNotFree, UDPAssumption
  <2>3. AudioTypeOK' /\ UdpTypeOK'
    BY <1>0, <2>1 DEF TypeInv, AudioTypeOK, UdpTypeOK
  <2>4. heap \in [Cells -> PortValues \cup {Free}] /\ port_selection \in Seq(Cells)
        /\ received_port \in Cells \cup {NoCell} /\ CellInv
    BY <1>0 DEF TypeInv, UdpTypeOK
  <2>5. CellInv'
    BY <2>1, <2>2, <2>4 DEF CellInv
  <2>6. TransitInv'
    BY <2>1, <2>2, <2>4 DEF CellInv, TransitInv
  <2>. QED
    BY <2>3, <2>5, <2>6 DEF TypeInv
<1>. QED
  BY <1>1, <1>2

\* The menu: the cells it allocates and sends.
LEMMA TcpCellInv == Inv /\ tcp_thread => TypeInv' /\ TransitInv'
<1>. SUFFICES ASSUME Inv, tcp_thread
              PROVE  TypeInv' /\ TransitInv'
  OBVIOUS
<1>0. AudioTypeOK'
  BY DEF Inv, TypeInv, AudioTypeOK, tcp_thread, Listen, Accept, RecvSegment, RecvEof, BackToMenu,
         Unmute, AudioOn, MuteStop, AudioOffStop, MuteClear, AudioOffClear, SelectorMenu, ReplyPort,
         ReplyCancel, ReplyEof, SendPort, SendPortTimeout, StatusMenu, StatusPrint, Ignore, audioVars
<1>1. CASE ReplyPort
  <2>1. PICK p \in Head(Head(inbox)).ports : AllocPort(p)
    BY <1>1 DEF ReplyPort
  <2>2. Head(inbox) \in Netbufs
    BY <1>1 DEF ReplyPort, Inv, TcpTypeOK
  <2>3. p \in PortValues
    BY <2>1, <2>2, AnswerIsPort
  <2>4. tpc # "send" /\ UNCHANGED <<udpPrivate, port_selection, audioVars>>
    BY <1>1 DEF ReplyPort
  <2>. QED
    BY <2>1, <2>3, <2>4, AllocPortInv
<1>2. ASSUME NEW p \in PortValues, ReplyEof, AllocPort(p)
      PROVE  TypeInv' /\ TransitInv'
  <2>1. tpc # "send" /\ UNCHANGED <<udpPrivate, port_selection, audioVars>>
    BY <1>2 DEF ReplyEof
  <2>. QED
    BY <1>2, <2>1, AllocPortInv
<1>3. CASE SendPort
  <2>1. /\ port_selection = <<>> /\ port_selection' = <<transporter>> /\ transporter' = NoCell
        /\ tpc = "send" /\ tpc' # "send" /\ UNCHANGED <<udpPrivate, heap>>
    BY <1>3 DEF SendPort, EndSelection
  <2>2. transporter \in Cells /\ heap[transporter] # Free
        /\ (upc = "check" => received_port # transporter)
    BY <2>1 DEF Inv, TcpTypeOK, TransitInv
  <2>3. UdpTypeOK'
    BY <2>1, <2>2 DEF Inv, TypeInv, UdpTypeOK, udpPrivate, udpLocals
  <2>4. CellInv' /\ TransitInv'
    BY <2>1, <2>2 DEF Inv, TypeInv, CellInv, TransitInv, udpPrivate, udpLocals
  <2>. QED
    BY <1>0, <2>3, <2>4 DEF TypeInv
<1>4. CASE SendPortTimeout
  <2>1. transporter' = NoCell /\ tpc' # "send" /\ UNCHANGED udpVars
    BY <1>4 DEF SendPortTimeout, EndSelection
  <2>. QED
    BY <1>0, <2>1 DEF Inv, TypeInv, UdpTypeOK, CellInv, TransitInv, udpVars, udpLocals
<1>5. CASE tpc # "send" /\ tpc' # "send" /\ UNCHANGED <<udpVars, transporter>>
  BY <1>0, <1>5 DEF Inv, TypeInv, UdpTypeOK, CellInv, TransitInv, udpVars, udpLocals
<1>6. CASE ReplyEof
  <2>1. CASE \E p \in PortValues : AllocPort(p)
    BY <1>2, <1>6, <2>1
  <2>2. CASE tpc' \in {"fault", "recv"} /\ UNCHANGED <<heap, transporter>>
    <3>1. tpc # "send" /\ tpc' # "send" /\ UNCHANGED <<udpVars, transporter>>
      BY <1>6, <2>2 DEF ReplyEof, udpPrivate, udpVars
    <3>. QED
      BY <1>5, <3>1
  <2>. QED
    BY <1>6, <2>1, <2>2 DEF ReplyEof
<1>7. CASE \/ Listen \/ Accept \/ RecvSegment \/ RecvEof \/ BackToMenu \/ Unmute \/ MuteStop
           \/ MuteClear \/ SelectorMenu \/ ReplyCancel \/ StatusMenu \/ StatusPrint \/ Ignore
  <2>1. tpc # "send" /\ tpc' # "send" /\ UNCHANGED <<udpVars, transporter>>
    BY <1>7 DEF Listen, Accept, RecvSegment, RecvEof, BackToMenu, Unmute, MuteStop, MuteClear,
           SelectorMenu, ReplyCancel, StatusMenu, StatusPrint, Ignore, Cmd, NextFragment, EndSelection
  <2>. QED
    BY <1>5, <2>1
<1>. QED
  BY <1>1, <1>3, <1>4, <1>6, <1>7 DEF tcp_thread

\* The menu: what it does to the sound.
LEMMA TcpSoundInv == Inv /\ tcp_thread => SoundInv'
<1>. SUFFICES ASSUME Inv, tcp_thread
              PROVE  SoundInv'
  OBVIOUS
<1>. USE DEF SoundInv, StoppedIsSilent, UnmutedRuns
<1>0. SoundInv
  BY DEF Inv
<1>1. CASE Unmute
  BY <1>1 DEF Unmute, AudioOn
<1>2. CASE MuteStop
  BY <1>2 DEF MuteStop
<1>3. CASE MuteClear
  BY <1>3 DEF MuteClear, AudioOffClear
<1>4. CASE tpc # "clear" /\ UNCHANGED <<MusicState, dac, pit0>>
  BY <1>0, <1>4
<1>5. CASE ~(Unmute \/ MuteStop \/ MuteClear)
  <2>1. tpc # "clear" /\ UNCHANGED <<MusicState, dac, pit0>>
    BY <1>5 DEF tcp_thread, Listen, Accept, RecvSegment, RecvEof, BackToMenu, SelectorMenu,
           ReplyPort, ReplyCancel, ReplyEof, SendPort, SendPortTimeout, StatusMenu, StatusPrint,
           Ignore, Cmd, audioVars
  <2>. QED
    BY <1>4, <2>1
<1>. QED
  BY <1>1, <1>2, <1>3, <1>5

\* Inv is inductive.
LEMMA NextInv == Inv /\ [Next]_vars => Inv'
<1>. SUFFICES ASSUME Inv, [Next]_vars
              PROVE  Inv'
  OBVIOUS
<1>1. CASE Udp
  BY <1>1, UdpInv
<1>2. CASE Tcp
  BY <1>2, TcpMenuInv, TcpCellInv, TcpSoundInv DEF Tcp, Inv
<1>3. CASE Interrupt
  BY <1>3, InterruptInv
<1>4. CASE Network
  BY <1>4, NetworkInv
<1>5. CASE UNCHANGED vars
  <2>1. UNCHANGED tcpVars /\ UNCHANGED <<udpVars, audioVars>>
    BY <1>5 DEF vars
  <2>2. TcpTypeOK' /\ FragsInv' /\ MenuInv' /\ UNCHANGED <<tpc, transporter, MusicState>>
    BY <2>1, MenuUnchanged DEF tcpVars, tcpLocals
  <2>3. TypeInv' /\ TransitInv' /\ SoundInv'
    BY <2>1, <2>2 DEF Inv, TypeInv, AudioTypeOK, UdpTypeOK, CellInv, TransitInv, SoundInv,
           StoppedIsSilent, UnmutedRuns, udpVars, udpLocals, audioVars
  <2>. QED
    BY <2>2, <2>3 DEF Inv
<1>. QED
  BY <1>1, <1>2, <1>3, <1>4, <1>5 DEF Next

-----------------------------------------------------------------------------
(* The theorems.                                                           *)

\* Type correctness of the whole program: in particular the interrupt handler
\* of Audio.c never reads outside a buffer.
THEOREM SpeakersTypeCorrect == Spec => []TypeOK
<1>1. Inv => TypeOK
  BY DEF Inv, TypeInv, TypeOK
<1>. QED
  BY <1>1, InitInv, NextInv, PTL DEF Spec

\* The pointers that go from TCP.c to UDP.c through port_selection: a port is
\* read and freed by the UDP thread only while it is allocated and in nobody
\* else's hands, however the two threads interleave.
THEOREM SpeakersHandover == Spec => []PortCellHandover
<1>1. Inv => PortCellHandover
  <2>. SUFFICES ASSUME Inv
                PROVE  PortCellHandover
    OBVIOUS
  <2>1. /\ port_selection \in Seq(Cells) /\ Len(port_selection) <= 1
        /\ CellInv /\ TransitInv
    BY DEF Inv, TypeInv, UdpTypeOK, CellInv
  <2>2. InQueue = IF port_selection = <<>> THEN {} ELSE {Head(port_selection)}
    <3>1. CASE port_selection = <<>>
      BY <3>1 DEF InQueue
    <3>2. CASE port_selection # <<>>
      <4>1. port_selection \in Seq(Cells) /\ Len(port_selection) <= 1
        BY <2>1
      <4>2. Len(port_selection) \in Nat /\ Len(port_selection) # 0
        BY <4>1, <3>2
      <4>3. Len(port_selection) = 1
        <5>1. \A n \in Nat : n # 0 /\ n <= 1 => n = 1
          OBVIOUS
        <5>. QED
          BY <4>1, <4>2, <5>1, Zenon
      <4>4. Head(port_selection) = port_selection[1]
        BY <4>1, <3>2
      <4>. QED
        BY <3>2, <4>3, <4>4 DEF InQueue
    <3>. QED
      BY <3>1, <3>2
  <2>3. \A c \in InQueue \cup InTransit \cup InHand : heap[c] # Free
    BY <2>1, <2>2 DEF InTransit, InHand, CellInv, TransitInv
  <2>4. /\ InQueue \cap InTransit = {} /\ InQueue \cap InHand = {}
        /\ InTransit \cap InHand = {}
    BY <2>1, <2>2 DEF InTransit, InHand, CellInv, TransitInv
  <2>. QED
    BY <2>1, <2>3, <2>4 DEF PortCellHandover, TransitInv
<1>. QED
  BY <1>1, InitInv, NextInv, PTL DEF Spec

\* AudioOutput(0) of Audio.c leaves the speakers silent until somebody starts
\* the timer again, whenever the interrupt strikes.
THEOREM SpeakersSilent == Spec => []StoppedIsSilent
<1>1. Inv => StoppedIsSilent
  BY DEF Inv, SoundInv
<1>. QED
  BY <1>1, InitInv, NextInv, PTL DEF Spec

\* MusicState = 0 in TCP.c means that the timer runs, whatever the UDP thread
\* does to it in between.
THEOREM SpeakersUnmuted == Spec => []UnmutedRuns
<1>1. Inv => UnmutedRuns
  BY DEF Inv, SoundInv
<1>. QED
  BY <1>1, InitInv, NextInv, PTL DEF Spec

\* The port selector of TCP.c is left before the next command is looked at.
THEOREM SpeakersSelector == Spec => []SelectorIsLeft
<1>1. Inv => SelectorIsLeft
  BY DEF Inv, MenuInv, SelectorIsLeft
<1>. QED
  BY <1>1, InitInv, NextInv, PTL DEF Spec

\* MusicState and current_menu of TCP.c agree with the timer and the selection.
THEOREM SpeakersMenu == Spec => []MenuConsistent
  BY SpeakersUnmuted, SpeakersSelector, PTL DEF MenuConsistent

=============================================================================
