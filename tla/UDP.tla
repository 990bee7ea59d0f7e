-------------------------------- MODULE UDP --------------------------------
(***************************************************************************)
(* The UDP thread, src/lwip/contrib/apps/UDP/UDP.c: it receives datagrams  *)
(* of samples on one port, copies each into the buffer that buffer_flag    *)
(* selects, echoes it, and switches buffers.  After each datagram it polls *)
(* the queue port_selection for a pointer to a new port.                   *)
(*                                                                         *)
(* lwIP (the receive mailbox of the connection, netconn_bind and           *)
(* netconn_close) and FreeRTOS (the queue of length 1, the heap) are       *)
(* modelled from the calls this file makes.                                *)
(***************************************************************************)
EXTENDS Audio, Sequences

CONSTANTS
  Ports,        \* the port numbers other than 0 that occur
  DefaultPort,  \* 50007
  NullWords,    \* what a uint16_t read at address 0 can give
  Cells,        \* the blocks pvPortMalloc can return for a port
  NoCell,       \* the null pointer
  Lengths,      \* lengths of datagrams, in samples
  MboxSize,     \* DEFAULT_UDP_RECVMBOX_SIZE, 12
  MaxFrames     \* bound: datagrams accepted in a behaviour

Free == -1
PortValues == Ports \cup {0}

ASSUME UDPAssumption ==
  /\ Ports \subseteq Nat \ {0}
  /\ DefaultPort \in Ports
  /\ NullWords \subseteq PortValues
  /\ NoCell \notin Cells
  /\ Lengths \subseteq Nat
  /\ MboxSize \in Nat /\ MaxFrames \in Nat
  /\ Samples = 0..MaxFrames      \* a sample is named by its datagram

VARIABLES
  upc,             \* where the thread is
  port,            \* the local of the same name
  received_port,   \* a cell, or NoCell before the first selection
  buf,             \* the datagram being handled
  copied,          \* samples of it that netbuf_copy has moved
  bound,           \* the port the connection is bound to; 0: none yet
  mbox,            \* the receive mailbox of the connection
  port_selection,  \* the queue, of length 1
  heap,            \* the content of each cell, or Free
  sent             \* number of datagrams accepted so far

udpLocals == <<upc, port, received_port, buf, copied, bound>>
udpVars == <<udpLocals, mbox, port_selection, heap, sent>>

Datagrams == [frame : 0..MaxFrames, len : Lengths, port : Ports]

\* Before the first datagram, as if an empty one had been handled.
NoDatagram == [frame |-> 0, len |-> 0, port |-> DefaultPort]

UdpInit ==
  /\ upc = "check"
  /\ port = DefaultPort
  /\ received_port = NoCell
  /\ buf = NoDatagram
  /\ copied = 0
  /\ bound = 0
  /\ mbox = <<>>
  /\ port_selection = <<>>
  /\ heap = [c \in Cells |-> Free]
  /\ sent = 0

UdpTypeOK ==
  /\ upc \in {"check", "bind", "config", "recv", "copy", "flip", "reset", "poll", "returned"}
  /\ port \in Ports
  /\ received_port \in Cells \cup {NoCell}
  /\ buf \in Datagrams \cup {NoDatagram}
  /\ copied \in Nat
  /\ bound \in PortValues
  /\ mbox \in Seq(Datagrams)
  /\ port_selection \in Seq(Cells)
  /\ heap \in [Cells -> PortValues \cup {Free}]
  /\ sent \in 0..MaxFrames

-----------------------------------------------------------------------------
(* The network.                                                            *)

\* A datagram for the bound port reaches the mailbox unless it is full; any
\* other is dropped, which changes nothing.
Deliver(frame) ==
  /\ bound # 0 /\ Len(mbox) < MboxSize
  /\ \E n \in Lengths :
       mbox' = Append(mbox, [frame |-> frame, len |-> n, port |-> bound])
  /\ UNCHANGED <<udpLocals, port_selection, heap, audioVars>>

\* Datagrams are numbered in the order in which they are accepted.
Datagram == sent < MaxFrames /\ sent' = sent + 1 /\ Deliver(sent + 1)

-----------------------------------------------------------------------------
(* The thread.                                                             *)

\* if ((*received_port) != 0): before the first selection the pointer is
\* null and the read gives whatever is at address 0.  A port is freed when
\* it is taken; a selected port 0 is not.
CheckPort ==
  /\ upc = "check"
  /\ \E p \in IF received_port = NoCell THEN NullWords ELSE {heap[received_port]} :
       /\ port' = IF p # 0 THEN p ELSE port
       /\ heap' = IF p # 0 /\ received_port # NoCell
                  THEN [heap EXCEPT ![received_port] = Free] ELSE heap
  /\ upc' = "bind"
  /\ UNCHANGED <<received_port, buf, copied, bound, mbox, port_selection, sent, audioVars>>

\* Seeded fault: binding empties the mailbox.
Bind_Flush ==
  /\ upc = "bind"
  /\ upc' = "config" /\ bound' = port
  /\ mbox' = <<>>
  /\ UNCHANGED <<port, received_port, buf, copied, port_selection, heap, sent, audioVars>>

\* Rebinding moves the connection to the new port and keeps its mailbox.
\* Without a connection (netconn_new failed) the thread function returns.
Bind ==
  /\ upc = "bind"
  /\ \/ upc' = "config" /\ bound' = port
     \/ bound = 0 /\ upc' = "returned" /\ bound' = bound
  /\ UNCHANGED <<port, received_port, buf, copied, mbox, port_selection, heap, sent, audioVars>>

ConfigAudio ==
  /\ upc = "config"
  /\ AudioConfig
  /\ upc' = "recv"
  /\ UNCHANGED <<port, received_port, buf, copied, bound, mbox, port_selection, heap, sent>>

Recv ==
  /\ upc = "recv" /\ mbox # <<>>
  /\ buf' = Head(mbox)
  /\ mbox' = Tail(mbox)
  /\ copied' = 0
  /\ upc' = "copy"
  /\ UNCHANGED <<port, received_port, bound, port_selection, heap, sent, audioVars>>

\* netbuf_copy stops at the end of the datagram or of the buffer.
CopyLen == IF buf.len < audio_buffer_sizes THEN buf.len ELSE audio_buffer_sizes

\* Seeded fault: the samples go into the buffer that is not played.
CopySample_Inverted ==
  /\ upc = "copy" /\ copied < CopyLen
  /\ IF buffer_flag
     THEN buffer1' = [buffer1 EXCEPT ![copied] = buf.frame] /\ buffer2' = buffer2
     ELSE buffer2' = [buffer2 EXCEPT ![copied] = buf.frame] /\ buffer1' = buffer1
  /\ copied' = copied + 1
  /\ UNCHANGED <<upc, port, received_port, buf, bound, mbox, port_selection, heap, sent,
                 i, buffer_flag, dac, pit0, pit1>>

CopySample ==
  /\ upc = "copy" /\ copied < CopyLen
  /\ IF buffer_flag
     THEN buffer2' = [buffer2 EXCEPT ![copied] = buf.frame] /\ buffer1' = buffer1
     ELSE buffer1' = [buffer1 EXCEPT ![copied] = buf.frame] /\ buffer2' = buffer2
  /\ copied' = copied + 1
  /\ UNCHANGED <<upc, port, received_port, buf, bound, mbox, port_selection, heap, sent,
                 i, buffer_flag, dac, pit0, pit1>>

\* Seeded fault: the buffers are not switched after an overlong datagram.
CopyDone_NoFlip ==
  /\ upc = "copy" /\ copied = CopyLen
  /\ IF buf.len > audio_buffer_sizes THEN ClearIndex /\ upc' = "poll" ELSE i' = i /\ upc' = "flip"
  /\ UNCHANGED <<port, received_port, buf, copied, bound, mbox, port_selection, heap, sent,
                 buffer_flag, buffer1, buffer2, dac, pit0, pit1>>

\* A datagram longer than the buffer is not echoed and the index is cleared
\* at once; the result of the echo is ignored.
CopyDone ==
  /\ upc = "copy" /\ copied = CopyLen
  /\ IF buf.len > audio_buffer_sizes THEN ClearIndex ELSE i' = i
  /\ upc' = "flip"
  /\ UNCHANGED <<port, received_port, buf, copied, bound, mbox, port_selection, heap, sent,
                 buffer_flag, buffer1, buffer2, dac, pit0, pit1>>

Flip ==
  /\ upc = "flip"
  /\ buffer_flag' = ~buffer_flag
  /\ upc' = "reset"
  /\ UNCHANGED <<port, received_port, buf, copied, bound, mbox, port_selection, heap, sent,
                 i, buffer1, buffer2, dac, pit0, pit1>>

ResetIndex ==
  /\ upc = "reset"
  /\ ClearIndex
  /\ upc' = "poll"
  /\ UNCHANGED <<port, received_port, buf, copied, bound, mbox, port_selection, heap, sent,
                 buffer_flag, buffer1, buffer2, dac, pit0, pit1>>

\* Seeded fault: the new port is not looked at before the next bind.
PollSelection_SkipsCheck ==
  /\ upc = "poll"
  /\ IF port_selection = <<>>
     THEN upc' = "recv" /\ UNCHANGED <<received_port, port_selection>>
     ELSE /\ received_port' = Head(port_selection)
          /\ port_selection' = Tail(port_selection)
          /\ upc' = "bind"
  /\ UNCHANGED <<port, buf, copied, bound, mbox, heap, sent, audioVars>>

\* xQueueReceive without waiting.  netconn_close does nothing to a UDP
\* connection (lwIP answers ERR_CONN).
PollSelection ==
  /\ upc = "poll"
  /\ IF port_selection = <<>>
     THEN upc' = "recv" /\ UNCHANGED <<received_port, port_selection>>
     ELSE /\ received_port' = Head(port_selection)
          /\ port_selection' = Tail(port_selection)
          /\ upc' = "check"
  /\ UNCHANGED <<port, buf, copied, bound, mbox, heap, sent, audioVars>>

UDP_thread ==
  \/ CheckPort \/ Bind \/ ConfigAudio \/ Recv \/ CopySample \/ CopyDone
  \/ Flip \/ ResetIndex \/ PollSelection
=============================================================================
