----------------------------- MODULE UDPProofs ------------------------------
(***************************************************************************)
(* Proofs about the steps of the UDP thread, the interrupts and the        *)
(* network, used for every specification that is built of them.            *)
(***************************************************************************)
EXTENDS UDP, TLAPS

-----------------------------------------------------------------------------
(* The operators of the model.                                             *)

\* The low byte of a number below the range of a byte is the number.
LEMMA SmallIsLowByte ==
  ASSUME NEW a \in Nat, NEW b \in Nat \ {0}, a < b
  PROVE  a % b = a
  BY Z3

\* A low byte is within the range of a byte.
LEMMA LowByteRange ==
  ASSUME NEW a \in Nat, NEW b \in Nat \ {0}
  PROVE  a % b \in 0..(b - 1)
  BY Z3

\* "i = 0" in UDP.c, a store to the low byte of i, keeps the index of the
\* interrupt handler inside the buffers.
LEMMA ClearIndexInRange ==
  ASSUME i \in Index, ClearIndex
  PROVE  i' \in Index
<1>. i \in Nat /\ ByteRange \in Nat \ {0}
  BY AudioAssumption DEF Index
<1>1. i - (i % ByteRange) \in 0..i
  <2>1. CASE i < ByteRange
    BY <2>1, SmallIsLowByte
  <2>2. CASE i >= ByteRange
    BY <2>2, LowByteRange
  <2>. QED
    BY <2>1, <2>2
<1>. QED
  BY <1>1, AudioAssumption DEF Index, ClearIndex

-----------------------------------------------------------------------------
(* Type correctness.  The port that the thread takes is a port because the *)
(* cell it reads is allocated: the cells have to be followed from the      *)
(* queue into the thread's hands.                                          *)

CellInv ==
  /\ Len(port_selection) <= 1
  /\ port_selection # <<>> => heap[Head(port_selection)] # Free
  /\ upc = "check" /\ received_port # NoCell =>
       /\ heap[received_port] # Free
       /\ port_selection # <<>> => Head(port_selection) # received_port

TypeInv == AudioTypeOK /\ UdpTypeOK /\ CellInv

\* A cell that holds a port is not free.
LEMMA PortIsNotFree == \A p \in PortValues : p # Free
<1>1. \A p \in Ports : p \in Nat
  BY UDPAssumption
<1>. QED
  BY <1>1 DEF PortValues, Free

\* The initial states are well typed.
LEMMA InitTypeInv == AudioInit(0) /\ UdpInit => TypeInv
<1>. SUFFICES ASSUME AudioInit(0), UdpInit
              PROVE  TypeInv
  OBVIOUS
<1>1. AudioTypeOK
  <2>1. 0 \in Samples
    BY UDPAssumption
  <2>2. 0 \in Index
    BY AudioAssumption DEF Index
  <2>. QED
    BY <2>1, <2>2 DEF AudioInit, AudioTypeOK
<1>2. UdpTypeOK
  <2>1. DefaultPort \in Ports /\ 0 \in PortValues /\ 0 \in 0..MaxFrames
    BY UDPAssumption DEF PortValues
  <2>2. heap \in [Cells -> PortValues \cup {Free}]
    BY DEF UdpInit
  <2>. QED
    BY <2>1, <2>2 DEF UdpInit, UdpTypeOK
<1>3. CellInv
  BY DEF UdpInit, CellInv
<1>. QED
  BY <1>1, <1>2, <1>3 DEF TypeInv

\* The interrupts touch the index, the DAC and the timers only.
LEMMA InterruptTypeInv ==
  TypeInv /\ (PIT0_IRQHandler \/ PIT1_Default) /\ UNCHANGED udpVars => TypeInv'
<1>. SUFFICES ASSUME TypeInv, PIT0_IRQHandler \/ PIT1_Default, UNCHANGED udpVars
              PROVE  TypeInv'
  OBVIOUS
<1>. USE DEF TypeInv
<1>1. AudioTypeOK'
  BY AudioAssumption DEF AudioTypeOK, PIT0_IRQHandler, PIT1_Default, Index
<1>2. UdpTypeOK' /\ CellInv'
  BY DEF UdpTypeOK, CellInv, udpVars, udpLocals
<1>. QED
  BY <1>1, <1>2

\* A new datagram is one of Datagrams.
LEMMA DeliverTypeInv ==
  ASSUME TypeInv, NEW frame \in 0..MaxFrames, Deliver(frame), sent' \in 0..MaxFrames
  PROVE  TypeInv'
<1>. USE DEF TypeInv
<1>1. AudioTypeOK'
  BY DEF AudioTypeOK, audioVars, Deliver
<1>2. mbox' \in Seq(Datagrams)
  <2>1. bound \in Ports
    BY DEF UdpTypeOK, PortValues, Deliver
  <2>. QED
    BY <2>1 DEF UdpTypeOK, Datagrams, Deliver
<1>3. UdpTypeOK' /\ CellInv'
  BY <1>2 DEF UdpTypeOK, CellInv, udpLocals, Deliver
<1>. QED
  BY <1>1, <1>3

\* What a datagram brings.
LEMMA DatagramFields ==
  \A d \in Datagrams \cup {NoDatagram} : d.frame \in Samples /\ d.len \in Nat
<1>1. Lengths \subseteq Nat /\ Samples = 0..MaxFrames /\ 0 \in Samples
  BY UDPAssumption
<1>2. \A d \in Datagrams : d.frame \in Samples /\ d.len \in Nat
  BY <1>1 DEF Datagrams
<1>3. NoDatagram.frame \in Samples /\ NoDatagram.len \in Nat
  BY <1>1 DEF NoDatagram
<1>. QED
  BY <1>2, <1>3

\* The thread: the copy stays inside the buffer, and the port it takes is a
\* port because the cell it reads is allocated.
LEMMA ThreadTypeInv == TypeInv /\ UDP_thread => TypeInv'
<1>. SUFFICES ASSUME TypeInv, UDP_thread
              PROVE  TypeInv'
  OBVIOUS
<1>. USE DEF TypeInv
<1>1. CASE CheckPort
  <2>1. PICK p \in IF received_port = NoCell THEN NullWords ELSE {heap[received_port]} :
          /\ port' = IF p # 0 THEN p ELSE port
          /\ heap' = IF p # 0 /\ received_port # NoCell
                     THEN [heap EXCEPT ![received_port] = Free] ELSE heap
    BY <1>1 DEF CheckPort
  <2>2. p \in PortValues
    BY <1>1, UDPAssumption DEF UdpTypeOK, CellInv, CheckPort
  <2>3. UdpTypeOK'
    BY <1>1, <2>1, <2>2 DEF UdpTypeOK, CheckPort, PortValues
  <2>4. CellInv'
    BY <1>1, <2>1 DEF UdpTypeOK, CellInv, CheckPort
  <2>. QED
    BY <1>1, <2>3, <2>4 DEF AudioTypeOK, CheckPort, audioVars
<1>2. CASE Bind
  BY <1>2 DEF AudioTypeOK, UdpTypeOK, CellInv, PortValues, Bind, audioVars
<1>3. CASE ConfigAudio
  BY <1>3 DEF AudioTypeOK, UdpTypeOK, CellInv, ConfigAudio, AudioConfig, PIT_ConfigAndStart
<1>4. CASE Recv
  BY <1>4 DEF AudioTypeOK, UdpTypeOK, CellInv, Recv, audioVars
<1>5. CASE CopySample
  <2>1. buf.frame \in Samples /\ buf.len \in Nat
    BY DatagramFields DEF UdpTypeOK
  <2>2. copied \in Index
    BY <1>5, <2>1, AudioAssumption DEF UdpTypeOK, CopySample, CopyLen, Index
  <2>3. AudioTypeOK'
    BY <1>5, <2>1, <2>2 DEF AudioTypeOK, CopySample
  <2>. QED
    BY <1>5, <2>3 DEF UdpTypeOK, CellInv, CopySample
<1>6. CASE CopyDone
  <2>1. i' \in Index
    BY <1>6, ClearIndexInRange DEF AudioTypeOK, CopyDone
  <2>. QED
    BY <1>6, <2>1 DEF AudioTypeOK, UdpTypeOK, CellInv, CopyDone
<1>7. CASE Flip
  BY <1>7 DEF AudioTypeOK, UdpTypeOK, CellInv, Flip
<1>8. CASE ResetIndex
  <2>1. i' \in Index
    BY <1>8, ClearIndexInRange DEF AudioTypeOK, ResetIndex
  <2>. QED
    BY <1>8, <2>1 DEF AudioTypeOK, UdpTypeOK, CellInv, ResetIndex
<1>9. CASE PollSelection
  BY <1>9 DEF AudioTypeOK, UdpTypeOK, CellInv, PollSelection, audioVars
<1>. QED
  BY <1>1, <1>2, <1>3, <1>4, <1>5, <1>6, <1>7, <1>8, <1>9 DEF UDP_thread
=============================================================================
