---------------------------- MODULE StreamProofs ----------------------------
(***************************************************************************)
(* Proofs about the stream, for buffers, mailboxes and datagrams of every  *)
(* size and every number of ports and heap cells.                          *)
(***************************************************************************)
EXTENDS Stream, UDPProofs

-----------------------------------------------------------------------------
(* Type correctness.                                                       *)

\* The menu puts an allocated cell into the empty queue; it is not the one the
\* thread holds, which was allocated before.
LEMMA SelectPortTypeInv == TypeInv /\ SelectPort => TypeInv'
<1>. SUFFICES ASSUME TypeInv, SelectPort
              PROVE  TypeInv'
  OBVIOUS
<1>. USE DEF TypeInv
<1>1. AudioTypeOK'
  BY DEF AudioTypeOK, SelectPort, audioVars
<1>2. PICK c \in Cells, p \in PortValues :
        /\ heap[c] = Free
        /\ heap' = [heap EXCEPT ![c] = p]
        /\ port_selection' = <<c>>
  BY DEF SelectPort
<1>3. p # Free
  BY <1>2, PortIsNotFree
<1>4. UdpTypeOK'
  BY <1>2 DEF UdpTypeOK, SelectPort, udpLocals
<1>5. CellInv'
  BY <1>2, <1>3 DEF UdpTypeOK, CellInv, SelectPort, udpLocals
<1>. QED
  BY <1>1, <1>4, <1>5

\* TypeInv is inductive: one case per kind of step.
LEMMA NextTypeInv == TypeInv /\ [Next]_vars => TypeInv'
<1>. SUFFICES ASSUME TypeInv, [Next]_vars
              PROVE  TypeInv'
  OBVIOUS
<1>1. CASE Thread
  BY <1>1, ThreadTypeInv DEF Thread
<1>2. CASE Interrupt
  BY <1>2, InterruptTypeInv DEF Interrupt
<1>3. CASE SelectPort
  BY <1>3, SelectPortTypeInv
<1>4. CASE Datagram
  <2>1. sent \in 0..MaxFrames
    BY DEF TypeInv, UdpTypeOK
  <2>2. sent < MaxFrames /\ sent' = sent + 1 /\ Deliver(sent + 1)
    BY <1>4 DEF Datagram
  <2>3. MaxFrames \in Nat
    BY UDPAssumption
  <2>4. sent + 1 \in 0..MaxFrames
    BY <2>1, <2>2, <2>3
  <2>. QED
    BY <2>2, <2>4, DeliverTypeInv
<1>5. CASE UNCHANGED vars
  BY <1>5 DEF vars, audioVars, udpVars, udpLocals, TypeInv, AudioTypeOK, UdpTypeOK, CellInv
<1>. QED
  BY <1>1, <1>2, <1>3, <1>4, <1>5 DEF Next

\* The types of the stream are kept for every size of the buffers and of the
\* byte range: the interrupt handler of Audio.c never reads outside a buffer,
\* netbuf_copy in UDP.c never writes outside one, and what UDP.c binds to is a
\* port that was selected.
THEOREM StreamTypeCorrect == Spec => []TypeOK
<1>1. TypeInv => TypeOK
  BY DEF TypeInv, TypeOK
<1>2. Init => TypeInv
  BY InitTypeInv DEF Init
<1>. QED
  BY <1>1, <1>2, NextTypeInv, PTL DEF Spec

-----------------------------------------------------------------------------
(* The order of the datagrams.                                             *)

\* The thread takes datagrams from the head of the mailbox only.
LEMMA NextInOrder == TypeInv /\ HandledInOrder /\ [Next]_vars => HandledInOrder'
<1>. SUFFICES ASSUME TypeInv, HandledInOrder, [Next]_vars
              PROVE  HandledInOrder'
  OBVIOUS
<1>1. /\ mbox \in Seq(Datagrams)
      /\ buf.frame \in Nat
      /\ sent \in Nat
  <2>1. mbox \in Seq(Datagrams) /\ buf \in Datagrams \cup {NoDatagram} /\ sent \in 0..MaxFrames
    BY DEF TypeInv, UdpTypeOK
  <2>2. buf.frame \in Nat
    BY <2>1, DatagramFields, AudioAssumption
  <2>. QED
    BY <2>1, <2>2, UDPAssumption
<1>2. CASE Recv
  <2>1. mbox # <<>> /\ buf' = Head(mbox) /\ mbox' = Tail(mbox) /\ sent' = sent
    BY <1>2 DEF Recv
  <2>2. Len(mbox) > 0 /\ Len(mbox') = Len(mbox) - 1 /\ Len(mbox) \in Nat
    BY <1>1, <2>1
  <2>3. buf'.frame = buf.frame + 1
    BY <1>1, <2>1, <2>2 DEF HandledInOrder
  <2>4. ASSUME NEW k \in 1..Len(mbox')
        PROVE  mbox'[k].frame = buf'.frame + k
    <3>1. mbox'[k] = mbox[k + 1] /\ k + 1 \in 1..Len(mbox)
      BY <1>1, <2>1, <2>2
    <3>2. mbox[k + 1].frame = buf.frame + (k + 1)
      BY <3>1 DEF HandledInOrder
    <3>. QED
      BY <1>1, <2>2, <2>3, <3>1, <3>2
  <2>. QED
    BY <1>1, <2>1, <2>2, <2>3, <2>4 DEF HandledInOrder
<1>3. CASE Datagram
  <2>1. PICK n \in Lengths :
          mbox' = Append(mbox, [frame |-> sent + 1, len |-> n, port |-> bound])
    BY <1>3 DEF Datagram, Deliver
  <2>2. Len(mbox') = Len(mbox) + 1 /\ buf' = buf /\ sent' = sent + 1
    BY <1>1, <1>3, <2>1 DEF Datagram, Deliver, udpLocals
  <2>3. ASSUME NEW k \in 1..Len(mbox')
        PROVE  mbox'[k].frame = buf'.frame + k
    <3>1. CASE k \in 1..Len(mbox)
      <4>1. mbox'[k] = mbox[k]
        BY <1>1, <2>1, <3>1
      <4>. QED
        BY <2>2, <3>1, <4>1 DEF HandledInOrder
    <3>2. CASE k = Len(mbox) + 1
      <4>1. mbox'[k].frame = sent + 1
        BY <1>1, <2>1, <3>2
      <4>2. sent + 1 = buf.frame + k
        BY <1>1, <3>2 DEF HandledInOrder
      <4>. QED
        BY <2>2, <4>1, <4>2
    <3>. QED
      BY <1>1, <2>2, <3>1, <3>2
  <2>4. sent' = buf'.frame + Len(mbox')
    <3>1. sent = buf.frame + Len(mbox)
      BY DEF HandledInOrder
    <3>2. Len(mbox) \in Nat
      BY <1>1
    <3>3. buf'.frame = buf.frame
      BY <2>2
    <3>. QED
      BY <1>1, <2>2, <3>1, <3>2, <3>3
  <2>. QED
    BY <2>3, <2>4 DEF HandledInOrder
<1>4. CASE UNCHANGED <<mbox, buf, sent>>
  BY <1>4 DEF HandledInOrder
<1>5. Recv \/ Datagram \/ UNCHANGED <<mbox, buf, sent>>
  BY DEF Next, Thread, UDP_thread, Interrupt, SelectPort, vars, udpVars, udpLocals,
         CheckPort, Bind, ConfigAudio, CopySample, CopyDone, Flip, ResetIndex, PollSelection
<1>. QED
  BY <1>2, <1>3, <1>4, <1>5

\* Before the first datagram the mailbox is empty.
LEMMA InitInOrder == Init => HandledInOrder
  BY DEF Init, UdpInit, HandledInOrder, NoDatagram

\* UDP.c handles every datagram that reached the mailbox exactly once and in
\* the order of arrival, across changes of the port too: rebinding loses
\* nothing that was accepted.
THEOREM DatagramsInOrder == Spec => []HandledInOrder
<1>1. Init => TypeInv
  BY InitTypeInv DEF Init
<1>. QED
  BY <1>1, NextTypeInv, InitInOrder, NextInOrder, PTL DEF Spec

-----------------------------------------------------------------------------
(* The content of the buffers.  PlaybackOneBehind becomes inductive with   *)
(* the order of the datagrams, which tells the number of the next one, and *)
(* with the datagram that is copied being one from the mailbox, which      *)
(* tells that it is long enough to fill the buffer.                        *)

CopyInv == upc = "copy" => buf \in Datagrams

PlaybackInv == TypeInv /\ HandledInOrder /\ CopyInv /\ PlaybackOneBehind

\* Both buffers hold the samples the program starts with.
LEMMA InitPlaybackInv == Init => CopyInv /\ PlaybackOneBehind
  BY DEF Init, AudioInit, UdpInit, CopyInv, PlaybackOneBehind, Selected, Other, Holds, Before,
         NoDatagram

\* What is copied came out of the mailbox.
LEMMA NextCopyInv == TypeInv /\ CopyInv /\ [Next]_vars => CopyInv'
<1>. SUFFICES ASSUME TypeInv, CopyInv, [Next]_vars
              PROVE  CopyInv'
  OBVIOUS
<1>1. CASE Recv
  BY <1>1 DEF Recv, CopyInv, TypeInv, UdpTypeOK
<1>2. CASE ~Recv
  <2>1. (upc' = "copy" => upc = "copy") /\ buf' = buf
    BY <1>2 DEF Next, Thread, UDP_thread, Interrupt, SelectPort, Datagram, Deliver, vars,
           udpVars, udpLocals, CheckPort, Bind, ConfigAudio, CopySample, CopyDone, Flip,
           ResetIndex, PollSelection
  <2>. QED
    BY <2>1 DEF CopyInv
<1>. QED
  BY <1>1, <1>2

\* The parts of the state that PlaybackOneBehind reads.
playbackVars == <<upc, buf, copied, buffer_flag, buffer1, buffer2>>

\* Each step keeps PlaybackOneBehind: a datagram is taken, copied sample by
\* sample and completed, the buffers change roles, or nothing it reads changes.
LEMMA NextPlayback ==
  ASSUME FullDatagrams, PlaybackInv, [Next]_vars
  PROVE  PlaybackOneBehind'
<1>. DEFINE n == buf.frame
<1>1. /\ buf \in Datagrams \cup {NoDatagram}
      /\ n \in Nat
      /\ copied \in Nat
      /\ buffer_flag \in BOOLEAN
      /\ buffer1 \in [Index -> Samples] /\ buffer2 \in [Index -> Samples]
  <2>1. n \in Nat
    BY DatagramFields, AudioAssumption DEF PlaybackInv, TypeInv, UdpTypeOK
  <2>. QED
    BY <2>1 DEF PlaybackInv, TypeInv, UdpTypeOK, AudioTypeOK
<1>2. CASE Recv
  <2>1. upc = "recv" /\ upc' = "copy" /\ copied' = 0
        /\ UNCHANGED <<buffer_flag, buffer1, buffer2>>
    BY <1>2 DEF Recv, audioVars
  <2>2. buf'.frame = n + 1
    <3>1. mbox # <<>> /\ buf' = Head(mbox) /\ mbox \in Seq(Datagrams)
      BY <1>2 DEF Recv, PlaybackInv, TypeInv, UdpTypeOK
    <3>2. buf' = mbox[1] /\ 1 \in 1..Len(mbox)
      BY <3>1
    <3>. QED
      BY <3>2 DEF PlaybackInv, HandledInOrder
  <2>3. Before(buf'.frame) = n
    BY <1>1, <2>2 DEF Before
  <2>4. Holds(Selected, Before(n)) /\ Holds(Other, n)
    BY <2>1 DEF PlaybackInv, PlaybackOneBehind
  <2>5. \A k \in Index : ~(k < copied')
    BY <2>1 DEF Index
  <2>6. Selected' = Selected /\ Other' = Other
    BY <2>1 DEF Selected, Other
  <2>. QED
    BY <2>1, <2>3, <2>4, <2>5, <2>6 DEF PlaybackOneBehind, Holds
<1>3. CASE CopySample
  <2>1. /\ upc = "copy" /\ upc' = "copy" /\ buf' = buf /\ copied' = copied + 1
        /\ buffer_flag' = buffer_flag
    BY <1>3 DEF CopySample
  <2>2. /\ \A k \in Index : Selected[k] = IF k < copied THEN n ELSE Before(Before(n))
        /\ Holds(Other, Before(n))
    BY <2>1 DEF PlaybackInv, PlaybackOneBehind
  <2>3. Other' = Other
    BY <1>3, <2>1 DEF CopySample, Other
  <2>4. Selected \in [Index -> Samples] /\ Selected' = [Selected EXCEPT ![copied] = n]
    BY <1>1, <1>3, <2>1 DEF CopySample, Selected
  <2>5. ASSUME NEW k \in Index
        PROVE  Selected'[k] = IF k < copied' THEN n ELSE Before(Before(n))
    <3>1. k \in Nat
      BY AudioAssumption DEF Index
    <3>2. CASE k = copied
      BY <1>1, <2>1, <2>4, <3>2
    <3>3. CASE k # copied
      <4>1. Selected'[k] = Selected[k]
        BY <2>4, <3>3
      <4>2. k < copied' <=> k < copied
        BY <1>1, <2>1, <3>1, <3>3
      <4>. QED
        BY <2>2, <4>1, <4>2
    <3>. QED
      BY <3>2, <3>3
  <2>. QED
    BY <2>1, <2>2, <2>3, <2>5 DEF PlaybackOneBehind, Holds
<1>4. CASE CopyDone
  <2>1. /\ upc = "copy" /\ upc' = "flip" /\ buf' = buf /\ copied = CopyLen
        /\ UNCHANGED <<buffer_flag, buffer1, buffer2>>
    BY <1>4 DEF CopyDone
  <2>2. copied = audio_buffer_sizes
    <3>1. buf.len \in Lengths
      BY <2>1 DEF PlaybackInv, CopyInv, Datagrams
    <3>2. buf.len \in Nat /\ buf.len >= audio_buffer_sizes
      BY <3>1, UDPAssumption DEF FullDatagrams
    <3>. QED
      BY <2>1, <3>2, AudioAssumption DEF CopyLen
  <2>3. \A k \in Index : k < copied
    BY <2>2, AudioAssumption DEF Index
  <2>4. Holds(Selected, n) /\ Holds(Other, Before(n))
    BY <2>1, <2>3 DEF PlaybackInv, PlaybackOneBehind, Holds
  <2>5. Selected' = Selected /\ Other' = Other
    BY <2>1 DEF Selected, Other
  <2>. QED
    BY <2>1, <2>4, <2>5 DEF PlaybackOneBehind, Holds
<1>5. CASE Flip
  <2>1. /\ upc = "flip" /\ upc' = "reset" /\ buf' = buf /\ buffer_flag' = ~buffer_flag
        /\ UNCHANGED <<buffer1, buffer2>>
    BY <1>5 DEF Flip
  <2>2. Holds(Selected, n) /\ Holds(Other, Before(n))
    BY <2>1 DEF PlaybackInv, PlaybackOneBehind
  <2>3. Selected' = Other /\ Other' = Selected
    BY <1>1, <2>1 DEF Selected, Other
  <2>. QED
    BY <2>1, <2>2, <2>3 DEF PlaybackOneBehind, Holds
<1>6. CASE /\ upc \notin {"copy", "flip"} /\ upc' \notin {"copy", "flip"}
           /\ UNCHANGED <<buf, buffer_flag, buffer1, buffer2>>
  <2>1. Selected' = Selected /\ Other' = Other /\ buf' = buf
    BY <1>6 DEF Selected, Other
  <2>2. Holds(Selected, Before(n)) /\ Holds(Other, n)
    BY <1>6 DEF PlaybackInv, PlaybackOneBehind
  <2>. QED
    BY <1>6, <2>1, <2>2 DEF PlaybackOneBehind, Holds
<1>7. CASE UNCHANGED playbackVars
  BY <1>7 DEF playbackVars, PlaybackInv, PlaybackOneBehind, Selected, Other, Holds
<1>8. CASE CheckPort \/ Bind \/ ConfigAudio \/ ResetIndex \/ PollSelection
  BY <1>6, <1>8 DEF CheckPort, Bind, ConfigAudio, AudioConfig, PIT_ConfigAndStart,
         ResetIndex, PollSelection, audioVars
<1>9. CASE Interrupt \/ SelectPort \/ Datagram \/ UNCHANGED vars
  BY <1>7, <1>9 DEF playbackVars, Interrupt, PIT0_IRQHandler, PIT1_Default, SelectPort, Datagram,
                    Deliver, vars, udpVars, udpLocals, audioVars
<1>. QED
  BY <1>2, <1>3, <1>4, <1>5, <1>8, <1>9 DEF Next, Thread, UDP_thread

\* A stream of full datagrams is played one datagram behind, for buffers of
\* every size and interrupts at every moment: the copy of UDP.c, the switch of
\* buffer_flag and the handler of Audio.c together lose and repeat nothing.
THEOREM StreamPlayback ==
  ASSUME FullDatagrams
  PROVE  Spec => []PlaybackOneBehind
<1>1. Init => PlaybackInv
  BY InitTypeInv, InitInOrder, InitPlaybackInv DEF PlaybackInv, Init
<1>2. PlaybackInv /\ [Next]_vars => PlaybackInv'
  BY NextTypeInv, NextInOrder, NextCopyInv, NextPlayback DEF PlaybackInv
<1>3. PlaybackInv => PlaybackOneBehind
  BY DEF PlaybackInv
<1>. QED
  BY <1>1, <1>2, <1>3, PTL DEF Spec

-----------------------------------------------------------------------------
(* Datagrams of any length.  What a short datagram does not overwrite stays *)
(* from an earlier one of the same buffer.                                  *)

\* Samples of b are from datagram m, or from one an even number before it.
Aged(b, m) == \A k \in Index : b[k] = 0 \/ (b[k] <= m /\ (m - b[k]) % 2 = 0)

\* SamplesKeepTheirBuffer, before the first datagram as well.
AgesOK ==
  IF upc \in {"copy", "flip"} THEN Aged(Selected, buf.frame) /\ Aged(Other, Before(buf.frame))
  ELSE Aged(Selected, Before(buf.frame)) /\ Aged(Other, buf.frame)

AgesInv == TypeInv /\ HandledInOrder /\ AgesOK

\* The program starts with empty buffers.
LEMMA InitAges == Init => AgesOK
  BY DEF Init, AudioInit, UdpInit, AgesOK, Aged, Selected, Other, Index

\* Two datagrams later the same buffer is filled again.
LEMMA AgedLater ==
  ASSUME NEW b \in [Index -> Samples], NEW n \in Nat, Aged(b, Before(n))
  PROVE  Aged(b, n + 1)
<1>. SUFFICES ASSUME NEW k \in Index
              PROVE  b[k] = 0 \/ (b[k] <= n + 1 /\ ((n + 1) - b[k]) % 2 = 0)
  BY Zenon DEF Aged
<1>1. b[k] \in Nat
  BY UDPAssumption
<1>2. CASE n = 0
  BY <1>1, <1>2 DEF Aged, Before
<1>3. CASE n > 0
  <2>1. Before(n) = n - 1
    BY <1>3 DEF Before
  <2>2. b[k] = 0 \/ (b[k] <= n - 1 /\ (n - 1 - b[k]) % 2 = 0)
    BY <2>1 DEF Aged
  <2>. DEFINE x == b[k]
  <2>3. x \in Nat /\ (x = 0 \/ (x <= n - 1 /\ (n - 1 - x) % 2 = 0))
    BY <1>1, <2>2
  <2>. HIDE DEF x
  <2>4. x = 0 \/ (x <= n + 1 /\ ((n + 1) - x) % 2 = 0)
    BY <2>3, Z3
  <2>. QED
    BY <2>4 DEF x
<1>. QED
  BY <1>2, <1>3

\* A step copies a sample of the datagram itself, swaps the buffers, goes on
\* to the next datagram, or leaves the buffers alone.
LEMMA NextAges ==
  ASSUME AgesInv, [Next]_vars
  PROVE  AgesOK'
<1>. DEFINE n == buf.frame
<1>1. /\ n \in Nat
      /\ copied \in Nat
      /\ buffer_flag \in BOOLEAN
      /\ buffer1 \in [Index -> Samples] /\ buffer2 \in [Index -> Samples]
  <2>1. n \in Nat
    BY DatagramFields, AudioAssumption DEF AgesInv, TypeInv, UdpTypeOK
  <2>. QED
    BY <2>1 DEF AgesInv, TypeInv, UdpTypeOK, AudioTypeOK
<1>2. Selected \in [Index -> Samples]
  BY <1>1 DEF Selected
<1>3. CASE Recv
  <2>1. upc = "recv" /\ upc' = "copy" /\ UNCHANGED <<buffer_flag, buffer1, buffer2>>
    BY <1>3 DEF Recv, audioVars
  <2>2. buf'.frame = n + 1
    <3>1. mbox # <<>> /\ buf' = Head(mbox) /\ mbox \in Seq(Datagrams)
      BY <1>3 DEF Recv, AgesInv, TypeInv, UdpTypeOK
    <3>2. buf' = mbox[1] /\ 1 \in 1..Len(mbox)
      BY <3>1
    <3>. QED
      BY <3>2 DEF AgesInv, HandledInOrder
  <2>3. Before(buf'.frame) = n
    BY <1>1, <2>2 DEF Before
  <2>4. Aged(Selected, Before(n)) /\ Aged(Other, n)
    BY <2>1 DEF AgesInv, AgesOK
  <2>5. Aged(Selected, n + 1)
    BY <1>1, <1>2, <2>4, AgedLater
  <2>6. Selected' = Selected /\ Other' = Other
    BY <2>1 DEF Selected, Other
  <2>. QED
    BY <2>1, <2>2, <2>3, <2>4, <2>5, <2>6 DEF AgesOK, Aged
<1>4. CASE CopySample
  <2>1. upc = "copy" /\ upc' = "copy" /\ buf' = buf /\ buffer_flag' = buffer_flag
    BY <1>4 DEF CopySample
  <2>2. Aged(Selected, n) /\ Aged(Other, Before(n))
    BY <2>1 DEF AgesInv, AgesOK
  <2>3. Other' = Other
    BY <1>4, <2>1 DEF CopySample, Other
  <2>4. Selected' = [Selected EXCEPT ![copied] = n]
    BY <1>1, <1>4, <2>1 DEF CopySample, Selected
  <2>5. n <= n /\ (n - n) % 2 = 0
    BY <1>1, Z3
  <2>6. ASSUME NEW k \in Index
        PROVE  Selected'[k] = n \/ Selected'[k] = Selected[k]
    BY <1>2, <2>4
  <2>7. Aged(Selected', n)
    BY <2>2, <2>5, <2>6 DEF Aged
  <2>. QED
    BY <2>1, <2>2, <2>3, <2>7 DEF AgesOK, Aged
<1>5. CASE CopyDone
  <2>1. upc = "copy" /\ upc' = "flip" /\ buf' = buf /\ UNCHANGED <<buffer_flag, buffer1, buffer2>>
    BY <1>5 DEF CopyDone
  <2>2. Selected' = Selected /\ Other' = Other
    BY <2>1 DEF Selected, Other
  <2>. QED
    BY <2>1, <2>2 DEF AgesInv, AgesOK, Aged
<1>6. CASE Flip
  <2>1. /\ upc = "flip" /\ upc' = "reset" /\ buf' = buf /\ buffer_flag' = ~buffer_flag
        /\ UNCHANGED <<buffer1, buffer2>>
    BY <1>6 DEF Flip
  <2>2. Selected' = Other /\ Other' = Selected
    BY <1>1, <2>1 DEF Selected, Other
  <2>. QED
    BY <2>1, <2>2 DEF AgesInv, AgesOK, Aged
<1>7. CASE /\ upc \notin {"copy", "flip"} /\ upc' \notin {"copy", "flip"}
           /\ UNCHANGED <<buf, buffer_flag, buffer1, buffer2>>
  <2>1. Selected' = Selected /\ Other' = Other /\ buf' = buf
    BY <1>7 DEF Selected, Other
  <2>. QED
    BY <1>7, <2>1 DEF AgesInv, AgesOK, Aged
<1>8. CASE UNCHANGED playbackVars
  BY <1>8 DEF playbackVars, AgesInv, AgesOK, Selected, Other, Aged
<1>9. CASE CheckPort \/ Bind \/ ConfigAudio \/ ResetIndex \/ PollSelection
  BY <1>7, <1>9 DEF CheckPort, Bind, ConfigAudio, AudioConfig, PIT_ConfigAndStart,
         ResetIndex, PollSelection, audioVars
<1>10. CASE Interrupt \/ SelectPort \/ Datagram \/ UNCHANGED vars
  BY <1>8, <1>10 DEF playbackVars, Interrupt, PIT0_IRQHandler, PIT1_Default, SelectPort, Datagram,
                    Deliver, vars, udpVars, udpLocals, audioVars
<1>. QED
  BY <1>3, <1>4, <1>5, <1>6, <1>9, <1>10 DEF Next, Thread, UDP_thread

\* With datagrams of any length, also shorter and longer than the buffers of
\* Audio.c, every sample that is played is from the datagram its buffer was
\* last filled with or from an earlier one of the same buffer: the copy and
\* the switch of buffer_flag never mix neighbouring datagrams.
THEOREM SamplesInTheirBuffer == Spec => []SamplesKeepTheirBuffer
<1>1. Init => AgesInv
  BY InitTypeInv, InitInOrder, InitAges DEF AgesInv, Init
<1>2. AgesInv /\ [Next]_vars => AgesInv'
  BY NextTypeInv, NextInOrder, NextAges DEF AgesInv
<1>3. AgesInv => SamplesKeepTheirBuffer
  BY DEF AgesInv, AgesOK, Aged, SamplesKeepTheirBuffer
<1>. QED
  BY <1>1, <1>2, <1>3, PTL DEF Spec

=============================================================================
