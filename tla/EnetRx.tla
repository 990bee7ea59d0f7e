------------------------------- MODULE EnetRx -------------------------------
(***************************************************************************)
(* The way of a received frame: the descriptor ring shared with the DMA    *)
(* (drivers/fsl_enet.c), the interrupt handler that empties it             *)
(* (port/ethernetif.c), the pool of pbufs, the mailbox of the tcpip thread *)
(* (api/tcpip.c, port/sys_arch.c) and that thread.                         *)
(***************************************************************************)
EXTENDS Integers, Sequences, FiniteSets

CONSTANTS
  ENET_RXBD_NUM,          \* descriptors of the ring
  FrameBuffers,           \* how many receive buffers a frame may fill
  PBUF_POOL_SIZE, TCPIP_MBOX_SIZE, MEMP_NUM_TCPIP_MSG_INPKT,
  MaxRxFrames             \* frames that reach the ring

ASSUME EnetRxAssumption ==
  /\ ENET_RXBD_NUM \in Nat \ {0} /\ FrameBuffers \subseteq 1..ENET_RXBD_NUM
  /\ PBUF_POOL_SIZE \in Nat /\ TCPIP_MBOX_SIZE \in Nat \ {0} /\ MEMP_NUM_TCPIP_MSG_INPKT \in Nat
  /\ MaxRxFrames \in Nat

VARIABLES
  rxBd,                   \* the descriptors: [empty, last, err, frame, size]
  rxBdCurrent,            \* the next one the driver reads
  dma,                    \* [at, frame, size, left]: where the DMA writes, what and how much is left
  rxEir,                  \* RXF or RXB of the event register is set
  rxIsr,                  \* the interrupt handler
  poolFree,               \* free pbufs of PBUF_POOL
  inpktFree,              \* free elements of MEMP_TCPIP_MSG_INPKT
  tcpipMbox,              \* messages of the mailbox: the frame and its size
  taken,                  \* the messages the thread has taken, in order
  inHand                  \* what it works on

rxVars == <<rxBd, rxBdCurrent, dma, rxEir, rxIsr, poolFree, inpktFree, tcpipMbox, taken, inHand>>

Bds == 0..(ENET_RXBD_NUM - 1)
After(k) == (k + 1) % ENET_RXBD_NUM       \* the wrap bit is set in the last descriptor
EmptyBd == [empty |-> TRUE, last |-> FALSE, err |-> FALSE, frame |-> 0, size |-> 0]

\* ENET_SetRxBufferDescriptors, ENET_ActiveRead.
EnetRxInit ==
  /\ rxBd = [k \in Bds |-> EmptyBd] /\ rxBdCurrent = 0
  /\ dma = [at |-> 0, frame |-> 0, size |-> 0, left |-> 0]
  /\ rxEir = FALSE
  /\ rxIsr = [pc |-> "idle", discarded |-> FALSE]
  /\ poolFree = PBUF_POOL_SIZE /\ inpktFree = MEMP_NUM_TCPIP_MSG_INPKT
  /\ tcpipMbox = <<>> /\ taken = <<>> /\ inHand = <<>>

----------------------------------------------------------------------------
(* The DMA *)

\* A frame begins; without an empty descriptor it is lost in the FIFO and changes nothing here.
FrameBegins(size) ==
  /\ dma.left = 0 /\ dma.frame < MaxRxFrames /\ rxBd[dma.at].empty
  /\ dma' = [dma EXCEPT !.frame = @ + 1, !.size = size, !.left = size]
  /\ UNCHANGED <<rxBd, rxBdCurrent, rxEir, rxIsr, poolFree, inpktFree, tcpipMbox, taken, inHand>>

\* The DMA closes a descriptor; the last one of a frame tells whether it is damaged.
BufferFilled(err) ==
  /\ dma.left > 0 /\ rxBd[dma.at].empty /\ (err => dma.left = 1)
  /\ rxBd' = [rxBd EXCEPT ![dma.at] = [empty |-> FALSE, last |-> dma.left = 1, err |-> err,
                                       frame |-> dma.frame, size |-> dma.size]]
  /\ dma' = [dma EXCEPT !.left = @ - 1, !.at = After(@)]
  /\ rxEir' = TRUE
  /\ UNCHANGED <<rxBdCurrent, rxIsr, poolFree, inpktFree, tcpipMbox, taken, inHand>>

----------------------------------------------------------------------------
(* The driver, in the interrupt *)

\* Descriptors from k on, once around the ring.
Around(k) == [j \in 1..ENET_RXBD_NUM |-> (k + j - 1) % ENET_RXBD_NUM]

\* ENET_GetRxFrameSize: the first closed descriptor with the last-bit, up to an empty one or not.
ENET_GetRxFrameSize ==
  LET ring == Around(rxBdCurrent)
      ends == {j \in DOMAIN ring : rxBd[ring[j]].last /\ ~rxBd[ring[j]].empty}
      end == CHOOSE j \in ends : \A i \in ends : j <= i
  IN IF rxBd[rxBdCurrent].empty \/ ends = {} THEN [status |-> "Empty", bd |-> EmptyBd]
     ELSE IF rxBd[ring[end]].err THEN [status |-> "Error", bd |-> rxBd[ring[end]]]
     ELSE [status |-> "Success", bd |-> rxBd[ring[end]]]

\* ENET_ReadFrame: descriptors are given back by ENET_UpdateReadBuffers until one with the last-bit.
\* The copy of the data is the frame of each descriptor.
ReadTo ==
  LET ring == Around(rxBdCurrent)
  IN CHOOSE j \in DOMAIN ring :
       /\ rxBd[ring[j]].last \/ j = ENET_RXBD_NUM
       /\ \A i \in 1..(j - 1) : ~rxBd[ring[i]].last
Copied == {rxBd[Around(rxBdCurrent)[j]].frame : j \in 1..ReadTo}

ENET_ReadFrame ==
  /\ rxBd' = [k \in Bds |-> IF \E j \in 1..ReadTo : Around(rxBdCurrent)[j] = k THEN EmptyBd ELSE rxBd[k]]
  /\ rxBdCurrent' = After(Around(rxBdCurrent)[ReadTo])

\* ENET_ReceiveIRQHandler: the event is acknowledged before the ring is looked at.
ENET_ReceiveIRQHandler ==
  /\ rxIsr.pc = "idle" /\ rxEir
  /\ rxEir' = FALSE /\ rxIsr' = [pc |-> "input", discarded |-> FALSE]
  /\ UNCHANGED <<rxBd, rxBdCurrent, dma, poolFree, inpktFree, tcpipMbox, taken, inHand>>

\* The loop of ethernetif_input ends at an empty ring.
EndInput ==
  /\ rxIsr' = [rxIsr EXCEPT !.pc = "done"]
  /\ UNCHANGED <<rxBd, rxBdCurrent, dma, rxEir, poolFree, inpktFree, tcpipMbox, taken, inHand>>

\* Seeded fault: the event is acknowledged when the ring has been emptied.
HandlerLoops_Acknowledges ==
  /\ rxIsr.pc = "done" /\ rxIsr' = [rxIsr EXCEPT !.pc = "idle"] /\ rxEir' = FALSE
  /\ UNCHANGED <<rxBd, rxBdCurrent, dma, poolFree, inpktFree, tcpipMbox, taken, inHand>>

\* The handler looks at the event again.
HandlerLoops ==
  /\ rxIsr.pc = "done" /\ rxIsr' = [rxIsr EXCEPT !.pc = "idle"]
  /\ UNCHANGED <<rxBd, rxBdCurrent, dma, rxEir, poolFree, inpktFree, tcpipMbox, taken, inHand>>

\* A frame that is damaged, or for which pbuf_alloc finds no memory, is thrown away. Either ends
\* the loop.
Discard ==
  /\ ENET_ReadFrame
  /\ rxIsr' = [pc |-> "done", discarded |-> TRUE]
  /\ UNCHANGED <<dma, rxEir, poolFree, inpktFree, tcpipMbox, taken, inHand>>

\* The frame is copied into a chain of pbufs and posted by tcpip_input; without an element or
\* without room in the mailbox it is freed again.
DeliverFrame(bd) ==
  LET room == inpktFree > 0 /\ Len(tcpipMbox) < TCPIP_MBOX_SIZE
  IN /\ ENET_ReadFrame
     /\ poolFree' = IF room THEN poolFree - bd.size ELSE poolFree
     /\ inpktFree' = IF room THEN inpktFree - 1 ELSE inpktFree
     /\ tcpipMbox' = IF room THEN Append(tcpipMbox, [frames |-> Copied, size |-> bd.size]) ELSE tcpipMbox
     /\ UNCHANGED <<dma, rxEir, rxIsr, taken, inHand>>

\* pbuf_alloc of a chain from the pool: all of it or nothing.
Allocates(bd) == bd.size <= poolFree

\* One turn of ethernetif_input: low_level_input and netif->input.
ethernetif_input ==
  /\ rxIsr.pc = "input"
  /\ LET size == ENET_GetRxFrameSize
     IN \/ size.status = "Empty" /\ EndInput
        \/ size.status = "Error" /\ Discard
        \/ size.status = "Success" /\ ~Allocates(size.bd) /\ Discard
        \/ size.status = "Success" /\ Allocates(size.bd) /\ DeliverFrame(size.bd)

----------------------------------------------------------------------------
(* tcpip_thread *)

FetchMsg ==
  /\ inHand = <<>> /\ tcpipMbox # <<>> /\ rxIsr.pc = "idle"
  /\ inHand' = <<Head(tcpipMbox)>> /\ tcpipMbox' = Tail(tcpipMbox)
  /\ taken' = Append(taken, Head(tcpipMbox))
  /\ UNCHANGED <<rxBd, rxBdCurrent, dma, rxEir, rxIsr, poolFree, inpktFree>>

\* ethernet_input, which frees the pbufs in the end, and memp_free of the message.
InputDone ==
  /\ inHand # <<>> /\ rxIsr.pc = "idle"
  /\ poolFree' = poolFree + inHand[1].size /\ inpktFree' = inpktFree + 1 /\ inHand' = <<>>
  /\ UNCHANGED <<rxBd, rxBdCurrent, dma, rxEir, rxIsr, tcpipMbox, taken>>

EnetRxWork == ENET_ReceiveIRQHandler \/ ethernetif_input \/ HandlerLoops \/ FetchMsg \/ InputDone
EnetRxNext ==
  \/ \E size \in FrameBuffers : FrameBegins(size)
  \/ \E err \in BOOLEAN : BufferFilled(err)
  \/ EnetRxWork

EnetRxSpec == EnetRxInit /\ [][EnetRxNext]_rxVars

----------------------------------------------------------------------------
(* Properties *)

\* Type invariant: the pointers stay in the ring, the pools and the mailbox within their sizes.
EnetRxTypeOK ==
  /\ rxBdCurrent \in Bds /\ dma.at \in Bds /\ rxEir \in BOOLEAN
  /\ poolFree \in 0..PBUF_POOL_SIZE /\ inpktFree \in 0..MEMP_NUM_TCPIP_MSG_INPKT
  /\ Len(tcpipMbox) <= TCPIP_MBOX_SIZE

\* Driver and DMA never disagree on who owns a descriptor: those between the two pointers, and no
\* others, are closed, hold consecutive frames in the order of arrival, and the DMA is not behind
\* the driver.
RingIsConsistent ==
  LET ring == Around(rxBdCurrent)
      closed == {j \in DOMAIN ring : ~rxBd[ring[j]].empty}
  IN /\ closed = 1..Cardinality(closed)
     /\ dma.at = (rxBdCurrent + Cardinality(closed)) % ENET_RXBD_NUM
     /\ \A j \in closed \ {1} :
          rxBd[ring[j]].frame = rxBd[ring[j - 1]].frame + (IF rxBd[ring[j - 1]].last THEN 1 ELSE 0)

\* The stack gets whole frames, in the order of arrival and none twice: no mixture of the buffers
\* of two frames, although frames are thrown away for four reasons in between.
FramesWholeAndInOrder ==
  LET seen == taken \o tcpipMbox
  IN /\ \A k \in DOMAIN seen : Cardinality(seen[k].frames) = 1
     /\ \A k \in 2..Len(seen) : \A f \in seen[k].frames, g \in seen[k - 1].frames : f > g

\* No pbuf and no message element is lost, however a frame leaves.
ReceiveMemoryAccounted ==
  LET msgs == tcpipMbox \o inHand
      sum[n \in 0..Len(msgs)] == IF n = 0 THEN 0 ELSE sum[n - 1] + msgs[n].size
  IN /\ poolFree + sum[Len(msgs)] = PBUF_POOL_SIZE
     /\ inpktFree + Len(msgs) = MEMP_NUM_TCPIP_MSG_INPKT

\* A complete frame is not forgotten in the ring: it is being read or an event is pending. The one
\* exception is the loop of ethernetif_input that ended at a frame it threw away; what is behind
\* that frame waits for the next event.
NoFrameForgotten ==
  (rxIsr.pc = "idle" /\ ~rxEir /\ ~rxIsr.discarded) => ENET_GetRxFrameSize.status = "Empty"

\* Reception as a whole: driver and DMA agree on the ring, frames come whole and in order, memory is
\* given back, and no frame waits without an event.
ReceiveSound ==
  /\ EnetRxTypeOK /\ RingIsConsistent /\ FramesWholeAndInOrder
  /\ ReceiveMemoryAccounted /\ NoFrameForgotten
=============================================================================
