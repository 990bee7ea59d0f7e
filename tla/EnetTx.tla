------------------------------- MODULE EnetTx -------------------------------
(***************************************************************************)
(* The way of a frame that is sent: low_level_output of port/ethernetif.c, *)
(* which runs under the core lock, the descriptor ring shared with the DMA *)
(* (drivers/fsl_enet.c), the transmit interrupt and the event group the    *)
(* sender waits for.  FreeRTOS sets the bits of an event group from an     *)
(* interrupt by its timer task, through a queue of limited length.         *)
(***************************************************************************)
EXTENDS Integers, Sequences

CONSTANTS
  ENET_TXBD_NUM,             \* descriptors of the ring
  configTIMER_QUEUE_LENGTH,
  MaxTxFrames

ASSUME EnetTxAssumption ==
  ENET_TXBD_NUM \in Nat \ {0} /\ configTIMER_QUEUE_LENGTH \in Nat \ {0} /\ MaxTxFrames \in Nat

VARIABLES
  txReady,                   \* the frame of each descriptor that is ready, 0 for none
  txBdCurrent, txDma,        \* the next descriptor of the driver and of the DMA
  txEir,                     \* TXF or TXB of the event register is set
  txIsr,                     \* whether the handler is between acknowledge and callback
  timerQueue,                \* xEventGroupSetBits requests the timer task has not seen
  txFlag,                    \* the bit of enetTransmitAccessEvent
  sender,                    \* [pc, frame]: the thread with the core lock
  onWire                     \* what has been transmitted

txVars == <<txReady, txBdCurrent, txDma, txEir, txIsr, timerQueue, txFlag, sender, onWire>>

TxBds == 0..(ENET_TXBD_NUM - 1)
NextTx(k) == (k + 1) % ENET_TXBD_NUM

EnetTxInit ==
  /\ txReady = [k \in TxBds |-> 0] /\ txBdCurrent = 0 /\ txDma = 0
  /\ txEir = FALSE /\ txIsr = FALSE /\ timerQueue = 0 /\ txFlag = FALSE
  /\ sender = [pc |-> "idle", frame |-> 0] /\ onWire = <<>>

\* low_level_output is called with the next frame.
low_level_output ==
  /\ sender.pc = "idle" /\ sender.frame < MaxTxFrames
  /\ sender' = [pc |-> "send", frame |-> sender.frame + 1]
  /\ UNCHANGED <<txReady, txBdCurrent, txDma, txEir, txIsr, timerQueue, txFlag, onWire>>

TxFrameBusy == txReady[txBdCurrent] # 0

\* ENET_SendFrame: the frame is copied, the descriptor handed over and the DMA told (TDAR).
ENET_SendFrame ==
  /\ sender.pc = "send"
  /\ IF TxFrameBusy
       THEN sender' = [sender EXCEPT !.pc = "busy"] /\ UNCHANGED <<txReady, txBdCurrent>>
       ELSE /\ txReady' = [txReady EXCEPT ![txBdCurrent] = sender.frame]
            /\ txBdCurrent' = NextTx(txBdCurrent)
            /\ sender' = [sender EXCEPT !.pc = "idle"]
  /\ UNCHANGED <<txDma, txEir, txIsr, timerQueue, txFlag, onWire>>

\* Seeded fault: the bit is cleared before the wait instead of after it.
BeginWait_Clears ==
  /\ sender.pc = "busy" /\ sender' = [sender EXCEPT !.pc = "wait"] /\ txFlag' = FALSE
  /\ UNCHANGED <<txReady, txBdCurrent, txDma, txEir, txIsr, timerQueue, onWire>>

\* xEventGroupWaitBits begins, after the status was seen.
BeginWait ==
  /\ sender.pc = "busy" /\ sender' = [sender EXCEPT !.pc = "wait"]
  /\ UNCHANGED <<txReady, txBdCurrent, txDma, txEir, txIsr, timerQueue, txFlag, onWire>>

\* It ends with the bit cleared, and the frame is tried again.
EndWait ==
  /\ sender.pc = "wait" /\ txFlag
  /\ txFlag' = FALSE /\ sender' = [sender EXCEPT !.pc = "send"]
  /\ UNCHANGED <<txReady, txBdCurrent, txDma, txEir, txIsr, timerQueue, onWire>>

\* The DMA transmits the next descriptor and gives it back.
Transmit ==
  /\ txReady[txDma] # 0
  /\ onWire' = Append(onWire, txReady[txDma])
  /\ txReady' = [txReady EXCEPT ![txDma] = 0] /\ txDma' = NextTx(txDma) /\ txEir' = TRUE
  /\ UNCHANGED <<txBdCurrent, txIsr, timerQueue, txFlag, sender>>

\* ENET_TransmitIRQHandler acknowledges the event,
ENET_TransmitIRQHandler ==
  /\ txEir /\ ~txIsr /\ txEir' = FALSE /\ txIsr' = TRUE
  /\ UNCHANGED <<txReady, txBdCurrent, txDma, timerQueue, txFlag, sender, onWire>>

\* and ethernet_callback asks the timer task to set the bit: a full queue takes nothing.
ethernet_callback ==
  /\ txIsr /\ txIsr' = FALSE
  /\ timerQueue' = IF timerQueue < configTIMER_QUEUE_LENGTH THEN timerQueue + 1 ELSE timerQueue
  /\ UNCHANGED <<txReady, txBdCurrent, txDma, txEir, txFlag, sender, onWire>>

\* The timer task, which no interrupt handler lets run.
SetBits ==
  /\ timerQueue > 0 /\ ~txIsr
  /\ timerQueue' = timerQueue - 1 /\ txFlag' = TRUE
  /\ UNCHANGED <<txReady, txBdCurrent, txDma, txEir, txIsr, sender, onWire>>

SenderSteps == ENET_SendFrame \/ BeginWait \/ EndWait
Interrupts == ENET_TransmitIRQHandler \/ ethernet_callback
EnetTxNext == low_level_output \/ SenderSteps \/ Transmit \/ Interrupts \/ SetBits

EnetTxSpec == EnetTxInit /\ [][EnetTxNext]_txVars

----------------------------------------------------------------------------
(* Properties *)

\* Type invariant: the queue of the timer task is never longer than it may be.
EnetTxTypeOK ==
  /\ txReady \in [TxBds -> 0..MaxTxFrames] /\ txBdCurrent \in TxBds /\ txDma \in TxBds
  /\ timerQueue \in 0..configTIMER_QUEUE_LENGTH /\ txFlag \in BOOLEAN
  /\ onWire \in Seq(1..MaxTxFrames)

\* Every frame goes out once, whole and in the order it was sent, however far the DMA is behind.
SentOnceInOrder == \A k \in DOMAIN onWire : onWire[k] = k

\* low_level_output comes back, and with it the core lock: a bit left over from an earlier frame
\* wakes the sender for nothing, a bit set between the look at the ring and the wait is not lost,
\* and a request the full queue of the timer task refuses is made good by those in the queue.
SendReturns == sender.pc # "idle" ~> sender.pc = "idle"

\* Transmission as a whole: frames go out once and in order, and low_level_output comes back.
FramesAreSent == [](EnetTxTypeOK /\ SentOnceInOrder) /\ SendReturns
=============================================================================
