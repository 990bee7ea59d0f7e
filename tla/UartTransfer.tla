---------------------------- MODULE UartTransfer ----------------------------
(***************************************************************************)
(* The transactional half of the UART driver, drivers/fsl_uart.c: a thread *)
(* that calls the UART_Transfer functions, and UART_TransferHandleIRQ,     *)
(* which interrupts it between any two of its accesses.  The handler is    *)
(* one step.  Characters are numbered as they arrive; the parity error,    *)
(* which the handler treats as it treats the framing error, is left out.   *)
(***************************************************************************)
EXTENDS Integers, Sequences, SequencesExt

CONSTANTS
  FifoSize,                  \* FSL_FEATURE_UART_FIFO_SIZEn
  RingBufferSize,
  XferSizes,                 \* dataSize of the transfers
  MaxChars, MaxXfers         \* bounds: characters that arrive; calls that are made

ASSUME UartAssumption ==
  FifoSize \in Nat \ {0} /\ RingBufferSize \in Nat \ {0, 1} /\ XferSizes \subseteq Nat \ {0}

VARIABLES
  uart,                      \* the registers, the handle and what the program was given
  todo,                      \* what is left of the thread's call: a sequence of accesses
  xfers                      \* calls made so far

uartVars == <<uart, todo, xfers>>

\* c2 is the set of enabled interrupts, old what the thread has read of it; "lossy" says why
\* characters may be missing, "torn" that the handler changed what a call was about to write.
UartInit ==
  /\ uart = [fifo |-> <<>>, FE |-> FALSE, OR |-> FALSE, IDLE |-> FALSE, TCFIFO |-> 0, arrived |-> 0,
             c2 |-> {}, old |-> {}, rxState |-> "RxIdle", txState |-> "TxIdle", rxDataSize |-> 0, txDataSize |-> 0,
             ring |-> FALSE, size |-> 0, head |-> 0, tail |-> 0, buffer |-> [i \in 0..(RingBufferSize - 1) |-> 0],
             got |-> <<>>, lossy |-> FALSE, torn |-> FALSE]
  /\ todo = <<>> /\ xfers = 0

----------------------------------------------------------------------------
(* The ring buffer *)

UART_TransferGetRxRingBufferLength(u) ==
  IF u.tail > u.head THEN u.head + u.size - u.tail ELSE u.head - u.tail
UART_TransferIsRxRingBufferFull(u) == UART_TransferGetRxRingBufferLength(u) = u.size - 1

NextIndex(u, i) == IF i + 1 = u.size THEN 0 ELSE i + 1

\* Seeded fault: a full buffer keeps its oldest byte.
MakeRoom_KeepsTail(u) == u

\* The oldest byte of a full buffer makes room.
MakeRoom(u) ==
  IF UART_TransferIsRxRingBufferFull(u) THEN [u EXCEPT !.tail = NextIndex(u, u.tail), !.lossy = TRUE] ELSE u

ToRing(u, char) ==
  LET r == MakeRoom(u) IN [r EXCEPT !.buffer[r.head] = char, !.head = NextIndex(r, r.head)]

\* One byte from the buffer to the caller.
FromRing(u, i) == [u EXCEPT !.got = Append(@, u.buffer[u.tail]), !.tail = NextIndex(u, u.tail)]

----------------------------------------------------------------------------
(* UART_TransferHandleIRQ *)

RxInterrupts == {"RIE", "ERR"}                \* data, overrun and framing error
ForTransfer == RxInterrupts \cup {"ILIE"}

\* Accesses of the thread: reading and writing C2, and assigning to a field of the handle.
Load == [op |-> "load"]
Store(on, off) == [op |-> "store", on |-> on, off |-> off]
Set(field, value) == [op |-> field, value |-> value]
Drained(u) == [u EXCEPT !.fifo = <<>>, !.lossy = @ \/ u.fifo # <<>>]

\* A framing error ends the transfer; both errors throw away what has come.
AfterErrors(u) ==
  IF u.FE THEN [Drained(u) EXCEPT !.FE = FALSE, !.OR = FALSE, !.rxState = "RxFramingError", !.rxDataSize = 0]
  ELSE IF u.OR THEN [Drained(u) EXCEPT !.OR = FALSE] ELSE u

\* What has come goes to the transfer under way, as far as it asks for it.
ToTransfer(u) ==
  LET n == IF u.rxDataSize < Len(u.fifo) THEN u.rxDataSize ELSE Len(u.fifo)
  IN IF n = 0 THEN u
     ELSE [u EXCEPT !.got = @ \o SubSeq(u.fifo, 1, n), !.fifo = SubSeq(@, n + 1, Len(@)),
                    !.rxDataSize = @ - n, !.rxState = IF u.rxDataSize = n THEN "RxIdle" ELSE @]

AfterIdle(u) ==
  LET t == ToTransfer(u)
      done == u.rxDataSize > 0 /\ t.rxDataSize = 0
      d == IF done THEN [t EXCEPT !.c2 = @ \ RxInterrupts] ELSE t
      e == [Drained(d) EXCEPT !.IDLE = FALSE]
  IN IF u.IDLE /\ "ILIE" \in u.c2 THEN [e EXCEPT !.c2 = IF e.rxDataSize = 0 THEN @ \ {"ILIE"} ELSE @] ELSE u

AfterData(u) ==
  LET t == ToTransfer(u)
  IN IF u.fifo = <<>> \/ "RIE" \notin u.c2 THEN u
     ELSE IF t.ring THEN FoldLeft(ToRing, [t EXCEPT !.fifo = <<>>], t.fifo)
     ELSE IF t.rxDataSize = 0 THEN [t EXCEPT !.c2 = @ \ RxInterrupts] ELSE t

AfterFailure(u) ==
  IF u.rxState = "RxFramingError" /\ ~u.ring THEN [u EXCEPT !.c2 = @ \ ForTransfer] ELSE u

\* The transmitter has room.
AfterSpace(u) ==
  LET n == IF u.txDataSize < FifoSize - u.TCFIFO THEN u.txDataSize ELSE FifoSize - u.TCFIFO
  IN IF "TIE" \notin u.c2 \/ n = 0 THEN u
     ELSE [u EXCEPT !.TCFIFO = @ + n, !.txDataSize = @ - n,
                    !.txState = IF u.txDataSize = n THEN "TxIdle" ELSE @,
                    !.c2 = IF u.txDataSize = n THEN @ \ {"TIE"} ELSE @]

\* The thread is between reading C2 and writing it, between filling in the handle for a transfer and
\* turning its interrupts on, or between setting the ring buffer up and resetting its indexes.
Torn(u, v) ==
  todo # <<>> /\ \/ Head(todo).op = "store" /\ v.c2 # u.c2
                 \/ /\ \E i \in 1..Len(todo) : todo[i] = Set("rxState", "RxBusy") \/ todo[i] = Store(ForTransfer, {})
                    /\ v.rxDataSize # u.rxDataSize \/ v.rxState # u.rxState
                 \/ u.ring /\ v.head # u.head /\ \E i \in 1..Len(todo) : todo[i].op = "indexes"

UART_TransferHandleIRQ ==
  LET v == AfterSpace(AfterFailure(AfterData(AfterIdle(AfterErrors(uart)))))
  IN /\ \/ "RIE" \in uart.c2 /\ uart.fifo # <<>>
        \/ "ILIE" \in uart.c2 /\ uart.IDLE
        \/ "TIE" \in uart.c2 /\ uart.TCFIFO < FifoSize
     /\ uart' = [v EXCEPT !.torn = @ \/ Torn(uart, v)]
     /\ UNCHANGED <<todo, xfers>>

----------------------------------------------------------------------------
(* The thread: a call is a sequence of accesses *)

UART_EnableInterrupts(S) == <<Load, Store(S, {})>>
UART_DisableInterrupts(S) == <<Load, Store({}, S)>>
Arm(n) == <<Set("rxDataSize", n), Set("rxState", "RxBusy")>>

\* The receive interrupt is off: what the ring buffer has is copied, and the rest, if any, waited for.
AfterCopy(n) ==
  LET m == UART_TransferGetRxRingBufferLength(uart)
  IN (IF n > m THEN Arm(n - m) ELSE <<>>) \o UART_EnableInterrupts({"RIE"})

Access(u, a) ==
  CASE a.op = "load" -> [u EXCEPT !.old = u.c2]
    [] a.op = "store" -> [u EXCEPT !.c2 = (u.old \cup a.on) \ a.off, !.old = {}]
    [] a.op = "copy" ->
         LET m == UART_TransferGetRxRingBufferLength(u)
         IN FoldLeft(FromRing, u, [i \in 1..(IF a.value < m THEN a.value ELSE m) |-> i])
    [] a.op = "indexes" -> [u EXCEPT !.head = 0, !.tail = 0, !.lossy = @ \/ u.head # u.tail]
    [] OTHER -> [u EXCEPT ![a.op] = a.value]

ThreadAccess ==
  /\ todo # <<>>
  /\ uart' = Access(uart, Head(todo))
  /\ todo' = IF Head(todo).op = "copy" THEN AfterCopy(Head(todo).value) ELSE Tail(todo)
  /\ UNCHANGED xfers

Call(ops) == todo = <<>> /\ xfers < MaxXfers /\ todo' = ops /\ xfers' = xfers + 1 /\ UNCHANGED uart

UART_TransferSendNonBlocking(n) ==
  /\ uart.txState # "TxBusy"
  /\ Call(<<Set("txDataSize", n), Set("txState", "TxBusy")>> \o UART_EnableInterrupts({"TIE"}))

UART_TransferAbortSend ==
  Call(UART_DisableInterrupts({"TIE"}) \o <<Set("txDataSize", 0), Set("txState", "TxIdle")>>)

Receive(n) ==
  IF uart.ring THEN UART_DisableInterrupts({"RIE"}) \o <<Set("copy", n)>>
  ELSE Arm(n) \o UART_EnableInterrupts(ForTransfer)
UART_TransferReceiveNonBlocking(n) == uart.rxState # "RxBusy" /\ Call(Receive(n))

UART_TransferAbortReceive ==
  Call((IF uart.ring THEN <<>> ELSE UART_DisableInterrupts(ForTransfer))
         \o <<Set("rxDataSize", 0), Set("rxState", "RxIdle")>>)

\* Before any transfer is under way.
UART_TransferStartRingBuffer ==
  /\ ~uart.ring /\ uart.rxState # "RxBusy"
  /\ Call(<<Set("ring", TRUE), Set("size", RingBufferSize), Set("indexes", 0)>> \o UART_EnableInterrupts(RxInterrupts))

\* The buffer goes before its size does.
StopRing == <<Set("ring", FALSE), Set("size", 0), Set("indexes", 0)>>
UART_TransferStopRingBuffer ==
  /\ uart.ring
  /\ Call((IF uart.rxState = "RxIdle" THEN UART_DisableInterrupts(RxInterrupts) ELSE <<>>) \o StopRing)

----------------------------------------------------------------------------
(* The line *)

\* A character; one with a framing error stops the receiver until the error is cleared.
Arrive(bad) ==
  /\ uart.arrived < MaxChars /\ ~uart.FE
  /\ uart' = IF Len(uart.fifo) = FifoSize
               THEN [uart EXCEPT !.arrived = @ + 1, !.OR = TRUE, !.lossy = TRUE]
               ELSE [uart EXCEPT !.arrived = @ + 1, !.fifo = Append(@, uart.arrived + 1), !.FE = bad, !.IDLE = FALSE]
  /\ UNCHANGED <<todo, xfers>>
LineIdle == uart.arrived > 0 /\ ~uart.IDLE /\ uart' = [uart EXCEPT !.IDLE = TRUE] /\ UNCHANGED <<todo, xfers>>
Transmitted == uart.TCFIFO > 0 /\ uart' = [uart EXCEPT !.TCFIFO = @ - 1] /\ UNCHANGED <<todo, xfers>>

UartNext ==
  \/ UART_TransferHandleIRQ \/ ThreadAccess
  \/ \E n \in XferSizes : UART_TransferSendNonBlocking(n) \/ UART_TransferReceiveNonBlocking(n)
  \/ UART_TransferAbortSend \/ UART_TransferAbortReceive
  \/ UART_TransferStartRingBuffer \/ UART_TransferStopRingBuffer
  \/ LineIdle \/ Transmitted \/ \E bad \in BOOLEAN : Arrive(bad)

UartSpec == UartInit /\ [][UartNext]_uartVars

----------------------------------------------------------------------------
(* Properties *)

\* Type invariant: the indexes stay inside the ring buffer, also while it is taken away.
UartTypeOK ==
  /\ uart.torn \/ (uart.head \in 0..(RingBufferSize - 1) /\ uart.tail \in 0..(RingBufferSize - 1))
  /\ uart.TCFIFO \in 0..FifoSize /\ uart.rxDataSize \in Nat /\ uart.txDataSize \in Nat

\* Between calls the states, the sizes and the interrupts that are on agree: a busy transfer has its
\* interrupt, and the transmit interrupt is off without a transfer (it would come again for ever).
\* Only a handler in the middle of an update of the thread ("torn") undoes that.
StatesMatchTransfers ==
  todo = <<>> /\ ~uart.torn =>
    /\ uart.txState = "TxBusy" <=> uart.txDataSize > 0
    /\ uart.txState = "TxBusy" <=> "TIE" \in uart.c2
    /\ uart.rxState = "RxBusy" <=> uart.rxDataSize > 0
    /\ uart.rxState = "RxBusy" => "RIE" \in uart.c2

RingContents == [i \in 1..UART_TransferGetRxRingBufferLength(uart) |-> uart.buffer[(uart.tail + i - 1) % uart.size]]

\* The program gets the characters in the order they came in, and all of them unless an error, an
\* overrun, a full ring buffer or an idle line made the driver throw some away.
CharsInOrder ==
  LET all == uart.got \o (IF uart.size > 0 THEN RingContents ELSE <<>>) \o uart.fifo
  IN todo = <<>> /\ ~uart.torn =>
       /\ \A i, j \in 1..Len(all) : i < j => all[i] < all[j]
       /\ ~uart.lossy => all = [i \in 1..uart.arrived |-> i]

\* The transfers of fsl_uart.c as a whole: indexes inside the ring buffer, states that agree with the
\* sizes and interrupts, characters in order and complete.
UartSound == UartTypeOK /\ StatesMatchTransfers /\ CharsInOrder
============================================================================
