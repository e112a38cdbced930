---------------------------- MODULE SerialInput ----------------------------
(***************************************************************************)
(* Serial input, from the UART to the shell: the receive interrupt and the *)
(* ring buffer of src/stdio.rs, and the main loop of src/main.rs that      *)
(* sleeps with hlt and reads the ring when it wakes.                       *)
(*                                                                         *)
(* The main loop and the interrupt handler share the ring under the lock   *)
(* of SERIAL_INPUT, which masks interrupts, so a push and a pop are single *)
(* steps; the UART goes on receiving between any two of them.              *)
(*                                                                         *)
(* init_serial_interrupts sets the receive threshold: the UART raises its  *)
(* interrupt line when it holds that many bytes, or when fewer wait and    *)
(* none has come or been read for a while.  The line stays up until they   *)
(* are read, and the PIC, in edge mode, sees only its rise.                *)
(***************************************************************************)
EXTENDS Naturals, Sequences

CONSTANTS
  Capacity,    \* SERIAL_INPUT_CAPACITY
  Bytes,
  FifoSize,    \* bytes the UART holds; more are lost on the line
  Threshold    \* bytes that raise the interrupt line (14 of 16: COM1_FCR)

ASSUME CapacityAssumption == Capacity \in Nat /\ Capacity > 1
ASSUME FifoAssumption ==
  FifoSize \in Nat \ {0} /\ Threshold \in 1..FifoSize /\ Bytes # {}

VARIABLES
  buf, head, tail,   \* SerialInput
  fifo,              \* received by the UART, not yet read from COM1_DATA
  timeout,           \* the UART's character timeout is pending
  irq,               \* the PIC has a request of IRQ 4
  handler,           \* handle_serial_rx_interrupt is running
  main               \* the main loop: "sleep" (before hlt), "halt", "poll",
                     \* "read" or "handle"

ring == <<buf, head, tail>>
serialVars == <<ring, fifo, timeout, irq, handler, main>>

Slots == 0..(Capacity - 1)

SerialInit ==
  /\ \E b \in Bytes : buf = [i \in Slots |-> b]
  /\ head = 0 /\ tail = 0
  /\ fifo = <<>> /\ timeout = FALSE
  /\ irq = FALSE /\ handler = FALSE
  /\ main = "sleep"

Inc(i) == (i + 1) % Capacity

\* The UART's interrupt line, for the bytes it holds and its timeout.
Raised(bytes, expired) == Len(bytes) >= Threshold \/ expired

\* The PIC keeps the rise of the line until the interrupt is taken.
LatchRise(bytes, expired) ==
  irq' = (irq \/ (Raised(bytes, expired) /\ ~Raised(fifo, timeout)))

Receive(b) ==
  /\ Len(fifo) < FifoSize
  /\ fifo' = Append(fifo, b)
  /\ LatchRise(fifo', timeout)
  /\ UNCHANGED <<ring, timeout, handler, main>>

\* Bytes below the threshold have waited for four character times.
CharTimeout ==
  /\ fifo # <<>> /\ ~timeout
  /\ timeout' = TRUE
  /\ LatchRise(fifo, TRUE)
  /\ UNCHANGED <<ring, fifo, handler, main>>

\* hlt ends with any interrupt that is taken; one that comes just before
\* hlt does not keep the main loop from it.
Woken == IF main = "halt" THEN "poll" ELSE main

SerialIrq ==
  /\ irq /\ ~handler
  /\ irq' = FALSE
  /\ handler' = TRUE
  /\ main' = Woken
  /\ UNCHANGED <<ring, fifo, timeout>>

\* Mutant of TimerIrq: hlt goes on after it.
TimerIrqAsleep ==
  /\ ~handler
  /\ UNCHANGED serialVars

\* The timer interrupt, as far as the main loop is concerned.
TimerIrq ==
  /\ ~handler
  /\ main' = Woken
  /\ UNCHANGED <<ring, fifo, timeout, irq, handler>>

\* Reading COM1_DATA takes the oldest byte and ends the timeout.  When the
\* line falls so, the PIC may drop a rise that came meanwhile.
ReadData ==
  /\ fifo' = Tail(fifo)
  /\ timeout' = FALSE
  /\ irq' \in {irq, irq /\ Raised(fifo', FALSE)}

\* Mutant of Push: a full ring is not noticed.
PushFull ==
  /\ handler /\ fifo # <<>>
  /\ buf' = [buf EXCEPT ![tail] = Head(fifo)]
  /\ tail' = Inc(tail)
  /\ ReadData
  /\ UNCHANGED <<head, handler, main>>

\* The handler pushes while there is data; a full ring gives up its oldest
\* byte.
Push ==
  /\ handler /\ fifo # <<>>
  /\ head' = IF Inc(tail) = head THEN Inc(head) ELSE head
  /\ buf' = [buf EXCEPT ![tail] = Head(fifo)]
  /\ tail' = Inc(tail)
  /\ ReadData
  /\ UNCHANGED <<handler, main>>

\* Mutant of HandlerReturns: one byte per interrupt.
HandlerReturnsEarly ==
  /\ handler
  /\ handler' = FALSE
  /\ UNCHANGED <<ring, fifo, timeout, irq, main>>

\* No more data: end of interrupt, iretq.
HandlerReturns ==
  /\ handler /\ fifo = <<>>
  /\ handler' = FALSE
  /\ UNCHANGED <<ring, fifo, timeout, irq, main>>

Hlt ==
  /\ ~handler /\ main = "sleep"
  /\ main' = "halt"
  /\ UNCHANGED <<ring, fifo, timeout, irq, handler>>

\* poll_jobs, which does not touch the input.
Poll ==
  /\ ~handler /\ main = "poll"
  /\ main' = "read"
  /\ UNCHANGED <<ring, fifo, timeout, irq, handler>>

\* read_serial_byte: a byte for handle_byte, or back to the hlt.
Pop ==
  /\ ~handler /\ main = "read"
  /\ IF head = tail THEN main' = "sleep" /\ UNCHANGED ring
     ELSE main' = "handle" /\ head' = Inc(head) /\ UNCHANGED <<buf, tail>>
  /\ UNCHANGED <<fifo, timeout, irq, handler>>

HandleByte ==
  /\ ~handler /\ main = "handle"
  /\ main' = "read"
  /\ UNCHANGED <<ring, fifo, timeout, irq, handler>>

MainLoop == Hlt \/ Poll \/ Pop \/ HandleByte

SerialNext ==
  \/ \E b \in Bytes : Receive(b)
  \/ CharTimeout
  \/ SerialIrq \/ TimerIrq \/ Push \/ HandlerReturns \/ MainLoop

SerialSpec == SerialInit /\ [][SerialNext]_serialVars

\* At 115200 baud bytes come slower than the handler reads them: it catches
\* up with the UART again and again.
LineIsSlow == []<>(handler => fifo = <<>>)

\* Bytes that wait time out, interrupts that are requested are taken, and
\* the timer ticks for ever; the main loop, which they interrupt, goes on.
FairSerialSpec ==
  /\ SerialSpec
  /\ WF_serialVars(CharTimeout)
  /\ SF_serialVars(SerialIrq) /\ SF_serialVars(main = "halt" /\ TimerIrq)
  /\ WF_serialVars(Push) /\ SF_serialVars(HandlerReturns) /\ SF_serialVars(MainLoop)
  /\ LineIsSlow

-----------------------------------------------------------------------------
\* The bytes in the ring, oldest first.
Contents ==
  [i \in 1..((tail + Capacity - head) % Capacity) |-> buf[(head + i - 1) % Capacity]]

\* No rise of the line is lost: while it is up the interrupt is requested or
\* the handler is at work.  A handler that returned with the line still up
\* would be the last one, for the line could not rise again.
LineAnswered == Raised(fifo, timeout) => irq \/ handler

LQ == INSTANCE LossyQueue WITH Size <- Capacity - 1, queue <- Contents

\* The ring is a queue that keeps the newest Capacity - 1 bytes in order,
\* across every wrap of head and tail.
ImplementsLossyQueue == LQ!LQSpec

\* Input is handled: while the UART or the ring holds bytes the shell comes
\* to handle one, also when they are fewer than the threshold, and although
\* the last may have arrived between a read_serial_byte that found none and
\* the hlt.
InputHandled == head # tail \/ fifo # <<>> ~> main = "handle"
=============================================================================
