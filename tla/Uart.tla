-------------------------------- MODULE Uart --------------------------------
(* The UART driver of drivers/uart.c: threads that print, one thread that   *)
(* reads a line, and uart_intr, which echoes what is typed.  A step is a    *)
(* section between cli and sti, or one access outside them.  uputc ends     *)
(* with sti wherever it is called, so that the rest of an interrupt handler *)
(* is a frame that other interrupts and other threads get ahead of.         *)
(*                                                                          *)
(* The device and the PIC are external.  uart_init enables the FIFOs of the *)
(* device and its transmitter's and line-status interrupts.  The interrupt  *)
(* line is high while a source that IER enables is pending; pic_init        *)
(* programs the PIC to latch its rising edges.  Framing errors and breaks,  *)
(* which would raise a line status as an overrun does, are left out, and so *)
(* is the buffer of ugets, which no decision depends on but that of moving  *)
(* back in it.                                                              *)
EXTENDS Integers, Sequences, FiniteSets

CONSTANTS
    Threads,
    Readers,    \* the thread that calls ugets
    Chars,      \* what threads print
    Keys,       \* what is typed
    None,       \* no character
    BUF_SIZE,
    FIFO_SIZE,  \* characters the device keeps until they are read
    MaxLen,     \* bound: nothing is printed or typed with so much waiting
    MaxFrames   \* bound: nothing is typed with so many echoes unfinished

ASSUME UartAssumption ==
    /\ Readers \subseteq Threads /\ \A s, t \in Readers : s = t
    /\ BUF_SIZE \in Nat \ {0} /\ FIFO_SIZE \in Nat \ {0}
    /\ MaxLen \in Nat /\ MaxFrames \in Nat
    /\ MaxLen + 3 * (MaxFrames + 1) < 65536     \* ilen and olen are uint16_t
    /\ None \notin Chars \cup Keys \cup {"LF", "BS", "SP"}

VARIABLES
    u,          \* uart_t, and the device's registers
    irr,        \* the PIC has latched an interrupt
    reader,     \* where each thread is in ugets, and the IER it has read
    frames,     \* per thread, what its interrupted echoes have still to print
    lost        \* history: what is pending has no edge left to be latched

vars == <<u, irr, reader, frames, lost>>

-----------------------------------------------------------------------------
(* The ring buffers.                                                        *)

Empty == [buf |-> [i \in 0 .. BUF_SIZE - 1 |-> None], head |-> 0, tail |-> 0, len |-> 0]

\* Mutated Push: the index is not advanced.
Push_same(r, c) == [r EXCEPT !.buf[r.tail] = c, !.len = @ + 1]

\* Mutated Push: the index is not taken modulo the size.
Push_past(r, c) == [r EXCEPT !.buf[r.tail] = c, !.tail = @ + 1, !.len = @ + 1]

\* The length, a uint16_t, stays below 65536 by UartAssumption.
Push(r, c) == [r EXCEPT !.buf[r.tail] = c, !.tail = (@ + 1) % BUF_SIZE, !.len = @ + 1]

Pop(r) == [r EXCEPT !.head = (@ + 1) % BUF_SIZE, !.len = @ - 1]

First(r) == r.buf[r.head]

-----------------------------------------------------------------------------
(* The device: thr is the character being sent, thre the pending interrupt  *)
(* that it was sent, rbr what was received and not read, ls a line status.  *)

\* uart_init: two interrupts are enabled; the transmitter's register is empty.
Init ==
    /\ u = [tx_on |-> FALSE, in |-> Empty, out |-> Empty,
            ier |-> {"tx", "ls"}, thr |-> None, thre |-> TRUE, rbr |-> <<>>, ls |-> FALSE]
    /\ irr = TRUE
    /\ reader = [t \in Threads |-> [at |-> "idle", ier |-> {}]]
    /\ frames = [t \in Threads |-> <<>>]
    /\ lost = FALSE

LsPending(v) == "ls" \in v.ier /\ v.ls
RxPending(v) == "rx" \in v.ier /\ v.rbr # <<>>
TxPending(v) == "tx" \in v.ier /\ v.thre
Line(v) == LsPending(v) \/ RxPending(v) \/ TxPending(v)

\* A rising edge is latched.
Latch == irr' = (irr \/ (Line(u)' /\ ~Line(u)))

Sent ==
    /\ u.thr # None
    /\ u' = [u EXCEPT !.thr = None, !.thre = TRUE]
    /\ Latch /\ UNCHANGED <<reader, frames, lost>>

Unfinished == UNION {{t} \X DOMAIN frames[t] : t \in Threads}

\* A character arrives, whether reception is enabled or not; a full FIFO
\* drops it, and the line status says so.
Typed(c) ==
    /\ u.in.len + Len(u.rbr) < MaxLen /\ u.out.len + Len(u.rbr) < MaxLen
    /\ Cardinality(Unfinished) < MaxFrames
    /\ u' = IF Len(u.rbr) < FIFO_SIZE THEN [u EXCEPT !.rbr = Append(@, c)]
            ELSE [u EXCEPT !.ls = TRUE]
    /\ Latch /\ UNCHANGED <<reader, frames, lost>>

\* Writing IER; enabling the transmitter's interrupt with an empty register
\* makes it pending.
SetIer(v, s) ==
    [v EXCEPT !.ier = s, !.thre = @ \/ ("tx" \in s /\ "tx" \notin v.ier /\ v.thr = None)]

-----------------------------------------------------------------------------
(* uputc and the interrupt.                                                 *)

\* Mutated Putc: the transmitter's interrupt stays off.
Putc_disabled(v, c) ==
    IF v.tx_on THEN [v EXCEPT !.out = Push(@, c)]
    ELSE [v EXCEPT !.tx_on = TRUE, !.thr = c, !.thre = FALSE]

\* uputc between cli and sti.
Putc(v, c) ==
    IF v.tx_on THEN [v EXCEPT !.out = Push(@, c)]
    ELSE [SetIer([v EXCEPT !.tx_on = TRUE], v.ier \cup {"tx"})
            EXCEPT !.thr = c, !.thre = FALSE]

\* The short pulse between the two writes of uputc may be latched.
Pulse == IF u.tx_on THEN {} ELSE {TRUE}

uputc(t, c) ==
    /\ frames[t] = <<>> /\ reader[t].at = "idle" /\ u.out.len < MaxLen
    /\ u' = Putc(u, c)
    /\ irr' \in {irr} \cup Pulse
    /\ UNCHANGED <<reader, frames, lost>>

\* What is printed for a key.
Echo(c) == CASE c = "CR" -> <<"LF">> [] c = "DEL" -> <<"BS", "SP", "BS">> [] OTHER -> <<c>>

\* IIR names a line status.  No branch answers it, and nothing reads LSR: the
\* line stays high.
LineStatus ==
    /\ LsPending(u)
    /\ irr' = FALSE /\ lost' = TRUE
    /\ UNCHANGED <<u, frames>>

\* One character is read, however many were received.  If the line is still
\* high at the end there is no edge any more.
Receive(t) ==
    LET c == Head(u.rbr)
        e == Echo(c)
        v == [u EXCEPT !.rbr = Tail(@), !.in = Push(@, c)]
    IN /\ ~LsPending(u) /\ RxPending(u)
       /\ u' = Putc(v, Head(e))
       /\ frames' = [frames EXCEPT ![t] = IF Len(e) = 1 THEN @ ELSE <<Tail(e)>> \o @]
       /\ lost' = Line(u)'
       /\ irr' \in {FALSE} \cup Pulse

\* Mutated Spent: the last character is taken for none.
Spent_early(r) == r.len <= 1

Spent(r) == r.len <= 0

\* A character was sent; reading IIR has cleared the interrupt.
Transmit ==
    /\ ~LsPending(u) /\ ~RxPending(u) /\ TxPending(u)
    /\ u' = IF Spent(u.out)
            THEN [u EXCEPT !.thre = FALSE, !.tx_on = FALSE, !.ier = @ \ {"tx"}]
            ELSE [u EXCEPT !.thre = FALSE, !.thr = First(u.out), !.out = Pop(@)]
    /\ irr' = FALSE
    /\ UNCHANGED <<frames, lost>>

\* IIR names no source.
Spurious == ~Line(u) /\ irr' = FALSE /\ UNCHANGED <<u, frames, lost>>

\* uart_intr, on the stack of thread t.
uart_intr(t) ==
    irr /\ (LineStatus \/ Receive(t) \/ Transmit \/ Spurious) /\ UNCHANGED reader

\* The interrupted handler on top of t's stack prints its next character.
EchoMore(t) ==
    /\ frames[t] # <<>>
    /\ LET e == Head(frames[t])
       IN /\ u' = Putc(u, Head(e))
          /\ frames' = [frames EXCEPT ![t] = IF Len(e) = 1 THEN Tail(@) ELSE <<Tail(e)>> \o Tail(@)]
    /\ irr' \in {irr} \cup Pulse
    /\ UNCHANGED <<reader, lost>>

-----------------------------------------------------------------------------
(* ugets: IER is read, written, read again and written again with           *)
(* interrupts enabled.                                                      *)

Moves(t, from, to) == frames[t] = <<>> /\ reader[t].at = from
                        /\ reader' = [reader EXCEPT ![t] = [at |-> to, ier |-> {}]]

ReadIer(t, from, to) ==
    /\ frames[t] = <<>> /\ reader[t].at = from
    /\ reader' = [reader EXCEPT ![t] = [at |-> to, ier |-> u.ier]]
    /\ UNCHANGED <<u, irr, frames, lost>>

\* If the transmitter was started since IER was read, its interrupt is off.
WriteIer(t, from, to, s) ==
    /\ Moves(t, from, to)
    /\ u' = SetIer(u, s)
    /\ lost' = (u.tx_on /\ "tx" \in u.ier \ s)
    /\ Latch /\ UNCHANGED frames

\* ugetc: the test, and the section after cli.
ugetc(t) ==
    \/ /\ Moves(t, "wait", "take") /\ u.in.len > 0
       /\ UNCHANGED <<u, irr, frames, lost>>
    \/ /\ Moves(t, "take", IF First(u.in) = "CR" THEN "got" ELSE "wait")
       /\ u' = [u EXCEPT !.in = Pop(@)]
       /\ UNCHANGED <<irr, frames, lost>>

ugets(t) ==
    \/ ReadIer(t, "idle", "on") \/ WriteIer(t, "on", "wait", reader[t].ier \cup {"rx"})
    \/ ugetc(t)
    \/ ReadIer(t, "got", "off") \/ WriteIer(t, "off", "idle", reader[t].ier \ {"rx"})

-----------------------------------------------------------------------------
Run == \E t \in Threads : uart_intr(t)

\* After an interrupt was lost nothing more is said.
Next ==
    IF lost THEN UNCHANGED vars
    ELSE \/ Sent \/ Run
         \/ \E c \in Keys : Typed(c)
         \/ \E t \in Threads : EchoMore(t) \/ \E c \in Chars : uputc(t, c)
         \/ \E t \in Readers : ugets(t)

Spec == Init /\ [][Next]_vars

\* The device sends, and the processor takes the interrupts.
FairSpec == Spec /\ WF_vars(~lost /\ Sent) /\ WF_vars(~lost /\ Run)

-----------------------------------------------------------------------------
RingTypes == [buf : [0 .. BUF_SIZE - 1 -> Chars \cup Keys \cup {None, "LF", "BS", "SP"}],
              head : 0 .. BUF_SIZE - 1, tail : 0 .. BUF_SIZE - 1,
              len : 0 .. MaxLen + 3 * (MaxFrames + 1)]

\* The types of the variables; an index that leaves its buffer has none.
TypeOK ==
    /\ u.in \in RingTypes /\ u.out \in RingTypes
    /\ u.tx_on \in BOOLEAN /\ u.thre \in BOOLEAN /\ u.ls \in BOOLEAN
    /\ u.ier \subseteq {"tx", "rx", "ls"}
    /\ u.thr \in Chars \cup Keys \cup {None, "LF", "BS", "SP"} /\ u.rbr \in Seq(Keys)
    /\ irr \in BOOLEAN /\ lost \in BOOLEAN
    /\ reader \in [Threads -> [at : {"idle", "on", "wait", "take", "got", "off"},
                               ier : SUBSET {"tx", "rx", "ls"}]]
    /\ \A t \in Threads : frames[t] \in Seq({<<"SP", "BS">>, <<"BS">>})

\* What waits to be sent never has to wait for ever: while tx_on says that the
\* transmitter runs, a character is on its way or the interrupt that will
\* fetch the next one is enabled, pending and latched; when it says that it
\* stands still, nothing waits.  It is claimed until an interrupt is lost, and
\* these steps lose one: the handler reads its one character (line 98) while
\* another is in the FIFO, or while the transmitter's interrupt is pending too;
\* the interrupt is that of a line status, which no branch answers (82, 97);
\* ugets writes back an IER read before the transmitter was started (74).
NeverStranded ==
    ~lost =>
      IF u.tx_on THEN u.thr # None \/ (TxPending(u) /\ irr)
      ELSE u.thr = None /\ u.out.len = 0

Contents(r) == [i \in 1 .. r.len |-> r.buf[(r.head + i - 1) % BUF_SIZE]]

\* From uputc to the wire, past the ring buffer or through it, characters keep
\* their order, and so do typed ones on their way to ugetc.
Out == INSTANCE Fifo WITH
    Items <- Chars \cup Keys \cup {"LF", "BS", "SP"}, Cap <- BUF_SIZE,
    queue <- (IF u.thr = None THEN <<>> ELSE <<u.thr>>) \o Contents(u.out)
In == INSTANCE Fifo WITH
    Items <- Keys, Cap <- BUF_SIZE, queue <- Contents(u.in)

KeepsOrder == Out!Spec /\ In!Spec

\* If printing stops, everything printed is sent and the transmitter stops.
Drains ==
    <>[][u'.out.len <= u.out.len /\ (u'.tx_on => u.tx_on)]_vars => <>[](lost \/ ~u.tx_on)
=============================================================================
