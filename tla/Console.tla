------------------------------- MODULE Console -------------------------------
(***************************************************************************)
(* The console (kernel/console.c) on the UART driver (kernel/uart.c):      *)
(* processes in read() and write() of the console, the UART interrupt,     *)
(* which the interrupt controller gives to one CPU at a time, and the UART *)
(* itself.  A step is a critical section of cons.lock or of uart_tx_lock.  *)
(***************************************************************************)
EXTENDS Naturals, Sequences

CONSTANTS
    Readers, Writers,
    INPUT_BUF, UART_TX_BUF_SIZE,
    UINTS,          \* values of the indices of cons: 2^32, a multiple of INPUT_BUF
    N,              \* what a read() asks for and a write() gives
    RXFIFO,         \* characters the UART holds for us
    Keys,           \* what is typed, of "a", "cr", "D", "U", "H"
    MaxTyped        \* bound: characters typed

ASSUME ConsoleAssumption ==
    INPUT_BUF \in Nat \ {0} /\ UART_TX_BUF_SIZE \in Nat \ {0} /\ UINTS % INPUT_BUF = 0
    /\ UINTS > INPUT_BUF

VARIABLES
    cons,           \* [buf, r, w, e]
    tx,             \* [buf, r, w]: uart_tx_buf, uart_tx_r, uart_tx_w
    uart,           \* [rx, busy, thr, irq]: received, ~LSR_TX_IDLE, THR, interrupt
    handler,        \* the CPU that has claimed the interrupt is in uartintr
    io,             \* io[p]: [pc, killed, got] of a reader, [pc, i] of a writer;
                    \* the characters a writer writes are <<p>>
    typed           \* how many characters have been typed

convars == <<cons, tx, uart, handler, io, typed>>

Users == Readers \cup Writers
TXS == 2 * UART_TX_BUF_SIZE
Up(i, n, size) == (i + n) % size
Down(i) == (i + UINTS - 1) % UINTS

\* Only the processes of active use the console.  n characters were typed and read before,
\* and k more of the current line, all of them "a".
consoleinit(active, n, k) ==
    /\ cons = [buf |-> [i \in 0 .. INPUT_BUF - 1 |-> "a"], r |-> n, w |-> n, e |-> Up(n, k, UINTS)]
    /\ tx = [buf |-> [i \in 0 .. UART_TX_BUF_SIZE - 1 |-> <<"none">>], r |-> 0, w |-> 0]
    /\ handler = FALSE
    /\ io = [p \in Users |-> LET pc == IF p \in active THEN "user" ELSE "off" IN
                             IF p \in Readers THEN [pc |-> pc, killed |-> FALSE, got |-> <<>>]
                             ELSE [pc |-> pc, i |-> 0]]

\* The characters of rx were received and wait for the interrupt.
uartinit(rx) == uart = [rx |-> rx, busy |-> FALSE, thr |-> <<"none">>, irq |-> rx # <<>>]

At(p, l) == io[p].pc = l
\* The thread that sleep() is about to put to sleep still has cons.lock.
ConsFree == \A p \in Readers : ~At(p, "doze")
Wake(f, from) == [p \in Users |-> IF f[p].pc = from THEN [f[p] EXCEPT !.pc = "run"] ELSE f[p]]
------------------------------------------------------------------------------
Empty == tx.w = tx.r
Full(t) == t.w = Up(t.r, UART_TX_BUF_SIZE, TXS)
Waiting(t) == (t.w + TXS - t.r) % TXS

\* Fault: uartstart does not look for a writer that waits for space.
uartstart_quiet(t, f) ==
    \/ (Waiting(t) = 0 \/ uart.busy) /\ tx' = t /\ io' = f /\ UNCHANGED uart
    \/ \E k \in 1 .. Waiting(t) :
          /\ ~uart.busy
          /\ tx' = [t EXCEPT !.r = Up(@, k, TXS)] /\ io' = f
          /\ uart' = [uart EXCEPT !.busy = TRUE, !.irq = @ \/ k > 1,
                                  !.thr = t.buf[Up(t.r, k - 1, TXS) % UART_TX_BUF_SIZE]]

\* uartstart: while the UART is idle it is given the next character of t; it may be idle
\* again, and have raised its interrupt, before the loop looks.
uartstart(t, f) ==
    \/ (Waiting(t) = 0 \/ uart.busy) /\ tx' = t /\ io' = f /\ UNCHANGED uart
    \/ \E k \in 1 .. Waiting(t) :
          /\ ~uart.busy
          /\ tx' = [t EXCEPT !.r = Up(@, k, TXS)] /\ io' = Wake(f, "full")
          /\ uart' = [uart EXCEPT !.busy = TRUE, !.irq = @ \/ k > 1,
                                  !.thr = t.buf[Up(t.r, k - 1, TXS) % UART_TX_BUF_SIZE]]

\* One pass of the loop in uartputc.  consolewrite then goes on with the next character,
\* unless it was the last or either_copyin cannot read it.
uartputc(p) ==
    /\ At(p, "run") /\ p \in Writers
    /\ IF Full(tx) THEN io' = [io EXCEPT ![p].pc = "full"] /\ UNCHANGED <<tx, uart>>
       ELSE \E w \in {[pc |-> "user", i |-> 0], [pc |-> "run", i |-> io[p].i + 1]} :
               /\ w.i < N
               /\ uartstart([tx EXCEPT !.buf[tx.w % UART_TX_BUF_SIZE] = <<p>>,
                                       !.w = Up(@, 1, TXS)], [io EXCEPT ![p] = w])
    /\ UNCHANGED <<cons, handler, typed>>

consolewrite(p) ==
    /\ p \in Writers /\ At(p, "user")
    /\ io' = [io EXCEPT ![p].pc = "run"]
    /\ UNCHANGED <<cons, tx, uart, handler, typed>>
------------------------------------------------------------------------------
\* The loop of consoleread, from what p has got already; the buffer it reads into can
\* take bad characters.
TakeOne(s, bad) ==
    LET c == cons.buf[s.r % INPUT_BUF]
        next == Up(s.r, 1, UINTS)
    IN  IF s.end # "" THEN s
        ELSE IF Len(s.got) = N THEN [s EXCEPT !.end = "done"]
        ELSE IF s.r = cons.w THEN [s EXCEPT !.end = "wait"]
        ELSE IF c = "D"
             THEN [s EXCEPT !.end = "done", !.r = IF Len(s.got) > 0 THEN Down(next) ELSE next]
        ELSE IF Len(s.got) = bad THEN [s EXCEPT !.end = "done", !.r = next]
        ELSE [r |-> next, got |-> Append(s.got, c), end |-> IF c = "nl" THEN "done" ELSE ""]

Take(p, bad) ==
    LET T[k \in 0 .. N + 1] ==
            IF k = 0 THEN [r |-> cons.r, got |-> io[p].got, end |-> ""]
            ELSE TakeOne(T[k - 1], bad)
    IN  T[N + 1]

\* consoleread with cons.lock, up to its end or to sleep(); s is where its loop ends.
Took(p, s) ==
    /\ cons' = [cons EXCEPT !.r = s.r]
    /\ io' = [io EXCEPT ![p] =
                 IF s.end = "wait" /\ ~io[p].killed
                 THEN [@ EXCEPT !.pc = "doze", !.got = s.got]
                 ELSE [pc |-> "user", killed |-> FALSE, got |-> s.got]]

consoleread(p) ==
    /\ p \in Readers /\ UNCHANGED <<tx, uart, handler, typed>>
    /\ \/ /\ At(p, "user") /\ UNCHANGED cons
          /\ io' = [io EXCEPT ![p] = [pc |-> "run", killed |-> FALSE, got |-> <<>>]]
       \/ /\ At(p, "run") /\ ConsFree
          /\ \E bad \in 0 .. N : Took(p, Take(p, bad))

\* sleep(&cons.r, &cons.lock)
cons_sleep(p) ==
    /\ p \in Readers /\ At(p, "doze")
    /\ io' = [io EXCEPT ![p].pc = "asleep"]
    /\ UNCHANGED <<cons, tx, uart, handler, typed>>

\* kill() of a process in read() or write().
cons_kill(p) ==
    /\ io[p].pc \notin {"off", "user"}
    /\ IF p \in Readers
       THEN io' = [io EXCEPT ![p].killed = TRUE, ![p].pc = IF @ = "asleep" THEN "run" ELSE @]
       ELSE io' = [io EXCEPT ![p].pc = IF @ = "full" THEN "run" ELSE @]
    /\ UNCHANGED <<cons, tx, uart, handler, typed>>
------------------------------------------------------------------------------
\* The UART receives a character, or has sent one.
uart_receive(c) ==
    /\ Len(uart.rx) < RXFIFO /\ typed < MaxTyped
    /\ typed' = typed + 1
    /\ uart' = [uart EXCEPT !.rx = Append(@, c), !.irq = TRUE]
    /\ UNCHANGED <<cons, tx, handler, io>>

uart_sent ==
    /\ uart.busy /\ uart' = [uart EXCEPT !.busy = FALSE, !.irq = TRUE]
    /\ UNCHANGED <<cons, tx, handler, io, typed>>

uart_claim ==
    /\ uart.irq /\ ~handler /\ handler' = TRUE
    /\ uart' = [uart EXCEPT !.irq = FALSE]
    /\ UNCHANGED <<cons, tx, io, typed>>

\* Echoing waits for the UART to be idle; n characters leave it busy with the last one.
uartputc_sync(u, n) == [u EXCEPT !.busy = TRUE, !.thr = <<"echo">>, !.irq = @ \/ n > 1]

\* A backspace is echoed as three characters.
consputc(u, c) == uartputc_sync(u, IF c = "BACKSPACE" THEN 3 ELSE 1)

\* What the UART has left once the next character was taken from it.
uartgetc == [uart EXCEPT !.rx = Tail(@)]

\* Control-U and backspace: the edit index goes back over the line being typed.
RECURSIVE KillLine(_)
KillLine(e) ==
    IF e = cons.w \/ cons.buf[Down(e) % INPUT_BUF] = "nl" THEN e ELSE KillLine(Down(e))

Backspace(e) == IF e # cons.w THEN Down(e) ELSE e

Erase(e) ==
    /\ e # cons.e => ~uart.busy
    /\ cons' = [cons EXCEPT !.e = e] /\ UNCHANGED io
    /\ uart' = IF e = cons.e THEN uartgetc ELSE consputc(uartgetc, "BACKSPACE")

\* Fault: the test for a full buffer lets one more character in.
Room_late == (cons.e + UINTS - cons.r) % UINTS <= INPUT_BUF

Room == (cons.e + UINTS - cons.r) % UINTS < INPUT_BUF

\* Fault: a full buffer is not handed to the readers.
Whole_line(c, e) == c \in {"nl", "D"}

Whole(c, e) == c \in {"nl", "D"} \/ e = Up(cons.r, INPUT_BUF, UINTS)

Stored(c, e) ==
    /\ ~uart.busy
    /\ cons' = [cons EXCEPT !.buf[cons.e % INPUT_BUF] = c, !.e = e,
                            !.w = IF Whole(c, e) THEN e ELSE @]
    /\ io' = IF Whole(c, e) THEN Wake(io, "asleep") ELSE io
    /\ uart' = consputc(uartgetc, c)

\* uartintr: the next character that uartgetc returns.
consoleintr ==
    LET c == Head(uart.rx) IN
    /\ handler /\ uart.rx # <<>> /\ ConsFree
    /\ CASE c = "U" -> Erase(KillLine(cons.e))
         [] c = "H" -> Erase(Backspace(cons.e))
         [] OTHER -> IF Room THEN Stored(IF c = "cr" THEN "nl" ELSE c, Up(cons.e, 1, UINTS))
                     ELSE Erase(cons.e)
    /\ UNCHANGED <<tx, handler, typed>>

\* uartintr: no more input; send what is buffered, and let the UART interrupt again.
uartintr ==
    /\ handler /\ uart.rx = <<>> /\ handler' = FALSE
    /\ uartstart(tx, io)
    /\ UNCHANGED <<cons, typed>>

ConsoleNext ==
    \/ \E p \in Users : consoleread(p) \/ cons_sleep(p) \/ consolewrite(p) \/ uartputc(p)
                        \/ cons_kill(p)
    \/ \E c \in Keys : uart_receive(c)
    \/ uart_sent
    \/ uart_claim
    \/ consoleintr
    \/ uartintr
------------------------------------------------------------------------------
Input(from, to) ==
    [i \in 1 .. (to + UINTS - from) % UINTS |-> cons.buf[Up(from, i - 1, UINTS) % INPUT_BUF]]
Output == [i \in 1 .. Waiting(tx) |-> tx.buf[Up(tx.r, i - 1, TXS) % UART_TX_BUF_SIZE]]

Abs == INSTANCE ConsoleSpec WITH
    ready <- Input(cons.r, cons.w), line <- Input(cons.w, cons.e),
    got <- [p \in Readers |-> io[p].got],
    reading <- {p \in Readers : io[p].pc \notin {"off", "user"}},
    txq <- Output, thr <- uart.thr

\* The rings with their three and two indices, which wrap around, the ^D that is put
\* back and the editing in the interrupt handler (consoleread, consoleintr, uartputc,
\* uartstart) behave as queues: a reader gets the lines as they were edited, once and
\* in order, an end of file is a read of nothing, and output leaves in order.
ImplementsConsole ==
    Abs!SpecInit /\ [][Abs!SpecNext({"a", "nl", "D"}, {<<p>> : p \in Writers})]_Abs!specvars

\* A reader sleeps in consoleread only while no line is ready, though another reader may
\* have put ^D back; a writer sleeps in uartputc only while the buffer is full; and
\* buffered output has the UART busy, or its interrupt on the way, so that uartstart
\* is called again.  A full input buffer is always readable, so typing cannot stop.
ConsoleSleepers ==
    /\ \A p \in Readers : io[p].pc \in {"doze", "asleep"} => cons.r = cons.w
    /\ \A p \in Writers : At(p, "full") => Full(tx)
    /\ ~Empty => uart.busy \/ uart.irq \/ handler
    /\ ~Room => cons.r # cons.w
==============================================================================
