------------------------------- MODULE Console -------------------------------
(***************************************************************************)
(* The console: kernel/console.c over kernel/uart.c.  Programs read and    *)
(* write; the UART interrupts, on one CPU at a time, and its handler takes *)
(* what was typed, echoes it and sends what was written.  The handler and  *)
(* the programs meet in cons.lock and uart_tx_lock, but echoing goes to    *)
(* the UART without a lock.  r, w and e, and the indices of the output     *)
(* buffer, are unsigned: they wrap at a multiple of the buffer's size.     *)
(***************************************************************************)
EXTENDS Integers, Sequences

CONSTANTS Reader, Writer,      \* processes in consoleread() and consolewrite()
          Users,               \* the sets of them that may use the console together
          INPUT_BUF_SIZE, UART_TX_BUF_SIZE,
          WRAP,                \* the indices wrap at WRAP times the size
          RXFIFO, TXFIFO,      \* depths of the UART's FIFOs
          OutChar,             \* characters that programs write
          Lengths,             \* arguments n of read()
          None, Intr           \* no holder; the interrupt handler

ASSUME ConsoleAssumption ==
  /\ INPUT_BUF_SIZE \in Nat \ {0} /\ UART_TX_BUF_SIZE \in Nat \ {0}
  /\ WRAP \in Nat /\ WRAP > 1 /\ RXFIFO \in Nat /\ TXFIFO \in Nat /\ TXFIFO >= 2
  /\ Reader \cap Writer = {} /\ Users \subseteq SUBSET (Reader \cup Writer) /\ Lengths \subseteq Nat
  /\ Intr # None /\ {None, Intr} \cap (Reader \cup Writer) = {}

\* What the input buffer may hold, and what can be typed
Char == {"x", "nl", "eof"}
Key == Char \cup {"cr", "kill", "erase", "print", "nul"}

VARIABLES
  buf, r, w, e,        \* cons
  conslock, txlock,    \* holders of cons.lock and uart_tx_lock
  txbuf, txr, txw,     \* the output buffer
  rx, thr, irq,        \* the UART: how many received, to be sent, interrupt pending
  pc, c,               \* of every process and of the handler; its local c
  left,                \* how many characters consputc() has yet to send
  n, target, killed,   \* of a reader
  got                  \* what a read in progress has copied out

cons == <<buf, r, w, e>>
tx == <<txbuf, txr, txw>>
uart == <<rx, thr, irq>>
vars == <<cons, conslock, txlock, tx, uart, pc, c, left, n, target, killed, got>>

Proc == Reader \cup Writer \cup {Intr}
UINT == INPUT_BUF_SIZE * WRAP
TXUINT == UART_TX_BUF_SIZE * WRAP
Plus(i, k) == (i + k) % UINT
Count == (e - r) % UINT       \* cons.e - cons.r
At(p, l) == pc[p] = l
Goto(p, l) == pc' = [pc EXCEPT ![p] = l]

-----------------------------------------------------------------------------
(* consoleread()                                                           *)

read(p, k) ==
  /\ At(p, "idle") /\ conslock = None
  /\ conslock' = p
  /\ n' = [n EXCEPT ![p] = k] /\ target' = [target EXCEPT ![p] = k]
  /\ Goto(p, "loop")
  /\ UNCHANGED <<cons, txlock, tx, uart, c, left, killed, got>>

\* sleep() takes cons.lock again.
acquire(p) ==
  /\ At(p, "acquire") /\ conslock = None
  /\ conslock' = p /\ Goto(p, "loop")
  /\ UNCHANGED <<cons, txlock, tx, uart, c, left, n, target, killed, got>>

Loop(p) == At(p, "loop") /\ n[p] > 0
Back(p) ==
  /\ Goto(p, "idle") /\ conslock' = None
  /\ n' = [n EXCEPT ![p] = 0] /\ target' = [target EXCEPT ![p] = 0]
  /\ got' = [got EXCEPT ![p] = <<>>] /\ killed' = [killed EXCEPT ![p] = FALSE]

read_killed(p) ==
  /\ Loop(p) /\ r = w /\ killed[p]
  /\ Back(p) /\ UNCHANGED <<cons, txlock, tx, uart, c, left>>

\* A kill() after this test comes too late to keep the process from sleeping.
read_wait(p) ==
  /\ Loop(p) /\ r = w /\ ~killed[p]
  /\ Goto(p, "sleep")
  /\ UNCHANGED <<cons, conslock, txlock, tx, uart, c, left, n, target, killed, got>>

read_sleep(p) ==
  /\ At(p, "sleep")
  /\ Goto(p, "asleep") /\ conslock' = None
  /\ UNCHANGED <<cons, txlock, tx, uart, c, left, n, target, killed, got>>

NextChar == buf[r % INPUT_BUF_SIZE]

MutantReadEof(p) ==            \* the mark is never kept for the next read
  /\ Loop(p) /\ r # w /\ NextChar = "eof"
  /\ r' = Plus(r, 1)
  /\ Back(p) /\ UNCHANGED <<buf, w, e, txlock, tx, uart, c, left>>

\* End-of-file: it stays for the next read if this one has got something.
read_eof(p) ==
  /\ Loop(p) /\ r # w /\ NextChar = "eof"
  /\ r' = IF n[p] < target[p] THEN r ELSE Plus(r, 1)
  /\ Back(p) /\ UNCHANGED <<buf, w, e, txlock, tx, uart, c, left>>

read_fault(p) ==
  /\ Loop(p) /\ r # w /\ NextChar # "eof"
  /\ r' = Plus(r, 1)
  /\ Back(p) /\ UNCHANGED <<buf, w, e, txlock, tx, uart, c, left>>

read_char(p) ==
  /\ Loop(p) /\ r # w /\ NextChar # "eof"
  /\ r' = Plus(r, 1)
  /\ got' = [got EXCEPT ![p] = Append(@, NextChar)]
  /\ n' = [n EXCEPT ![p] = @ - 1]
  /\ Goto(p, IF NextChar = "nl" THEN "return" ELSE "loop")
  /\ UNCHANGED <<buf, w, e, conslock, txlock, tx, uart, c, left, target, killed>>

read_return(p) ==
  /\ At(p, "return") \/ (At(p, "loop") /\ n[p] = 0)
  /\ Back(p) /\ UNCHANGED <<cons, txlock, tx, uart, c, left>>

\* kill() by another process; the killed one exits when its read() returns.
kill(p) ==
  /\ pc[p] \notin {"idle", "away"} /\ ~killed[p]
  /\ killed' = [killed EXCEPT ![p] = TRUE]
  /\ pc' = IF At(p, "asleep") THEN [pc EXCEPT ![p] = "acquire"] ELSE pc
  /\ UNCHANGED <<cons, conslock, txlock, tx, uart, c, left, n, target, got>>

-----------------------------------------------------------------------------
(* The UART: a character arrives, a character has been sent.  Which one    *)
(* arrived is chosen when uartgetc() reads it: nobody sees it before.      *)

Receive ==
  /\ rx < RXFIFO /\ rx' = rx + 1 /\ irq' = TRUE
  /\ UNCHANGED <<cons, conslock, txlock, tx, thr, pc, c, left, n, target, killed, got>>

\* It interrupts when it can be given more.
Transmit ==
  /\ thr # <<>> /\ thr' = Tail(thr) /\ irq' = (irq \/ Len(thr) = 1)
  /\ UNCHANGED <<cons, conslock, txlock, tx, rx, pc, c, left, n, target, killed, got>>

Idle == thr = <<>>      \* LSR_TX_IDLE

-----------------------------------------------------------------------------
(* uartputc(), which consolewrite() calls for each character, and          *)
(* uartstart() with uart_tx_lock held.  A character is chosen when it is   *)
(* put into the buffer: nobody sees it before.                             *)

Full == txw = (txr + UART_TX_BUF_SIZE) % TXUINT

putc_sleep(p) ==
  /\ At(p, "idle") /\ txlock = None /\ Full
  /\ Goto(p, "asleep")
  /\ UNCHANGED <<cons, conslock, txlock, tx, uart, c, left, n, target, killed, got>>

putc(p, k) ==
  /\ At(p, "idle") /\ txlock = None /\ ~Full
  /\ txlock' = p
  /\ txbuf' = [txbuf EXCEPT ![txw % UART_TX_BUF_SIZE] = k]
  /\ txw' = (txw + 1) % TXUINT
  /\ Goto(p, "start")
  /\ UNCHANGED <<cons, conslock, txr, uart, c, left, n, target, killed, got>>

\* Nothing to send, or the UART is busy: release(&uart_tx_lock)
start_end(p) ==
  /\ At(p, "start") /\ (txw = txr \/ ~Idle)
  /\ txlock' = None /\ Goto(p, "idle")
  /\ UNCHANGED <<cons, conslock, tx, uart, c, left, n, target, killed, got>>

MutantStartNext(p) ==          \* no wakeup(&uart_tx_r)
  /\ At(p, "start") /\ txw # txr /\ Idle
  /\ c' = [c EXCEPT ![p] = txbuf[txr % UART_TX_BUF_SIZE]]
  /\ txr' = (txr + 1) % TXUINT
  /\ Goto(p, "thr")
  /\ UNCHANGED <<cons, conslock, txlock, txbuf, txw, uart, left, n, target, killed, got>>

\* wakeup(&uart_tx_r)
start_next(p) ==
  /\ At(p, "start") /\ txw # txr /\ Idle
  /\ c' = [c EXCEPT ![p] = txbuf[txr % UART_TX_BUF_SIZE]]
  /\ txr' = (txr + 1) % TXUINT
  /\ pc' = [q \in Proc |-> IF q = p THEN "thr"
                           ELSE IF q \in Writer /\ At(q, "asleep") THEN "idle" ELSE pc[q]]
  /\ UNCHANGED <<cons, conslock, txlock, txbuf, txw, uart, left, n, target, killed, got>>

start_thr(p) ==
  /\ At(p, "thr")
  /\ thr' = Append(thr, c[p]) /\ c' = [c EXCEPT ![p] = "nul"]
  /\ Goto(p, "start")
  /\ UNCHANGED <<cons, conslock, txlock, tx, rx, irq, left, n, target, killed, got>>

-----------------------------------------------------------------------------
(* uartintr(): the handler, and consoleintr() for each character           *)

uartintr ==
  /\ At(Intr, "idle") /\ irq
  /\ irq' = FALSE /\ Goto(Intr, "getc")
  /\ UNCHANGED <<cons, conslock, txlock, tx, rx, thr, c, left, n, target, killed, got>>

MutantUartintrTx ==            \* input only: what waits is not sent
  /\ At(Intr, "getc") /\ rx = 0 /\ txlock = None
  /\ Goto(Intr, "idle")
  /\ UNCHANGED <<cons, conslock, txlock, tx, uart, c, left, n, target, killed, got>>

\* No more input; then uartstart()
uartintr_tx ==
  /\ At(Intr, "getc") /\ rx = 0 /\ txlock = None
  /\ txlock' = Intr /\ Goto(Intr, "start")
  /\ UNCHANGED <<cons, conslock, tx, uart, c, left, n, target, killed, got>>

consoleintr(k) ==
  /\ At(Intr, "getc") /\ rx > 0 /\ conslock = None
  /\ conslock' = Intr /\ rx' = rx - 1
  /\ c' = [c EXCEPT ![Intr] = IF k = "cr" THEN "nl" ELSE k]
  /\ Goto(Intr, "switch")
  /\ UNCHANGED <<cons, txlock, tx, thr, irq, left, n, target, killed, got>>

\* ^U and ^H take back what is not yet in a complete line.
Last == buf[Plus(e, -1) % INPUT_BUF_SIZE]
Erases == /\ c[Intr] \in {"kill", "erase"} /\ e # w
          /\ c[Intr] = "kill" => Last # "nl"
Stores == c[Intr] \in Char /\ Count < INPUT_BUF_SIZE

\* c == 0, procdump() is done, nothing to erase, or no room
consoleintr_end ==
  /\ At(Intr, "switch") /\ ~Erases /\ ~Stores
  /\ conslock' = None /\ c' = [c EXCEPT ![Intr] = "nul"] /\ Goto(Intr, "getc")
  /\ UNCHANGED <<cons, txlock, tx, uart, left, n, target, killed, got>>

\* consputc(BACKSPACE) sends three characters.
consoleintr_erase ==
  /\ At(Intr, "switch") /\ Erases
  /\ e' = Plus(e, -1) /\ left' = 3 /\ Goto(Intr, "echo")
  /\ UNCHANGED <<buf, r, w, conslock, txlock, tx, uart, c, n, target, killed, got>>

\* consputc(c), or one of the characters that procdump() prints
consoleintr_putc ==
  /\ At(Intr, "switch") /\ (Stores \/ c[Intr] = "print")
  /\ left' = 1 /\ Goto(Intr, "echo")
  /\ UNCHANGED <<cons, conslock, txlock, tx, uart, c, n, target, killed, got>>

\* uartputc_sync() waits until the UART is idle, with no lock that keeps others
\* from giving it a character before WriteReg(THR).
echo ==
  /\ At(Intr, "echo") /\ Idle /\ Goto(Intr, "thr_sync")
  /\ UNCHANGED <<cons, conslock, txlock, tx, uart, c, left, n, target, killed, got>>

Sends == At(Intr, "thr_sync") /\ thr' = Append(thr, "echo") /\ left' = left - 1
Echoed == Sends /\ left = 1

echo_next ==
  /\ Sends /\ left > 1 /\ Goto(Intr, "echo")
  /\ UNCHANGED <<cons, conslock, txlock, tx, rx, irq, c, n, target, killed, got>>

\* ^U goes on with the character before, ^P with the next one; ^H is done.
consoleintr_erased ==
  /\ Echoed /\ c[Intr] \in {"kill", "erase", "print"}
  /\ IF c[Intr] = "erase"
     THEN Goto(Intr, "getc") /\ conslock' = None /\ c' = [c EXCEPT ![Intr] = "nul"]
     ELSE Goto(Intr, "switch") /\ UNCHANGED <<conslock, c>>
  /\ UNCHANGED <<cons, txlock, tx, rx, irq, n, target, killed, got>>

MutantStore ==                 \* a full buffer is no reason to wake a reader
  LET complete == c[Intr] \in {"nl", "eof"} IN
  /\ Echoed /\ c[Intr] \in Char
  /\ buf' = [buf EXCEPT ![e % INPUT_BUF_SIZE] = c[Intr]] /\ e' = Plus(e, 1)
  /\ w' = IF complete THEN e' ELSE w
  /\ pc' = [q \in Proc |-> IF q = Intr THEN "getc"
                           ELSE IF complete /\ q \in Reader /\ At(q, "asleep") THEN "acquire"
                           ELSE pc[q]]
  /\ conslock' = None /\ c' = [c EXCEPT ![Intr] = "nul"]
  /\ UNCHANGED <<r, txlock, tx, rx, irq, n, target, killed, got>>

\* Readers are woken by a complete line, by end-of-file and by a full buffer.
consoleintr_store ==
  LET complete == c[Intr] \in {"nl", "eof"} \/ Count = INPUT_BUF_SIZE - 1 IN
  /\ Echoed /\ c[Intr] \in Char
  /\ buf' = [buf EXCEPT ![e % INPUT_BUF_SIZE] = c[Intr]] /\ e' = Plus(e, 1)
  /\ w' = IF complete THEN e' ELSE w
  /\ pc' = [q \in Proc |-> IF q = Intr THEN "getc"
                           ELSE IF complete /\ q \in Reader /\ At(q, "asleep") THEN "acquire"
                           ELSE pc[q]]
  /\ conslock' = None /\ c' = [c EXCEPT ![Intr] = "nul"]
  /\ UNCHANGED <<r, txlock, tx, rx, irq, n, target, killed, got>>

-----------------------------------------------------------------------------
Init ==
  /\ buf = [i \in 0 .. INPUT_BUF_SIZE - 1 |-> "nul"] /\ r = 0 /\ w = 0 /\ e = 0
  /\ conslock = None /\ txlock = None
  /\ txbuf = [i \in 0 .. UART_TX_BUF_SIZE - 1 |-> "nul"] /\ txr = 0 /\ txw = 0
  /\ rx = 0 /\ thr = <<>> /\ irq = FALSE
  /\ \E use \in Users :
       pc = [p \in Proc |-> IF p \in use \cup {Intr} THEN "idle" ELSE "away"]
  /\ c = [p \in Proc |-> "nul"] /\ left = 0
  /\ n = [p \in Reader |-> 0] /\ target = [p \in Reader |-> 0]
  /\ killed = [p \in Reader |-> FALSE] /\ got = [p \in Reader |-> <<>>]

consoleread(p) ==
  \/ \E k \in Lengths : read(p, k)
  \/ acquire(p) \/ read_killed(p) \/ read_wait(p) \/ read_sleep(p) \/ read_eof(p)
  \/ read_fault(p) \/ read_char(p) \/ read_return(p)
consolewrite(p) == putc_sleep(p) \/ \E k \in OutChar : putc(p, k)
uartstart(p) == start_end(p) \/ start_next(p) \/ start_thr(p)
Handler ==
  \/ uartintr \/ uartintr_tx \/ (\E k \in Key : consoleintr(k)) \/ consoleintr_end \/ consoleintr_erase
  \/ consoleintr_putc \/ echo \/ echo_next \/ consoleintr_erased \/ consoleintr_store

Next ==
  \/ \E p \in Reader : consoleread(p) \/ kill(p)
  \/ \E p \in Writer : consolewrite(p)
  \/ \E p \in Writer \cup {Intr} : uartstart(p)
  \/ Handler \/ Transmit \/ Receive

Spec == Init /\ [][Next]_vars

-----------------------------------------------------------------------------
TypeOK ==
  /\ buf \in [0 .. INPUT_BUF_SIZE - 1 -> Char \cup {"nul"}]
  /\ {r, w, e} \subseteq 0 .. UINT - 1 /\ {txr, txw} \subseteq 0 .. TXUINT - 1
  /\ conslock \in Reader \cup {None, Intr} /\ txlock \in Writer \cup {None, Intr}
  /\ txbuf \in [0 .. UART_TX_BUF_SIZE - 1 -> OutChar \cup {"nul"}]
  /\ rx \in 0 .. RXFIFO /\ thr \in Seq(OutChar \cup {"echo"}) /\ irq \in BOOLEAN
  /\ DOMAIN pc = Proc /\ DOMAIN c = Proc /\ left \in 0 .. 3
  /\ n \in [Reader -> Nat] /\ target \in [Reader -> Nat]
  /\ killed \in [Reader -> BOOLEAN] /\ DOMAIN got = Reader

\* The indices of consoleintr() and consoleread() stay in order across their
\* wrap-around, and a full buffer can always be read: typing cannot fill it
\* with a line that never becomes complete.  The UART is never given more
\* than its FIFO holds, although echoing takes no lock.
ConsInv ==
  /\ TypeOK
  /\ (w - r) % UINT <= Count /\ Count <= INPUT_BUF_SIZE
  /\ Count = INPUT_BUF_SIZE => w = e
  /\ (txw - txr) % TXUINT <= UART_TX_BUF_SIZE
  /\ Len(thr) <= TXFIFO

\* A reader sleeps only while there is nothing to read, and a writer only
\* while the output buffer is full: no wakeup is lost.
SleepersHaveReason ==
  /\ \A p \in Reader : At(p, "asleep") => r = w
  /\ \A p \in Writer : At(p, "asleep") => Full

\* Output does not get stuck: while the output buffer holds something, the
\* UART is sending, or interrupts, or somebody is on the way to uartstart().
OutputMoves ==
  txr # txw =>
    \/ thr # <<>> \/ irq \/ ~At(Intr, "idle")
    \/ \E p \in Writer : At(p, "start") \/ At(p, "thr")

\* The console implements the terminal of module Tty.
Slice(b, size, from, k) == [i \in 1 .. k |-> b[(from + i - 1) % size]]
InThr(p) == IF At(p, "thr") THEN <<c[p]>> ELSE <<>>
T == INSTANCE Tty WITH
       SIZE  <- INPUT_BUF_SIZE,
       ready <- Slice(buf, INPUT_BUF_SIZE, r, (w - r) % UINT),
       edit  <- Slice(buf, INPUT_BUF_SIZE, w, (e - w) % UINT),
       want  <- target,
       out   <- SelectSeq(thr, LAMBDA x : x # "echo")
                  \o (IF txlock = None THEN <<>> ELSE InThr(txlock))
                  \o Slice(txbuf, UART_TX_BUF_SIZE, txr, (txw - txr) % TXUINT)
\* What was typed reaches the readers in order, each character one read, which
\* returns only with a line's end, with as many characters as it asked for,
\* before an end-of-file mark, with nothing for a mark that it takes away, or
\* killed; what is erased was not yet delivered.  The characters that programs
\* write are sent once each, in the order of their uartputc().
ImplementsTty == T!Spec
=============================================================================
