------------------------------- MODULE Console -------------------------------
(***************************************************************************)
(* kernel/console.c, kernel/uart.c, kernel/plic.c and the device half of   *)
(* devintr() in kernel/trap.c: processes in consoleread() and              *)
(* consolewrite(), the interrupt handler that one CPU at a time runs for   *)
(* the UART, and the UART.  A critical section of uart_tx_lock is one      *)
(* step.  cons.lock is a variable, because the handler waits for the UART  *)
(* while it holds it, and because kill() does not take it.                 *)
(***************************************************************************)
EXTENDS Integers, Sequences

CONSTANTS Readers, Writers,   \* processes in read() and write() of the console
          INPUT_BUF,
          UINT,               \* the indices of cons are unsigned: modulo UINT
          Starts,             \* the index the input ring has come to at first
          Lengths,            \* byte counts of read() and write()
          UART_TX_BUF_SIZE,
          Keys,               \* characters that can be typed
          Budgets             \* bounds: keys pressed, reads and writes of a process

ASSUME IndicesAssumption == UINT % INPUT_BUF = 0 /\ INPUT_BUF < UINT

VARIABLES cons,      \* the input ring: buf, r, w, e
          conslock,  \* cons.lock: a reader, "intr" for the handler, or "none"
          rd, wr,    \* the calls of readers and writers
          killed,
          tx,        \* uart_tx_w, uart_tx_r
          uart,      \* the device: received bytes, bytes being sent, its interrupt
          hand,      \* the handler: where it is, its character, echoes to send
          keys, calls \* keys to press, calls a process has left

vars == <<cons, conslock, rd, wr, killed, tx, uart, hand, keys, calls>>

NoRead == [pc |-> "idle", n |-> 0, target |-> 0]
NoWrite == [pc |-> "idle", n |-> 0]
NoIntr == [pc |-> "idle", c |-> "nul", echo |-> 0]

Init ==
  /\ \E i \in Starts : cons = [buf |-> [k \in 0..INPUT_BUF - 1 |-> "nul"], r |-> i, w |-> i, e |-> i]
  /\ conslock = "none"
  /\ rd = [p \in Readers |-> NoRead]
  /\ wr = [p \in Writers |-> NoWrite]
  /\ killed = [p \in Readers |-> FALSE]
  /\ tx = [w |-> 0, r |-> 0]
  /\ uart = [rhr |-> <<>>, thr |-> 0, irq |-> FALSE]
  /\ hand = NoIntr
  /\ \E b \in Budgets :
       /\ keys = b.keys
       /\ calls = [p \in Readers \cup Writers |-> IF p \in Readers THEN b.reads ELSE b.writes]

(***************************************************************************)
(* The input ring.                                                         *)
(***************************************************************************)
At(i) == cons.buf[i % INPUT_BUF]
Plus(i, k) == (i + k) % UINT
Ring(from, to) == [k \in 1..Plus(to, UINT - from) |-> At(Plus(from, k - 1))]

Room == Plus(cons.e, UINT - cons.r) < INPUT_BUF

Kept(c) == IF c = "cr" THEN "nl" ELSE c

(* Mutant: the sum does not wrap as the indices do. *)
EndsLine_NoWrap(c, e) == c \in {"nl", "eof"} \/ e = cons.r + INPUT_BUF

EndsLine(c, e) == c \in {"nl", "eof"} \/ e = Plus(cons.r, INPUT_BUF)

Stored(c) ==
  LET e == Plus(cons.e, 1)
  IN [cons EXCEPT !.buf[cons.e % INPUT_BUF] = c, !.e = e, !.w = IF EndsLine(c, e) THEN e ELSE @]

(* How many characters consoleintr(c) takes back: none, one, or back to the *)
(* last end of line.                                                        *)
Erased(c) ==
  LET edited == Plus(cons.e, UINT - cons.w)
      line == {k \in 0..edited : \A j \in 1..k : At(Plus(cons.e, UINT - j)) # "nl"}
  IN CASE c = "bs" -> IF edited > 0 THEN 1 ELSE 0
       [] c = "kill" -> CHOOSE k \in line : \A j \in line : j <= k
       [] OTHER -> 0

Ordinary(c) == c \notin {"nul", "bs", "kill", "dump"}

(* consputc: a character erased takes three of the UART. *)
Echoes(c) == IF Ordinary(c) /\ Room THEN 1 ELSE 3 * Erased(c)

consoleintr(c) ==
  IF Ordinary(c) /\ Room THEN Stored(Kept(c)) ELSE [cons EXCEPT !.e = Plus(@, UINT - Erased(c))]

(* wakeup(&cons.r), which consoleintr calls when it moves cons.w. *)
Woken == [p \in Readers |-> IF rd[p].pc = "asleep" THEN [rd[p] EXCEPT !.pc = "acquire"] ELSE rd[p]]

(***************************************************************************)
(* consoleread, under cons.lock except while it sleeps.                     *)
(***************************************************************************)
Free == conslock = "none"

sys_read(p, n) ==
  /\ rd[p].pc = "idle" /\ ~killed[p] /\ calls[p] > 0
  /\ rd' = [rd EXCEPT ![p] = [pc |-> "acquire", n |-> n, target |-> n]]
  /\ calls' = [calls EXCEPT ![p] = @ - 1]
  /\ UNCHANGED <<cons, conslock, wr, killed, tx, uart, hand, keys>>

Acquire(p) ==
  /\ rd[p].pc = "acquire" /\ Free
  /\ conslock' = p
  /\ rd' = [rd EXCEPT ![p].pc = "loop"]
  /\ UNCHANGED <<cons, wr, killed, tx, uart, hand, keys, calls>>

Return(p) == conslock' = "none" /\ rd' = [rd EXCEPT ![p] = NoRead]

(* Nothing to read: a killed process gives up, any other goes to sleep. *)
ReadEmpty(p) ==
  /\ rd[p].pc = "loop" /\ rd[p].n > 0 /\ cons.r = cons.w
  /\ IF killed[p] THEN Return(p) ELSE rd' = [rd EXCEPT ![p].pc = "sleep"] /\ UNCHANGED conslock
  /\ UNCHANGED <<cons, wr, killed, tx, uart, hand, keys, calls>>

(* sleep(&cons.r, &cons.lock): a kill() may come between the test and it. *)
ReadSleep(p) ==
  /\ rd[p].pc = "sleep"
  /\ rd' = [rd EXCEPT ![p].pc = "asleep"]
  /\ conslock' = "none"
  /\ UNCHANGED <<cons, wr, killed, tx, uart, hand, keys, calls>>

(* Mutant: the end of file is taken by the read that ends before it. *)
SaveEof_Never(p) == FALSE

(* End of file after some bytes is left for the next call. *)
SaveEof(p) == rd[p].n < rd[p].target

(* One character; ok is whether either_copyout succeeded. *)
ReadChar(p, ok) ==
  /\ rd[p].pc = "loop" /\ rd[p].n > 0 /\ cons.r # cons.w
  /\ cons' = IF At(cons.r) = "eof" /\ SaveEof(p) THEN cons ELSE [cons EXCEPT !.r = Plus(@, 1)]
  /\ IF At(cons.r) \in {"eof", "nl"} \/ ~ok THEN Return(p)
     ELSE rd' = [rd EXCEPT ![p].n = @ - 1] /\ UNCHANGED conslock
  /\ UNCHANGED <<wr, killed, tx, uart, hand, keys, calls>>

ReadFull(p) ==
  /\ rd[p].pc = "loop" /\ rd[p].n = 0
  /\ Return(p)
  /\ UNCHANGED <<cons, wr, killed, tx, uart, hand, keys, calls>>

(* kill() wakes a sleeper, which then asks for cons.lock again. *)
Kill(p) ==
  /\ ~killed[p] /\ rd[p].pc # "idle"
  /\ killed' = [killed EXCEPT ![p] = TRUE]
  /\ rd' = [rd EXCEPT ![p].pc = IF @ = "asleep" THEN "acquire" ELSE @]
  /\ UNCHANGED <<cons, conslock, wr, tx, uart, hand, keys, calls>>

(***************************************************************************)
(* Output: what is in the transmit ring and what the UART is sending.       *)
(***************************************************************************)
TxFull == tx.w = tx.r + UART_TX_BUF_SIZE
Idle == uart.thr = 0

Awake(v) == [p \in Writers |-> IF v[p].pc = "asleep" THEN [v[p] EXCEPT !.pc = "put"] ELSE v[p]]

(* Mutant: nobody is told of the space. *)
uartstart_Silent(t, v) ==
  IF t.w # t.r /\ Idle
  THEN tx' = [t EXCEPT !.r = @ + 1] /\ uart' = [uart EXCEPT !.thr = @ + 1] /\ wr' = v
  ELSE tx' = t /\ wr' = v /\ UNCHANGED uart

(* uartstart on the ring t and the writers v: an idle UART gets one byte,   *)
(* after which it is not idle, and writers that wait for space wake up.     *)
uartstart(t, v) ==
  IF t.w # t.r /\ Idle
  THEN tx' = [t EXCEPT !.r = @ + 1] /\ uart' = [uart EXCEPT !.thr = @ + 1] /\ wr' = Awake(v)
  ELSE tx' = t /\ wr' = v /\ UNCHANGED uart

sys_write(p, n) ==
  /\ wr[p].pc = "idle" /\ calls[p] > 0
  /\ wr' = [wr EXCEPT ![p] = [pc |-> "copy", n |-> n]]
  /\ calls' = [calls EXCEPT ![p] = @ - 1]
  /\ UNCHANGED <<cons, conslock, rd, killed, tx, uart, hand, keys>>

WriteNext(p) == [wr EXCEPT ![p] = IF @.n = 1 THEN NoWrite ELSE [pc |-> "copy", n |-> @.n - 1]]

(* consolewrite gives up at a byte that either_copyin cannot fetch. *)
consolewrite(p, ok) ==
  /\ wr[p].pc = "copy"
  /\ wr' = [wr EXCEPT ![p] = IF ok THEN [@ EXCEPT !.pc = "put"] ELSE NoWrite]
  /\ UNCHANGED <<cons, conslock, rd, killed, tx, uart, hand, keys, calls>>

uartputc(p) ==
  /\ wr[p].pc = "put" /\ ~TxFull
  /\ uartstart([tx EXCEPT !.w = @ + 1], WriteNext(p))
  /\ UNCHANGED <<cons, conslock, rd, killed, hand, keys, calls>>

uartputc_sleep(p) ==
  /\ wr[p].pc = "put" /\ TxFull
  /\ wr' = [wr EXCEPT ![p].pc = "asleep"]
  /\ UNCHANGED <<cons, conslock, rd, killed, tx, uart, hand, keys, calls>>

(***************************************************************************)
(* The handler.  plic_claim takes the interrupt; until plic_complete the    *)
(* UART can raise another but no CPU can claim it.                          *)
(***************************************************************************)
plic_claim ==
  /\ hand.pc = "idle" /\ uart.irq
  /\ uart' = [uart EXCEPT !.irq = FALSE]
  /\ hand' = [hand EXCEPT !.pc = "getc"]
  /\ UNCHANGED <<cons, conslock, rd, wr, killed, tx, keys, calls>>

uartgetc ==
  /\ hand.pc = "getc"
  /\ IF uart.rhr = <<>> THEN hand' = [hand EXCEPT !.pc = "start"] /\ UNCHANGED uart
     ELSE hand' = [hand EXCEPT !.pc = "acquire", !.c = Head(uart.rhr)] /\ uart' = [uart EXCEPT !.rhr = Tail(@)]
  /\ UNCHANGED <<cons, conslock, rd, wr, killed, tx, keys, calls>>

IntrAcquire ==
  /\ hand.pc = "acquire" /\ Free
  /\ conslock' = "intr"
  /\ hand' = [hand EXCEPT !.pc = "echo", !.echo = Echoes(hand.c)]
  /\ UNCHANGED <<cons, rd, wr, killed, tx, uart, keys, calls>>

(* uartputc_sync: wait for an idle UART, then write to it.  uart_tx_lock is *)
(* not held: another CPU's uartstart may write in between.                  *)
SyncWait ==
  /\ hand.pc = "echo" /\ hand.echo > 0 /\ Idle
  /\ hand' = [hand EXCEPT !.pc = "sync"]
  /\ UNCHANGED <<cons, conslock, rd, wr, killed, tx, uart, keys, calls>>

SyncWrite ==
  /\ hand.pc = "sync"
  /\ uart' = [uart EXCEPT !.thr = @ + 1]
  /\ hand' = [hand EXCEPT !.pc = "echo", !.echo = @ - 1]
  /\ UNCHANGED <<cons, conslock, rd, wr, killed, tx, keys, calls>>

(* All is echoed.  The ring is changed under one holding of cons.lock, so   *)
(* that it is changed in the last step shows to no one.                     *)
Echoed ==
  /\ hand.pc = "echo" /\ hand.echo = 0
  /\ cons' = consoleintr(hand.c)
  /\ rd' = IF consoleintr(hand.c).w # cons.w THEN Woken ELSE rd
  /\ conslock' = "none"
  /\ hand' = [NoIntr EXCEPT !.pc = "getc"]
  /\ UNCHANGED <<wr, killed, tx, uart, keys, calls>>

IntrStart ==
  /\ hand.pc = "start"
  /\ uartstart(tx, wr)
  /\ hand' = [hand EXCEPT !.pc = "complete"]
  /\ UNCHANGED <<cons, conslock, rd, killed, keys, calls>>

plic_complete ==
  /\ hand.pc = "complete"
  /\ hand' = NoIntr
  /\ UNCHANGED <<cons, conslock, rd, wr, killed, tx, uart, keys, calls>>

(***************************************************************************)
(* The UART: a key is pressed, a byte leaves.  It interrupts for a byte     *)
(* received and when it has nothing more to send.                           *)
(***************************************************************************)
Press(c) ==
  /\ keys > 0 /\ uart.rhr = <<>>
  /\ uart' = [uart EXCEPT !.rhr = Append(@, c), !.irq = TRUE]
  /\ keys' = keys - 1
  /\ UNCHANGED <<cons, conslock, rd, wr, killed, tx, hand, calls>>

Send ==
  /\ uart.thr > 0
  /\ uart' = [uart EXCEPT !.thr = @ - 1, !.irq = @ \/ uart.thr = 1]
  /\ UNCHANGED <<cons, conslock, rd, wr, killed, tx, hand, keys, calls>>

Reader(p) == Acquire(p) \/ ReadEmpty(p) \/ ReadSleep(p) \/ (\E ok \in BOOLEAN : ReadChar(p, ok)) \/ ReadFull(p)
Writer(p) == uartputc(p) \/ uartputc_sleep(p) \/ (\E ok \in BOOLEAN : consolewrite(p, ok))
uartintr == plic_claim \/ uartgetc \/ IntrAcquire \/ SyncWait \/ SyncWrite \/ Echoed \/ IntrStart \/ plic_complete

Next ==
  \/ \E p \in Readers : Reader(p) \/ Kill(p) \/ \E n \in Lengths : sys_read(p, n)
  \/ \E p \in Writers : Writer(p) \/ \E n \in Lengths : sys_write(p, n)
  \/ uartintr
  \/ (\E c \in Keys : Press(c)) \/ Send

(* A process that can run does, a claimed interrupt is served, an interrupt  *)
(* is taken, and the UART sends what it is given.                           *)
Fairness ==
  /\ \A p \in Readers : WF_vars(Reader(p))
  /\ \A p \in Writers : WF_vars(Writer(p))
  /\ WF_vars(uartintr) /\ WF_vars(Send)

Spec == Init /\ [][Next]_vars /\ Fairness

(***************************************************************************)
(* Properties.                                                             *)
(***************************************************************************)
(* consoleintr and consoleread implement editable lines that are read once  *)
(* and in order: the ring between r and w is what can be read, between w    *)
(* and e what can be edited, also when the unsigned indices wrap.           *)
Lines == INSTANCE LineInput WITH
  Size <- INPUT_BUF, Chars <- Keys \cup {"nl"}, LineEnds <- {"nl", "eof"},
  line <- Ring(cons.w, cons.e), ready <- Ring(cons.r, cons.w)
LineSpec == Lines!LineSpec

(* consoleread: an end of file is consumed only by a call that returns no   *)
(* bytes, so a program that reads until it gets none stops there.           *)
EofReturnsNothing ==
  [][cons'.r # cons.r /\ At(cons.r) = "eof"
       => \E p \in Readers : rd[p].pc = "loop" /\ rd[p].n = rd[p].target /\ rd'[p].pc = "idle"]_vars

(* Every write() to the console ends, however often its bytes wait for      *)
(* space; and input that can be read is read while someone wants it.        *)
ConsoleProgress ==
  /\ \A p \in Writers : wr[p].pc # "idle" ~> wr[p].pc = "idle"
  /\ cons.r # cons.w ~> (cons.r = cons.w \/ \A p \in Readers : rd[p].pc = "idle")
=============================================================================
