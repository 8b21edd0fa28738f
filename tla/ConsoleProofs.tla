--------------------------- MODULE ConsoleProofs ----------------------------
(* Console, for any number of programs and any sizes of the buffers: the   *)
(* indices stay in order, no wakeup is lost, and output does not stop.     *)
EXTENDS Console, Residues, TLAPS

\* Where a process stands, and which locks it holds there.
PcInv ==
  /\ \A p \in Reader : pc[p] \in {"away", "idle", "loop", "acquire", "sleep", "asleep", "return"}
  /\ \A p \in Writer : pc[p] \in {"away", "idle", "asleep", "start", "thr"}
  /\ pc[Intr] \in {"idle", "getc", "switch", "echo", "thr_sync", "start", "thr"}
LockInv ==
  /\ \A p \in Reader : conslock = p <=> pc[p] \in {"loop", "sleep", "return"}
  /\ conslock = Intr <=> pc[Intr] \in {"switch", "echo", "thr_sync"}
  /\ \A p \in Writer \cup {Intr} : txlock = p <=> pc[p] \in {"start", "thr"}

\* The characters on their way.  The handler has tested that there is room for
\* the one it echoes.
CharInv ==
  /\ pc[Intr] = "switch" => c[Intr] \in Char \cup {"kill", "erase", "print", "nul"}
  /\ pc[Intr] \in {"echo", "thr_sync"} =>
       c[Intr] \in {"kill", "erase", "print"} \/ (c[Intr] \in Char /\ Count < INPUT_BUF_SIZE)
  /\ \A p \in Writer \cup {Intr} : pc[p] = "thr" => c[p] \in OutChar

IndexInv ==
  /\ (w - r) % UINT <= Count /\ Count <= INPUT_BUF_SIZE
  /\ Count = INPUT_BUF_SIZE => w = e

\* The output buffer
TxCount == (txw - txr) % TXUINT
InTx(i) == txbuf[(txr + i) % UART_TX_BUF_SIZE]
TxInv == TxCount <= UART_TX_BUF_SIZE /\ \A i \in 0 .. TxCount - 1 : InTx(i) \in OutChar

\* Only two can have seen the UART idle and not have given it a character yet:
\* the holder of uart_tx_lock and the handler, echoing.
FifoInv ==
  /\ Len(thr) <= 2
  /\ pc[Intr] = "thr_sync" => Len(thr) <= 1
  /\ \A p \in Writer \cup {Intr} : pc[p] = "thr" => Len(thr) <= 1
  /\ pc[Intr] = "thr_sync" /\ (\E p \in Writer : pc[p] = "thr") => Len(thr) = 0

\* A reader that is about to sleep holds cons.lock.
SleepInv == SleepersHaveReason /\ \A p \in Reader : pc[p] = "sleep" => r = w

IInv ==
  /\ TypeOK /\ PcInv /\ LockInv /\ CharInv
  /\ IndexInv /\ TxInv /\ FifoInv /\ SleepInv /\ OutputMoves

-----------------------------------------------------------------------------
(* The indices                                                             *)

LEMMA Sizes ==
  /\ UINT \in Nat \ {0} /\ INPUT_BUF_SIZE \in Nat \ {0} /\ INPUT_BUF_SIZE < UINT
  /\ INPUT_BUF_SIZE \in 0 .. UINT - 1 /\ 1 \in 0 .. UINT - 1 /\ UINT % INPUT_BUF_SIZE = 0
  /\ TXUINT \in Nat \ {0} /\ UART_TX_BUF_SIZE \in Nat \ {0} /\ UART_TX_BUF_SIZE < TXUINT
  /\ UART_TX_BUF_SIZE \in 0 .. TXUINT - 1 /\ 1 \in 0 .. TXUINT - 1
  /\ TXUINT % UART_TX_BUF_SIZE = 0
<1>1. ASSUME NEW size \in Nat \ {0}
      PROVE  /\ size * WRAP \in Nat \ {0} /\ size < size * WRAP /\ 1 < size * WRAP
             /\ (size * WRAP) % size = 0
  <2>1. WRAP \in Nat /\ WRAP - 1 \in Int /\ WRAP - 1 >= 1
    BY ConsoleAssumption
  <2>2. size * (WRAP - 1) >= size
    BY <2>1, MulGrows, Zenon
  <2>3. size * WRAP = size + size * (WRAP - 1)
    BY <2>1
  <2>4. (size * WRAP) % size = 0
    BY <2>1, Multiple, Zenon
  <2> QED
    BY <2>1, <2>2, <2>3, <2>4
<1>2. INPUT_BUF_SIZE \in Nat \ {0} /\ UART_TX_BUF_SIZE \in Nat \ {0}
  BY ConsoleAssumption, Zenon
<1>3. /\ UINT \in Nat \ {0} /\ INPUT_BUF_SIZE < UINT /\ 1 < UINT /\ UINT % INPUT_BUF_SIZE = 0
      /\ TXUINT \in Nat \ {0} /\ UART_TX_BUF_SIZE < TXUINT /\ 1 < TXUINT
      /\ TXUINT % UART_TX_BUF_SIZE = 0
  BY <1>1, <1>2, Zenon DEF UINT, TXUINT
<1> QED
  BY <1>2, <1>3

\* The distances of the indices, in one state and the next
LEMMA CountsAre ==
  ASSUME TypeOK
  PROVE  /\ Count \in 0 .. UINT - 1
         /\ Count = IF e >= r THEN e - r ELSE e - r + UINT
         /\ (w - r) % UINT \in 0 .. UINT - 1
         /\ (w - r) % UINT = IF w >= r THEN w - r ELSE w - r + UINT
         /\ TxCount \in 0 .. TXUINT - 1
         /\ TxCount = IF txw >= txr THEN txw - txr ELSE txw - txr + TXUINT
<1>1. /\ r \in 0 .. UINT - 1 /\ w \in 0 .. UINT - 1 /\ e \in 0 .. UINT - 1
      /\ txr \in 0 .. TXUINT - 1 /\ txw \in 0 .. TXUINT - 1
  BY Zenon DEF TypeOK
<1> QED
  BY <1>1, Sizes, Distance, ZenonT(20) DEF Count, TxCount

LEMMA CountsAreNext ==
  ASSUME TypeOK'
  PROVE  /\ Count' \in 0 .. UINT - 1
         /\ Count' = IF e' >= r' THEN e' - r' ELSE e' - r' + UINT
         /\ (w' - r') % UINT \in 0 .. UINT - 1
         /\ (w' - r') % UINT = IF w' >= r' THEN w' - r' ELSE w' - r' + UINT
         /\ TxCount' \in 0 .. TXUINT - 1
         /\ TxCount' = IF txw' >= txr' THEN txw' - txr' ELSE txw' - txr' + TXUINT
<1>1. /\ r' \in 0 .. UINT - 1 /\ w' \in 0 .. UINT - 1 /\ e' \in 0 .. UINT - 1
      /\ txr' \in 0 .. TXUINT - 1 /\ txw' \in 0 .. TXUINT - 1
  BY Zenon DEF TypeOK
<1> QED
  BY <1>1, Sizes, Distance, ZenonT(20) DEF Count, TxCount

\* One step of an index
LEMMA Succ ==
  ASSUME NEW i \in 0 .. UINT - 1
  PROVE  /\ Plus(i, 1) = IF i + 1 < UINT THEN i + 1 ELSE i + 1 - UINT
         /\ Plus(i, -1) = IF i >= 1 THEN i - 1 ELSE i - 1 + UINT
         /\ Plus(i, 1) \in 0 .. UINT - 1 /\ Plus(i, -1) \in 0 .. UINT - 1
<1>1. Plus(i, 1) = IF i + 1 < UINT THEN i + 1 ELSE i + 1 - UINT
  BY Sizes, Wraps, Zenon DEF Plus
<1>2. (i - 1) % UINT = IF i >= 1 THEN i - 1 ELSE i - 1 + UINT
  BY Sizes, Distance, Zenon
<1>3. i + (-1) = i - 1
  BY Zenon
<1>4. Plus(i, -1) = IF i >= 1 THEN i - 1 ELSE i - 1 + UINT
  BY <1>2, <1>3, Zenon DEF Plus
<1> QED
  BY <1>1, <1>4, Sizes

LEMMA TxSucc ==
  ASSUME NEW i \in 0 .. TXUINT - 1
  PROVE  /\ (i + 1) % TXUINT = IF i + 1 < TXUINT THEN i + 1 ELSE i + 1 - TXUINT
         /\ (i + 1) % TXUINT \in 0 .. TXUINT - 1
<1>1. (i + 1) % TXUINT = IF i + 1 < TXUINT THEN i + 1 ELSE i + 1 - TXUINT
  BY Sizes, Wraps, Zenon
<1> QED
  BY <1>1, Sizes

LEMMA FullIs == ASSUME TypeOK PROVE Full <=> TxCount = UART_TX_BUF_SIZE
<1>1. txr \in 0 .. TXUINT - 1 /\ txw \in 0 .. TXUINT - 1
  BY Zenon DEF TypeOK
<1>2. (txr + UART_TX_BUF_SIZE) % TXUINT
        = IF txr + UART_TX_BUF_SIZE < TXUINT THEN txr + UART_TX_BUF_SIZE
          ELSE txr + UART_TX_BUF_SIZE - TXUINT
  BY <1>1, Sizes, Wraps, Zenon
<1> QED
  BY <1>1, <1>2, Sizes, CountsAre DEF Full

\* Where an index stands in its buffer
LEMMA Slots ==
  ASSUME NEW i \in Int
  PROVE  /\ i % INPUT_BUF_SIZE \in 0 .. INPUT_BUF_SIZE - 1
         /\ i % UART_TX_BUF_SIZE \in 0 .. UART_TX_BUF_SIZE - 1
         /\ (i + TXUINT) % UART_TX_BUF_SIZE = i % UART_TX_BUF_SIZE
<1>1. i % INPUT_BUF_SIZE \in 0 .. INPUT_BUF_SIZE - 1 /\ i % UART_TX_BUF_SIZE \in 0 .. UART_TX_BUF_SIZE - 1
  BY Sizes, Division, Zenon
<1>2. TXUINT \in Nat
  BY Sizes, Zenon
<1>3. (i + TXUINT) % UART_TX_BUF_SIZE = i % UART_TX_BUF_SIZE
  BY <1>2, Sizes, SameSlot, Zenon
<1> QED
  BY <1>1, <1>3, Zenon

-----------------------------------------------------------------------------
(* What the steps do to the indices and to the output buffer               *)

\* A character is taken from the input buffer.
LEMMA Taken ==
  ASSUME TypeOK, TypeOK', IndexInv, r # w, r' = Plus(r, 1), UNCHANGED <<w, e>>
  PROVE  IndexInv'
<1>1. /\ r \in 0 .. UINT - 1 /\ w \in 0 .. UINT - 1 /\ e \in 0 .. UINT - 1
      /\ UINT \in Nat /\ INPUT_BUF_SIZE \in Nat /\ INPUT_BUF_SIZE < UINT
  BY Sizes, Zenon DEF TypeOK
<1>2. r' = IF r + 1 < UINT THEN r + 1 ELSE r + 1 - UINT
  BY <1>1, Succ, Zenon
<1>4. Count' = Count - 1 /\ (w' - r') % UINT = ((w - r) % UINT) - 1
  BY <1>1, <1>2, CountsAre, CountsAreNext DEF IndexInv
<1> QED
  BY <1>1, <1>4, CountsAre DEF IndexInv

LEMMA Erased ==
  ASSUME TypeOK, TypeOK', IndexInv, e # w, e' = Plus(e, -1), UNCHANGED <<r, w>>
  PROVE  IndexInv'
<1>1. /\ r \in 0 .. UINT - 1 /\ w \in 0 .. UINT - 1 /\ e \in 0 .. UINT - 1
      /\ UINT \in Nat /\ INPUT_BUF_SIZE \in Nat /\ INPUT_BUF_SIZE < UINT
  BY Sizes, Zenon DEF TypeOK
<1>2. e' = IF e >= 1 THEN e - 1 ELSE e - 1 + UINT
  BY <1>1, Succ, Zenon
<1>4. Count' = Count - 1 /\ (w' - r') % UINT = (w - r) % UINT /\ (w - r) % UINT < Count
  BY <1>1, <1>2, CountsAre, CountsAreNext DEF IndexInv
<1> QED
  BY <1>1, <1>4, CountsAre DEF IndexInv

LEMMA Stored ==
  ASSUME TypeOK, TypeOK', IndexInv, Count < INPUT_BUF_SIZE, e' = Plus(e, 1),
         w' = e' \/ (w' = w /\ Count # INPUT_BUF_SIZE - 1), r' = r
  PROVE  IndexInv'
<1>1. /\ r \in 0 .. UINT - 1 /\ w \in 0 .. UINT - 1 /\ e \in 0 .. UINT - 1
      /\ UINT \in Nat /\ INPUT_BUF_SIZE \in Nat /\ INPUT_BUF_SIZE < UINT
  BY Sizes, Zenon DEF TypeOK
<1>2. e' = IF e + 1 < UINT THEN e + 1 ELSE e + 1 - UINT
  BY <1>1, Succ, Zenon
<1>4. Count' = Count + 1
  BY <1>1, <1>2, CountsAre, CountsAreNext
<1>5. (w' - r') % UINT = Count' \/ (w' = w /\ (w' - r') % UINT = (w - r) % UINT)
  BY <1>1, <1>2, CountsAre, CountsAreNext, Zenon
<1> QED
  BY <1>1, <1>4, <1>5, CountsAre DEF IndexInv

\* uartputc() fills a free slot of the output buffer; uartstart() empties one.
LEMMA TxPut ==
  ASSUME TypeOK, TypeOK', TxInv, ~Full, NEW k \in OutChar,
         txbuf' = [txbuf EXCEPT ![txw % UART_TX_BUF_SIZE] = k],
         txw' = (txw + 1) % TXUINT, txr' = txr
  PROVE  TxInv'
<1>1. /\ txr \in 0 .. TXUINT - 1 /\ txw \in 0 .. TXUINT - 1 /\ TXUINT \in Nat /\ TxCount \in Nat
      /\ UART_TX_BUF_SIZE \in Nat \ {0} /\ UART_TX_BUF_SIZE < TXUINT
      /\ txbuf \in [0 .. UART_TX_BUF_SIZE - 1 -> OutChar \cup {"nul"}]
  <2>1. TxCount \in Nat
    BY Sizes, CountsAre
  <2> QED
    BY <2>1, Sizes, Zenon DEF TypeOK
<1>2. txw' = IF txw + 1 < TXUINT THEN txw + 1 ELSE txw + 1 - TXUINT
  BY <1>1, TxSucc, Zenon
<1>3. TxCount < UART_TX_BUF_SIZE
  BY <1>1, FullIs DEF TxInv
<1>4. TxCount' = TxCount + 1
  BY <1>1, <1>2, <1>3, CountsAre, CountsAreNext
<1>5. (txr + TxCount) % UART_TX_BUF_SIZE = txw % UART_TX_BUF_SIZE
  <2>1. txr + TxCount = txw \/ txr + TxCount = txw + TXUINT
    BY <1>1, CountsAre
  <2>2. txw \in Int
    BY <1>1
  <2> QED
    BY <2>1, <2>2, Slots, Zenon
<1>6. ASSUME NEW i \in 0 .. TxCount PROVE InTx(i)' \in OutChar
  <2>1. InTx(i)' = txbuf'[(txr + i) % UART_TX_BUF_SIZE]
    BY Zenon DEF InTx
  <2>2. txr + i \in Int /\ txw \in Int
    BY <1>1
  <2>3. /\ (txr + i) % UART_TX_BUF_SIZE \in 0 .. UART_TX_BUF_SIZE - 1
        /\ txw % UART_TX_BUF_SIZE \in 0 .. UART_TX_BUF_SIZE - 1
    BY <2>2, Slots, Zenon
  <2>4. CASE i = TxCount
    BY <1>1, <1>5, <2>1, <2>3, <2>4, Zenon
  <2>5. CASE i # TxCount
    <3>1. i \in 0 .. TxCount - 1
      BY <1>1, <2>5
    <3>2. txbuf[(txr + i) % UART_TX_BUF_SIZE] \in OutChar
      BY <3>1, Zenon DEF TxInv, InTx
    <3> QED
      BY <1>1, <2>1, <2>3, <3>2, Zenon
  <2> QED
    BY <2>4, <2>5, Zenon
<1> QED
  BY <1>1, <1>3, <1>4, <1>6 DEF TxInv

LEMMA TxTake ==
  ASSUME TypeOK, TypeOK', TxInv, txw # txr,
         txr' = (txr + 1) % TXUINT, UNCHANGED <<txbuf, txw>>
  PROVE  TxInv'
<1>1. /\ txr \in 0 .. TXUINT - 1 /\ txw \in 0 .. TXUINT - 1 /\ TXUINT \in Nat /\ TxCount \in Nat
      /\ UART_TX_BUF_SIZE \in Nat \ {0} /\ UART_TX_BUF_SIZE < TXUINT
  <2>1. TxCount \in Nat
    BY Sizes, CountsAre
  <2> QED
    BY <2>1, Sizes, Zenon DEF TypeOK
<1>2. txr' = IF txr + 1 < TXUINT THEN txr + 1 ELSE txr + 1 - TXUINT
  BY <1>1, TxSucc, Zenon
<1>3. TxCount' = TxCount - 1
  BY <1>1, <1>2, CountsAre, CountsAreNext DEF TxInv
<1>4. ASSUME NEW i \in 0 .. TxCount - 2 PROVE InTx(i)' \in OutChar
  <2>1. PICK a \in Int, b \in Int : a = txr' + i /\ b = txr + (i + 1)
    <3>1. txr' + i \in Int /\ txr + (i + 1) \in Int
      BY <1>1, <1>2
    <3> QED
      BY <3>1, Zenon
  <2>2. b = a \/ b = a + TXUINT
    BY <1>1, <1>2, <2>1
  <2>3. a % UART_TX_BUF_SIZE = b % UART_TX_BUF_SIZE
    BY <2>2, Slots, Zenon
  <2>4. i + 1 \in 0 .. TxCount - 1
    BY <1>1
  <2>5. InTx(i + 1) \in OutChar
    BY <2>4, Zenon DEF TxInv
  <2>6. InTx(i)' = txbuf[(txr' + i) % UART_TX_BUF_SIZE]
    BY Zenon DEF InTx
  <2>7. InTx(i + 1) = txbuf[(txr + (i + 1)) % UART_TX_BUF_SIZE]
    BY Zenon DEF InTx
  <2> QED
    BY <2>1, <2>3, <2>5, <2>6, <2>7, Zenon
<1> QED
  BY <1>1, <1>3, <1>4 DEF TxInv

\* The next character to be sent
LEMMA TxFirst ==
  ASSUME TypeOK, TxInv, txw # txr PROVE txbuf[txr % UART_TX_BUF_SIZE] \in OutChar
<1>1. txr \in 0 .. TXUINT - 1 /\ txw \in 0 .. TXUINT - 1 /\ TXUINT \in Nat
  BY Sizes, Zenon DEF TypeOK
<1>2. 0 \in 0 .. TxCount - 1
  BY <1>1, CountsAre
<1>3. InTx(0) \in OutChar
  BY <1>2, Zenon DEF TxInv
<1>4. txr + 0 = txr
  BY <1>1
<1> QED
  BY <1>3, <1>4, Zenon DEF InTx

-----------------------------------------------------------------------------
(* Frames                                                                  *)

LEMMA InputFrame == ASSUME IndexInv, UNCHANGED <<r, w, e>> PROVE IndexInv' /\ Count' = Count
  BY Zenon DEF IndexInv, Count

LEMMA OutputFrame == ASSUME TxInv, UNCHANGED tx PROVE TxInv' /\ (Full' <=> Full)
  BY Zenon DEF TxInv, TxCount, InTx, tx, Full

\* A step of a program in consoleread(): output goes on as before.
LEMMA ReaderFrame ==
  ASSUME IInv, NEW p \in Reader, TypeOK', PcInv', \A q \in Proc \ {p} : pc'[q] = pc[q],
         UNCHANGED <<txlock, tx, uart, c>>, Count' # Count => pc[Intr] \notin {"echo", "thr_sync"}
  PROVE  /\ CharInv' /\ TxInv' /\ FifoInv' /\ OutputMoves'
         /\ \A q \in Writer \cup {Intr} : txlock' = q <=> pc'[q] \in {"start", "thr"}
         /\ \A q \in Writer : At(q, "asleep")' => Full'
<1>1. \A q \in Writer \cup {Intr} : pc'[q] = pc[q]
  BY ConsoleAssumption, Zenon DEF Proc
<1>2. TxInv' /\ (Full' <=> Full)
  BY OutputFrame, Zenon DEF IInv
<1>3. CharInv'
  BY <1>1, Zenon DEF IInv, CharInv
<1>4. FifoInv'
  BY <1>1, Zenon DEF IInv, FifoInv, uart
<1>5. OutputMoves'
  BY <1>1, Zenon DEF IInv, OutputMoves, At, uart, tx
<1> QED
  BY <1>1, <1>2, <1>3, <1>4, <1>5, Zenon DEF IInv, LockInv, SleepInv, SleepersHaveReason, At

\* A step of uartputc(), uartstart() or the handler: readers are not concerned.
LEMMA WriterFrame ==
  ASSUME IInv, TypeOK', \A q \in Reader : pc'[q] = pc[q],
         UNCHANGED <<r, w, e, conslock>>, pc[Intr] \in {"switch", "echo", "thr_sync"} <=>
           pc'[Intr] \in {"switch", "echo", "thr_sync"}
  PROVE  /\ IndexInv' /\ \A q \in Reader : conslock' = q <=> pc'[q] \in {"loop", "sleep", "return"}
         /\ conslock' = Intr <=> pc'[Intr] \in {"switch", "echo", "thr_sync"}
         /\ \A q \in Reader : At(q, "asleep")' \/ pc'[q] = "sleep" => r' = w'
<1>1. IndexInv'
  BY InputFrame, Zenon DEF IInv
<1> QED
  BY <1>1, Zenon DEF IInv, LockInv, SleepInv, SleepersHaveReason, At

-----------------------------------------------------------------------------
LEMMA InitInv == Init => IInv
<1> SUFFICES ASSUME Init PROVE IInv
  BY Zenon
<1> USE ConsoleAssumption
<1>1. TypeOK
  <2>1. /\ buf \in [0 .. INPUT_BUF_SIZE - 1 -> Char \cup {"nul"}]
        /\ txbuf \in [0 .. UART_TX_BUF_SIZE - 1 -> OutChar \cup {"nul"}]
        /\ irq \in BOOLEAN /\ killed \in [Reader -> BOOLEAN]
    BY Zenon DEF Init
  <2>2. thr \in Seq(OutChar \cup {"echo"})
    BY DEF Init
  <2> QED
    BY <2>1, <2>2, Sizes DEF Init, TypeOK
<1>2. PcInv /\ LockInv /\ CharInv /\ FifoInv
  <2>1. (\A p \in Proc : pc[p] \in {"idle", "away"}) /\ pc[Intr] = "idle"
    BY Zenon DEF Init, Proc
  <2>2. conslock = None /\ txlock = None /\ thr = << >> /\ \A p \in Proc : p # None
    BY Zenon DEF Init, Proc
  <2> QED
    BY <2>1, <2>2 DEF PcInv, LockInv, CharInv, FifoInv, Proc
<1>3. Count = 0 /\ (w - r) % UINT = 0 /\ TxCount = 0
  BY <1>1, CountsAre DEF Init
<1>4. IndexInv /\ TxInv
  BY <1>3, Sizes DEF IndexInv, TxInv
<1>5. SleepInv /\ OutputMoves
  BY Zenon DEF Init, SleepInv, SleepersHaveReason, OutputMoves, At, Proc
<1> QED
  BY <1>1, <1>2, <1>4, <1>5, Zenon DEF IInv

-----------------------------------------------------------------------------
(* consoleread()                                                           *)

\* What a step of a reader may do: it moves on holding cons.lock, or without it,
\* takes a character only while it holds the lock, and goes to sleep only when
\* there is none.
LEMMA ReaderStep ==
  ASSUME IInv, TypeOK', NEW p \in Reader, \A q \in Proc \ {p} : pc'[q] = pc[q],
         UNCHANGED <<w, e, txlock, tx, uart, c>>,
         \/ conslock \in {p, None} /\ conslock' = p /\ pc'[p] \in {"loop", "sleep", "return"}
         \/ conslock = p /\ conslock' = None /\ pc'[p] \in {"idle", "asleep"}
         \/ conslock # p /\ conslock' = conslock /\ pc'[p] = "acquire",
         r' = r \/ (conslock = p /\ r # w /\ r' = Plus(r, 1)),
         pc'[p] \in {"sleep", "asleep"} => r' = w
  PROVE  IInv'
<1>0. TypeOK /\ p # Intr /\ p # None /\ \A q \in Writer \cup {Intr} : q # p
  BY ConsoleAssumption, Zenon DEF IInv
<1>1. \A q \in Writer \cup {Intr} : pc'[q] = pc[q]
  BY <1>0, Zenon DEF Proc
<1>2. PcInv'
  BY <1>1, Zenon DEF IInv, PcInv, Proc
<1>3. IndexInv' /\ (Count' # Count => pc[Intr] \notin {"echo", "thr_sync"})
  <2>1. CASE r' = r
    BY <2>1, InputFrame, Zenon DEF IInv
  <2>2. CASE conslock = p /\ r # w /\ r' = Plus(r, 1)
    BY <1>0, <2>2, Taken, Zenon DEF IInv, LockInv
  <2> QED
    BY <2>1, <2>2, Zenon
<1>4. /\ CharInv' /\ TxInv' /\ FifoInv' /\ OutputMoves'
      /\ \A q \in Writer \cup {Intr} : txlock' = q <=> pc'[q] \in {"start", "thr"}
      /\ \A q \in Writer : At(q, "asleep")' => Full'
  BY <1>2, <1>3, ReaderFrame, Zenon
<1>5. LockInv'
  BY <1>0, <1>1, <1>4, ConsoleAssumption DEF IInv, LockInv, Proc
<1>6. SleepInv'
  BY <1>0, <1>4, Zenon DEF IInv, SleepInv, SleepersHaveReason, At, Proc, LockInv
<1> QED
  BY <1>2, <1>3, <1>4, <1>5, <1>6, Zenon DEF IInv

LEMMA BackType ==
  ASSUME TypeOK, NEW p \in Reader, Back(p)
  PROVE  /\ n' \in [Reader -> Nat] /\ target' \in [Reader -> Nat] /\ conslock' = None
         /\ killed' \in [Reader -> BOOLEAN] /\ DOMAIN got' = Reader /\ DOMAIN pc' = Proc
<1>1. killed' \in [Reader -> BOOLEAN]
  BY Zenon DEF TypeOK, Back
<1> QED
  BY <1>1, Zenon DEF TypeOK, Back, Goto

LEMMA ReadInv ==
  ASSUME IInv, NEW p \in Reader, consoleread(p) \/ kill(p)
  PROVE  IInv'
<1> USE DEF At, Goto
<1>0. TypeOK /\ p \in Proc /\ p # Intr /\ p # None
  BY ConsoleAssumption, Zenon DEF IInv, Proc, TypeOK
<1>1. pc[p] \in {"loop", "sleep", "return"} <=> conslock = p
  BY Zenon DEF IInv, LockInv
<1>2. r \in 0 .. UINT - 1 /\ Plus(r, 1) \in 0 .. UINT - 1
  BY <1>0, Succ, Zenon DEF TypeOK
<1>3. CASE \E k \in Lengths : read(p, k)
  <2> PICK k \in Lengths : read(p, k)
    BY <1>3, Zenon
  <2>1. TypeOK'
    BY <1>0, ConsoleAssumption, Zenon DEF read, TypeOK, cons, tx, uart
  <2> QED
    BY <1>0, <2>1, ReaderStep, Zenon DEF read, TypeOK, cons
<1>4. CASE acquire(p) \/ read_wait(p) \/ read_sleep(p)
  <2>1. TypeOK'
    BY <1>0, <1>4 DEF acquire, read_wait, read_sleep, TypeOK, cons, tx, uart
  <2>2. pc[p] = "sleep" => r = w
    BY Zenon DEF IInv, SleepInv
  <2> QED
    BY <1>0, <1>1, <1>4, <2>1, <2>2, ReaderStep, Zenon
       DEF acquire, read_wait, read_sleep, Loop, TypeOK, cons
<1>5. CASE kill(p)
  <2>1. TypeOK'
    BY <1>0, <1>5, Zenon DEF kill, TypeOK, cons, tx, uart
  <2>2. /\ pc[p] = "sleep" => r = w
        /\ pc[p] \in {"away", "idle", "loop", "acquire", "sleep", "asleep", "return"}
    BY Zenon DEF IInv, SleepInv, PcInv
  <2> QED
    BY <1>0, <1>1, <1>5, <2>1, <2>2, ReaderStep, Zenon DEF kill, TypeOK, cons
<1>6. CASE read_killed(p) \/ read_return(p)
  <2>1. TypeOK'
    BY <1>0, <1>6, BackType, Zenon DEF read_killed, read_return, TypeOK, cons, tx, uart
  <2> QED
    BY <1>0, <1>1, <1>6, <2>1, ReaderStep, Zenon
       DEF read_killed, read_return, Back, Loop, TypeOK, cons
<1>7. CASE read_eof(p) \/ read_fault(p)
  <2>1. TypeOK'
    BY <1>0, <1>2, <1>7, BackType, Zenon DEF read_eof, read_fault, TypeOK, tx, uart
  <2> QED
    BY <1>0, <1>1, <1>7, <2>1, ReaderStep, Zenon DEF read_eof, read_fault, Back, Loop, TypeOK
<1>8. CASE read_char(p)
  <2>1. n' \in [Reader -> Nat] /\ DOMAIN got' = Reader
    BY <1>0, <1>8 DEF read_char, Loop, TypeOK
  <2>2. TypeOK'
    BY <1>0, <1>2, <1>8, <2>1, Zenon DEF read_char, TypeOK, tx, uart
  <2> QED
    BY <1>0, <1>1, <1>8, <2>2, ReaderStep, Zenon DEF read_char, Loop, TypeOK
<1> QED
  BY <1>3, <1>4, <1>5, <1>6, <1>7, <1>8, Zenon DEF consoleread

-----------------------------------------------------------------------------
(* uartputc() and uartstart()                                              *)

LEMMA PutcInv ==
  ASSUME IInv, NEW p \in Writer, consolewrite(p)
  PROVE  IInv'
<1> USE DEF At, Goto
<1>0. TypeOK /\ p \in Proc /\ p # Intr /\ p # None /\ \A q \in Reader \cup {Intr} : q # p
  BY ConsoleAssumption, Zenon DEF IInv, Proc
<1>1. \A q \in Proc \ {p} : pc'[q] = pc[q]
  BY <1>0, Zenon DEF consolewrite, putc_sleep, putc, TypeOK
<1>2. \A q \in Reader \cup {Intr} : pc'[q] = pc[q]
  BY <1>0, <1>1, Zenon DEF Proc
<1>3. CASE putc_sleep(p)
  <2>1. TypeOK'
    BY <1>0, <1>3, Zenon DEF putc_sleep, TypeOK, cons, tx, uart
  <2>2. /\ IndexInv' /\ \A q \in Reader : conslock' = q <=> pc'[q] \in {"loop", "sleep", "return"}
        /\ conslock' = Intr <=> pc'[Intr] \in {"switch", "echo", "thr_sync"}
        /\ \A q \in Reader : At(q, "asleep")' \/ pc'[q] = "sleep" => r' = w'
    BY <1>2, <1>3, <2>1, WriterFrame, Zenon DEF putc_sleep, cons
  <2>3. TxInv' /\ (Full' <=> Full) /\ Count' = Count
    BY <1>3, OutputFrame, InputFrame, Zenon DEF IInv, putc_sleep, cons
  <2>4. PcInv' /\ LockInv'
    BY <1>0, <1>1, <1>2, <1>3, <2>2 DEF IInv, PcInv, LockInv, putc_sleep, TypeOK, Proc
  <2>5. CharInv' /\ FifoInv' /\ OutputMoves'
    BY <1>0, <1>1, <1>2, <1>3, <2>3 DEF IInv, CharInv, FifoInv, OutputMoves, putc_sleep, TypeOK, Proc, uart, tx
  <2>6. SleepInv'
    BY <1>0, <1>1, <1>3, <2>2, <2>3, Zenon DEF IInv, SleepInv, SleepersHaveReason, putc_sleep, TypeOK, Proc
  <2> QED
    BY <2>1, <2>2, <2>3, <2>4, <2>5, <2>6, Zenon DEF IInv
<1>4. CASE \E k \in OutChar : putc(p, k)
  <2> PICK k \in OutChar : putc(p, k)
    BY <1>4, Zenon
  <2>0. txw \in 0 .. TXUINT - 1 /\ (txw + 1) % TXUINT \in 0 .. TXUINT - 1
        /\ txw % UART_TX_BUF_SIZE \in 0 .. UART_TX_BUF_SIZE - 1
    <3>1. txw \in 0 .. TXUINT - 1 /\ txw \in Int
      BY <1>0 DEF TypeOK
    <3> QED
      BY <3>1, TxSucc, Slots, Zenon
  <2>1. TypeOK'
    BY <1>0, <2>0, Zenon DEF putc, TypeOK, cons, uart
  <2>2. /\ IndexInv' /\ \A q \in Reader : conslock' = q <=> pc'[q] \in {"loop", "sleep", "return"}
        /\ conslock' = Intr <=> pc'[Intr] \in {"switch", "echo", "thr_sync"}
        /\ \A q \in Reader : At(q, "asleep")' \/ pc'[q] = "sleep" => r' = w'
    BY <1>2, <2>1, WriterFrame, Zenon DEF putc, cons
  <2>3. TxInv' /\ Count' = Count
    BY <1>0, <2>1, TxPut, InputFrame, Zenon DEF IInv, putc, cons
  <2>4. PcInv' /\ LockInv'
    <3>1. /\ pc'[p] = "start" /\ txlock = None /\ txlock' = p
          /\ \A q \in Writer \cup {Intr} : q = p \/ (q \in Proc \ {p} /\ pc'[q] = pc[q])
      BY <1>0, <1>1, <1>2, Zenon DEF putc, TypeOK, Proc
    <3> QED
      BY <1>0, <1>2, <2>2, <3>1, ConsoleAssumption DEF IInv, PcInv, LockInv
  <2>5. CharInv' /\ FifoInv' /\ OutputMoves'
    BY <1>0, <1>1, <1>2, <2>3, Zenon DEF IInv, CharInv, FifoInv, OutputMoves, putc, TypeOK, Proc, uart
  <2>6. SleepInv'
    BY <1>0, <1>1, <2>2, Zenon DEF IInv, SleepInv, SleepersHaveReason, putc, TypeOK, Proc
  <2> QED
    BY <2>1, <2>2, <2>3, <2>4, <2>5, <2>6, Zenon DEF IInv
<1> QED
  BY <1>3, <1>4, Zenon DEF consolewrite

LEMMA StartInv ==
  ASSUME IInv, NEW p \in Writer \cup {Intr}, uartstart(p)
  PROVE  IInv'
<1> USE DEF At, Goto
<1>0. TypeOK /\ p \in Proc /\ p # None /\ (\A q \in Reader : q # p) /\ pc[p] \in {"start", "thr"} /\ txlock = p
  BY ConsoleAssumption DEF IInv, LockInv, Proc, uartstart, start_end, start_next, start_thr
<1>1. \A q \in (Writer \cup {Intr}) \ {p} : pc[q] \notin {"start", "thr"}
  BY <1>0, Zenon DEF IInv, LockInv
<1>2. CASE start_end(p)
  <2>1. TypeOK'
    BY <1>0, <1>2, Zenon DEF start_end, TypeOK, cons, tx, uart
  <2>2. \A q \in Proc \ {p} : pc'[q] = pc[q]
    BY <1>0, <1>2, Zenon DEF start_end, TypeOK
  <2>3. /\ IndexInv' /\ \A q \in Reader : conslock' = q <=> pc'[q] \in {"loop", "sleep", "return"}
        /\ conslock' = Intr <=> pc'[Intr] \in {"switch", "echo", "thr_sync"}
        /\ \A q \in Reader : At(q, "asleep")' \/ pc'[q] = "sleep" => r' = w'
    BY <1>0, <1>2, <2>1, <2>2, WriterFrame, Zenon DEF start_end, cons, Proc, TypeOK
  <2>4. TxInv' /\ (Full' <=> Full) /\ Count' = Count
    BY <1>2, OutputFrame, InputFrame, Zenon DEF IInv, start_end, cons
  <2>5. PcInv' /\ LockInv'
    BY <1>0, <1>1, <1>2, <2>2, <2>3, ConsoleAssumption DEF IInv, PcInv, LockInv, start_end, TypeOK, Proc
  <2>6. CharInv' /\ FifoInv'
    BY <1>0, <1>2, <2>2, <2>4, Zenon DEF IInv, CharInv, FifoInv, start_end, TypeOK, Proc, uart
  <2>7. OutputMoves'
    BY <1>2, Zenon DEF OutputMoves, start_end, Idle, uart, tx
  <2>8. SleepInv'
    BY <1>0, <1>2, <2>2, <2>3, <2>4, Zenon DEF IInv, SleepInv, SleepersHaveReason, start_end, TypeOK, Proc
  <2> QED
    BY <2>1, <2>3, <2>4, <2>5, <2>6, <2>7, <2>8, Zenon DEF IInv
<1>3. CASE start_next(p)
  <2>0. /\ txr \in 0 .. TXUINT - 1 /\ (txr + 1) % TXUINT \in 0 .. TXUINT - 1
        /\ txbuf[txr % UART_TX_BUF_SIZE] \in OutChar
    BY <1>0, <1>3, TxSucc, TxFirst, Zenon DEF TypeOK, IInv, start_next
  <2>1. TypeOK'
    BY <1>0, <1>3, <2>0, Zenon DEF start_next, TypeOK, cons, uart
  <2>2. /\ pc'[p] = "thr" /\ c'[p] \in OutChar
        /\ \A q \in Proc \ {p} : c'[q] = c[q] /\ (pc'[q] = pc[q] \/ (q \in Writer /\ pc'[q] = "idle"))
        /\ \A q \in Writer : pc'[q] # "asleep"
        /\ \A q \in Reader \cup {Intr} : q # p => pc'[q] = pc[q]
    BY <1>0, <1>3, <2>0, ConsoleAssumption, Zenon DEF start_next, TypeOK, Proc
  <2>3. /\ IndexInv' /\ \A q \in Reader : conslock' = q <=> pc'[q] \in {"loop", "sleep", "return"}
        /\ conslock' = Intr <=> pc'[Intr] \in {"switch", "echo", "thr_sync"}
        /\ \A q \in Reader : At(q, "asleep")' \/ pc'[q] = "sleep" => r' = w'
    BY <1>0, <1>3, <2>1, <2>2, WriterFrame, Zenon DEF start_next, cons, Proc
  <2>4. TxInv' /\ Count' = Count
    BY <1>0, <1>3, <2>1, TxTake, InputFrame, Zenon DEF IInv, start_next, cons
  <2>5. PcInv' /\ LockInv'
    BY <1>0, <1>1, <1>3, <2>2, <2>3, ConsoleAssumption DEF IInv, PcInv, LockInv, start_next, Proc
  <2>6. CharInv' /\ FifoInv'
    BY <1>0, <1>1, <1>3, <2>2, <2>4 DEF IInv, CharInv, FifoInv, start_next, Idle, Proc, uart
  <2>7. OutputMoves'
    BY <1>0, <2>2, Zenon DEF OutputMoves
  <2>8. SleepInv'
    BY <2>2, <2>3, Zenon DEF SleepInv, SleepersHaveReason
  <2> QED
    BY <2>1, <2>3, <2>4, <2>5, <2>6, <2>7, <2>8, Zenon DEF IInv
<1>4. CASE start_thr(p)
  <2>0. c[p] \in OutChar
    BY <1>4, Zenon DEF start_thr, IInv, CharInv
  <2>1. TypeOK'
    BY <1>0, <1>4, <2>0 DEF start_thr, TypeOK, cons, tx
  <2>2. \A q \in Proc \ {p} : pc'[q] = pc[q] /\ c'[q] = c[q]
    BY <1>0, <1>4, Zenon DEF start_thr, TypeOK
  <2>3. /\ IndexInv' /\ \A q \in Reader : conslock' = q <=> pc'[q] \in {"loop", "sleep", "return"}
        /\ conslock' = Intr <=> pc'[Intr] \in {"switch", "echo", "thr_sync"}
        /\ \A q \in Reader : At(q, "asleep")' \/ pc'[q] = "sleep" => r' = w'
    BY <1>0, <1>4, <2>1, <2>2, WriterFrame, Zenon DEF start_thr, cons, Proc, TypeOK
  <2>4. TxInv' /\ (Full' <=> Full) /\ Count' = Count
    BY <1>4, OutputFrame, InputFrame, Zenon DEF IInv, start_thr, cons
  <2>5. PcInv' /\ LockInv'
    BY <1>0, <1>1, <1>4, <2>2, <2>3, ConsoleAssumption, Zenon DEF IInv, PcInv, LockInv, start_thr, TypeOK, Proc
  <2>6. Len(thr') = Len(thr) + 1 /\ Len(thr) \in Nat /\ thr' # << >>
    <3>1. thr \in Seq(OutChar \cup {"echo"}) /\ thr' = Append(thr, c[p])
      BY <1>0, <1>4, Zenon DEF start_thr, TypeOK
    <3> QED
      BY <2>0, <3>1
  <2>7. CharInv' /\ FifoInv'
    BY <1>0, <1>1, <1>4, <2>2, <2>4, <2>6 DEF IInv, CharInv, FifoInv, start_thr, TypeOK, Proc
  <2>8. OutputMoves'
    BY <2>6, Zenon DEF OutputMoves
  <2>9. SleepInv'
    BY <1>0, <1>4, <2>2, <2>3, <2>4 DEF IInv, SleepInv, SleepersHaveReason, start_thr, TypeOK, Proc
  <2> QED
    BY <2>1, <2>3, <2>4, <2>5, <2>7, <2>8, <2>9, Zenon DEF IInv
<1> QED
  BY <1>2, <1>3, <1>4, Zenon DEF uartstart

-----------------------------------------------------------------------------
(* The handler and the UART                                                *)

\* The handler wakes nobody and leaves r, w and the output buffer alone.
LEMMA HandlerFrame ==
  ASSUME IInv, TypeOK', UNCHANGED <<r, w, tx>>,
         \A q \in Reader \cup Writer : pc'[q] = pc[q],
         pc'[Intr] \in {"idle", "getc", "switch", "echo", "thr_sync", "start", "thr"}
  PROVE  PcInv' /\ TxInv' /\ SleepInv'
<1>1. TxInv' /\ (Full' <=> Full)
  BY OutputFrame, Zenon DEF IInv
<1> QED
  BY <1>1, Zenon DEF IInv, PcInv, SleepInv, SleepersHaveReason, At

LEMMA IntrInv ==
  ASSUME IInv, uartintr \/ uartintr_tx \/ consoleintr_end \/ consoleintr_putc \/ echo
               \/ (\E k \in Key : consoleintr(k))
  PROVE  IInv'
<1> USE DEF At, Goto
<1>0. TypeOK /\ Intr \in Proc /\ Intr # None /\ \A q \in Reader \cup Writer : q # Intr /\ q # None
  BY ConsoleAssumption, Zenon DEF IInv, Proc
<1>1. UNCHANGED <<buf, r, w, e, tx, thr, n, target, killed, got>> /\ (thr = << >> \/ pc'[Intr] # "thr_sync")
  BY <1>0, Zenon DEF uartintr, uartintr_tx, consoleintr_end, consoleintr_putc, echo, consoleintr, cons, uart, Idle, TypeOK
<1>2. /\ \A q \in Reader \cup Writer : pc'[q] = pc[q] /\ c'[q] = c[q]
      /\ pc'[Intr] \in {"getc", "start", "switch", "echo", "thr_sync"}
  BY <1>0 DEF uartintr, uartintr_tx, consoleintr_end, consoleintr_putc, echo, consoleintr, TypeOK, Proc
<1>3. TypeOK'
  <2>1. irq' \in BOOLEAN
    BY <1>0, Zenon DEF uartintr, uartintr_tx, consoleintr_end, consoleintr_putc, echo, consoleintr, TypeOK, uart
  <2>3. rx' = rx \/ (rx > 0 /\ rx' = rx - 1)
    BY Zenon DEF uartintr, uartintr_tx, consoleintr_end, consoleintr_putc, echo, consoleintr, uart
  <2>4. rx' \in 0 .. RXFIFO
    <3>1. rx \in 0 .. RXFIFO /\ RXFIFO \in Nat
      BY <1>0, ConsoleAssumption, Zenon DEF TypeOK
    <3> QED
      BY <2>3, <3>1
  <2>2. /\ conslock' \in Reader \cup {None, Intr} /\ txlock' \in Writer \cup {None, Intr}
        /\ DOMAIN pc' = Proc /\ DOMAIN c' = Proc /\ left' \in {left, 1}
    BY <1>0, Zenon DEF uartintr, uartintr_tx, consoleintr_end, consoleintr_putc, echo, consoleintr, TypeOK
  <2>5. left' \in 0 .. 3
    BY <1>0, <2>2 DEF TypeOK
  <2> QED
    BY <1>0, <1>1, <2>1, <2>2, <2>4, <2>5, Zenon DEF TypeOK, tx
<1>4. PcInv' /\ TxInv' /\ SleepInv' /\ IndexInv' /\ Count' = Count
  BY <1>1, <1>2, <1>3, HandlerFrame, InputFrame, Zenon DEF IInv
<1>5. LockInv'
  <2>1. CASE uartintr \/ uartintr_tx
    BY <1>0, <1>2, <2>1, SMTT(20) DEF IInv, LockInv, uartintr, uartintr_tx, TypeOK
  <2>2. CASE consoleintr_end \/ consoleintr_putc \/ echo
    BY <1>0, <1>2, <2>2, SMTT(20) DEF IInv, LockInv, consoleintr_end, consoleintr_putc, echo, TypeOK
  <2>3. CASE \E k \in Key : consoleintr(k)
    BY <1>0, <1>2, <2>3, SMTT(20) DEF IInv, LockInv, consoleintr, TypeOK
  <2> QED
    BY <2>1, <2>2, <2>3, Zenon
<1>6. CharInv'
  <2>1. CASE uartintr \/ uartintr_tx \/ consoleintr_end
    BY <1>0, <1>2, <1>4, <2>1, SMTT(20) DEF IInv, CharInv, uartintr, uartintr_tx, consoleintr_end, TypeOK
  <2>2. CASE consoleintr_putc \/ echo
    BY <1>0, <1>2, <1>4, <2>2, SMTT(20) DEF IInv, CharInv, consoleintr_putc, echo, TypeOK, Stores
  <2>3. CASE \E k \in Key : consoleintr(k)
    BY <1>0, <1>2, <1>4, <2>3, SMTT(20) DEF IInv, CharInv, consoleintr, TypeOK, Key, Char
  <2> QED
    BY <2>1, <2>2, <2>3, Zenon
<1>7. FifoInv'
  BY <1>0, <1>1, <1>2 DEF IInv, FifoInv, TypeOK
<1>8. OutputMoves'
  BY <1>2, Zenon DEF OutputMoves
<1> QED
  BY <1>3, <1>4, <1>5, <1>6, <1>7, <1>8, Zenon DEF IInv

LEMMA EraseInv ==
  ASSUME IInv, consoleintr_erase
  PROVE  IInv'
<1> USE DEF At, Goto
<1>0. TypeOK /\ Intr \in Proc /\ Intr # None /\ \A q \in Reader \cup Writer : q # Intr /\ q # None
  BY ConsoleAssumption, Zenon DEF IInv, Proc
<1>1. (\A q \in Reader \cup Writer : pc'[q] = pc[q]) /\ pc'[Intr] = "echo"
  BY <1>0, Zenon DEF consoleintr_erase, TypeOK, Proc
<1>2. TypeOK'
  <2>1. e \in 0 .. UINT - 1
    BY <1>0, Zenon DEF TypeOK
  <2>2. e' \in 0 .. UINT - 1
    BY <2>1, Succ, Zenon DEF consoleintr_erase
  <2>3. left' \in 0 .. 3
    BY DEF consoleintr_erase
  <2> QED
    BY <1>0, <2>2, <2>3, Zenon DEF consoleintr_erase, TypeOK, tx, uart
<1>3. PcInv' /\ TxInv' /\ SleepInv'
  BY <1>1, <1>2, HandlerFrame, Zenon DEF consoleintr_erase
<1>4. IndexInv'
  BY <1>0, <1>2, Erased, Zenon DEF IInv, consoleintr_erase, Erases
<1>5. LockInv' /\ CharInv' /\ FifoInv'
  BY <1>0, <1>1, Zenon DEF IInv, LockInv, CharInv, FifoInv, consoleintr_erase, Erases, uart
<1>6. OutputMoves'
  BY <1>1, Zenon DEF OutputMoves
<1> QED
  BY <1>2, <1>3, <1>4, <1>5, <1>6, Zenon DEF IInv

LEMMA EchoedInv ==
  ASSUME IInv, echo_next \/ consoleintr_erased \/ consoleintr_store
  PROVE  IInv'
<1> USE DEF At, Goto, Echoed, Sends
<1>0. TypeOK /\ Intr \in Proc /\ Intr # None /\ \A q \in Reader \cup Writer : q # Intr /\ q # None
  BY ConsoleAssumption, Zenon DEF IInv, Proc
<1>1. thr' = Append(thr, "echo") /\ pc[Intr] = "thr_sync"
  BY Zenon DEF echo_next, consoleintr_erased, consoleintr_store
<1>2. Len(thr') = Len(thr) + 1 /\ Len(thr) \in Nat /\ thr' \in Seq(OutChar \cup {"echo"})
  BY <1>0, <1>1 DEF TypeOK
<1>3. Len(thr) <= 1 /\ ((\E p \in Writer : pc[p] = "thr") => Len(thr) = 0)
  BY <1>1, Zenon DEF IInv, FifoInv
<1>6. left' \in 0 .. 3
  BY <1>0, SMTT(20) DEF echo_next, consoleintr_erased, consoleintr_store, TypeOK
<1>4. CASE echo_next \/ consoleintr_erased
  <2>1. /\ \A q \in Reader \cup Writer : pc'[q] = pc[q] /\ c'[q] = c[q]
        /\ pc'[Intr] \in {"getc", "switch", "echo"}
    BY <1>0, <1>4 DEF echo_next, consoleintr_erased, TypeOK, Proc
  <2>2. TypeOK'
    BY <1>0, <1>2, <1>4, <1>6, Zenon DEF echo_next, consoleintr_erased, TypeOK, cons, tx
  <2>3. PcInv' /\ TxInv' /\ SleepInv' /\ IndexInv' /\ Count' = Count
    BY <1>4, <2>1, <2>2, HandlerFrame, InputFrame, Zenon DEF IInv, echo_next, consoleintr_erased, cons
  <2>4. LockInv'
    BY <1>0, <1>4, <2>1 DEF IInv, LockInv, echo_next, consoleintr_erased, TypeOK
  <2>5. CharInv'
    BY <1>0, <1>1, <1>4, <2>1, <2>3, Zenon DEF IInv, CharInv, echo_next, consoleintr_erased, TypeOK
  <2>6. FifoInv'
    BY <1>0, <1>2, <1>3, <2>1 DEF FifoInv
  <2>7. OutputMoves'
    BY <2>1, Zenon DEF OutputMoves
  <2> QED
    BY <2>2, <2>3, <2>4, <2>5, <2>6, <2>7, Zenon DEF IInv
<1>5. CASE consoleintr_store
  <2>0. Count < INPUT_BUF_SIZE /\ c[Intr] \in Char /\ conslock = Intr
    BY <1>1, <1>5, Zenon DEF IInv, CharInv, LockInv, consoleintr_store, Char
  <2>1. /\ \A q \in Writer : pc'[q] = pc[q] /\ c'[q] = c[q]
        /\ \A q \in Reader : pc'[q] = pc[q] \/ (pc[q] = "asleep" /\ pc'[q] = "acquire")
        /\ pc'[Intr] = "getc" /\ conslock' = None
    BY <1>0, <1>5, ConsoleAssumption, Zenon DEF consoleintr_store, TypeOK, Proc
  <2>2. \/ w' = e' /\ \A q \in Reader : pc'[q] # "asleep"
        \/ w' = w /\ Count # INPUT_BUF_SIZE - 1
    BY <1>0, <1>5, Zenon DEF consoleintr_store, Proc
  <2>3. e \in 0 .. UINT - 1 /\ e' \in 0 .. UINT - 1 /\ e % INPUT_BUF_SIZE \in 0 .. INPUT_BUF_SIZE - 1
    <3>1. e \in 0 .. UINT - 1 /\ e \in Int
      BY <1>0 DEF TypeOK
    <3>2. e % INPUT_BUF_SIZE \in 0 .. INPUT_BUF_SIZE - 1
      BY <3>1, Slots, Zenon
    <3> QED
      BY <1>5, <3>1, <3>2, Succ, Zenon DEF consoleintr_store
  <2>4. TypeOK'
    <3>1. buf' \in [0 .. INPUT_BUF_SIZE - 1 -> Char \cup {"nul"}]
      BY <1>0, <1>5, <2>0, <2>3, Zenon DEF consoleintr_store, TypeOK
    <3>2. {r', w', e'} \subseteq 0 .. UINT - 1
      BY <1>0, <1>5, <2>2, <2>3, Zenon DEF consoleintr_store, TypeOK
    <3>3. /\ conslock' = None /\ UNCHANGED <<txlock, tx, rx, irq, n, target, killed, got>>
          /\ DOMAIN pc' = Proc /\ DOMAIN c' = Proc
      BY <1>0, <1>5, Zenon DEF consoleintr_store, TypeOK
    <3> QED
      BY <1>0, <1>2, <1>6, <3>1, <3>2, <3>3, Zenon DEF TypeOK, tx
  <2>5. IndexInv'
    BY <1>0, <1>5, <2>0, <2>2, <2>4, Stored, Zenon DEF IInv, consoleintr_store
  <2>6. TxInv' /\ (Full' <=> Full)
    BY <1>5, OutputFrame, Zenon DEF IInv, consoleintr_store
  <2>7. PcInv' /\ LockInv'
    <3>1. txlock' = txlock /\ \A q \in Reader : conslock # q
      BY <1>0, <1>5, <2>0, Zenon DEF consoleintr_store
    <3> QED
      BY <1>0, <1>1, <2>0, <2>1, <3>1 DEF IInv, PcInv, LockInv
  <2>8. CharInv' /\ FifoInv'
    BY <1>0, <1>2, <1>3, <2>1 DEF IInv, CharInv, FifoInv
  <2>9. SleepInv'
    BY <1>5, <2>0, <2>1, <2>2, <2>6 DEF IInv, SleepInv, SleepersHaveReason, LockInv, consoleintr_store
  <2>10. OutputMoves'
    BY <2>1, Zenon DEF OutputMoves
  <2> QED
    BY <2>4, <2>5, <2>6, <2>7, <2>8, <2>9, <2>10, Zenon DEF IInv
<1> QED
  BY <1>4, <1>5, Zenon

LEMMA UartInv ==
  ASSUME IInv, Transmit \/ Receive
  PROVE  IInv'
<1>0. TypeOK
  BY Zenon DEF IInv
<1>1. /\ UNCHANGED <<cons, conslock, txlock, tx, pc, c, left, n, target, killed, got>>
      /\ irq' \in BOOLEAN /\ (irq => irq')
  BY <1>0, Zenon DEF Transmit, Receive, TypeOK
<1>2. /\ thr' \in Seq(OutChar \cup {"echo"}) /\ Len(thr') <= Len(thr)
      /\ Len(thr) \in Nat /\ Len(thr') \in Nat /\ (thr # << >> => thr' # << >> \/ irq')
  <2>1. CASE Receive
    BY <1>0, <2>1 DEF Receive, TypeOK
  <2>2. CASE Transmit
    <3>1. thr \in Seq(OutChar \cup {"echo"}) /\ thr # << >> /\ thr' = Tail(thr)
      BY <1>0, <2>2, Zenon DEF Transmit, TypeOK
    <3>2. thr' \in Seq(OutChar \cup {"echo"}) /\ Len(thr') = Len(thr) - 1 /\ Len(thr) \in Nat \ {0}
      BY <3>1
    <3>3. Len(thr) = 1 => irq'
      BY <2>2, Zenon DEF Transmit
    <3>4. Len(thr) # 1 => thr' # << >>
      BY <3>2
    <3> QED
      BY <3>2, <3>3, <3>4
  <2> QED
    BY <2>1, <2>2, Zenon
<1>4. rx' \in 0 .. RXFIFO
  BY <1>0, ConsoleAssumption, SMTT(20) DEF Transmit, Receive, TypeOK
<1>5. TypeOK'
  BY <1>0, <1>1, <1>2, <1>4, Zenon DEF TypeOK, cons, tx
<1>6. IndexInv' /\ TxInv' /\ Count' = Count /\ (Full' <=> Full)
  BY <1>1, InputFrame, OutputFrame, Zenon DEF IInv, cons
<1>7. PcInv' /\ LockInv' /\ CharInv'
  BY <1>1, <1>6, Zenon DEF IInv, PcInv, LockInv, CharInv
<1>8. FifoInv'
  BY <1>1, <1>2 DEF IInv, FifoInv
<1>9. SleepInv' /\ OutputMoves'
  BY <1>1, <1>2, <1>6, Zenon DEF IInv, SleepInv, SleepersHaveReason, OutputMoves, At, cons, tx
<1> QED
  BY <1>5, <1>6, <1>7, <1>8, <1>9, Zenon DEF IInv

-----------------------------------------------------------------------------
\* The invariant holds in every state: the interrupt handler, echoing without a
\* lock, the readers, the writers and the UART preserve it in any interleaving.
THEOREM Invariance == Spec => []IInv
<1>1. ASSUME IInv, UNCHANGED vars PROVE IInv'
  <2>1. IndexInv' /\ TxInv' /\ Count' = Count /\ (Full' <=> Full)
    BY <1>1, InputFrame, OutputFrame, Zenon DEF IInv, vars, cons
  <2>2. TypeOK' /\ PcInv' /\ LockInv' /\ CharInv'
    BY <1>1, <2>1 DEF IInv, TypeOK, PcInv, LockInv, CharInv, vars, cons, tx, uart
  <2> QED
    BY <1>1, <2>1, <2>2, Zenon DEF IInv, FifoInv, SleepInv, SleepersHaveReason, OutputMoves, At, vars,
          cons, tx, uart
<1>2. IInv /\ [Next]_vars => IInv'
  BY <1>1, ReadInv, PutcInv, StartInv, IntrInv, EraseInv, EchoedInv, UartInv, Zenon DEF Next, Handler
<1> QED
  BY <1>2, InitInv, PTL DEF Spec

\* consoleintr() and consoleread() keep r, w and e in order across their wrap,
\* a full input buffer can be read, the output buffer does not overflow, and
\* the UART's FIFO takes what it is given, although echoing takes no lock.
THEOREM ConsoleSafe == Spec => []ConsInv
<1>1. IInv => ConsInv
  <2> SUFFICES ASSUME IInv PROVE ConsInv
    BY Zenon
  <2>1. Len(thr) <= TXFIFO
    BY ConsoleAssumption DEF IInv, FifoInv, TypeOK
  <2> QED
    BY <2>1, Zenon DEF IInv, ConsInv, IndexInv, TxInv, TxCount
<1> QED
  BY <1>1, Invariance, PTL

\* No wakeup() of console.c and uart.c comes too early or is left out: readers
\* sleep only while no line is complete, writers only while the buffer is full.
THEOREM NoWakeupMissed == Spec => []SleepersHaveReason
<1>1. IInv => SleepersHaveReason
  BY Zenon DEF IInv, SleepInv
<1> QED
  BY <1>1, Invariance, PTL

\* uartstart() returns only when the UART will interrupt again, or when there is
\* nothing to send: written characters do not stay behind.
THEOREM OutputGoesOn == Spec => []OutputMoves
<1>1. IInv => OutputMoves
  BY Zenon DEF IInv
<1> QED
  BY <1>1, Invariance, PTL
=============================================================================
