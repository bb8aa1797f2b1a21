--------------------------- MODULE FlushQueueProofs ---------------------------
(***************************************************************************)
(* The goroutines that flush, for any queue, any number of blocks and of   *)
(* goroutines that close, and any short writes: the state stays well-      *)
(* formed, and if the chain is not configured before OnBlockchainInit, the *)
(* node and the worker never write at once and what the stream receives is *)
(* BlockStream: every line whole, in order, and none lost by a close.      *)
(***************************************************************************)
EXTENDS FlushQueue, SequenceTheorems, TLAPS

WriterState == [line : 0..MaxBlocks, rest : 0..LineLength, attempts : 0..MaxWriteAttempts]

Bytes == [line : 0..MaxBlocks, byte : 1..LineLength]

(* A push carries a block, and a writer has attempts left.                 *)
FlushInv ==
    /\ TypeOK
    /\ node = "pushing" => blocks >= 1 /\ bufferSize > 0
    /\ panicked = TRUE \/ \A p \in {"node", "worker"} : writer[p].attempts < MaxWriteAttempts

(* Before the chain is known only the init line can be written; after it,  *)
(* the node writes only without a queue, and the worker only with one.     *)
WriterInv ==
    /\ node \in {"init", "printing"} \/ ~Writing("node")
    /\ node = "init" => chainKnown = FALSE /\ initSent = TRUE
    /\ chainKnown = FALSE => node \in {"idle", "init"} /\ queue = <<>> /\ ~Writing("worker")
    /\ node = "printing" => bufferSize = 0
    /\ queue # <<>> \/ Writing("worker") => bufferSize > 0
    /\ chainKnown = TRUE => initSent = TRUE
-----------------------------------------------------------------------------
(* Init: empty queue and output, idle goroutines.                          *)
LEMMA FlushStart ==
    Init => FlushInv
<1> SUFFICES ASSUME Init PROVE FlushInv
  OBVIOUS
<1>1. Idle \in WriterState /\ Idle.attempts < MaxWriteAttempts
  BY FlushAssumption DEF Idle, WriterState
<1>2. writer \in [{"node", "worker"} -> WriterState]
  BY <1>1 DEF Init
<1>3. queue \in Seq(1..MaxBlocks) /\ Len(queue) = 0 /\ output \in Seq(Bytes)
  BY DEF Init
<1>4. bufferSize \in Nat
  BY FlushAssumption DEF Init
<1>5. TypeOK
  <2>1. closer \in [Closers -> {"outside", "joining", "waiting", "returned"}]
    BY DEF Init
  <2>2. Len(queue) <= bufferSize /\ blocks \in 0..MaxBlocks
    BY <1>3, <1>4, FlushAssumption DEF Init
  <2>3. bufferSize \in BufferSizes /\ initSent \in BOOLEAN /\ chainKnown \in BOOLEAN
        /\ node = "idle" /\ queueClosed \in BOOLEAN /\ workerDone \in BOOLEAN /\ once = "free"
        /\ panicked \in BOOLEAN
    BY FlushAssumption DEF Init
  <2> QED BY <1>2, <1>3, <2>1, <2>2, <2>3 DEF TypeOK, WriterState, Bytes
<1> QED BY <1>1, <1>5 DEF Init, FlushInv

(* A line about to be written is a state of a writer.                      *)
LEMMA LineTyped ==
    ASSUME NEW n \in 0..MaxBlocks
    PROVE  Line(n) \in WriterState /\ Line(n).attempts < MaxWriteAttempts
  BY FlushAssumption DEF Line, WriterState

(* A goroutine that begins a line.                                         *)
LEMMA BeginLine ==
    ASSUME FlushInv, NEW p \in {"node", "worker"}, NEW n \in 0..MaxBlocks,
           writer' = [writer EXCEPT ![p] = Line(n)]
    PROVE  /\ writer' \in [{"node", "worker"} -> WriterState]
           /\ panicked = TRUE \/ \A q \in {"node", "worker"} : writer'[q].attempts < MaxWriteAttempts
<1>1. writer \in [{"node", "worker"} -> WriterState]
  BY DEF FlushInv, TypeOK, WriterState
<1> QED BY <1>1, LineTyped DEF FlushInv

(* What a short write leaves is still a state of a writer.                 *)
LEMMA ShortWrite ==
    ASSUME NEW rest \in 0..LineLength, NEW n \in 0..LineLength, n <= rest
    PROVE  /\ rest - n \in 0..LineLength
           /\ \A i \in 1..n : LineLength - rest + i \in 1..LineLength
  BY FlushAssumption

(* A call of Write, whole, short or the one too many, keeps FlushInv.      *)
LEMMA WriteTyped ==
    ASSUME FlushInv, NEW p \in {"node", "worker"}, NEW n \in 0..LineLength, Write(p, n)
    PROVE  FlushInv'
<1> DEFINE w == writer[p]
<1>1. writer \in [{"node", "worker"} -> WriterState] /\ output \in Seq(Bytes)
  BY DEF FlushInv, TypeOK, WriterState, Bytes
<1>2. /\ w \in WriterState /\ w.rest \in 0..LineLength /\ w.line \in 0..MaxBlocks
      /\ w.attempts \in 0..MaxWriteAttempts
  BY <1>1 DEF WriterState
<1>3. /\ panicked = FALSE /\ w.rest > 0 /\ n <= w.rest
      /\ output' = output \o [i \in 1..n |-> [line |-> w.line, byte |-> LineLength - w.rest + i]]
      /\ writer' = [writer EXCEPT ![p] =
                      IF n = w.rest THEN Idle ELSE [w EXCEPT !.rest = w.rest - n, !.attempts = w.attempts + 1]]
      /\ panicked' = (n < w.rest /\ w.attempts + 1 = MaxWriteAttempts)
      /\ UNCHANGED <<bufferSize, initSent, chainKnown, blocks, node, queue, queueClosed, workerDone,
                     closer, once>>
  <2>1. panicked \in BOOLEAN
    BY DEF FlushInv, TypeOK
  <2> QED BY <2>1 DEF Write, Writing, Queues
<1> HIDE DEF w
<1>4. w.attempts < MaxWriteAttempts
  BY <1>3 DEF FlushInv, w
<1>5. output' \in Seq(Bytes)
  <2> DEFINE chunk == [i \in 1..n |-> [line |-> w.line, byte |-> LineLength - w.rest + i]]
  <2>1. \A i \in 1..n : [line |-> w.line, byte |-> LineLength - w.rest + i] \in Bytes
    <3> SUFFICES ASSUME NEW i \in 1..n PROVE LineLength - w.rest + i \in 1..LineLength
      BY <1>2 DEF Bytes
    <3>1. w.rest \in 0..LineLength /\ n <= w.rest
      BY <1>2, <1>3
    <3> QED BY <3>1, ShortWrite
  <2>2. chunk \in Seq(Bytes)
    BY <2>1, FlushAssumption
  <2> QED BY <1>1, <1>3, <2>2, ConcatProperties
<1> DEFINE short == [w EXCEPT !.rest = w.rest - n, !.attempts = w.attempts + 1]
<1>6. ASSUME n < w.rest
      PROVE  short \in WriterState /\ short.attempts = w.attempts + 1
  <2>1. w.attempts + 1 \in 0..MaxWriteAttempts
    BY <1>2, <1>4, FlushAssumption
  <2>2. w.rest \in 0..LineLength /\ n <= w.rest
    BY <1>2, <1>3
  <2>3. w.rest - n \in 0..LineLength
    BY <2>2, ShortWrite
  <2> QED BY <1>2, <2>1, <2>3 DEF WriterState
<1> HIDE DEF short
<1>7. Idle \in WriterState /\ Idle.attempts < MaxWriteAttempts
  BY FlushAssumption DEF Idle, WriterState
<1>8. /\ writer' = [writer EXCEPT ![p] = IF n = w.rest THEN Idle ELSE short]
      /\ writer' \in [{"node", "worker"} -> WriterState]
  <2>1. writer' = [writer EXCEPT ![p] = IF n = w.rest THEN Idle ELSE short]
    BY <1>3 DEF short
  <2>2. n = w.rest \/ n < w.rest
    BY <1>2, <1>3
  <2> QED BY <1>1, <1>6, <1>7, <2>1, <2>2
<1>9. panicked' = TRUE \/ \A q \in {"node", "worker"} : writer'[q].attempts < MaxWriteAttempts
  <2>1. CASE n = w.rest
    BY <1>1, <1>3, <1>7, <1>8, <2>1 DEF FlushInv
  <2>2. CASE n < w.rest /\ w.attempts + 1 = MaxWriteAttempts
    BY <1>3, <2>2
  <2>3. CASE n < w.rest /\ w.attempts + 1 # MaxWriteAttempts
    <3>1. w.attempts + 1 < MaxWriteAttempts
      BY <1>2, <1>4, <2>3, FlushAssumption
    <3>2. \A q \in {"node", "worker"} : writer[q].attempts < MaxWriteAttempts
      BY <1>3 DEF FlushInv
    <3>3. n # w.rest /\ short.attempts = w.attempts + 1
      BY <1>2, <1>6, <2>3
    <3> QED BY <1>1, <1>8, <3>1, <3>2, <3>3
  <2>4. n = w.rest \/ n < w.rest
    BY <1>2, <1>3
  <2> QED BY <2>1, <2>2, <2>3, <2>4
<1>10. panicked' \in BOOLEAN
  BY <1>3
<1>11. TypeOK'
  BY <1>3, <1>5, <1>8, <1>10 DEF FlushInv, TypeOK, WriterState, Bytes
<1> QED BY <1>3, <1>9, <1>11 DEF FlushInv

(* Each step of the node's goroutine keeps FlushInv.                       *)
LEMMA NodeTyped ==
    ASSUME FlushInv, Node
    PROVE  FlushInv'
<1>1. CASE OnBlockchainInit
  <2>1. 0 \in 0..MaxBlocks
    BY FlushAssumption
  <2>2. /\ writer' \in [{"node", "worker"} -> WriterState]
        /\ panicked = TRUE \/ \A q \in {"node", "worker"} : writer'[q].attempts < MaxWriteAttempts
    BY <1>1, <2>1, BeginLine DEF OnBlockchainInit
  <2> QED BY <1>1, <2>2 DEF OnBlockchainInit, Queues, FlushInv, TypeOK, WriterState
<1>2. CASE ChainInitialized
  BY <1>2 DEF ChainInitialized, Queues, FlushInv, TypeOK
<1>3. CASE OnBlockEnd
  <2>1. /\ blocks' = blocks + 1 /\ blocks' \in 0..MaxBlocks /\ blocks' >= 1
        /\ bufferSize \in Nat
    BY <1>3, FlushAssumption DEF OnBlockEnd, FlushInv, TypeOK
  <2>2. CASE Concurrent
    BY <1>3, <2>1, <2>2 DEF OnBlockEnd, Concurrent, Queues, FlushInv, TypeOK
  <2>3. CASE ~Concurrent
    <3>1. /\ writer' \in [{"node", "worker"} -> WriterState]
          /\ panicked = TRUE \/ \A q \in {"node", "worker"} : writer'[q].attempts < MaxWriteAttempts
      BY <1>3, <2>1, <2>3, BeginLine DEF OnBlockEnd
    <3> QED BY <1>3, <2>1, <2>3, <3>1 DEF OnBlockEnd, Queues, FlushInv, TypeOK, WriterState
  <2> QED BY <2>2, <2>3
<1>4. CASE Push
  <2>1. CASE queueClosed
    BY <1>4, <2>1 DEF Push, FlushInv, TypeOK
  <2>2. CASE ~queueClosed
    <3>1. /\ Len(queue) < bufferSize /\ queue' = Append(queue, blocks) /\ node' = "idle"
          /\ UNCHANGED <<bufferSize, initSent, chainKnown, blocks, queueClosed, workerDone, closer, once,
                         writer, output, panicked>>
      BY <1>4, <2>2 DEF Push
    <3>2. queue \in Seq(1..MaxBlocks) /\ blocks \in 1..MaxBlocks
      BY <1>4 DEF Push, FlushInv, TypeOK
    <3>3. queue' \in Seq(1..MaxBlocks) /\ Len(queue') = Len(queue) + 1
      BY <3>1, <3>2, AppendProperties
    <3>4. Len(queue) \in Nat /\ bufferSize \in Nat
      BY <3>2, LenProperties, FlushAssumption DEF FlushInv, TypeOK
    <3>5. Len(queue') <= bufferSize
      BY <3>1, <3>3, <3>4
    <3> QED BY <3>1, <3>3, <3>5 DEF FlushInv, TypeOK
  <2> QED BY <2>1, <2>2
<1>5. CASE Printed
  BY <1>5 DEF Printed, Queues, FlushInv, TypeOK
<1> QED BY <1>1, <1>2, <1>3, <1>4, <1>5 DEF Node

(* Each step of blockPrinterWorker keeps FlushInv.                         *)
LEMMA WorkerTyped ==
    ASSUME FlushInv, Worker
    PROVE  FlushInv'
<1>1. CASE Receive
  <2>1. /\ queue # <<>> /\ queue' = Tail(queue)
        /\ writer' = [writer EXCEPT !["worker"] = Line(Head(queue))]
        /\ UNCHANGED <<bufferSize, initSent, chainKnown, blocks, node, queueClosed, workerDone, closer,
                       once, output, panicked>>
    BY <1>1 DEF Receive
  <2>2. queue \in Seq(1..MaxBlocks) /\ Len(queue) <= bufferSize /\ bufferSize \in Nat
    BY FlushAssumption DEF FlushInv, TypeOK
  <2>3. Head(queue) \in 1..MaxBlocks /\ queue' \in Seq(1..MaxBlocks) /\ Len(queue') = Len(queue) - 1
    BY <2>1, <2>2, HeadTailProperties
  <2>4. Len(queue') <= bufferSize
    BY <2>2, <2>3, LenProperties
  <2>5. Head(queue) \in 0..MaxBlocks
    BY <2>3, FlushAssumption
  <2>6. /\ writer' \in [{"node", "worker"} -> WriterState]
        /\ panicked = TRUE \/ \A q \in {"node", "worker"} : writer'[q].attempts < MaxWriteAttempts
    BY <2>1, <2>5, BeginLine
  <2> QED BY <2>1, <2>3, <2>4, <2>6 DEF FlushInv, TypeOK, WriterState
<1>2. CASE LeaveLoop
  BY <1>2 DEF LeaveLoop, FlushInv, TypeOK
<1> QED BY <1>1, <1>2 DEF Worker

(* Each step of OnClose keeps FlushInv.                                    *)
LEMMA CloserTyped ==
    ASSUME FlushInv, NEW c \in Closers, OnClose(c) \/ CloseReturns(c)
    PROVE  FlushInv'
<1>1. closer \in [Closers -> {"outside", "joining", "waiting", "returned"}]
  BY DEF FlushInv, TypeOK
<1>2. closer' \in [Closers -> {"outside", "joining", "waiting", "returned"}]
  BY <1>1 DEF OnClose, CloseReturns
<1>3. once' \in {"free", "running", "done"} /\ queueClosed' \in BOOLEAN
  BY DEF OnClose, CloseReturns, FlushInv, TypeOK
<1>4. UNCHANGED <<bufferSize, initSent, chainKnown, blocks, node, queue, workerDone, writer, output,
                  panicked>>
  BY DEF OnClose, CloseReturns
<1> QED BY <1>2, <1>3, <1>4 DEF FlushInv, TypeOK

(* Each step of the system keeps FlushInv.                                 *)
LEMMA FlushStep ==
    ASSUME FlushInv, [Next]_vars
    PROVE  FlushInv'
<1>1. CASE UNCHANGED vars
  BY <1>1 DEF vars, FlushInv, TypeOK
<1> QED BY <1>1, NodeTyped, WorkerTyped, WriteTyped, CloserTyped DEF Next, Flush

(* FlushInv holds in every state.                                          *)
LEMMA FlushInvariant == Spec => []FlushInv
  BY FlushStart, FlushStep, PTL DEF Spec
-----------------------------------------------------------------------------
(* Nobody writes before OnBlockchainInit.                                  *)
LEMMA WriterStart ==
    ASSUME ConfigHasChain = FALSE
    PROVE  Init => WriterInv
  BY DEF Init, WriterInv, Writing, Idle

(* Only one of the node and the worker ever writes.                        *)
LEMMA WriterStep ==
    ASSUME FlushInv, WriterInv, [Next]_vars
    PROVE  WriterInv'
<1>1. /\ writer \in [{"node", "worker"} -> WriterState] /\ chainKnown \in BOOLEAN
      /\ bufferSize \in Nat /\ initSent \in BOOLEAN
  BY FlushAssumption DEF FlushInv, TypeOK, WriterState
<1>2. CASE UNCHANGED vars
  BY <1>2 DEF vars, WriterInv, Writing
<1>3. CASE OnBlockchainInit
  <2>1. chainKnown = FALSE /\ initSent' = TRUE /\ node' = "init" /\ writer'["worker"] = writer["worker"]
        /\ UNCHANGED <<bufferSize, chainKnown, queue>>
    BY <1>1, <1>3 DEF OnBlockchainInit, WriterInv, Queues
  <2> QED BY <2>1 DEF WriterInv, Writing
<1>4. CASE ChainInitialized
  <2>1. /\ chainKnown' = TRUE /\ node' = "idle" /\ node = "init" /\ ~Writing("node")
        /\ UNCHANGED <<bufferSize, initSent, queue, writer>>
    BY <1>4 DEF ChainInitialized, Queues
  <2> QED BY <1>4, <2>1 DEF WriterInv, Writing
<1>5. CASE OnBlockEnd
  <2>1. /\ chainKnown = TRUE /\ node = "idle"
        /\ UNCHANGED <<bufferSize, initSent, chainKnown, queue>>
        /\ writer'["worker"] = writer["worker"]
        /\ \/ bufferSize > 0 /\ node' = "pushing" /\ writer' = writer
           \/ bufferSize = 0 /\ node' = "printing"
    BY <1>1, <1>5 DEF OnBlockEnd, Concurrent, Queues
  <2> QED BY <2>1 DEF WriterInv, Writing
<1>6. CASE Push
  <2>1. /\ node = "pushing" /\ (node' = "idle" \/ (node' = node /\ queue' = queue))
        /\ UNCHANGED <<bufferSize, initSent, chainKnown, writer>>
    BY <1>6 DEF Push
  <2>2. bufferSize > 0 /\ chainKnown = TRUE
    BY <1>1, <2>1 DEF FlushInv, WriterInv
  <2> QED BY <2>1, <2>2 DEF WriterInv, Writing
<1>7. CASE Printed
  BY <1>7 DEF Printed, Queues, WriterInv, Writing
<1>8. CASE Receive
  <2>1. /\ bufferSize > 0 /\ queue # <<>> /\ writer'["node"] = writer["node"]
        /\ UNCHANGED <<bufferSize, initSent, chainKnown, node>>
    BY <1>1, <1>8 DEF Receive, Concurrent
  <2> QED BY <2>1, <1>1 DEF WriterInv, Writing
<1>9. CASE LeaveLoop
  BY <1>9 DEF LeaveLoop, WriterInv, Writing
<1>10. ASSUME NEW p \in {"node", "worker"}, NEW n \in 0..LineLength, Write(p, n)
       PROVE  WriterInv'
  <2>1. /\ UNCHANGED <<bufferSize, initSent, chainKnown, node, queue>>
        /\ Writing(p)
        /\ \A q \in {"node", "worker"} : q # p => writer'[q] = writer[q]
    BY <1>1, <1>10 DEF Write, Queues
  <2>2. Writing("node")' => Writing("node")
    BY <2>1 DEF Writing
  <2>3. Writing("worker")' => Writing("worker")
    BY <2>1 DEF Writing
  <2> QED BY <2>1, <2>2, <2>3 DEF WriterInv
<1>11. ASSUME NEW c \in Closers, OnClose(c) \/ CloseReturns(c)
       PROVE  WriterInv'
  BY <1>11 DEF OnClose, CloseReturns, WriterInv, Writing
<1> QED BY <1>2, <1>3, <1>4, <1>5, <1>6, <1>7, <1>8, <1>9, <1>10, <1>11 DEF Next, Node, Worker, Flush
-----------------------------------------------------------------------------
(* The queue never holds more than its capacity, lines carry blocks the    *)
(* node ended, and no writer goes beyond its line or its attempts.         *)
THEOREM FlushTypes == Spec => []TypeOK
<1>1. FlushInv => TypeOK
  BY DEF FlushInv
<1> QED BY <1>1, FlushInvariant, PTL

(* writeBlock is never run by the node and the worker at once, if the      *)
(* first line written is the one of OnBlockchainInit.                      *)
THEOREM FlushOneWriter ==
    ASSUME ConfigHasChain = FALSE
    PROVE  Spec => []OneWriter
<1>1. Init => WriterInv
  BY WriterStart
<1>2. FlushInv /\ WriterInv => OneWriter
  BY FlushAssumption DEF FlushInv, TypeOK, WriterInv, OneWriter
<1>3. FlushInv /\ WriterInv /\ [Next]_vars => WriterInv'
  BY WriterStep
<1> QED BY <1>1, <1>2, <1>3, FlushInvariant, PTL DEF Spec
-----------------------------------------------------------------------------
(* Lines in the queue                                                      *)

(* A line further means LineLength bytes further.                          *)
LEMMA LinesApart ==
    ASSUME NEW L \in Nat \ {0}, NEW a \in Nat, NEW b \in Nat, a < b
    PROVE  a * L + L <= b * L
<1>1. PICK d \in Nat : b = a + 1 + d
  <2>1. b - a - 1 \in Nat /\ b = a + 1 + (b - a - 1)
    OBVIOUS
  <2> QED BY <2>1
<1>2. b * L = a * L + L + d * L
  BY <1>1
<1>3. d * L \in Nat /\ a * L \in Nat
  OBVIOUS
<1> QED BY <1>2, <1>3

(* Byte j is in line j \div L, at j % L.                                   *)
LEMMA LineOfByte ==
    ASSUME NEW L \in Nat \ {0}, NEW j \in Nat
    PROVE  j \div L \in Nat /\ j % L \in 0..(L - 1) /\ j = (j \div L) * L + (j % L)
OBVIOUS

(* And in no other.                                                        *)
LEMMA LineFound ==
    ASSUME NEW L \in Nat \ {0}, NEW k \in Nat, NEW r \in 0..(L - 1)
    PROVE  (k * L + r) \div L = k /\ (k * L + r) % L = r
<1>1. PICK j \in Nat : j = k * L + r
  OBVIOUS
<1>2. PICK q \in Nat : q = j \div L
  BY LineOfByte
<1>3. PICK s \in 0..(L - 1) : s = j % L
  BY LineOfByte
<1>4. q * L + s = k * L + r
  BY <1>1, <1>2, <1>3, LineOfByte
<1>5. q * L \in Nat /\ k * L \in Nat
  OBVIOUS
<1>6. ~(q < k)
  <2> SUFFICES ASSUME q < k PROVE FALSE
    OBVIOUS
  <2>1. q * L + L <= k * L
    BY LinesApart
  <2> QED BY <1>4, <1>5, <2>1
<1>7. ~(k < q)
  <2> SUFFICES ASSUME k < q PROVE FALSE
    OBVIOUS
  <2>1. k * L + L <= q * L
    BY LinesApart
  <2> QED BY <1>4, <1>5, <2>1
<1>8. q = k
  BY <1>6, <1>7
<1>9. s = r
  BY <1>4, <1>5, <1>8
<1> QED BY <1>1, <1>2, <1>3, <1>8, <1>9

(* The bytes of the first a lines.                                         *)
LEMMA LineBelow ==
    ASSUME NEW L \in Nat \ {0}, NEW a \in Nat, NEW j \in Nat, j < a * L
    PROVE  j \div L + 1 \in 1..a
<1>1. PICK q \in Nat : q = j \div L
  BY LineOfByte
<1>2. PICK s \in 0..(L - 1) : s = j % L
  BY LineOfByte
<1>3. j = q * L + s /\ q * L \in Nat /\ a * L \in Nat
  BY <1>1, <1>2, LineOfByte
<1>4. ~(a <= q)
  <2>1. a < q => a * L + L <= q * L
    BY LinesApart
  <2>2. a = q => a * L = q * L
    OBVIOUS
  <2>3. a <= q => a < q \/ a = q
    OBVIOUS
  <2> HIDE <1>1, <1>2
  <2> QED BY <1>3, <2>1, <2>2, <2>3
<1> QED BY <1>1, <1>4

(* The bytes behind the first a lines.                                     *)
LEMMA LineBehind ==
    ASSUME NEW L \in Nat \ {0}, NEW a \in Nat, NEW j \in Nat
    PROVE  (a * L + j) \div L = a + (j \div L) /\ (a * L + j) % L = j % L
<1>1. PICK q \in Nat : q = j \div L
  BY LineOfByte
<1>2. PICK s \in 0..(L - 1) : s = j % L
  BY LineOfByte
<1>3. j = q * L + s
  BY <1>1, <1>2, LineOfByte
<1>4. a * L + j = (a + q) * L + s
  BY <1>3
<1>5. ((a + q) * L + s) \div L = a + q /\ ((a + q) * L + s) % L = s
  <2>1. a + q \in Nat
    OBVIOUS
  <2> QED BY <2>1, LineFound
<1> QED BY <1>1, <1>2, <1>4, <1>5

LineBytes(l) == [i \in 1..LineLength |-> [line |-> l, byte |-> i]]

(* The bytes of the lines in the queue.                                    *)
Queued(q) == [i \in 1..(Len(q) * LineLength) |->
                 [line |-> q[((i - 1) \div LineLength) + 1], byte |-> ((i - 1) % LineLength) + 1]]

(* What the queue holds is a sequence of bytes.                            *)
LEMMA QueuedTyped ==
    ASSUME NEW q \in Seq(1..MaxBlocks)
    PROVE  /\ Queued(q) \in Seq(Bytes) /\ Len(Queued(q)) = Len(q) * LineLength
           /\ \A j \in Nat : j < Len(q) * LineLength =>
                Queued(q)[j + 1] = [line |-> q[(j \div LineLength) + 1], byte |-> (j % LineLength) + 1]
<1> DEFINE L == LineLength
           a == Len(q)
<1>1. L \in Nat \ {0} /\ a \in Nat /\ a * L \in Nat
  BY FlushAssumption
<1>2. \A k \in 1..a : q[k] \in 0..MaxBlocks
  BY FlushAssumption
<1> HIDE DEF L, a
<1>3. ASSUME NEW i \in 1..(a * L)
      PROVE  [line |-> q[((i - 1) \div L) + 1], byte |-> ((i - 1) % L) + 1] \in Bytes
  <2>1. PICK j \in Nat : j = i - 1
    BY <1>1
  <2>2. j < a * L
    BY <1>1, <2>1
  <2>3. (j \div L) + 1 \in 1..a
    BY <1>1, <2>2, LineBelow
  <2>4. j % L \in 0..(L - 1)
    BY <1>1, LineOfByte
  <2>5. (j % L) + 1 \in 1..L
    BY <1>1, <2>4
  <2> QED BY <1>2, <2>1, <2>3, <2>5 DEF Bytes, L
<1>4. Queued(q) = [i \in 1..(a * L) |-> [line |-> q[((i - 1) \div L) + 1], byte |-> ((i - 1) % L) + 1]]
  BY DEF Queued, L, a
<1>5. Queued(q) \in Seq(Bytes) /\ Len(Queued(q)) = a * L
  <2> DEFINE e(i) == [line |-> q[((i - 1) \div L) + 1], byte |-> ((i - 1) % L) + 1]
  <2>1. PICK m \in Nat : m = a * L
    BY <1>1
  <2>2. Queued(q) = [i \in 1..m |-> e(i)] /\ \A i \in 1..m : e(i) \in Bytes
    BY <1>3, <1>4, <2>1
  <2> HIDE DEF e
  <2>3. Queued(q) \in Seq(Bytes) /\ Len(Queued(q)) = m
    BY <2>2
  <2> QED BY <2>1, <2>3
<1>6. ASSUME NEW j \in Nat, j < a * L
      PROVE  Queued(q)[j + 1] = [line |-> q[(j \div L) + 1], byte |-> (j % L) + 1]
  <2>1. j + 1 \in 1..(a * L) /\ (j + 1) - 1 = j
    BY <1>1, <1>6
  <2> QED BY <1>4, <2>1
<1> QED BY <1>5, <1>6 DEF L, a

(* Queues behind each other are bytes behind each other.                   *)
LEMMA QueuedConcat ==
    ASSUME NEW s \in Seq(1..MaxBlocks), NEW t \in Seq(1..MaxBlocks)
    PROVE  Queued(s \o t) = Queued(s) \o Queued(t)
<1> DEFINE L == LineLength
           a == Len(s)
           b == Len(t)
<1>1. L \in Nat \ {0} /\ a \in Nat /\ b \in Nat
  BY FlushAssumption
<1>2. /\ s \o t \in Seq(1..MaxBlocks) /\ Len(s \o t) = a + b
      /\ \A i \in 1..(a + b) : (s \o t)[i] = IF i <= a THEN s[i] ELSE t[i - a]
  BY ConcatProperties
<1>3. /\ Queued(s) \in Seq(Bytes) /\ Len(Queued(s)) = a * L
      /\ Queued(t) \in Seq(Bytes) /\ Len(Queued(t)) = b * L
      /\ Queued(s \o t) \in Seq(Bytes) /\ Len(Queued(s \o t)) = (a + b) * L
  BY <1>2, QueuedTyped
<1>4. /\ \A j \in Nat : j < a * L =>
            Queued(s)[j + 1] = [line |-> s[(j \div L) + 1], byte |-> (j % L) + 1]
      /\ \A j \in Nat : j < b * L =>
            Queued(t)[j + 1] = [line |-> t[(j \div L) + 1], byte |-> (j % L) + 1]
      /\ \A j \in Nat : j < (a + b) * L =>
            Queued(s \o t)[j + 1] = [line |-> (s \o t)[(j \div L) + 1], byte |-> (j % L) + 1]
  BY <1>2, QueuedTyped
<1>5. /\ Queued(s) \o Queued(t) \in Seq(Bytes)
      /\ Len(Queued(s) \o Queued(t)) = Len(Queued(s)) + Len(Queued(t))
      /\ \A i \in 1..(Len(Queued(s)) + Len(Queued(t))) : (Queued(s) \o Queued(t))[i] =
           IF i <= Len(Queued(s)) THEN Queued(s)[i] ELSE Queued(t)[i - Len(Queued(s))]
  BY <1>3, ConcatProperties
<1> HIDE DEF L, a, b
<1>6. (a + b) * L = a * L + b * L /\ a * L \in Nat /\ b * L \in Nat
  BY <1>1
<1>7. ASSUME NEW i \in 1..((a + b) * L)
      PROVE  Queued(s \o t)[i] = (Queued(s) \o Queued(t))[i]
  <2>1. PICK j \in Nat : i = j + 1 /\ j < (a + b) * L
    <3>1. i - 1 \in Nat /\ i = (i - 1) + 1 /\ i - 1 < (a + b) * L
      BY <1>6
    <3> QED BY <3>1
  <2>2. Queued(s \o t)[i] = [line |-> (s \o t)[(j \div L) + 1], byte |-> (j % L) + 1]
    BY <1>4, <2>1
  <2>3. CASE j < a * L
    <3>1. (j \div L) + 1 \in 1..a
      BY <1>1, <2>3, LineBelow
    <3>2. (j \div L) + 1 \in 1..(a + b) /\ (j \div L) + 1 <= a
      BY <1>1, <3>1
    <3>3. i <= a * L /\ i \in 1..(a * L + b * L)
      BY <1>6, <2>1, <2>3
    <3> QED BY <1>2, <1>3, <1>4, <1>5, <2>1, <2>2, <2>3, <3>2, <3>3
  <2>4. CASE ~(j < a * L)
    <3>1. PICK m \in Nat : j = a * L + m /\ m < b * L
      <4>1. j - a * L \in Nat /\ j = a * L + (j - a * L) /\ j - a * L < b * L
        BY <1>6, <2>1, <2>4
      <4> QED BY <4>1
    <3>2. j \div L = a + (m \div L) /\ j % L = m % L
      BY <1>1, <3>1, LineBehind
    <3>3. PICK k \in 1..b : k = (m \div L) + 1
      BY <1>1, <3>1, LineBelow
    <3>4. m \div L \in Nat
      BY <1>1, LineOfByte
    <3>5. (j \div L) + 1 = a + k /\ a + k \in 1..(a + b) /\ ~(a + k <= a) /\ (a + k) - a = k
      BY <1>1, <3>2, <3>3, <3>4
    <3>6. (s \o t)[(j \div L) + 1] = t[k]
      BY <1>2, <3>5
    <3>7. i - a * L = m + 1 /\ ~(i <= a * L) /\ i \in 1..(a * L + b * L)
      BY <1>6, <2>1, <3>1
    <3>8. (Queued(s) \o Queued(t))[i] = Queued(t)[m + 1]
      BY <1>3, <1>5, <3>7
    <3>9. Queued(t)[m + 1] = [line |-> t[k], byte |-> (m % L) + 1]
      BY <1>4, <3>1, <3>3
    <3> QED BY <2>2, <3>2, <3>6, <3>8, <3>9
  <2> QED BY <2>3, <2>4
<1>8. /\ Len(Queued(s) \o Queued(t)) = a * L + b * L
      /\ Len(Queued(s \o t)) = a * L + b * L
  BY <1>3, <1>5, <1>6
<1> QED BY <1>3, <1>5, <1>6, <1>7, <1>8, SeqEqual

(* One block in the queue is its line.                                     *)
LEMMA QueuedOne ==
    ASSUME NEW l \in 1..MaxBlocks
    PROVE  Queued(<<l>>) = LineBytes(l)
<1>1. LineLength \in Nat \ {0} /\ 1 * LineLength = LineLength /\ 0 * LineLength = 0
      /\ Len(<<l>>) = 1 /\ <<l>>[1] = l
  BY FlushAssumption
<1>2. ASSUME NEW i \in 1..LineLength
      PROVE  [line |-> <<l>>[((i - 1) \div LineLength) + 1], byte |-> ((i - 1) % LineLength) + 1]
                 = [line |-> l, byte |-> i]
  <2>1. PICK r \in 0..(LineLength - 1) : r = i - 1
    BY <1>1
  <2>2. 0 * LineLength + r = r /\ 0 \in Nat
    BY <1>1
  <2>3. r \div LineLength = 0 /\ r % LineLength = r
    BY <1>1, <2>2, LineFound
  <2>4. (r \div LineLength) + 1 = 1 /\ (r % LineLength) + 1 = i
    BY <2>1, <2>3
  <2> QED BY <1>1, <2>1, <2>4
<1>3. Queued(<<l>>) = LineBytes(l)
  BY <1>1, <1>2 DEF Queued, LineBytes
<1> QED BY <1>3

(* An empty queue holds no byte.                                           *)
LEMMA QueuedNone == Queued(<<>>) = <<>>
<1>1. Len(<<>>) * LineLength = 0
  BY FlushAssumption
<1>2. Queued(<<>>) = [i \in 1..0 |-> [line |-> <<>>[((i - 1) \div LineLength) + 1],
                                      byte |-> ((i - 1) % LineLength) + 1]]
  BY <1>1 DEF Queued
<1> QED BY <1>2
-----------------------------------------------------------------------------
(* Lines on their way                                                      *)

(* What a writer has left is a sequence of bytes; a new line is all left.  *)
LEMMA LeftTyped ==
    ASSUME NEW w \in WriterState
    PROVE  /\ Left(w) \in Seq(Bytes) /\ Len(Left(w)) = w.rest
           /\ ~(w.rest > 0) => Left(w) = <<>>
<1>1. /\ w.rest \in 0..LineLength /\ w.line \in 0..MaxBlocks /\ w.rest \in Nat
      /\ LineLength \in Nat
  BY FlushAssumption DEF WriterState
<1>2. \A i \in 1..w.rest : LineLength - w.rest + i \in 1..LineLength
  BY <1>1
<1>3. \A i \in 1..w.rest : [line |-> w.line, byte |-> LineLength - w.rest + i] \in Bytes
  BY <1>1, <1>2 DEF Bytes
<1>4. Left(w) \in Seq(Bytes) /\ Len(Left(w)) = w.rest
  BY <1>1, <1>3 DEF Left
<1>5. ~(w.rest > 0) => Left(w) = <<>>
  BY <1>1, <1>4, EmptySeq
<1> QED BY <1>4, <1>5

(* A new line is left whole, an idle writer has nothing left.              *)
LEMMA LeftLine ==
    ASSUME NEW l \in 0..MaxBlocks
    PROVE  /\ Left(Line(l)) = LineBytes(l) /\ Left(Idle) = <<>>
           /\ LineBytes(l) \in Seq(Bytes) /\ Len(LineBytes(l)) = LineLength
           /\ LineBytes(l)[LineLength].line = l
<1>1. LineLength \in Nat \ {0}
  BY FlushAssumption
<1>2. \A i \in 1..LineLength : LineLength - LineLength + i = i
  BY <1>1
<1>3. Left(Line(l)) = LineBytes(l)
  BY <1>2 DEF Left, Line, LineBytes
<1>4. LineBytes(l) \in Seq(Bytes) /\ Len(LineBytes(l)) = LineLength
  <2>1. \A i \in 1..LineLength : [line |-> l, byte |-> i] \in Bytes
    BY DEF Bytes
  <2> QED BY <1>1, <2>1 DEF LineBytes
<1>5. LineBytes(l)[LineLength].line = l
  BY <1>1 DEF LineBytes
<1>6. Idle \in WriterState /\ Idle.rest = 0
  BY FlushAssumption DEF Idle, WriterState
<1>7. Left(Idle) = <<>>
  BY <1>6, LeftTyped
<1> QED BY <1>3, <1>4, <1>5, <1>7

(* A write takes the front of what is left.                                *)
LEMMA LeftTake ==
    ASSUME NEW w \in WriterState, NEW n \in 0..LineLength, n <= w.rest
    PROVE  LET chunk == [i \in 1..n |-> [line |-> w.line, byte |-> LineLength - w.rest + i]]
               later == IF n = w.rest THEN Idle
                        ELSE [w EXCEPT !.rest = w.rest - n, !.attempts = w.attempts + 1]
           IN  /\ chunk \in Seq(Bytes) /\ Len(chunk) = n
               /\ Left(later) \in Seq(Bytes)
               /\ Left(w) = chunk \o Left(later)
<1> DEFINE chunk == [i \in 1..n |-> [line |-> w.line, byte |-> LineLength - w.rest + i]]
           later == IF n = w.rest THEN Idle
                    ELSE [w EXCEPT !.rest = w.rest - n, !.attempts = w.attempts + 1]
           tail == [i \in 1..(w.rest - n) |-> [line |-> w.line, byte |-> LineLength - (w.rest - n) + i]]
<1>1. /\ w.rest \in 0..LineLength /\ w.line \in 0..MaxBlocks /\ w.rest \in Nat /\ n \in Nat
      /\ LineLength \in Nat /\ w.rest - n \in Nat
  BY FlushAssumption DEF WriterState
<1>2. \A i \in 1..n : LineLength - w.rest + i \in 1..LineLength
  BY <1>1, ShortWrite
<1>3. \A i \in 1..n : [line |-> w.line, byte |-> LineLength - w.rest + i] \in Bytes
  BY <1>1, <1>2 DEF Bytes
<1>4. chunk \in Seq(Bytes) /\ Len(chunk) = n
  BY <1>1, <1>3
<1>5. Left(later) = tail
  <2>1. CASE n = w.rest
    <3>1. w.rest - n = 0 /\ 0 \in 0..MaxBlocks
      BY <1>1, <2>1, FlushAssumption
    <3>2. tail = <<>>
      BY <3>1
    <3> QED BY <2>1, <3>1, <3>2, LeftLine
  <2>2. CASE n # w.rest
    BY <2>2 DEF Left, WriterState
  <2> QED BY <2>1, <2>2
<1>6. \A i \in 1..(w.rest - n) : LineLength - (w.rest - n) + i \in 1..LineLength
  BY <1>1
<1>7. \A i \in 1..(w.rest - n) : [line |-> w.line, byte |-> LineLength - (w.rest - n) + i] \in Bytes
  BY <1>1, <1>6 DEF Bytes
<1>8. tail \in Seq(Bytes) /\ Len(tail) = w.rest - n
  <2>1. PICK m \in Nat : m = w.rest - n
    BY <1>1
  <2>2. /\ tail = [i \in 1..m |-> [line |-> w.line, byte |-> LineLength - m + i]]
        /\ \A i \in 1..m : [line |-> w.line, byte |-> LineLength - m + i] \in Bytes
    BY <1>7, <2>1
  <2> HIDE DEF tail
  <2>3. tail \in Seq(Bytes) /\ Len(tail) = m
    BY <2>2
  <2> QED BY <2>1, <2>3
<1>9. /\ chunk \o tail \in Seq(Bytes) /\ Len(chunk \o tail) = Len(chunk) + Len(tail)
      /\ \A i \in 1..(Len(chunk) + Len(tail)) :
           (chunk \o tail)[i] = IF i <= Len(chunk) THEN chunk[i] ELSE tail[i - Len(chunk)]
  BY <1>4, <1>8, ConcatProperties
<1>10. Left(w) \in Seq(Bytes) /\ Len(Left(w)) = w.rest
  BY LeftTyped
<1>11. ASSUME NEW i \in 1..w.rest
       PROVE  Left(w)[i] = (chunk \o tail)[i]
  <2>1. n + (w.rest - n) = w.rest
    BY <1>1
  <2>2. Left(w)[i] = [line |-> w.line, byte |-> LineLength - w.rest + i]
    BY DEF Left
  <2>3. (chunk \o tail)[i] = IF i <= n THEN chunk[i] ELSE tail[i - n]
    BY <1>4, <1>8, <1>9, <2>1
  <2>4. CASE i <= n
    <3>1. i \in 1..n
      BY <1>1, <2>4
    <3> QED BY <2>2, <2>3, <2>4, <3>1
  <2>5. CASE ~(i <= n)
    <3>1. /\ i - n \in 1..(w.rest - n)
          /\ LineLength - (w.rest - n) + (i - n) = LineLength - w.rest + i
      BY <1>1, <2>5
    <3>2. tail[i - n] = [line |-> w.line, byte |-> LineLength - (w.rest - n) + (i - n)]
      BY <3>1
    <3> QED BY <2>2, <2>3, <2>5, <3>1, <3>2
  <2> QED BY <2>4, <2>5
<1>12. Len(chunk \o tail) = w.rest
  <2> HIDE DEF chunk, tail
  <2> QED BY <1>1, <1>4, <1>8, <1>9
<1>13. Left(w) = chunk \o tail
  BY <1>9, <1>10, <1>11, <1>12, SeqEqual
<1> QED BY <1>4, <1>5, <1>8, <1>13

(* The front of a sequence and what is behind it.                          *)
LEMMA FrontRest ==
    ASSUME NEW S, NEW s \in Seq(S), NEW t \in Seq(S)
    PROVE  /\ SubSeq(s \o t, 1, Len(s)) = s
           /\ SubSeq(s \o t, Len(s) + 1, Len(s \o t)) = t
<1> DEFINE u == s \o t
           a == Len(s)
           b == Len(t)
<1>1. /\ u \in Seq(S) /\ Len(u) = a + b
      /\ \A i \in 1..(a + b) : u[i] = IF i <= a THEN s[i] ELSE t[i - a]
  BY ConcatProperties
<1>2. a \in Nat /\ b \in Nat
  BY LenProperties
<1> HIDE DEF u
<1>3. \A i \in 1..(a + b) : u[i] \in S
  BY <1>1
<1>4. s \in Seq(S) /\ t \in Seq(S) /\ (\A i \in 1..a : i \in DOMAIN s) /\ \A i \in 1..b : i \in DOMAIN t
  OBVIOUS
<1> HIDE DEF a, b
<1>5. PICK k \in Int, l \in Int : k = a + 1 /\ l = a + b
  BY <1>2
<1>6. /\ 1 \in Int /\ a \in Int
      /\ a - 1 + 1 = a /\ l - k + 1 = b
      /\ (1 <= a => a - 1 + 1 = a) /\ (~(1 <= a) => a = 0)
      /\ (k <= l => l - k + 1 = b) /\ (~(k <= l) => b = 0)
  BY <1>2, <1>5
<1>7. \A i \in 1..a : i \in 1..(a + b) /\ i <= a /\ 1 + i - 1 = i
  BY <1>2
<1>8. \A i \in k..l : i \in 1..(a + b)
  BY <1>2, <1>5
<1>9. \A i \in 1..b : k + i - 1 \in 1..(a + b) /\ ~(k + i - 1 <= a) /\ (k + i - 1) - a = i
  BY <1>2, <1>5
<1>10. SubSeq(u, 1, a) = s
  <2>1. \A i \in 1..a : u[i] \in S
    BY <1>3, <1>7
  <2>2. /\ SubSeq(u, 1, a) \in Seq(S)
        /\ Len(SubSeq(u, 1, a)) = IF 1 <= a THEN a - 1 + 1 ELSE 0
        /\ \A i \in 1..(a - 1 + 1) : SubSeq(u, 1, a)[i] = u[1 + i - 1]
    BY <1>6, <2>1, SubSeqProperties
  <2>3. Len(SubSeq(u, 1, a)) = a
    BY <1>6, <2>2
  <2>4. ASSUME NEW i \in 1..a
        PROVE  SubSeq(u, 1, a)[i] = s[i]
    <3>1. SubSeq(u, 1, a)[i] = u[1 + i - 1] /\ 1 + i - 1 = i /\ i \in 1..(a + b) /\ i <= a
      BY <1>6, <1>7, <2>2
    <3> QED BY <1>1, <3>1
  <2> QED BY <2>2, <2>3, <2>4, SeqEqual DEF a
<1>11. SubSeq(u, k, l) = t
  <2>1. \A i \in k..l : u[i] \in S
    BY <1>3, <1>8
  <2>2. /\ SubSeq(u, k, l) \in Seq(S)
        /\ Len(SubSeq(u, k, l)) = IF k <= l THEN l - k + 1 ELSE 0
        /\ \A i \in 1..(l - k + 1) : SubSeq(u, k, l)[i] = u[k + i - 1]
    BY <2>1, SubSeqProperties
  <2>3. Len(SubSeq(u, k, l)) = b
    BY <1>6, <2>2
  <2>4. ASSUME NEW i \in 1..b
        PROVE  SubSeq(u, k, l)[i] = t[i]
    <3>1. /\ SubSeq(u, k, l)[i] = u[k + i - 1]
          /\ k + i - 1 \in 1..(a + b) /\ ~(k + i - 1 <= a) /\ (k + i - 1) - a = i
      BY <1>6, <1>9, <2>2
    <3> QED BY <1>1, <3>1
  <2> QED BY <2>2, <2>3, <2>4, SeqEqual DEF b
<1> QED BY <1>1, <1>5, <1>10, <1>11 DEF u, a, b
-----------------------------------------------------------------------------
(* The stream                                                              *)

(* The variables of BlockStream.                                           *)
Pending == LET queued == [i \in 1..(Len(queue) * LineLength) |->
                            [line |-> queue[((i - 1) \div LineLength) + 1],
                             byte |-> ((i - 1) % LineLength) + 1]]
           IN  Left(writer["node"]) \o Left(writer["worker"]) \o queued

Closed == \E c \in Closers : closer[c] = "returned"

(* The lines handed over: the init line, and a block once it is queued or  *)
(* being printed.                                                          *)
Handed == IF initSent = FALSE THEN 0 ELSE IF node = "pushing" THEN blocks ELSE blocks + 1

(* The last byte handed over is of the last line.                          *)
LastLine(s, n) == \/ n = 0 /\ s = <<>>
                  \/ n > 0 /\ s # <<>> /\ s[Len(s)].line + 1 = n

LastInv == LastLine(output \o Pending, Handed)

(* Before the chain is known there is no block; a close that returns has   *)
(* seen the worker leave with nothing to write.                            *)
CloseInv ==
    /\ chainKnown = FALSE => blocks = 0
    /\ node = "init" /\ Writing("node") => writer["node"].line = 0
    /\ workerDone = TRUE => queueClosed = TRUE /\ queue = <<>> /\ ~Writing("worker")
    /\ once = "done" => workerDone = TRUE
    /\ \A c \in Closers : closer[c] # "outside" => bufferSize > 0
    /\ \A c \in Closers : closer[c] = "returned" => once = "done"
-----------------------------------------------------------------------------
(* Nobody closes at the start.                                             *)
LEMMA CloseStart == Init => CloseInv
  BY DEF Init, CloseInv, Writing, Idle

(* Every step keeps closes in order.                                       *)
LEMMA CloseStep ==
    ASSUME FlushInv, WriterInv, CloseInv, [Next]_vars
    PROVE  CloseInv'
<1>1. /\ writer \in [{"node", "worker"} -> WriterState] /\ chainKnown \in BOOLEAN
      /\ bufferSize \in Nat /\ workerDone \in BOOLEAN /\ queueClosed \in BOOLEAN
      /\ closer \in [Closers -> {"outside", "joining", "waiting", "returned"}]
  BY FlushAssumption DEF FlushInv, TypeOK, WriterState
<1>2. CASE UNCHANGED vars
  BY <1>2 DEF vars, CloseInv, Writing
<1>3. CASE OnBlockchainInit
  <2>1. /\ writer'["worker"] = writer["worker"] /\ writer'["node"].line = 0
        /\ UNCHANGED <<bufferSize, chainKnown, blocks, queue, queueClosed, workerDone, closer, once>>
    BY <1>1, <1>3 DEF OnBlockchainInit, Queues, Line
  <2> QED BY <2>1 DEF CloseInv, Writing
<1>4. CASE ChainInitialized
  <2>1. /\ chainKnown' = TRUE /\ node' = "idle"
        /\ UNCHANGED <<bufferSize, writer, queue, queueClosed, workerDone, closer, once>>
    BY <1>4 DEF ChainInitialized, Queues
  <2> QED BY <2>1 DEF CloseInv, Writing
<1>5. CASE OnBlockEnd
  <2>1. /\ chainKnown = TRUE /\ node' # "init" /\ writer'["worker"] = writer["worker"]
        /\ UNCHANGED <<bufferSize, chainKnown, queue, queueClosed, workerDone, closer, once>>
    BY <1>1, <1>5 DEF OnBlockEnd, Queues
  <2> QED BY <2>1 DEF CloseInv, Writing
<1>6. CASE Push
  <2>1. /\ node' # "init" /\ (queueClosed = FALSE \/ queue' = queue)
        /\ UNCHANGED <<bufferSize, chainKnown, blocks, writer, queueClosed, workerDone, closer, once>>
    BY <1>1, <1>6 DEF Push
  <2> QED BY <2>1 DEF CloseInv, Writing
<1>7. CASE Printed
  <2>1. /\ node' = "idle"
        /\ UNCHANGED <<bufferSize, chainKnown, blocks, writer, queue, queueClosed, workerDone,
                       closer, once>>
    BY <1>7 DEF Printed, Queues
  <2> QED BY <2>1 DEF CloseInv, Writing
<1>8. CASE Receive
  <2>1. /\ queue # <<>> /\ writer'["node"] = writer["node"]
        /\ UNCHANGED <<bufferSize, chainKnown, blocks, node, queueClosed, workerDone, closer, once>>
    BY <1>1, <1>8 DEF Receive
  <2> QED BY <2>1 DEF CloseInv, Writing
<1>9. CASE LeaveLoop
  <2>1. /\ workerDone' = TRUE /\ ~Writing("worker") /\ queue = <<>> /\ queueClosed = TRUE
        /\ UNCHANGED <<bufferSize, chainKnown, blocks, node, queue, queueClosed, closer, once, writer>>
    BY <1>1, <1>9 DEF LeaveLoop
  <2> QED BY <2>1 DEF CloseInv, Writing
<1>10. ASSUME NEW p \in {"node", "worker"}, NEW n \in 0..LineLength, Write(p, n)
       PROVE  CloseInv'
  <2>1. /\ UNCHANGED <<bufferSize, chainKnown, blocks, node, queue, queueClosed, workerDone, closer, once>>
        /\ Writing(p)
        /\ \A q \in {"node", "worker"} : q # p => writer'[q] = writer[q]
        /\ writer'[p] = Idle \/ writer'[p].line = writer[p].line
    BY <1>1, <1>10 DEF Write, Queues, WriterState
  <2>2. Writing("node")' => Writing("node") /\ writer'["node"].line = writer["node"].line
    BY <1>1, <2>1 DEF Writing, Idle
  <2>3. Writing("worker")' => Writing("worker")
    BY <2>1 DEF Writing
  <2> QED BY <2>1, <2>2, <2>3 DEF CloseInv
<1>11. ASSUME NEW c \in Closers, OnClose(c)
       PROVE  CloseInv'
  <2>1. /\ bufferSize > 0 /\ closer[c] = "outside" /\ closer'[c] \in {"joining", "waiting"}
        /\ \A d \in Closers : d # c => closer'[d] = closer[d]
        /\ UNCHANGED <<bufferSize, chainKnown, blocks, node, queue, workerDone, writer>>
        /\ (queueClosed = TRUE => queueClosed' = TRUE)
        /\ (once' = "done") = (once = "done")
    BY <1>1, <1>11 DEF OnClose, Concurrent
  <2> QED BY <2>1 DEF CloseInv, Writing
<1>12. ASSUME NEW c \in Closers, CloseReturns(c)
       PROVE  CloseInv'
  <2>1. /\ closer[c] # "outside" /\ once' = "done" /\ (workerDone = TRUE \/ once = "done")
        /\ \A d \in Closers : d # c => closer'[d] = closer[d]
        /\ UNCHANGED <<bufferSize, chainKnown, blocks, node, queue, queueClosed, workerDone, writer>>
    BY <1>1, <1>12 DEF CloseReturns
  <2> QED BY <2>1 DEF CloseInv, Writing
<1> QED BY <1>2, <1>3, <1>4, <1>5, <1>6, <1>7, <1>8, <1>9, <1>10, <1>11, <1>12
        DEF Next, Node, Worker, Flush

(* Sequences of bytes concatenate in any grouping.                         *)
LEMMA BytesGroup ==
    ASSUME NEW x \in Seq(Bytes), NEW y \in Seq(Bytes), NEW z \in Seq(Bytes)
    PROVE  (x \o y) \o z = x \o (y \o z)
BY ConcatAssociative, SMTT(60)
-----------------------------------------------------------------------------
(* What is on its way: what the node has left to write, what the worker    *)
(* has, and what is queued.                                                *)
OnTheWay(node_, worker_, q) == Left(node_) \o Left(worker_) \o Queued(q)

(* What is on its way is bytes.                                            *)
LEMMA WayTyped ==
    ASSUME NEW v \in WriterState, NEW w \in WriterState, NEW q \in Seq(1..MaxBlocks)
    PROVE  OnTheWay(v, w, q) \in Seq(Bytes)
<1>1. Left(v) \in Seq(Bytes) /\ Left(w) \in Seq(Bytes) /\ Queued(q) \in Seq(Bytes)
  BY LeftTyped, QueuedTyped
<1>2. Left(v) \o Left(w) \in Seq(Bytes)
  BY <1>1, ConcatProperties
<1>3. (Left(v) \o Left(w)) \o Queued(q) \in Seq(Bytes)
  BY <1>1, <1>2, ConcatProperties
<1> QED BY <1>3 DEF OnTheWay

(* Nothing queued and nobody writing: nothing is on its way.               *)
LEMMA WayEmpty ==
    ASSUME NEW v \in WriterState, NEW w \in WriterState, ~(v.rest > 0), ~(w.rest > 0)
    PROVE  OnTheWay(v, w, <<>>) = <<>>
<1>1. Left(v) = <<>> /\ Left(w) = <<>>
  BY LeftTyped
<1>3. <<>> \in Seq(Bytes)
  OBVIOUS
<1>4. <<>> \o <<>> = <<>>
  BY <1>3, ConcatEmptySeq
<1> QED BY <1>1, <1>4, QueuedNone DEF OnTheWay

(* A line begun by a node that nothing else is on its way for.             *)
LEMMA WayNodeLine ==
    ASSUME NEW l \in 0..MaxBlocks, NEW w \in WriterState, ~(w.rest > 0)
    PROVE  OnTheWay(Line(l), w, <<>>) = <<>> \o LineBytes(l)
<1>1. /\ Left(Line(l)) = LineBytes(l) /\ LineBytes(l) \in Seq(Bytes) /\ Left(w) = <<>>
  BY LeftLine, LeftTyped
<1>3. LineBytes(l) \o <<>> = LineBytes(l) /\ <<>> \o LineBytes(l) = LineBytes(l)
  BY <1>1, ConcatEmptySeq
<1> QED BY <1>1, <1>3, QueuedNone DEF OnTheWay

(* A block put at the end of the queue is put at the end of what is on its *)
(* way.                                                                    *)
LEMMA WayPush ==
    ASSUME NEW v \in WriterState, NEW w \in WriterState, NEW q \in Seq(1..MaxBlocks),
           NEW l \in 1..MaxBlocks
    PROVE  OnTheWay(v, w, Append(q, l)) = OnTheWay(v, w, q) \o LineBytes(l)
<1>1. <<l>> \in Seq(1..MaxBlocks) /\ Append(q, l) = q \o <<l>>
  BY AppendIsConcat
<1>2. Queued(Append(q, l)) = Queued(q) \o LineBytes(l)
  BY <1>1, QueuedConcat, QueuedOne
<1>3. l \in 0..MaxBlocks
  BY FlushAssumption
<1>4. /\ Left(v) \in Seq(Bytes) /\ Left(w) \in Seq(Bytes) /\ Queued(q) \in Seq(Bytes)
      /\ LineBytes(l) \in Seq(Bytes)
  BY <1>3, LeftTyped, QueuedTyped, LeftLine
<1>5. Left(v) \o Left(w) \in Seq(Bytes)
  BY <1>4, ConcatProperties
<1>6. ((Left(v) \o Left(w)) \o Queued(q)) \o LineBytes(l)
        = (Left(v) \o Left(w)) \o (Queued(q) \o LineBytes(l))
  <2> DEFINE x == Left(v) \o Left(w)
             y == Queued(q)
             z == LineBytes(l)
  <2>1. x \in Seq(Bytes) /\ y \in Seq(Bytes) /\ z \in Seq(Bytes)
    BY <1>4, <1>5
  <2> HIDE DEF x, y, z
  <2>2. (x \o y) \o z = x \o (y \o z)
    BY <2>1, BytesGroup
  <2> QED BY <2>2 DEF x, y, z
<1> QED BY <1>2, <1>6 DEF OnTheWay

(* A block the worker takes stays on its way.                              *)
LEMMA WayReceive ==
    ASSUME NEW v \in WriterState, NEW w \in WriterState, ~(w.rest > 0),
           NEW q \in Seq(1..MaxBlocks), q # <<>>
    PROVE  OnTheWay(v, Line(Head(q)), Tail(q)) = OnTheWay(v, w, q)
<1>1. PICK l \in 1..MaxBlocks : l = Head(q)
  BY HeadTailProperties
<1>2. PICK t \in Seq(1..MaxBlocks) : t = Tail(q)
  BY HeadTailProperties
<1>3. q = <<l>> \o t
  <2>1. /\ Len(t) = Len(q) - 1 /\ \A i \in 1..Len(t) : t[i] = q[i + 1]
    BY <1>2, HeadTailProperties
  <2>2. q[1] = l /\ Len(q) \in Nat /\ Len(q) >= 1
    BY <1>1, EmptySeq
  <2>3. <<l>> \in Seq(1..MaxBlocks) /\ Len(<<l>>) = 1 /\ <<l>>[1] = l
    OBVIOUS
  <2>4. /\ <<l>> \o t \in Seq(1..MaxBlocks) /\ Len(<<l>> \o t) = Len(<<l>>) + Len(t)
        /\ \A i \in 1..(Len(<<l>>) + Len(t)) :
             (<<l>> \o t)[i] = IF i <= Len(<<l>>) THEN <<l>>[i] ELSE t[i - Len(<<l>>)]
    BY <2>3, ConcatProperties
  <2>5. Len(<<l>> \o t) = Len(q)
    BY <2>1, <2>2, <2>3, <2>4
  <2>6. ASSUME NEW i \in 1..Len(q)
        PROVE  (<<l>> \o t)[i] = q[i]
    <3>1. (<<l>> \o t)[i] = IF i <= 1 THEN <<l>>[i] ELSE t[i - 1]
      BY <2>2, <2>3, <2>4, <2>5
    <3>2. i = 1 \/ (~(i <= 1) /\ i - 1 \in 1..Len(t) /\ (i - 1) + 1 = i)
      BY <2>1, <2>2
    <3> QED BY <2>1, <2>2, <2>3, <3>1, <3>2
  <2> QED BY <2>4, <2>5, <2>6, SeqEqual
<1>4. Queued(q) = LineBytes(l) \o Queued(t)
  <2>1. <<l>> \in Seq(1..MaxBlocks)
    OBVIOUS
  <2> QED BY <1>3, <2>1, QueuedConcat, QueuedOne
<1>5. l \in 0..MaxBlocks
  BY FlushAssumption
<1>6. /\ Left(v) \in Seq(Bytes) /\ Queued(t) \in Seq(Bytes) /\ LineBytes(l) \in Seq(Bytes)
      /\ Left(w) = <<>> /\ Left(Line(l)) = LineBytes(l)
  BY <1>5, LeftTyped, QueuedTyped, LeftLine
<1>7. Left(v) \o <<>> = Left(v)
  BY <1>6, ConcatEmptySeq
<1>8. (Left(v) \o LineBytes(l)) \o Queued(t) = Left(v) \o (LineBytes(l) \o Queued(t))
  BY <1>6, BytesGroup
<1> QED BY <1>1, <1>2, <1>4, <1>6, <1>7, <1>8 DEF OnTheWay

(* When the other goroutine has no line begun, what is on its way is the   *)
(* rest of the line being written and then the queue.                      *)
LEMMA WayAlone ==
    ASSUME NEW w \in WriterState, NEW x \in WriterState, NEW q \in Seq(1..MaxBlocks), ~(x.rest > 0)
    PROVE  /\ OnTheWay(w, x, q) = Left(w) \o Queued(q)
           /\ OnTheWay(x, w, q) = Left(w) \o Queued(q)
<1> DEFINE a == Left(w)
           b == Queued(q)
<1>1. a \in Seq(Bytes) /\ Left(x) = <<>>
  BY LeftTyped
<1> HIDE DEF a
<1>2. a \o <<>> = a /\ <<>> \o a = a
  BY <1>1, ConcatEmptySeq
<1>3. OnTheWay(w, x, q) = (a \o <<>>) \o b /\ OnTheWay(x, w, q) = (<<>> \o a) \o b
  BY <1>1 DEF OnTheWay, a, b
<1> QED BY <1>2, <1>3 DEF a

(* A line handed over is the last one.                                     *)
LEMMA LastHanded ==
    ASSUME NEW s \in Seq(Bytes), NEW l \in 0..MaxBlocks
    PROVE  LastLine(s \o LineBytes(l), l + 1) /\ s \o LineBytes(l) \in Seq(Bytes)
<1> DEFINE t == LineBytes(l)
<1>1. t \in Seq(Bytes) /\ Len(t) = LineLength /\ t[LineLength].line = l /\ LineLength \in Nat \ {0}
  BY LeftLine, FlushAssumption
<1> HIDE DEF t
<1>2. /\ s \o t \in Seq(Bytes) /\ Len(s \o t) = Len(s) + Len(t)
      /\ \A i \in 1..(Len(s) + Len(t)) : (s \o t)[i] = IF i <= Len(s) THEN s[i] ELSE t[i - Len(s)]
  BY <1>1, ConcatProperties
<1>3. /\ Len(s) \in Nat /\ Len(s) + LineLength \in 1..(Len(s) + LineLength)
      /\ ~(Len(s) + LineLength <= Len(s)) /\ (Len(s) + LineLength) - Len(s) = LineLength
      /\ Len(s) + LineLength # 0 /\ l + 1 > 0
  BY <1>1
<1>4. (s \o t)[Len(s \o t)] = t[LineLength]
  BY <1>1, <1>2, <1>3
<1>5. s \o t # <<>>
  BY <1>1, <1>2, <1>3
<1> QED BY <1>1, <1>2, <1>3, <1>4, <1>5 DEF LastLine, t

(* What FlushInv says of the parts of the stream.                          *)
LEMMA StreamTypes ==
    ASSUME FlushInv
    PROVE  /\ writer["node"] \in WriterState /\ writer["worker"] \in WriterState
           /\ queue \in Seq(1..MaxBlocks) /\ output \in Seq(Bytes)
           /\ blocks \in Nat /\ blocks \in 0..MaxBlocks /\ bufferSize \in Nat
           /\ Pending = OnTheWay(writer["node"], writer["worker"], queue)
           /\ Pending \in Seq(Bytes)
           /\ initSent \in BOOLEAN /\ chainKnown \in BOOLEAN
           /\ node \in {"idle", "init", "pushing", "printing"}
<1>1. /\ writer \in [{"node", "worker"} -> WriterState]
      /\ queue \in Seq(1..MaxBlocks) /\ output \in Seq(Bytes)
      /\ blocks \in Nat /\ blocks \in 0..MaxBlocks /\ bufferSize \in Nat
      /\ initSent \in BOOLEAN /\ chainKnown \in BOOLEAN
      /\ node \in {"idle", "init", "pushing", "printing"}
  BY FlushAssumption DEF FlushInv, TypeOK, WriterState, Bytes
<1>2. Pending = OnTheWay(writer["node"], writer["worker"], queue)
  BY DEF Pending, OnTheWay, Queued
<1> QED BY <1>1, <1>2, WayTyped

(* And in the next state.                                                  *)
LEMMA PendingNext == (FlushInv => Pending \in Seq(Bytes))'
<1>1. FlushInv => Pending \in Seq(Bytes)
  BY StreamTypes
<1> QED BY <1>1, PTL

(* A step that moves nothing.                                              *)
LEMMA StreamQuiet ==
    ASSUME output' = output, Pending' = Pending, Closed' = Closed
    PROVE  UNCHANGED Stream!streamVars
BY DEF Stream!streamVars, Pending, Closed

(* A step that hands a line over, the one after the last.                  *)
LEMMA StreamHand ==
    ASSUME FlushInv, NEW l \in 0..MaxBlocks, LastLine(output \o Pending, l),
           Closed => l = 0,
           Pending' = Pending \o LineBytes(l), output' = output, Closed' = Closed
    PROVE  Stream!StreamNext /\ LastLine(output \o Pending, l + 1)'
<1> DEFINE s == output \o Pending
<1>1. output \in Seq(Bytes) /\ Pending \in Seq(Bytes) /\ l \in Nat
      /\ LineBytes(l) \in Seq(Bytes)
  BY StreamTypes, LeftLine
<1>2. s \in Seq(Bytes)
  BY <1>1, ConcatProperties
<1>3. (output \o Pending)' = s \o LineBytes(l)
  <2>1. PICK a \in Seq(Bytes), p \in Seq(Bytes), b \in Seq(Bytes) :
            a = output /\ p = Pending /\ b = LineBytes(l)
    BY <1>1
  <2>2. (a \o p) \o b = a \o (p \o b)
    BY BytesGroup
  <2> QED BY <2>1, <2>2
<1>4. l = IF s = <<>> THEN 0 ELSE s[Len(s)].line + 1
  <2> HIDE DEF s
  <2> QED BY DEF LastLine, s
<1>5. LastLine(s \o LineBytes(l), l + 1)
  BY <1>2, LastHanded
<1>6. LastLine(output \o Pending, l + 1)'
  BY <1>3, <1>5 DEF LastLine
<1>7. Stream!Hand(l)
  BY <1>4 DEF Stream!Hand, Stream!Bytes, LineBytes, Pending, Closed
<1> QED BY <1>6, <1>7 DEF Stream!StreamNext

(* A step that writes the front of what is on its way.                     *)
LEMMA StreamWrite ==
    ASSUME FlushInv, FlushInv', NEW n \in 1..LineLength, NEW chunk \in Seq(Bytes), Len(chunk) = n,
           Pending = chunk \o Pending', output' = output \o chunk, Closed' = Closed
    PROVE  Stream!StreamNext /\ (output \o Pending)' = output \o Pending
<1>1. output \in Seq(Bytes) /\ Pending \in Seq(Bytes)
  BY StreamTypes
<1>2. (Pending \in Seq(Bytes))'
  BY PendingNext
<1>3. PICK t \in Seq(Bytes) : t = Pending'
  BY <1>2
<1>4. SubSeq(chunk \o t, 1, n) = chunk /\ SubSeq(chunk \o t, n + 1, Len(chunk \o t)) = t
  BY FrontRest
<1>5. (output \o chunk) \o t = output \o (chunk \o t)
  <2>1. PICK o \in Seq(Bytes) : o = output
    BY <1>1
  <2>2. t \in Seq(Bytes)
    BY <1>1
  <2>3. (o \o chunk) \o t = o \o (chunk \o t)
    BY <2>2, BytesGroup
  <2> QED BY <2>1, <2>3
<1>6. output' = output \o SubSeq(Pending, 1, n) /\ Pending' = SubSeq(Pending, n + 1, Len(Pending))
  BY <1>3, <1>4
<1>7. Len(Pending) = Len(chunk) + Len(t) /\ Len(t) \in Nat
  <2>1. Len(chunk \o t) = Len(chunk) + Len(t)
    BY ConcatProperties
  <2> QED BY <1>3, <2>1, LenProperties
<1>8. n <= Len(Pending)
  BY <1>7
<1>9. Stream!Write(n)
  BY <1>6 DEF Stream!Write, Pending, Closed
<1>10. Stream!StreamNext
  BY <1>8, <1>9 DEF Stream!StreamNext, Pending
<1> QED BY <1>3, <1>5, <1>10

(* A close that returns: only the init line may be on its way.             *)
LEMMA StreamClose ==
    ASSUME FlushInv, \A i \in DOMAIN Pending : Pending[i].line = 0,
           Pending' = Pending, output' = output, Closed' = TRUE
    PROVE  Stream!StreamNext
<1>1. Stream!Close
  BY DEF Stream!Close, Pending, Closed
<1> QED BY <1>1 DEF Stream!StreamNext

(* What is on its way once no line is begun or put in the queue.           *)
LEMMA WayKept ==
    ASSUME writer' = writer, queue' = queue
    PROVE  Pending' = Pending
BY DEF Pending

(* The lines of what is left to write.                                     *)
LEMMA LeftLines ==
    ASSUME NEW w \in WriterState, NEW i \in DOMAIN Left(w)
    PROVE  w.rest > 0 /\ Left(w)[i].line = w.line
<1>1. w.rest \in Nat /\ DOMAIN Left(w) = 1..w.rest
  BY FlushAssumption DEF WriterState, Left
<1>2. i \in 1..w.rest
  BY <1>1
<1> QED BY <1>1, <1>2 DEF Left

(* OnBlockchainInit is the first to hand a line over.                      *)
LEMMA RefineInit ==
    ASSUME ConfigHasChain = FALSE, FlushInv, WriterInv, CloseInv, LastInv, OnBlockchainInit
    PROVE  Stream!StreamNext /\ LastInv'
<1>1. /\ node = "idle" /\ initSent = FALSE /\ initSent' = TRUE /\ node' = "init"
      /\ writer' = [writer EXCEPT !["node"] = Line(0)]
      /\ UNCHANGED <<chainKnown, blocks, queue, closer, output>>
  BY StreamTypes DEF OnBlockchainInit, Queues
<1>2. /\ chainKnown = FALSE /\ queue = <<>> /\ blocks = 0
      /\ ~(writer["node"].rest > 0) /\ ~(writer["worker"].rest > 0)
  BY <1>1, StreamTypes DEF WriterInv, CloseInv, Writing
<1>3. Pending = <<>>
  BY <1>2, StreamTypes, WayEmpty
<1>4. 0 \in 0..MaxBlocks
  BY FlushAssumption
<1>5. /\ writer \in [{"node", "worker"} -> WriterState]
      /\ writer'["node"] = Line(0) /\ writer'["worker"] = writer["worker"]
  <2>1. writer \in [{"node", "worker"} -> WriterState]
    BY DEF FlushInv, TypeOK, WriterState
  <2> QED BY <1>1, <2>1
<1>6. Pending' = OnTheWay(writer'["node"], writer'["worker"], queue')
  BY DEF Pending, OnTheWay, Queued
<1>7. Pending' = Pending \o LineBytes(0)
  BY <1>1, <1>2, <1>3, <1>4, <1>5, <1>6, StreamTypes, WayNodeLine
<1>8. Handed = 0 /\ Handed' = 1 /\ 0 + 1 = 1
  BY <1>1, <1>2 DEF Handed
<1>9. Closed' = Closed
  BY <1>1 DEF Closed
<1>10. LastLine(output \o Pending, 0)
  BY <1>8 DEF LastInv
<1>11. Stream!StreamNext /\ LastLine(output \o Pending, 0 + 1)'
  BY <1>1, <1>4, <1>7, <1>9, <1>10, StreamHand
<1>12. LastInv'
  BY <1>8, <1>11 DEF LastInv, LastLine
<1> QED BY <1>11, <1>12

(* OnBlockEnd hands the block over itself, or will push it.                *)
LEMMA RefineEnd ==
    ASSUME FlushInv, WriterInv, CloseInv, LastInv, OnBlockEnd
    PROVE  (Stream!StreamNext \/ UNCHANGED Stream!streamVars) /\ LastInv'
<1>1. /\ node = "idle" /\ chainKnown = TRUE /\ blocks' = blocks + 1 /\ blocks + 1 \in 0..MaxBlocks
      /\ UNCHANGED <<initSent, queue, closer, output>>
      /\ \/ bufferSize > 0 /\ node' = "pushing" /\ writer' = writer
         \/ bufferSize = 0 /\ node' = "printing"
            /\ writer' = [writer EXCEPT !["node"] = Line(blocks + 1)]
  BY StreamTypes, FlushAssumption DEF OnBlockEnd, Concurrent, Queues
<1>2. initSent = TRUE
  BY <1>1 DEF WriterInv
<1>3. Closed' = Closed
  BY <1>1 DEF Closed
<1>4. Handed = blocks + 1
  BY <1>1, <1>2 DEF Handed
<1>5. CASE bufferSize > 0
  <2>1. writer' = writer /\ node' = "pushing"
    BY <1>1, <1>5
  <2>2. Pending' = Pending
    BY <1>1, <2>1, WayKept
  <2>3. Handed' = Handed
    BY <1>1, <1>2, <1>4, <2>1 DEF Handed
  <2> QED BY <1>1, <1>3, <2>2, <2>3, StreamQuiet DEF LastInv, LastLine
<1>6. CASE bufferSize = 0
  <2>1. node' = "printing" /\ writer' = [writer EXCEPT !["node"] = Line(blocks + 1)]
    BY <1>1, <1>6
  <2>2. /\ ~(writer["node"].rest > 0) /\ ~(writer["worker"].rest > 0) /\ queue = <<>>
    BY <1>1, <1>6 DEF WriterInv, Writing
  <2>3. PICK l \in 0..MaxBlocks : l = blocks + 1
    BY <1>1
  <2>4. /\ writer'["node"] = Line(l) /\ writer'["worker"] = writer["worker"]
    <3>1. writer \in [{"node", "worker"} -> WriterState]
      BY DEF FlushInv, TypeOK, WriterState
    <3> QED BY <2>1, <2>3, <3>1
  <2>5. Pending' = OnTheWay(writer'["node"], writer'["worker"], queue')
    BY DEF Pending, OnTheWay, Queued
  <2>6. Pending = <<>>
    BY <2>2, StreamTypes, WayEmpty
  <2>7. Pending' = Pending \o LineBytes(l)
    BY <1>1, <2>2, <2>4, <2>5, <2>6, StreamTypes, WayNodeLine
  <2>8. ~Closed
    <3>1. ~(bufferSize > 0)
      BY <1>6
    <3> QED BY <3>1 DEF Closed, CloseInv
  <2>9. LastLine(output \o Pending, l)
    BY <1>4, <2>3 DEF LastInv
  <2>10. Stream!StreamNext /\ LastLine(output \o Pending, l + 1)'
    BY <1>1, <1>3, <2>7, <2>8, <2>9, StreamHand
  <2>11. Handed' = l + 1
    BY <1>1, <1>2, <2>1, <2>3 DEF Handed
  <2>12. LastInv'
    BY <2>10, <2>11 DEF LastInv, LastLine
  <2> QED BY <2>10, <2>12
<1> QED BY <1>1, <1>5, <1>6

(* A push hands its block over, unless the queue is closed.                *)
LEMMA RefinePush ==
    ASSUME FlushInv, WriterInv, CloseInv, LastInv, Push
    PROVE  (Stream!StreamNext \/ UNCHANGED Stream!streamVars) /\ LastInv'
<1>1. /\ node = "pushing" /\ UNCHANGED <<initSent, blocks, writer, closer, output>>
      /\ \/ queueClosed = TRUE /\ node' = node /\ queue' = queue
         \/ queueClosed = FALSE /\ node' = "idle" /\ queue' = Append(queue, blocks)
  BY DEF Push, FlushInv, TypeOK
<1>2. initSent = TRUE /\ Handed = blocks
  BY <1>1, StreamTypes DEF WriterInv, Handed
<1>3. Closed' = Closed
  BY <1>1 DEF Closed
<1>4. CASE queueClosed = TRUE
  <2>1. node' = node /\ queue' = queue
    BY <1>1, <1>4
  <2>2. Pending' = Pending
    BY <1>1, <2>1, WayKept
  <2>3. Handed' = Handed
    BY <1>1, <2>1 DEF Handed
  <2> QED BY <1>1, <1>3, <2>2, <2>3, StreamQuiet DEF LastInv, LastLine
<1>5. CASE queueClosed = FALSE
  <2>1. node' = "idle" /\ queue' = Append(queue, blocks)
    BY <1>1, <1>5
  <2>2. PICK l \in 1..MaxBlocks : l = blocks
    <3>1. blocks \in 0..MaxBlocks /\ blocks >= 1
      BY <1>1 DEF FlushInv, TypeOK
    <3> QED BY <3>1, FlushAssumption
  <2>3. Pending' = OnTheWay(writer'["node"], writer'["worker"], queue')
    BY DEF Pending, OnTheWay, Queued
  <2>4. OnTheWay(writer["node"], writer["worker"], Append(queue, l))
            = OnTheWay(writer["node"], writer["worker"], queue) \o LineBytes(l)
    BY StreamTypes, WayPush
  <2>5. Pending' = Pending \o LineBytes(l)
    BY <1>1, <2>1, <2>2, <2>3, <2>4, StreamTypes
  <2>6. ~Closed
    BY <1>5 DEF Closed, CloseInv
  <2>7. l \in 0..MaxBlocks /\ LastLine(output \o Pending, l)
    BY <1>2, <2>2, FlushAssumption DEF LastInv
  <2>8. Stream!StreamNext /\ LastLine(output \o Pending, l + 1)'
    BY <1>1, <1>3, <2>5, <2>6, <2>7, StreamHand
  <2>9. Handed' = l + 1
    BY <1>1, <1>2, <2>1, <2>2 DEF Handed
  <2>10. LastInv'
    BY <2>8, <2>9 DEF LastInv, LastLine
  <2> QED BY <2>8, <2>10
<1> QED BY <1>1, <1>4, <1>5

(* The worker takes a block from the queue: it stays on its way.           *)
LEMMA RefineReceive ==
    ASSUME FlushInv, LastInv, Receive
    PROVE  UNCHANGED Stream!streamVars /\ LastInv'
<1>1. /\ queue # <<>> /\ ~(writer["worker"].rest > 0) /\ queue' = Tail(queue)
      /\ UNCHANGED <<initSent, blocks, node, closer, output>>
      /\ writer'["node"] = writer["node"] /\ writer'["worker"] = Line(Head(queue))
  <2>1. writer \in [{"node", "worker"} -> WriterState]
    BY DEF FlushInv, TypeOK, WriterState
  <2> QED BY <2>1 DEF Receive, Writing
<1>2. Pending' = OnTheWay(writer'["node"], writer'["worker"], queue')
  BY DEF Pending, OnTheWay, Queued
<1>3. OnTheWay(writer["node"], Line(Head(queue)), Tail(queue))
          = OnTheWay(writer["node"], writer["worker"], queue)
  BY <1>1, StreamTypes, WayReceive
<1>4. Pending' = Pending
  BY <1>1, <1>2, <1>3, StreamTypes
<1>5. Handed' = Handed /\ Closed' = Closed
  BY <1>1 DEF Handed, Closed
<1> QED BY <1>1, <1>4, <1>5, StreamQuiet DEF LastInv, LastLine

(* The node's own line is written, the worker leaves, or somebody calls    *)
(* OnClose: nothing moves.                                                 *)
LEMMA RefineQuiet ==
    ASSUME FlushInv, WriterInv, LastInv,
           \/ ChainInitialized \/ Printed \/ LeaveLoop \/ UNCHANGED vars
           \/ \E c \in Closers : OnClose(c)
    PROVE  UNCHANGED Stream!streamVars /\ LastInv'
<1>1. UNCHANGED <<initSent, blocks, writer, queue, output>>
  BY DEF ChainInitialized, Printed, LeaveLoop, OnClose, vars, Queues
<1>2. node' = node \/ (node' = "idle" /\ node \in {"init", "printing"} /\ initSent' = initSent)
  BY DEF ChainInitialized, Printed, LeaveLoop, OnClose, vars, Queues
<1>3. Handed' = Handed
  BY <1>1, <1>2 DEF Handed
<1>4. Closed' = Closed
  <2>1. CASE closer' = closer
    BY <2>1 DEF Closed
  <2>2. ASSUME NEW c \in Closers, OnClose(c)
        PROVE  Closed' = Closed
    <3>1. /\ closer[c] = "outside" /\ closer'[c] \in {"joining", "waiting"}
          /\ \A d \in Closers : d # c => closer'[d] = closer[d]
      <4>1. closer \in [Closers -> {"outside", "joining", "waiting", "returned"}]
        BY DEF FlushInv, TypeOK
      <4> QED BY <2>2, <4>1 DEF OnClose
    <3>2. Closed' <=> Closed
      BY <3>1 DEF Closed
    <3> QED BY <3>2 DEF Closed
  <2>3. closer' = closer \/ \E c \in Closers : OnClose(c)
    BY DEF ChainInitialized, Printed, LeaveLoop, vars, Queues
  <2> QED BY <2>1, <2>2, <2>3
<1>5. Pending' = Pending
  BY <1>1, WayKept
<1> QED BY <1>1, <1>3, <1>4, <1>5, StreamQuiet DEF LastInv, LastLine

(* A close returns.                                                        *)
LEMMA RefineClose ==
    ASSUME FlushInv, WriterInv, CloseInv, LastInv, NEW c \in Closers, CloseReturns(c)
    PROVE  Stream!StreamNext /\ LastInv'
<1>1. /\ closer[c] # "outside" /\ (workerDone = TRUE \/ once = "done")
      /\ UNCHANGED <<initSent, blocks, node, writer, queue, output>>
      /\ closer'[c] = "returned"
  <2>1. closer \in [Closers -> {"outside", "joining", "waiting", "returned"}]
        /\ workerDone \in BOOLEAN
    BY DEF FlushInv, TypeOK
  <2> QED BY <2>1 DEF CloseReturns
<1>2. bufferSize > 0 /\ queue = <<>> /\ ~(writer["worker"].rest > 0)
  BY <1>1 DEF CloseInv, Writing
<1>3. writer["node"].rest > 0 => writer["node"].line = 0
  BY <1>2, StreamTypes DEF WriterInv, CloseInv, Writing
<1>4. Pending' = Pending /\ Closed' = TRUE /\ Handed' = Handed
  BY <1>1, WayKept DEF Closed, Handed
<1>5. Pending = Left(writer["node"])
  <2> DEFINE a == Left(writer["node"])
  <2>1. a \in Seq(Bytes) /\ Left(writer["worker"]) = <<>>
    BY <1>2, StreamTypes, LeftTyped
  <2>2. Pending = (a \o <<>>) \o <<>>
    BY <1>2, <2>1, StreamTypes, QueuedNone DEF OnTheWay
  <2> HIDE DEF a
  <2>3. a \o <<>> = a
    BY <2>1, ConcatEmptySeq
  <2> QED BY <2>2, <2>3 DEF a
<1>6. \A i \in DOMAIN Pending : Pending[i].line = 0
  BY <1>3, <1>5, StreamTypes, LeftLines
<1> QED BY <1>1, <1>4, <1>6, StreamClose DEF LastInv, LastLine

(* A write takes bytes from the front of what is on its way: no other      *)
(* goroutine has a line begun.                                             *)
LEMMA RefineWrite ==
    ASSUME FlushInv, WriterInv, CloseInv, LastInv, FlushInv',
           NEW p \in {"node", "worker"}, NEW n \in 0..LineLength, Write(p, n)
    PROVE  (Stream!StreamNext \/ UNCHANGED Stream!streamVars) /\ LastInv'
<1>1. PICK w \in WriterState : w = writer[p]
  BY StreamTypes
<1> DEFINE chunk == [i \in 1..n |-> [line |-> w.line, byte |-> LineLength - w.rest + i]]
           later == IF n = w.rest THEN Idle
                    ELSE [w EXCEPT !.rest = w.rest - n, !.attempts = w.attempts + 1]
<1>2. /\ w.rest > 0 /\ n <= w.rest /\ output' = output \o chunk
      /\ writer' = [writer EXCEPT ![p] = later]
      /\ UNCHANGED <<initSent, blocks, node, queue, closer>>
  BY <1>1 DEF Write, Writing, Queues
<1>3. writer' \in [{"node", "worker"} -> WriterState] /\ writer \in [{"node", "worker"} -> WriterState]
  BY DEF FlushInv, TypeOK, WriterState
<1>4. chunk \in Seq(Bytes) /\ Len(chunk) = n /\ Left(w) = chunk \o Left(later)
  BY <1>2, LeftTake
<1>5. writer'[p] = later /\ later \in WriterState
  BY <1>2, <1>3
<1> HIDE DEF chunk, later
<1>12. PICK c \in Seq(Bytes) : c = chunk
  BY <1>4
<1>13. PICK z \in WriterState : z = later
  BY <1>5
<1>14. Left(w) = c \o Left(z)
  BY <1>4, <1>12, <1>13
<1>6. Pending' = OnTheWay(writer'["node"], writer'["worker"], queue')
  BY DEF Pending, OnTheWay, Queued
<1>7. PICK q \in Seq(1..MaxBlocks) : q = queue
  BY StreamTypes
<1>8. Pending = chunk \o Pending'
  <2>1. PICK a \in Seq(Bytes), b \in Seq(Bytes) : a = Left(z) /\ b = Queued(q)
    BY LeftTyped, QueuedTyped
  <2>2. PICK x \in WriterState : x = writer[IF p = "node" THEN "worker" ELSE "node"]
    BY StreamTypes
  <2>3. ~(x.rest > 0)
    BY <1>1, <1>2, <2>2, StreamTypes DEF WriterInv, Writing
  <2>4. writer'[IF p = "node" THEN "worker" ELSE "node"] = x
    BY <1>2, <1>3, <2>2
  <2>5. OnTheWay(w, x, q) = Left(w) \o b /\ OnTheWay(x, w, q) = Left(w) \o b
    BY <2>1, <2>3, WayAlone
  <2>6. OnTheWay(z, x, q) = a \o b /\ OnTheWay(x, z, q) = a \o b
    BY <2>1, <2>3, WayAlone
  <2>7. Left(w) \o b = c \o (a \o b)
    <3>1. (c \o a) \o b = c \o (a \o b)
      BY BytesGroup
    <3> QED BY <1>14, <2>1, <3>1
  <2>8. Pending = Left(w) \o b
    BY <1>1, <1>7, <2>2, <2>5, StreamTypes
  <2>9. Pending' = a \o b
    BY <1>2, <1>5, <1>6, <1>7, <1>13, <2>4, <2>6
  <2> QED BY <1>12, <2>7, <2>8, <2>9
<1>9. Closed' = Closed /\ Handed' = Handed
  BY <1>2 DEF Closed, Handed
<1>10. CASE n = 0
  <2>1. chunk = <<>>
    BY <1>4, <1>10, EmptySeq
  <2>2. output \o <<>> = output /\ <<>> \o Pending' = Pending'
    BY StreamTypes, PendingNext, ConcatEmptySeq
  <2>3. output' = output /\ Pending' = Pending
    BY <1>2, <1>8, <2>1, <2>2
  <2> QED BY <1>9, <2>3, StreamQuiet DEF LastInv, LastLine
<1>11. CASE n # 0
  <2>1. n \in 1..LineLength
    BY <1>11, FlushAssumption
  <2>2. Stream!StreamNext /\ (output \o Pending)' = output \o Pending
    BY <1>2, <1>4, <1>8, <1>9, <2>1, StreamWrite
  <2> QED BY <1>9, <2>2 DEF LastInv, LastLine
<1> QED BY <1>10, <1>11

(* The stream begins empty.                                                *)
LEMMA RefineStart ==
    ASSUME Init
    PROVE  Stream!StreamInit /\ LastInv
<1>1. FlushInv
  BY FlushStart
<1>2. output = <<>> /\ queue = <<>> /\ initSent = FALSE /\ writer["node"] = Idle
      /\ writer["worker"] = Idle /\ \A c \in Closers : closer[c] = "outside"
  BY DEF Init
<1>3. ~(Idle.rest > 0)
  BY DEF Idle
<1>4. Pending = <<>>
  BY <1>1, <1>2, <1>3, StreamTypes, WayEmpty
<1>5. Closed = FALSE
  BY <1>2 DEF Closed
<1>6. Handed = 0
  BY <1>2 DEF Handed
<1>7. output \o Pending = <<>>
  <2>1. <<>> \in Seq(Bytes)
    OBVIOUS
  <2>2. <<>> \o <<>> = <<>>
    BY <2>1, ConcatEmptySeq
  <2> QED BY <1>2, <1>4, <2>2
<1>8. LastInv
  BY <1>6, <1>7 DEF LastInv, LastLine
<1>9. Stream!StreamInit
  BY <1>2, <1>4, <1>5 DEF Stream!StreamInit, Pending, Closed
<1> QED BY <1>8, <1>9

(* Each step of the goroutines is one of BlockStream or moves nothing.     *)
LEMMA RefineStep ==
    ASSUME ConfigHasChain = FALSE, FlushInv, WriterInv, CloseInv, LastInv, FlushInv', [Next]_vars
    PROVE  [Stream!StreamNext]_(Stream!streamVars) /\ LastInv'
<1>1. CASE OnBlockchainInit
  BY <1>1, RefineInit
<1>2. CASE OnBlockEnd
  BY <1>2, RefineEnd
<1>3. CASE Push
  BY <1>3, RefinePush
<1>4. CASE Receive
  BY <1>4, RefineReceive
<1>5. CASE \/ ChainInitialized \/ Printed \/ LeaveLoop \/ UNCHANGED vars
           \/ \E c \in Closers : OnClose(c)
  BY <1>5, RefineQuiet
<1>6. ASSUME NEW c \in Closers, CloseReturns(c)
      PROVE  [Stream!StreamNext]_(Stream!streamVars) /\ LastInv'
  BY <1>6, RefineClose
<1>7. ASSUME NEW p \in {"node", "worker"}, NEW n \in 0..LineLength, Write(p, n)
      PROVE  [Stream!StreamNext]_(Stream!streamVars) /\ LastInv'
  BY <1>7, RefineWrite
<1> QED BY <1>1, <1>2, <1>3, <1>4, <1>5, <1>6, <1>7 DEF Next, Node, Worker, Flush

(* Whatever is queued and however short the writes, the reader of the      *)
(* stream sees the init line and then every block, whole and in order, and *)
(* a close that returns leaves no block unwritten, if the first line is    *)
(* the one of OnBlockchainInit.                                            *)
THEOREM FlushStream ==
    ASSUME ConfigHasChain = FALSE
    PROVE  Spec => ImplementsStream
<1>1. Init => WriterInv /\ CloseInv /\ LastInv /\ Stream!StreamInit
  BY WriterStart, CloseStart, RefineStart
<1>2. FlushInv /\ WriterInv /\ CloseInv /\ LastInv /\ FlushInv' /\ [Next]_vars
          => WriterInv' /\ CloseInv' /\ LastInv' /\ [Stream!StreamNext]_(Stream!streamVars)
  BY WriterStep, CloseStep, RefineStep
<1> QED BY <1>1, <1>2, FlushInvariant, PTL DEF Spec, ImplementsStream, Stream!StreamSpec
=============================================================================
