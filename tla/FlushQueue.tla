----------------------------- MODULE FlushQueue -----------------------------
(***************************************************************************)
(* How completed blocks reach the output stream: the goroutine of the node *)
(* hands each block to writeBlock, or with concurrent flushing to a        *)
(* bounded channel that a single worker drains into writeBlock, while      *)
(* goroutines that shut the node down call OnClose (concurrency.go,        *)
(* tracer_printer.go, the ends of OnBlockEnd and OnBlockchainInit).  The   *)
(* writer may write short.  A block is its number, a line LineLength bytes.*)
(***************************************************************************)
EXTENDS Naturals, Sequences, FiniteSets

CONSTANTS Closers,            \* goroutines that call OnClose
          BufferSizes,        \* Config.ConcurrentBufferSize, 0 also where flushing is not concurrent
          ConfigHasChain,     \* Config.ChainConfig is set
          MaxWriteAttempts,   \* maxWriteAttempts, 10 in the code
          LineLength,         \* bound: writes a line can take
          MaxBlocks           \* bound: blocks the node processes

ASSUME FlushAssumption ==
    /\ BufferSizes \subseteq Nat /\ ConfigHasChain \in BOOLEAN
    /\ MaxWriteAttempts \in Nat \ {0} /\ LineLength \in Nat \ {0} /\ MaxBlocks \in Nat

VARIABLES bufferSize,  \* chosen by the configuration, then constant
          initSent,    \* OnBlockchainInit was called
          chainKnown,  \* chainConfig is not nil
          blocks,      \* blocks ended so far
          node,        \* where the node's goroutine is
          queue,       \* jobQueue
          queueClosed,
          workerDone,  \* the worker has left its loop
          closer,      \* where the goroutines that close are
          once,        \* closeOnce
          writer,      \* what flushToFirehose has left to write, for node and worker
          output,
          panicked

vars == <<bufferSize, initSent, chainKnown, blocks, node, queue, queueClosed, workerDone,
          closer, once, writer, output, panicked>>
-----------------------------------------------------------------------------
Concurrent == bufferSize > 0

Idle == [line |-> 0, rest |-> 0, attempts |-> 0]

Line(n) == [line |-> n, rest |-> LineLength, attempts |-> 0]

Writing(p) == writer[p].rest > 0

Init ==
    /\ bufferSize \in BufferSizes
    /\ initSent = FALSE /\ chainKnown = ConfigHasChain
    /\ blocks = 0 /\ node = "idle"
    /\ queue = <<>> /\ queueClosed = FALSE /\ workerDone = FALSE
    /\ closer = [c \in Closers |-> "outside"] /\ once = "free"
    /\ writer = [p \in {"node", "worker"} |-> Idle]
    /\ output = <<>>
    /\ panicked = FALSE
-----------------------------------------------------------------------------
(* The goroutine of the node                                               *)

Queues == <<queue, queueClosed, workerDone, closer, once>>

(* Prints the init line itself, not through the queue.                     *)
OnBlockchainInit ==
    /\ ~panicked /\ node = "idle" /\ ~initSent
    /\ initSent' = TRUE
    /\ node' = "init"
    /\ writer' = [writer EXCEPT !["node"] = Line(0)]
    /\ UNCHANGED <<bufferSize, chainKnown, blocks, output, panicked, Queues>>

ChainInitialized ==
    /\ ~panicked /\ node = "init" /\ ~Writing("node")
    /\ chainKnown' = TRUE /\ node' = "idle"
    /\ UNCHANGED <<bufferSize, initSent, blocks, writer, output, panicked, Queues>>

(* Mutant of OnBlockEnd: prints the block itself when the queue is full.   *)
OnBlockEndPrintsWhenFull ==
    /\ ~panicked /\ node = "idle" /\ chainKnown /\ blocks < MaxBlocks
    /\ blocks' = blocks + 1
    /\ IF Concurrent /\ Len(queue) < bufferSize
       THEN node' = "pushing" /\ UNCHANGED writer
       ELSE node' = "printing" /\ writer' = [writer EXCEPT !["node"] = Line(blocks + 1)]
    /\ UNCHANGED <<bufferSize, initSent, chainKnown, output, panicked, Queues>>

(* OnBlockEnd of a block that OnBlockStart let in (ensureBlockChainInit).  *)
OnBlockEnd ==
    /\ ~panicked /\ node = "idle" /\ chainKnown /\ blocks < MaxBlocks
    /\ blocks' = blocks + 1
    /\ IF Concurrent
       THEN node' = "pushing" /\ UNCHANGED writer
       ELSE node' = "printing" /\ writer' = [writer EXCEPT !["node"] = Line(blocks + 1)]
    /\ UNCHANGED <<bufferSize, initSent, chainKnown, output, panicked, Queues>>

(* Mutant of Push: the queue takes one more than it holds.                 *)
PushOneMore ==
    /\ ~panicked /\ node = "pushing"
    /\ IF queueClosed THEN panicked' = TRUE /\ UNCHANGED <<node, queue>>
       ELSE /\ Len(queue) <= bufferSize
            /\ queue' = Append(queue, blocks)
            /\ node' = "idle"
            /\ UNCHANGED panicked
    /\ UNCHANGED <<bufferSize, initSent, chainKnown, blocks, queueClosed, workerDone, closer, once,
                   writer, output>>

(* A send waits for room; a send on a closed channel panics, also one that *)
(* was waiting.                                                            *)
Push ==
    /\ ~panicked /\ node = "pushing"
    /\ IF queueClosed THEN panicked' = TRUE /\ UNCHANGED <<node, queue>>
       ELSE /\ Len(queue) < bufferSize
            /\ queue' = Append(queue, blocks)
            /\ node' = "idle"
            /\ UNCHANGED panicked
    /\ UNCHANGED <<bufferSize, initSent, chainKnown, blocks, queueClosed, workerDone, closer, once,
                   writer, output>>

Printed ==
    /\ ~panicked /\ node = "printing" /\ ~Writing("node")
    /\ node' = "idle"
    /\ UNCHANGED <<bufferSize, initSent, chainKnown, blocks, writer, output, panicked, Queues>>
-----------------------------------------------------------------------------
(* The worker                                                              *)

Receive ==
    /\ ~panicked /\ Concurrent /\ ~Writing("worker") /\ queue # <<>>
    /\ writer' = [writer EXCEPT !["worker"] = Line(Head(queue))]
    /\ queue' = Tail(queue)
    /\ UNCHANGED <<bufferSize, initSent, chainKnown, blocks, node, queueClosed, workerDone, closer, once,
                   output, panicked>>

(* Mutant of LeaveLoop: leaves as soon as the queue is closed.             *)
LeaveLoopAtClose ==
    /\ ~panicked /\ ~workerDone /\ ~Writing("worker") /\ queueClosed
    /\ workerDone' = TRUE
    /\ queue' = <<>>
    /\ UNCHANGED <<bufferSize, initSent, chainKnown, blocks, node, queueClosed, closer, once,
                   writer, output, panicked>>

LeaveLoop ==
    /\ ~panicked /\ ~workerDone /\ ~Writing("worker") /\ queue = <<>> /\ queueClosed
    /\ workerDone' = TRUE
    /\ UNCHANGED <<bufferSize, initSent, chainKnown, blocks, node, queue, queueClosed, closer, once,
                   writer, output, panicked>>
-----------------------------------------------------------------------------
(* Mutant of Write: starts the line over after a short write.              *)
WriteAllOver(p, n) ==
    LET w == writer[p]
    IN  /\ ~panicked /\ Writing(p) /\ n <= w.rest
        /\ output' = output \o [i \in 1..n |->
                        [line |-> w.line, byte |-> LineLength - w.rest + i]]
        /\ writer' = [writer EXCEPT ![p] =
                        IF n = w.rest THEN Idle ELSE [w EXCEPT !.attempts = w.attempts + 1]]
        /\ panicked' = (n < w.rest /\ w.attempts + 1 = MaxWriteAttempts)
        /\ UNCHANGED <<bufferSize, initSent, chainKnown, blocks, node, Queues>>

(* One Write of flushToFirehose: up to all bytes; what is left after       *)
(* MaxWriteAttempts of them is a panic, in whichever goroutine it runs.    *)
Write(p, n) ==
    LET w == writer[p]
    IN  /\ ~panicked /\ Writing(p) /\ n <= w.rest
        /\ output' = output \o [i \in 1..n |->
                        [line |-> w.line, byte |-> LineLength - w.rest + i]]
        /\ writer' = [writer EXCEPT ![p] =
                        IF n = w.rest THEN Idle ELSE [w EXCEPT !.rest = w.rest - n, !.attempts = w.attempts + 1]]
        /\ panicked' = (n < w.rest /\ w.attempts + 1 = MaxWriteAttempts)
        /\ UNCHANGED <<bufferSize, initSent, chainKnown, blocks, node, Queues>>
-----------------------------------------------------------------------------
(* OnClose, which any goroutine may call; without a queue it does nothing. *)

(* Mutant of OnClose: waits for the worker without closing the queue.      *)
OnCloseLeavesOpen(c) ==
    /\ ~panicked /\ Concurrent /\ closer[c] = "outside"
    /\ IF once = "free"
       THEN /\ once' = "running"
            /\ closer' = [closer EXCEPT ![c] = "joining"]
       ELSE closer' = [closer EXCEPT ![c] = "waiting"] /\ UNCHANGED once
    /\ UNCHANGED <<bufferSize, initSent, chainKnown, blocks, node, queue, queueClosed, workerDone,
                   writer, output, panicked>>

OnClose(c) ==
    /\ ~panicked /\ Concurrent /\ closer[c] = "outside"
    /\ IF once = "free"
       THEN /\ queueClosed' = TRUE /\ once' = "running"
            /\ closer' = [closer EXCEPT ![c] = "joining"]
       ELSE closer' = [closer EXCEPT ![c] = "waiting"] /\ UNCHANGED <<queueClosed, once>>
    /\ UNCHANGED <<bufferSize, initSent, chainKnown, blocks, node, queue, workerDone, writer, output, panicked>>

CloseReturns(c) ==
    /\ ~panicked
    /\ \/ closer[c] = "joining" /\ workerDone /\ once' = "done"
       \/ closer[c] = "waiting" /\ once = "done" /\ UNCHANGED once
    /\ closer' = [closer EXCEPT ![c] = "returned"]
    /\ UNCHANGED <<bufferSize, initSent, chainKnown, blocks, node, queue, queueClosed, workerDone,
                   writer, output, panicked>>
-----------------------------------------------------------------------------
Node == OnBlockchainInit \/ ChainInitialized \/ OnBlockEnd \/ Push \/ Printed

Worker == Receive \/ LeaveLoop

Flush(p) == \E n \in 0..LineLength : Write(p, n)

Next ==
    \/ Node \/ Worker
    \/ \E p \in {"node", "worker"} : Flush(p)
    \/ \E c \in Closers : OnClose(c) \/ CloseReturns(c)

Spec == Init /\ [][Next]_vars

(* Goroutines that can run do; nothing makes the node end another block or *)
(* anybody close.                                                          *)
Fairness ==
    /\ WF_vars(ChainInitialized \/ Push \/ Printed) /\ WF_vars(Worker)
    /\ \A p \in {"node", "worker"} : WF_vars(Flush(p))
    /\ \A c \in Closers : WF_vars(CloseReturns(c))

FairSpec == Spec /\ Fairness
-----------------------------------------------------------------------------
TypeOK ==
    /\ bufferSize \in BufferSizes
    /\ initSent \in BOOLEAN /\ chainKnown \in BOOLEAN
    /\ blocks \in 0..MaxBlocks
    /\ node \in {"idle", "init", "pushing", "printing"}
    /\ queue \in Seq(1..MaxBlocks) /\ Len(queue) <= bufferSize
    /\ queueClosed \in BOOLEAN /\ workerDone \in BOOLEAN
    /\ closer \in [Closers -> {"outside", "joining", "waiting", "returned"}]
    /\ once \in {"free", "running", "done"}
    /\ writer \in [{"node", "worker"} ->
                     [line : 0..MaxBlocks, rest : 0..LineLength, attempts : 0..MaxWriteAttempts]]
    /\ output \in Seq([line : 0..MaxBlocks, byte : 1..LineLength])
    /\ panicked \in BOOLEAN

(* writeBlock's comment: it must not be called concurrently.  Two writers  *)
(* at once would share its buffers and mix their lines.                    *)
OneWriter == ~(Writing("node") /\ Writing("worker"))

Left(w) == [i \in 1..w.rest |-> [line |-> w.line, byte |-> LineLength - w.rest + i]]

Stream == INSTANCE BlockStream WITH
    Lines <- 0..MaxBlocks,
    pending <- LET queued == [i \in 1..(Len(queue) * LineLength) |->
                                [line |-> queue[((i - 1) \div LineLength) + 1],
                                 byte |-> ((i - 1) % LineLength) + 1]]
               IN  Left(writer["node"]) \o Left(writer["worker"]) \o queued,
    closed <- \E c \in Closers : closer[c] = "returned"

(* The reader of the stream sees the init line and then every block, whole *)
(* and in order, whether blocks are queued or not and however short the    *)
(* writes, and a close that returns leaves nothing unwritten.              *)
ImplementsStream == Stream!StreamSpec

(* A block handed over is written to its last byte and a close that was    *)
(* called returns, unless the process stops in a panic.                    *)
Written(n) == \E i \in DOMAIN output : output[i] = [line |-> n, byte |-> LineLength]

EverythingIsWritten == \A n \in 1..MaxBlocks : blocks >= n ~> Written(n) \/ panicked

ClosesReturn == \A c \in Closers : closer[c] # "outside" ~> closer[c] = "returned" \/ panicked
=============================================================================
