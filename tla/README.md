# TLA+ models of the EVM Firehose tracer

This directory models `evm-firehose-tracer-go`: a library whose *hooks* an EVM
client (the node) calls while it executes a block, and which builds from those
calls one protobuf block with every transaction, call, state change and log,
each under an *ordinal* that gives its place in the block. The models are
written from the Go code (`src/*.go`), checked with TLC, and partly proved with
TLAPS.

## 1. Inventory

| Component | Code | State | Operations |
|---|---|---|---|
| Tracer hooks | `tracer.go` | the block, the ordinal counter, the transaction in progress, the transaction a system call interrupts | `OnBlockStart/End`, `OnSkippedBlock`, `OnTxStart/End`, `OnSystemCallStart/End`, `OnCallEnter/Exit`, `On*Change`, `OnLog`, `OnOpcode`, `OnOpcodeFault`, `OnKeccakPreimage` |
| Call stack | `callstack.go` | open calls, last number, depth | `Push` (numbers, links, nests), `Pop`, `Peek`, `Reset` |
| Deferred call state | `deferred_call_state.go` | changes and logs made while no call is open | `Add*`, `MaybePopulateCallAndReset("enter" / "root")` |
| Transaction completion | `tracer.go:1129-1334` | none: passes over the finished calls | sort by number, attach preimages, revert status, log indexes, receipt logs |
| Parallel execution | `tracer.go:845-1127`, `1926-1948`, `2090-2120` | isolated tracers with local ordinals, the commit mutex, the coordinator's block | `OnTxSpawn`, `OnTxReset`, `OnTxCommit` |
| Flushing | `concurrency.go`, `tracer_printer.go:46-83` | a bounded channel, its worker, `closeOnce`, one writer | `Push`, worker, `Close`, `flushToFirehose` |
| Flash blocks | `tracer.go:412-459`, `528-590` | the last snapshot: a block, four lengths, an ordinal, an index | take, restore, refuse, discard |
| Block output | `tracer_printer.go:146-178`, `finality.go` | the finality status | last irreversible block, printed flash block index |
| Keccak filter | `keccak_filter.go` | the preimages of a transaction | which recorded hash explains which storage slot, over several levels |
| SetCode authorizations | `tracer.go:1336-1388`, `setcode.go` | none | which EIP-7702 authorizations took effect |
| Genesis | `OnGenesisBlock` | none of its own | replays the allocation through the hooks |
| Configuration, finality, types, debug logging | `config.go`, `finality.go`, `types*.go`, `tracer_debug.go` | constants, data | fork rules, formatting |

**Interactions.** The node calls the hooks of one tracer from one goroutine. A
hook attaches what it is told to the call on top of the call stack or, when no
call is open, to the deferred state, which the next root call takes over at its
enter, or the first call of the transaction at its end. A system call may start
inside a transaction at any depth: it sets the whole transaction state aside in
`interruptedTransaction` and its end brings it back. In parallel execution the
coordinator spawns one isolated tracer per transaction; each runs in its own
goroutine under local ordinals, and `OnTxCommit` rebases those onto the
coordinator's counter under a mutex. A finished block goes to `writeBlock`,
directly or through the flush queue.

**What is hard.**

* *Protocol sequences*: nested calls, several root calls, interruptions,
  self-destructions (whose enter and exit hooks are no call), transactions
  dropped for want of a receipt, failing blocks. Every one of them must leave
  the bookkeeping (numbers, parents, log indexes, deferred lists) consistent.
* *Ordering*: calls finish in exit order but are published in entry order;
  deferred changes are put before or behind others; receipt logs are matched by
  position.
* *Concurrency*: the commit checks before it locks; isolated tracers share the
  block; the node, the flush worker and closing goroutines share a channel.
* *Failure and retry*: retried executions, short writes, panics, failed iterations.
* *Stale state*: a flash block starts from prefixes of the lists of a block that
  went on growing and was emitted since.
* *Inference*: which preimages explain a slot, and which authorizations were applied,
  is worked out afterwards from what the hooks happened to record.

**What makes it correct**, component by component:

* call stack: open calls are one branch of the tree; numbers are dense and given
  in entry order; parent and depth are those the ordinals draw;
* deferred state: nothing lost, repeated or out of order;
* completion: exactly the right calls are reverted; each receipt log carries the
  ordinal and index of its own call log;
* hooks as a whole: every hook records exactly one fact, once, under the next
  ordinal, in the name of the frame that caused it;
* parallel execution: a commit is atomic, and appends the execution asked for
  on ordinals of its own; a retry starts clean;
* flushing: one writer; whole lines in order; everything handed over is written
  and every close returns;
* flash blocks: an iteration starts from exactly what was there at the snapshot, and
  its ordinals have no gap and no overlap;
* block output: the last irreversible block stays in its window and does not move
  back; the printed index tells as much of the kind of block as its encoding can;
* keccak filter: each call gets the preimages it computed that explain a slot, and
  no others; the search ends;
* SetCode authorizations: for each one applied one is kept, and none without a cause.

## 2. Modules

```
CallTrace ── Tracer ─┬─ TracedBlock ── MCTracedBlock      BlockJournal   (refined by TracedBlock)
                     └─ HookOrder ──── MCHookOrder
             ParallelCommit ── MCParallelCommit           AtomicCommit   (refined by ParallelCommit)
             FlushQueue                                   BlockStream    (refined by FlushQueue)
             FlashBlocks ──── MCFlashBlocks               FlashSequence  (refined by FlashBlocks)
             KeccakFilter ─┬─ MCCompletion
             SetCodeAuth ──┘

TracerProofs ─┬─ HookOrderProofs
              └─ TracedBlockProofs ── BlockTraceProofs
ParallelCommitProofs      FlushQueueProofs      FlashBlocksProofs      KeccakFilterProofs
```

**CallTrace** holds operators on values only. A call is a record with its number,
parent, depth, begin and end ordinals, outcome and five lists (`balance`,
`nonce`, `code`, `storage`, `log`); addresses, balances, topics and gas are
abstracted to one payload saying *who* emitted the record, because that is what
the properties tell apart. `Push`/`Pop`/`Peek` are `callstack.go`; `Populate*`
are the two branches of `MaybePopulateCallAndReset`; `SortedByIndex`,
`AttachPreimages`, `StateReverted`, `RemoveLogBlockIndex`, `SurvivingLogs`,
`LogsMatch` and `AssignToReceiptLogs` are the passes of `completeTransaction`, in
its order. Gas and account-creation lists behave like the balance list and are not
kept apart.

**Tracer** has one action per hook. `cur` is everything `resetTransaction`
clears; `interrupted` is the transaction a system call set aside. Each hook's
`ensure*` checks are its condition in `Ensured(check, step)`: if they fail, the
hook panics and nothing runs afterwards. What a hook had changed before
it panicked is not kept, since a panic is the end. A call of unspecified type panics
too (`OnCallEnterUnspecified`). Two groups of conditions are not steps of this module: the
`chainConfig == nil` checks, which depend on the configuration alone and are in **FlushQueue**;
and the early returns of the change hooks for an unknown reason or a change that
changes nothing, which are stuttering steps.

**TracedBlock** adds the client. It is not in the repository and is modelled from
how the hooks are meant to be called: blocks of transactions and system calls
made of call frames, a journal of live logs that a failing frame truncates,
a receipt with what is left of it. What kind of client it is, the initial state
chooses from the constant `Profiles` (the changes it makes in frames, around them and
between transactions, which behaviours it shows, and how much of each); the choice
stays. One run thus explores several clients, each with all its interleavings.
Its refinement `ImplementsJournal` maps the tracer to **BlockJournal**: a clock,
the contexts running, and a set of facts to which each hook adds one. The facts of
a tracer are read from wherever it keeps them (finished transactions, open calls,
the deferred lists, the transaction set aside), so that moving, sorting,
completing or resuming must be stuttering steps.

**HookOrder** drops the client: any hook, any time, any arguments, a call of unspecified
type among them. It shows what survives misuse up to the panic.

**ParallelCommit** models goroutines inside `OnTxCommit` step by step: the check
before the mutex, `Lock` (with reading the counter), `Rebase`, `AppendTrace`,
`SetOrdinal`, `Unlock`. A transaction is the ordinals it used, those of its
changes, logs and receipt logs apart. It refines **AtomicCommit**, where a
commit is one step; the commit takes effect when the counter is set.

**FlushQueue** models the node, the worker and the goroutines that close, with
`closeOnce`, the channel, and writes that may be short. It refines
**BlockStream**: an init line and then the blocks, whole and in order.

**FlashBlocks** models the block as the four lists a snapshot records (transactions,
system calls, balance and code changes made in the block); an item of a list is the
range of ordinals it took and the iteration it was made in. A snapshot is what it is
in the code, a pointer with lengths: while `live`, it points to the block that is
still growing, and after `resetBlock` to that block as it was emitted. Starting a
flash block is the check of the index, the discarding of a snapshot of another
number, the four cuts and the ordinal. Not being in a flash block (a nil index in the
code) is `NoIndex`, which is not the index 0: a node may number its iterations from 0,
and the two can no longer be told apart only once they are printed. The module refines **FlashSequence**, where a block is
one sequence of items and the next iteration starts from a copy of it; the
refinement merges the four lists by ordinal. `OnBlockEnd` also computes what the line
says besides the block: the last irreversible block and the printed index.

**KeccakFilter** models `attachStorageSlotPreimages`: recording with the size limit,
the slots' bases, one action per level of the breadth-first search, and the
attachment to each call. A 32-byte word is a number of two digits and a preimage a
sequence of digits, so that "the last 32 bytes when the length is not a multiple of
32" and "at most 2^64 above a hash" are arithmetic and not abstractions.
`RecordedHashes` is a set, where the code sorts and searches a slice: the largest hash
at or below a key is the same one. `AttachedExplain` compares the result with the
rule in the comment of the function, counted level by level and without bases.
In **CallTrace**, `AttachPreimages` treats the hashes and keys of a transaction as
belonging to one derivation: there the question is *when* preimages are recorded
and *which call* gets them across interruptions.

**SetCodeAuth** models `discardUncommittedSetCodeAuthorizations` with the client that
applies EIP-7702 authorizations (external): it goes through the list in order and
increments the nonce of each authority whose nonce and other conditions fit, before the
root call or when it has just entered it. A recovery that fails yields `NoAuthority`. Calls
increment nonces as well, and a call that reverts gives the client its nonces back, but
not the tracer its lists: `frames` keeps what they were at each enter. `OnNonceChange` is
the hook's: a change is deferred while no call is open and moves into the root call at its
enter; one in the root call goes to its list directly; one in a call below goes to
that call, whose list the matching does not read. Changes after the root
call are attached after the matching and are not seen by it. `spent` is a history: the
nonces that the transaction itself and the root call used up, which a change in the root
call's list shows without any authorization having been applied.

**MCCompletion** explores these two steps of `completeTransaction`, which share no
state, each with the other idle.

## 3. Runs

Violation runs state what a document or comment of the repository says; they are
described with the findings below.

| Run | Question | Bounds |
|---|---|---|
| `Blocks` | Are calls numbered, linked, nested and reverted as the client ran them (`CallTrees`, `RevertedExactly`)? Does every change land once, in the right call, around self-destructions and faults (`Attributed`, `ImplementsJournal`)? Do changes outside of calls reach the root call in order (`Chronology`), does the receipt keep its logs (`ReceiptLogsFaithful`, `LogIndexesDense`)? Does nothing stay behind (`NothingLeftBehind`), and does a well-behaved client never cause a panic (`NoPanic`)? | five profiles, below |
| `HookOrder` | What holds when hooks are called in any order (`OrdinalsUnique`, `OpenCallsAreBranch`)? | 4 ordinals, one payload |
| `Commit` | Are commits atomic, ordinals dense, and the last execution committed (`CommitsAreAtomic`, `OrdinalsDense`, `CommitsLand`, `ReceiptFollowsLogs`)? | 2 transactions, 2 goroutines, 2 executions each |
| `CommitLive` | Does every commit finish (`CommitsFinish`)? | same, one execution, with preimages and system calls |
| `Flush` | One writer, whole lines in order, everything written, every close returns (`OneWriter`, `ImplementsStream`, `EverythingIsWritten`, `ClosesReturn`) | queues of 0, 1 and 2, 2 closers, 4 blocks of 2 bytes, 3 attempts |
| `FlashBlocks` | Does each iteration start from what was there at the snapshot (`ImplementsSequence`), with ordinals that have no gap and no overlap (`OrdinalsContiguous`)? Is what is printed in its window, monotone (`LibInWindow`, `LibNeverMovesBack`), and does a printed index mean what can be read from it (`PrintedIndexDecodes`)? | two nodes: numbers 1 and 2, indexes 0 to 2, 3 ordinals a block; and numbers 0, 2, 3 and 5 with finalized 0, 1, 2 and 4, indexes 0, 1 and 4, partial and final, no items. Window 2 for 200, offset 3 for 1000 |
| `Completion` | Are exactly the preimages attached that explain a slot (`AttachedExplain`, `KeptIsLeast`)? Is an authorization kept for each one applied (`AppliedNonceKeptOnce`), and otherwise only if its nonce was used up by the transaction itself or by the root call (`KeptVouchedFor`)? | 2 calls, 3 hashes, 4 keys, at most 2 keys a call, preimages up to 5 half words recorded, 1 level, three hashings; up to 3 authorizations, 2 accounts, nonces 0 and 1, 2 open calls |

The profiles of `Blocks` (`MCTracedBlock.tla`):

| Profile | What the client does | Bounds |
|---|---|---|
| `LoggingCalls` | calls that log and end in any way | one transaction, 4 frames, 11 ordinals |
| `Opcodes` | storage changes, self-destructions, preimages | two contexts of 2 frames, 7 ordinals |
| `Faults` | opcodes that fail, in calls that set code | two contexts of 2 frames, 7 ordinals |
| `Interruptions` | system calls inside transactions, transactions without calls or receipts, failing blocks | three contexts of 2 frames, 9 ordinals |
| `DeferredChanges` | changes and logs around the calls of a transaction | two contexts, two root calls each, 8 ordinals |

**Why the bounds are enough.** Four frames give every tree shape with siblings,
grandchildren and cousins, which is what parent lookup and inherited reversal can
tell apart. Two frames and two contexts suffice for attribution: a record can go
to the wrong frame or the wrong context only if there are two. Three contexts let
a transaction be interrupted and another follow it, so that left-overs are found;
interruption nests once, since a system call is refused during a system call
(a client bound that the tracer also enforces with a panic). Ordinals bound the
length of a block; `Room` keeps enough of them to close what is open, so no run
ends stuck in the middle. Two commits contend for the mutex in every
order; a third would only wait. A queue of two with four blocks fills, drains and
wraps around while blocks still come. `MaxWriteAttempts` is 10 in the code and 3
in the run: the property needs one attempt that succeeds late and one that is the
last. Symmetry is used in `Commit` alone, a run without liveness properties.

Three ordinals hold an item before a snapshot, one after it and one of the next
iteration; three indexes, the first of them 0, let a snapshot be taken, gone on from and taken
again, and be skipped or repeated; a second block number lets another block come in between. The
second node has no items, because what is printed does not depend on them, and its
numbers lie on both sides of the window's edge: 0, the window itself, one above, and
one whose window begins where another number is; its indexes are 0, which prints like a
regular block, one below the offset, and one above it, which prints like a
final iteration. In `Completion`, one hashing nests
deeper than the limit on levels, one has a key in front of the slot and a preimage that
is too long, and one reaches a hash on two levels; the keys are two of the hashes, one
just inside the offset and one outside it. Three
authorizations of one authority and nonce are the first that can hide an applied
one between two others. Two open calls are the root call and one below it, whose
nonce changes go unseen; a call further down adds none of another kind. The real limits (200, 1000, 2^64, 2^128, 256 bytes, 16
levels) are constants: the theorems of section 4 hold for them.

`CHECK_DEADLOCK FALSE` appears where the program may stop: `HookOrder` and
`FlashBlocks` (nothing runs after a panic), `Flush` (after the last block is written and
all closes have returned) and `Completion` (after a transaction is complete).

**Fairness.** `CommitLive` assumes that a goroutine inside `OnTxCommit` keeps
running (weak fairness) and that `sync.Mutex` hands the lock to a goroutine that
waits long enough (strong fairness of `Lock`: the starvation mode Go documents).
`Flush` assumes weak fairness of the worker, of the node once it is pushing
or printing, and of a write in progress. Nothing makes the node end a block or
anyone call `OnClose`. The runs without liveness properties use no fairness.

**Findings.** Five runs show the code doing what a text of the repository excludes:

* `Rootless`: a transaction without calls drops deferred balance, nonce and code
  changes although each took an ordinal (`tracer.go:1140`; README.md:124 says all
  state changes are recorded).
* `CommitTwice`: two goroutines committing the same isolated tracer both pass the
  check made before the mutex; the second dereferences nil (`tracer.go:1097`;
  `tracer.go:1058` promises thread safety).
* `ResetLeak`: `OnTxReset` leaves `transactionKeccakPreimages`, which the retry then
  attaches (`tracer.go:1023`; `tracer.go:999` says all transaction state is cleared).
* `IsolatedSystemCall`: an isolated tracer's system call appends to the shared block
  (`tracer.go:1770`; `tracer.go:976` calls it read-only).

* `SetCodeSwap`: an authorization that cannot be applied but comes earlier in the list,
  with the same authority and nonce, takes the nonce change of the applied one, which
  is then marked as discarded (`tracer.go:1380`; `tracer.go:1340` says that no nonce
  change means not applied).

Read in the code, not among the runs:

* A transaction without a receipt that is not dropped panics when one of its logs
  survived (`tracer.go:1287`; `config.go:136` describes it as recorded).
* With `Config.ChainConfig` set, blocks are accepted before `OnBlockchainInit`
  (`tracer.go:1954`), so that a block line may precede the init line
  (`ImplementsStream` fails with `ConfigHasChain = TRUE`, and so would `OneWriter`).
* The index of a flash block is only compared with the last snapshot
  (`tracer.go:418`): without one, or after one was given up, an index may repeat
  within a number, although `types.go:34` calls it strictly increasing.
* An iteration that fails gives up the snapshot it started from as well
  (`tracer.go:499`), so that it cannot be tried again. FlashSequence states this as a
  step of its own (`Abandon`).
* A block event without a finalized block leaves the status as `resetBlock` cleared it
  (`tracer.go:406`), so that the last irreversible block printed may fall back to the
  window; `LibNeverMovesBack` is stated for finality that does not fall.
* A partial flash block of index 0 prints like a regular block and one of index 1000 or
  more like a final iteration (`tracer_printer.go:170`); nothing checks the range, and
  `tests/tracer_flash_block_test.go:131` starts from 0. `PrintedIndexDecodes` says
  what a reader can tell all the same. That an index close to 2^64 wraps when 1000 is
  added to it is left out: indexes are natural numbers here.
* An authorization that was not applied is kept if its authority's nonce was used up in
  another way that shows in the root call's list: by the transaction itself, whose
  sender it may be, or by the root call, as when it creates a contract
  (`KeptVouchedFor` names these two causes and excludes all others).

## 4. Proofs

The theorems below hold for every value of the constants: every set of payloads, every
configuration, any number of blocks, transactions, system calls, frames and changes, any
tracers, goroutines and retries, any limits (the bounds of the runs are constants that
only restrict which steps are taken). All four refinements are among them.

| Theorem | Statement | Run that checks it on an instance |
|---|---|---|
| `HookBranches` (HookOrderProofs) | `HookSpec => []OpenCallsAreBranch` | `HookOrder` |
| `HookTypes` (HookOrderProofs) | `HookSpec => []TracerTypeOK` | |
| `HookOrdinals` (HookOrderProofs) | `HookSpec => []OrdinalsUnique` | `HookOrder` |
| `BlockTypes` (TracedBlockProofs) | `Spec => []TypeOK` | `Blocks` |
| `BlockLeavesNothing` (TracedBlockProofs) | `Spec => []NothingLeftBehind` | `Blocks` |
| `BlockJournalled` (TracedBlockProofs) | `Disciplined => (Spec /\ []NoPanic => ImplementsJournal)` | `Blocks` |
| `BlockCallTrees` (BlockTraceProofs) | `Spec => []CallTrees` | `Blocks` |
| `BlockReverted` (BlockTraceProofs) | `Spec => []RevertedExactly` | `Blocks` |
| `BlockChronology` (BlockTraceProofs) | `Spec => []Chronology` | `Blocks` |
| `BlockAttributed` (BlockTraceProofs) | `Spec => []Attributed` | `Blocks` |
| `BlockLogIndexes` (BlockTraceProofs) | `Spec => []LogIndexesDense` | `Blocks` |
| `BlockNeverPanics` (BlockTraceProofs) | `Careful => (Spec => []NoPanic)` | `Blocks` |
| `BlockReceipts` (BlockTraceProofs) | `Careful => (Spec => []ReceiptLogsFaithful)` | `Blocks` |
| `CarefulJournalled` (BlockTraceProofs) | `Careful => (Spec => ImplementsJournal)` | `Blocks` |
| `CommitTypes` (ParallelCommitProofs) | `Spec => []TypeOK` | `Commit` |
| `OneCommitAtATime` (ParallelCommitProofs) | `Spec => []Exclusive` | |
| `CommitNeverPanics` (ParallelCommitProofs) | `Disciplined => (Spec => []NoPanic)` | `CommitTwice` (where it fails) |
| `CommitsLeaveNoGap` (ParallelCommitProofs) | `Disciplined => (Spec => []OrdinalsDense)` | `Commit` |
| `ReceiptsFollow` (ParallelCommitProofs) | `Disciplined => (Spec => []ReceiptFollowsLogs)` | `Commit` |
| `CommitsReallyLand` (ParallelCommitProofs) | `Disciplined => (Spec => []CommitsLand)` | `Commit` |
| `ParallelIsAtomic` (ParallelCommitProofs) | `Disciplined => (Spec => CommitsAreAtomic)` | `Commit` |
| `FlushTypes` (FlushQueueProofs) | `Spec => []TypeOK` | `Flush` |
| `FlushOneWriter` (FlushQueueProofs) | `ConfigHasChain = FALSE => (Spec => []OneWriter)` | `Flush` |
| `FlushStream` (FlushQueueProofs) | `ConfigHasChain = FALSE => (Spec => ImplementsStream)` | `Flush` |
| `FlashTypes` (FlashBlocksProofs) | `Spec => []TypeOK` | `FlashBlocks` |
| `FlashOrdinals` (FlashBlocksProofs) | `Spec => []OrdinalsContiguous` | `FlashBlocks` |
| `FlashSequenced` (FlashBlocksProofs) | `Spec => ImplementsSequence` | `FlashBlocks` |
| `FlashLib` (FlashBlocksProofs) | `Spec => []LibInWindow` | `FlashBlocks` |
| `FlashLibMoves` (FlashBlocksProofs) | `Spec => LibNeverMovesBack` | `FlashBlocks` |
| `FlashPrinted` (FlashBlocksProofs) | `Spec => []PrintedIndexDecodes` | `FlashBlocks` |
| `FilterTypes` (KeccakFilterProofs) | `FilterSpec => []FilterTypeOK` | `Completion` |
| `FilterLeast` (KeccakFilterProofs) | `FilterSpec => []KeptIsLeast` | `Completion` |

*Assumptions.* For the tracer: `ConfigAssumption` and `DropAssumption` (two
configuration flags are Booleans), `ArgumentsAssumption` (transaction ids are numbers and
receipts are receipts) and `ClientAssumption` (the client's lists are lists, its profiles
are profiles, and its payloads are among those the tracer is told of). For flash
blocks: `FlashAssumption` (block numbers, indexes, window and offset are natural numbers)
and `NodeAssumption`. For the filter: `FilterAssumption` (numbers are numbers, a preimage
is a sequence of half words, and two hashes are never closer than the offset). For the
queue: `FlushAssumption`. For commits: `ParallelAssumption`. TLC evaluates them in the runs.

*Hypotheses.* Some results hold for the use of the library that its documentation
describes and not for every use, and name the difference:

* ParallelCommit's `Disciplined`: each isolated tracer is committed by one goroutine and
  traces no system call. The findings `CommitTwice` and `IsolatedSystemCall` are what
  happens otherwise; the types and the mutual exclusion of commits hold regardless.
* `ConfigHasChain = FALSE`: with a chain in the configuration a block may be with the
  worker while the node writes the init line.
* TracedBlock's `Disciplined`: a transaction around whose calls something changes has a
  root call, and no system call changes anything outside of its calls. The
  finding `Rootless` is what happens otherwise. `[]NoPanic` is a hypothesis of
  `BlockJournalled`, since a panic may leave the facts of the transaction half moved;
  `CarefulJournalled` does without it.
* TracedBlock's `Careful`: `Disciplined`, and two conditions on logs, each of them what the
  code needs not to panic in `assignOrdinalAndIndexToReceiptLogs`. A client logs outside of
  its calls only on a chain with `IsNeverRevertedLog`: the log is moved into a root call,
  and if that call fails the receipt still has the log and the trace has taken its index
  away. A client that gives up a transaction without a receipt, where such a transaction is
  not dropped, logs nothing: there is a surviving log and no receipt to match it with (the
  hazard at `src/tracer.go:1287`). The profiles of `Blocks` are careful.

*Types.* Types alone are not inductive. `completeTransaction` sorts the calls by
number and the logs by ordinal; the sort is written with `CHOOSE`, the element with
exactly *i* elements up to itself, which exists only if keys differ. So the
invariant has to say that they do:

* `HooksOK` (TracerProofs), for the transaction in progress and for the one set
  aside: the types of its state, `IsBranch` of its call stack, and `Numbered`:
  finished and open calls have distinct numbers from 1 to the stack's counter.
* `LogOrdinalsOK` (TracerProofs): the logs of a transaction, wherever they are
  (finished calls, open calls, deferred), have distinct ordinals, none beyond the
  counter. It needs `HooksOK`: `OnCallEnter` moves the deferred logs into a call and
  must empty the deferred state for no log to be there twice.
* `TracerOK` joins both with the type of the block. With the client
  (TracedBlockProofs) `evm \in Clients` is added: the client's receipt must hold logs,
  and its context must be one, for the payload it passes on to be one.

`TracerProofs` begins with what the operators of CallTrace do: a sort by distinct keys
lists exactly the set (`InOrderLists`, through ranks), push and pop keep a branch, each
completion pass keeps types and turns no two logs into one. Then it has one
lemma per hook for each invariant, `OnXxxOK` and `OnXxxTracerOK`, which the
theorems combine along the disjuncts of `HookNext` and of `Next`.

*What a hook does to the facts.* `RecordedFacts` reads the facts from wherever the
tracer keeps them. The lemmas of TracerProofs say for each hook what becomes of that set:
it grows by the fact with the next ordinal, or stays, or loses some (a dropped
transaction, a deferred change without a root call). `HookOrdinals` follows: a set of
facts with distinct ordinals up to the counter stays one. The hooks that move much are
the hard ones: `completeTransaction`, whose passes must leave the set as it is, and
`OnCallEnter`, which moves the deferred changes into a call.

*Nothing left behind.* Whether the tracer is clean between transactions depends on
what the client has open, so the invariant is `Linked`: the tracer is in a
transaction or system call exactly when the client runs one, `inSystemCall` says
which, and `interrupted` holds an open transaction exactly when the client's second
context, a system call, interrupts its first, a transaction. `Linked` is claimed
only until a panic; `PanicLinked` shows that nothing moves after one. The lemmas are
one for each step that starts or ends something, and one (`InsideLinked`) for all
that happens in between.

*The journal.* For `BlockJournalled` the facts must also be in the name of the right
frame. `Kept` pairs each context the client runs with the state that traces it, the
current one or the one set aside, and `Holds` says of such a pair: the open calls are the
client's open frames, in order; everything recorded in the context is in its name; and if
the context changes something outside of its calls, a root call will be there to take it.
Under it each step of the client is a step of BlockJournal that adds the fact the hook
added, and each hook that only moves facts is a stuttering step.

*What the block says.* The first five theorems of BlockTraceProofs hold for every client, the
undisciplined included, and up to a panic and after it (`PanicKeepsBlock`: a hook that
panics leaves the block as it was). They are about calls that have ended, but what a
call's index, parent and lists will be is decided while others are open, and possibly
while its transaction is set aside; so the invariant, `BlockOK`, says of each running
context that the state that belongs to it traces it (`Traces`), and of the block that
everything in it is good (`GoodBlock`). `Traces` has three parts:

* `Shape`: the calls, open and ended, form a `Forest`. An open call covers every ordinal
  from its beginning on; indexes are in the order of the beginnings; a call ends before
  those it is inside of; depth and parent are those of the calls that cover its beginning.
  The open calls are then exactly those around what happens next, which is why the stack
  knows the parent (`ShapePush`). That an ordinal in the future does not tell an open
  call from one that will end later makes the steps easy: two sets of calls that cover
  the same ordinals so far have the same tree (`ForestSame`).
* `Content`: the lists rise, what is in them is of the call's frame or from outside of all
  frames and then in a call at depth 0, and what waits in the deferred state is later than
  all that is in the calls. Without the last part a completed transaction's first call
  could be out of order.
* `Ranked`: the index of each log is the number of ordinals of logs before its own, and
  `logIndex` the number of them all, wherever they are.

When a context ends, the passes of `completeTransaction` keep all this (`SameNode`,
`SameList`): what goes into the block are the calls of the state with their hashes and,
for the first, with what was deferred (`Finals`). For `RevertedExactly` the recursive
function of `StateReverted` must be the one its definition says. Its value is taken from
its equation (a witness is the set of the calls under a failed one), and there is one
solution only, because a least call at which two differ would have a parent before it at
which they differ (`RevertedUnique`; `LeastNat` is the well-foundedness of the naturals).

*The receipt.* The code matches the receipt's logs with those of the trace by position and
compares block indexes, and panics where they are not as many or differ. That they never
are relates two parties: the client drops the logs of a failing frame from its journal, by
cutting it at the mark it took when the frame began; the tracer keeps them all, and
`removeLogBlockIndexOnStateRevertedCalls` tells at the end which did not survive. In between
neither knows. `Journalled` says of each running context what the two have in common
(`Reported`; `Aside` for the one that was interrupted): a log is *live* unless a failed call
is around it (`Live`, `Doomed`); the live logs of the context are those of the client's journal
from the context's mark on, each at its block index (`Indexed`) and in the same order; and
the mark of each open frame parts the live logs of that frame and its callees from those
before it. A frame that fails dooms exactly the calls that began since, hence exactly the
logs behind its mark. When the transaction ends, a live log is a surviving one
(`EndedSurvivors`, by what `RevertedTree` says of the flags), so there is a bijection
between the receipt's logs and the surviving ones that keeps the order (`InOrderMap`), and
position by position the block indexes agree (`ReceiptMatches`). `CarefulOK` joins this with
the invariants above: the steps of one need that nothing panicked, and that nothing panics
(`BoundsSafe`, `FrameSafe`, `ChangesSafe`, `EndTrxSafe`) needs them all.

*Commits.* `MutexInv` makes the goroutine between `Lock` and `Unlock` the one that holds
the mutex; it holds without any discipline. The rest is inductive only together:
`LocalInv` says that an isolated tracer numbers its marks 1, 2, 3, ... without a gap
(`Tight`), that the goroutine inside `OnTxCommit` is the only one for its tracer, and
what it has read and rebased so far, counted from the coordinator's counter as it is now;
`LayoutInv` that the committed transactions and the coordinator's own ordinals share out
1 up to the last one used, where a transaction appended before the counter is set already
counts; `LandedInv` that executions come into the block in their order, and the
last with its commit. For the refinement, a commit takes effect when the counter is set:
`Block` leaves out the transaction appended before that, and `Waiting` lists the commits
that have begun.

*Flash blocks.* The ordinals of the block being built are dense only if those of the
prefix it started from were, and a snapshot is taken while the block goes on. So
`FlashInv` says of every snapshot, pointing to a live or to an emitted block, that
its lengths are within the lists and that the prefixes they cut use each ordinal up to
the recorded one exactly once (`SnapshotOK`); and a live snapshot is one of an open
block. Appending an item keeps the prefix as it is, resetting the block turns a live
snapshot into one of a block that no longer changes, and restoring hands over a prefix
that is already known to be dense. `OutputOK` ties the last output to the functions that
computed it; what is printed then follows from lemmas about them alone.

`FlashSequenced` merges the four lists by ordinal. Because the ordinals are dense, the item
of the sequence that a hook adds comes after all others, whichever list it is put
in (`MergedGrown`), and the last item ends at the counter (`ClockIsOrdinal`), so that the
abstract clock is the concrete one. What a snapshot stands for depends on the prefixes
only: growing the block and `resetBlock` leave it as it is.

*Keccak filter.* `SearchInv` is the invariant of a breadth-first search: what is kept
outside of the frontier has its inner hashes kept, and what is kept is in every closed
set that explains the slots. When the frontier is empty the kept set is itself closed,
hence the least.

*One writer.* The node and the worker can be told apart by the configuration of the
queue once the chain is known, and before that only the init line can be written:
`WriterInv` says so, on top of the types of `FlushInv`. The latter also says that a
writer that used up its attempts has panicked.

*The stream.* What the reader will have seen in the end is the output, then the rest of the
line being written, then the lines in the queue (`OnTheWay`). `LastInv` says that this ends
with the last block handed over; a short write moves bytes from the second part to the
first, the worker's next block a line from the third to the second, and neither changes
the whole. `CloseInv` says what a close that returned has waited for.

*Only model-checked*: `AttachedExplain` and the SetCode properties of `Completion`, and the
liveness properties. Out of the prover's reach are liveness and fairness. The theorems on
induction that the library has cannot be used; a least counterexample, as for
`RevertedUnique`, can take their place where a function recurs on a number, which leaves
`Explaining` (`AttachedExplain`) and `Found` (the SetCode properties) as possible but
unproved.

## 5. Not modelled yet, and the plan

In this order:

1. Prove `AttachedExplain` and the SetCode properties.
2. The coordinator's hooks running while commits are under way: in `ParallelCommit` the
   node waits for the commits first, as the documented usage does.
3. Transactions without a receipt that are not dropped, for a client that logs.
4. Genesis as a replay through the hooks; the fork rules as functions.

Not planned: protobuf layout and debug output (formatting), signature recovery
(`setcode.go`, cryptography: a recovery yields an account or fails), uncles and
withdrawals (copied unchanged), types and builders (data), `PopulateBlockStatus`
(no caller), and what a chain's `BeforeBlockFlush` does to a block that a snapshot
points to (not in the repository).
