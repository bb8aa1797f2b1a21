---------------------------- MODULE ParallelCommit ----------------------------
(***************************************************************************)
(* Parallel execution: a coordinator tracer spawns isolated tracers, each  *)
(* traces one transaction in a goroutine of its own under local ordinals   *)
(* and is retried with OnTxReset, and goroutines commit the completed      *)
(* transactions to the coordinator's block, which rebases their ordinals   *)
(* (the Parallel Execution Hooks of tracer.go).  The call tree of a        *)
(* transaction is the subject of TracedBlock; here a transaction is the    *)
(* sequence of the ordinals it used.                                       *)
(***************************************************************************)
EXTENDS Integers, Sequences, FiniteSets, SequencesExt

CONSTANTS Isolated,        \* the isolated tracers
          Committers,      \* the goroutines that call OnTxCommit
          None,
          DropTransactionsWithoutReceipt,
          Recorders,       \* isolated tracers that record preimages
          SystemCallers,   \* isolated tracers that trace a system call in their transaction
          Contenders,      \* isolated tracers that several goroutines commit at a time
          MaxAttempts,     \* bound: times one transaction is executed
          MaxMarks,        \* bound: changes and logs of one execution
          MaxOwn           \* bound: ordinals used outside the transactions

ASSUME ParallelAssumption ==
    /\ None \notin Isolated \cup Committers
    /\ DropTransactionsWithoutReceipt \in BOOLEAN
    /\ Recorders \subseteq Isolated /\ SystemCallers \subseteq Isolated
    /\ Contenders \subseteq Isolated
    /\ MaxAttempts \in Nat /\ MaxMarks \in Nat /\ MaxOwn \in Nat

VARIABLES open,      \* the coordinator has a block
          ordinal,   \* the coordinator's blockOrdinal
          traces,    \* block.TransactionTraces
          own,       \* the ordinals of what the coordinator traced itself, and of block.SystemCalls
          mutex,     \* who holds commitMutex
          iso,       \* the isolated tracers
          committer, \* the goroutines inside OnTxCommit
          phase,     \* how far the node is with each isolated tracer
          panicked

vars == <<open, ordinal, traces, own, mutex, iso, committer, phase, panicked>>
-----------------------------------------------------------------------------
(* changes and logs: the ordinals of what the calls hold; receipt: those   *)
(* of the receipt's logs; preimages: the executions whose preimages hang   *)
(* on the calls.                                                           *)
NoTrace == [of |-> None, attempt |-> 0, begin |-> 0, changes |-> <<>>, logs |-> <<>>,
            receipt |-> <<>>, preimages |-> {}, end |-> 0]

(* A tracer as OnTxSpawn makes it; attempt counts the executions.          *)
NewIsolated == [attempt |-> 0, ordinal |-> 0, trx |-> NoTrace,
                preimages |-> {}, transient |-> NoTrace, dropped |-> FALSE]

(* The node spawns a tracer, runs a transaction in it, ends it, and asks   *)
(* for its commit; OnTxReset takes it back to "idle".                      *)
Phases == {"none", "idle", "running", "ended", "done"}

Outside == [pc |-> "outside", of |-> None, base |-> 0]

Init ==
    /\ open = FALSE /\ ordinal = 0 /\ traces = <<>> /\ own = {}
    /\ mutex = None
    /\ iso = [w \in Isolated |-> NewIsolated]
    /\ phase = [w \in Isolated |-> "none"]
    /\ committer = [c \in Committers |-> Outside]
    /\ panicked = FALSE

Joined == \A c \in Committers : committer[c].pc = "outside"
-----------------------------------------------------------------------------
(* The coordinator.  The node waits for the commits before it uses it.     *)

OnBlockStart ==
    /\ ~panicked /\ ~open
    /\ open' = TRUE /\ traces' = <<>> /\ own' = {}
    /\ UNCHANGED <<ordinal, mutex, iso, committer, phase, panicked>>

OnBlockEnd ==
    /\ ~panicked /\ open /\ Joined
    /\ open' = FALSE /\ ordinal' = 0 /\ traces' = <<>> /\ own' = {}
    /\ phase' = [w \in Isolated |-> "none"]
    /\ iso' = [w \in Isolated |-> NewIsolated]
    /\ UNCHANGED <<mutex, committer, panicked>>

(* A hook on the coordinator that uses an ordinal, in a system call or     *)
(* outside any transaction.                                                *)
CoordinatorHook ==
    /\ ~panicked /\ open /\ Joined /\ Cardinality(own) < MaxOwn
    /\ ordinal' = ordinal + 1
    /\ own' = own \cup {ordinal + 1}
    /\ UNCHANGED <<open, traces, mutex, iso, committer, phase, panicked>>

Move(w, from, to) == ~panicked /\ phase[w] \in from /\ phase' = [phase EXCEPT ![w] = to]

OnTxSpawn(w) ==
    /\ open /\ Move(w, {"none"}, "idle")
    /\ iso' = [iso EXCEPT ![w] = NewIsolated]
    /\ UNCHANGED <<open, ordinal, traces, own, mutex, committer, panicked>>
-----------------------------------------------------------------------------
(* The goroutine of an isolated tracer                                     *)

Update(w, t) == iso' = [iso EXCEPT ![w] = t]

Apart == UNCHANGED <<open, ordinal, traces, mutex, committer, panicked>>

(* Local ordinals start over with every execution.                         *)
OnTxStart(w) ==
    /\ iso[w].attempt < MaxAttempts /\ Move(w, {"idle"}, "running")
    /\ Update(w, [iso[w] EXCEPT
                    !.attempt = @ + 1,
                    !.ordinal = @ + 1,
                    !.trx     = [NoTrace EXCEPT !.of = w, !.attempt = iso[w].attempt + 1,
                                                !.begin = iso[w].ordinal + 1]])
    /\ Apart /\ UNCHANGED own

Emitting(w) ==
    /\ ~panicked /\ phase[w] = "running"
    /\ Len(iso[w].trx.changes) + Len(iso[w].trx.logs) < MaxMarks
    /\ Apart /\ UNCHANGED phase

OnChange(w) ==
    /\ Emitting(w) /\ UNCHANGED own
    /\ Update(w, [iso[w] EXCEPT !.ordinal = @ + 1, !.trx.changes = Append(@, iso[w].ordinal + 1)])

OnLog(w) ==
    /\ Emitting(w) /\ UNCHANGED own
    /\ Update(w, [iso[w] EXCEPT !.ordinal = @ + 1, !.trx.logs = Append(@, iso[w].ordinal + 1)])

OnKeccakPreimage(w) ==
    /\ w \in Recorders /\ Emitting(w) /\ UNCHANGED own
    /\ iso[w].attempt \notin iso[w].preimages
    /\ Update(w, [iso[w] EXCEPT !.preimages = @ \cup {iso[w].attempt}])

(* From OnSystemCallStart to OnSystemCallEnd: a call that enters and exits *)
(* under local ordinals, then appended to the block the tracers share.     *)
SystemCall(w) ==
    /\ w \in SystemCallers /\ Emitting(w) /\ Cardinality(own) < MaxOwn
    /\ own' = own \cup {iso[w].ordinal + 1, iso[w].ordinal + 2}
    /\ Update(w, [iso[w] EXCEPT !.ordinal = @ + 2])

(* A transaction without receipt has no receipt logs; those of its calls   *)
(* must then have been reverted, or completeTransaction would panic.  The  *)
(* tracer stays in its transaction until OnTxReset.                        *)
OnTxEnd(w, receipt) ==
    /\ Move(w, {"running"}, "ended") /\ Apart /\ UNCHANGED own
    /\ LET trace == [iso[w].trx EXCEPT !.receipt   = IF receipt THEN iso[w].trx.logs ELSE <<>>,
                                       !.preimages = iso[w].preimages,
                                       !.end       = iso[w].ordinal + 1]
       IN  Update(w, IF ~receipt /\ DropTransactionsWithoutReceipt
                     THEN [iso[w] EXCEPT !.dropped = TRUE]
                     ELSE [iso[w] EXCEPT !.ordinal = @ + 1, !.trx = trace,
                                         !.transient = trace, !.preimages = {}])

(* Mutant of OnTxReset: the dropped mark stays.                            *)
OnTxResetKeepsDropped(w) ==
    /\ \A c \in Committers : committer[c].of # w
    /\ Move(w, {"running", "ended", "done"}, "idle") /\ Apart /\ UNCHANGED own
    /\ Update(w, [iso[w] EXCEPT !.trx = NoTrace, !.transient = NoTrace, !.ordinal = 0])

(* Before a retry, or once a commit has returned before the next           *)
(* transaction.  The recorded preimages are not reset.                     *)
OnTxReset(w) ==
    /\ \A c \in Committers : committer[c].of # w
    /\ Move(w, {"running", "ended", "done"}, "idle") /\ Apart /\ UNCHANGED own
    /\ Update(w, [iso[w] EXCEPT !.trx = NoTrace, !.transient = NoTrace, !.dropped = FALSE,
                                !.ordinal = 0])
-----------------------------------------------------------------------------
(* OnTxCommit, called by goroutine c for the isolated tracer w             *)

At(c, label) == ~panicked /\ committer[c].pc = label

Go(c, label) == committer' = [committer EXCEPT ![c].pc = label]

(* The node calls it once the transaction has ended.  The checks come      *)
(* before the mutex is locked; a dropped transaction returns at once, and  *)
(* one that is gone is an error and changes nothing.                       *)
CheckCommit(c, w) ==
    /\ At(c, "outside")
    /\ Move(w, IF w \in Contenders THEN {"ended", "done"} ELSE {"ended"}, "done")
    /\ IF iso[w].dropped
       THEN iso' = [iso EXCEPT ![w].dropped = FALSE] /\ UNCHANGED committer
       ELSE /\ iso[w].transient # NoTrace
            /\ committer' = [committer EXCEPT ![c] = [pc |-> "checked", of |-> w, base |-> 0]]
            /\ UNCHANGED iso
    /\ UNCHANGED <<open, ordinal, traces, own, mutex, panicked>>

(* Mutants of Lock: without waiting for the mutex; with a base one off.    *)
LockAtOnce(c) ==
    /\ At(c, "checked")
    /\ mutex' = c
    /\ committer' = [committer EXCEPT ![c].pc = "locked", ![c].base = ordinal]
    /\ UNCHANGED <<open, ordinal, traces, own, iso, phase, panicked>>

LockOneOff(c) ==
    /\ At(c, "checked") /\ mutex = None
    /\ mutex' = c
    /\ committer' = [committer EXCEPT ![c].pc = "locked", ![c].base = ordinal - 1]
    /\ UNCHANGED <<open, ordinal, traces, own, iso, phase, panicked>>

Lock(c) ==
    /\ At(c, "checked") /\ mutex = None
    /\ mutex' = c
    /\ committer' = [committer EXCEPT ![c].pc = "locked", ![c].base = ordinal]
    /\ UNCHANGED <<open, ordinal, traces, own, iso, phase, panicked>>

(* reorderTransactionOrdinals                                              *)
Shift(ords, base) == [i \in DOMAIN ords |-> ords[i] + base]

(* Mutants of Rebased: a list of the transaction forgotten.                *)
RebasedButChanges(trace, base) ==
    [trace EXCEPT !.begin   = @ + base,
                  !.logs    = Shift(@, base),
                  !.receipt = Shift(@, base),
                  !.end     = @ + base]

RebasedButReceipt(trace, base) ==
    [trace EXCEPT !.begin   = @ + base,
                  !.changes = Shift(@, base),
                  !.logs    = Shift(@, base),
                  !.end     = @ + base]

Rebased(trace, base) ==
    [trace EXCEPT !.begin   = @ + base,
                  !.changes = Shift(@, base),
                  !.logs    = Shift(@, base),
                  !.receipt = Shift(@, base),
                  !.end     = @ + base]

(* Rebasing a nil transaction is a runtime panic.                          *)
Rebase(c) ==
    LET w == committer[c].of
    IN  /\ At(c, "locked")
        /\ IF iso[w].transient = NoTrace
           THEN panicked' = TRUE /\ UNCHANGED <<iso, committer>>
           ELSE /\ iso' = [iso EXCEPT ![w].transient = Rebased(@, committer[c].base)]
                /\ Go(c, "rebased")
                /\ UNCHANGED panicked
        /\ UNCHANGED <<open, ordinal, traces, own, mutex, phase>>

AppendTrace(c) ==
    /\ At(c, "rebased")
    /\ traces' = Append(traces, iso[committer[c].of].transient)
    /\ Go(c, "appended")
    /\ UNCHANGED <<open, ordinal, own, mutex, iso, phase, panicked>>

SetOrdinal(c) ==
    /\ At(c, "appended")
    /\ ordinal' = iso[committer[c].of].transient.end
    /\ Go(c, "set")
    /\ UNCHANGED <<open, traces, own, mutex, iso, phase, panicked>>

(* Mutant of Unlock: it does not unlock.                                   *)
UnlockForgets(c) ==
    /\ At(c, "set")
    /\ iso' = [iso EXCEPT ![committer[c].of].transient = NoTrace]
    /\ committer' = [committer EXCEPT ![c] = Outside]
    /\ UNCHANGED <<open, ordinal, traces, own, mutex, phase, panicked>>

Unlock(c) ==
    /\ At(c, "set")
    /\ iso' = [iso EXCEPT ![committer[c].of].transient = NoTrace]
    /\ mutex' = None
    /\ committer' = [committer EXCEPT ![c] = Outside]
    /\ UNCHANGED <<open, ordinal, traces, own, phase, panicked>>

InCommit(c) == Rebase(c) \/ AppendTrace(c) \/ SetOrdinal(c) \/ Unlock(c)

Next ==
    \/ OnBlockStart \/ OnBlockEnd \/ CoordinatorHook
    \/ \E w \in Isolated :
         \/ OnTxSpawn(w) \/ OnTxStart(w) \/ OnTxReset(w)
         \/ OnChange(w) \/ OnLog(w) \/ OnKeccakPreimage(w) \/ SystemCall(w)
         \/ \E receipt \in BOOLEAN : OnTxEnd(w, receipt)
         \/ \E c \in Committers : CheckCommit(c, w)
    \/ \E c \in Committers : Lock(c) \/ InCommit(c)

(* A goroutine inside the commit keeps running, and sync.Mutex hands the   *)
(* lock to a goroutine that has waited long (its starvation mode).         *)
Fairness == \A c \in Committers : SF_vars(Lock(c)) /\ WF_vars(InCommit(c))

Spec == Init /\ [][Next]_vars

FairSpec == Spec /\ Fairness
-----------------------------------------------------------------------------
Ordinals == Seq(Nat)

TraceType == [of : Isolated \cup {None}, attempt : Nat, begin : Nat, changes : Ordinals,
              logs : Ordinals, receipt : Ordinals, preimages : SUBSET Nat, end : Nat]

IsoType == [attempt : Nat, ordinal : Nat, trx : TraceType, preimages : SUBSET Nat,
            transient : TraceType, dropped : BOOLEAN]

Labels == {"outside", "checked", "locked", "rebased", "appended", "set"}

TypeOK ==
    /\ open \in BOOLEAN
    /\ ordinal \in Nat
    /\ traces \in Seq(TraceType)
    /\ own \in SUBSET Nat
    /\ mutex \in Committers \cup {None}
    /\ iso \in [Isolated -> IsoType]
    /\ committer \in [Committers -> [pc : Labels, of : Isolated \cup {None}, base : Nat]]
    /\ phase \in [Isolated -> Phases]
    /\ panicked \in BOOLEAN
-----------------------------------------------------------------------------
(* Commits take effect one at a time, each at the moment the coordinator's *)
(* counter moves past the transaction.                                     *)

InFlight == {c \in Committers : committer[c].pc \in {"checked", "locked", "rebased", "appended"}}

Landed == IF \E c \in Committers : committer[c].pc = "appended" THEN Front(traces) ELSE traces

Atomic == INSTANCE AtomicCommit WITH
    Tracers <- Isolated,
    Attempts <- 1..MaxAttempts,
    MaxLength <- MaxMarks + 2,
    clock <- ordinal,
    block <- [i \in DOMAIN Landed |->
                 [of |-> Landed[i].of, attempt |-> Landed[i].attempt,
                  begin |-> Landed[i].begin, end |-> Landed[i].end]],
    waiting <- {LET t == iso[committer[c].of].transient
                IN  [of |-> t.of, attempt |-> t.attempt, length |-> t.end - t.begin + 1] :
                   c \in InFlight}

(* Whatever goroutines commit at the same time, the block is the one that  *)
(* commits done one after the other would build: every transaction once,   *)
(* the execution the node asked for, on ordinals of its own.               *)
CommitsAreAtomic == Atomic!AtomicSpec

(* And every commit asked for is done.                                     *)
CommitsFinish == Atomic!AtomicFairness

UsedOrdinals(t) == <<t.begin>> \o t.changes \o t.logs \o <<t.end>>

(* Once no commit is under way, what the block holds uses each ordinal up  *)
(* to the counter exactly once.                                            *)
OrdinalsDense ==
    LET used == {p \in (DOMAIN traces) \X (1..(MaxMarks + 2)) : p[2] <= Len(UsedOrdinals(traces[p[1]]))}
        At2(p) == UsedOrdinals(traces[p[1]])[p[2]]
    IN  Joined =>
            /\ own \cup {At2(p) : p \in used} = 1..ordinal
            /\ Cardinality(own) + Cardinality(used) = ordinal

(* The logs of a receipt keep the ordinals of the logs of the calls.       *)
ReceiptFollowsLogs == \A i \in DOMAIN traces : traces[i].receipt \in {<<>>, traces[i].logs}

(* Once its commit has returned, the last execution of a transaction is in *)
(* the block, unless it ended without a receipt and was dropped: neither a *)
(* retry nor a commit of another one loses it, or brings one back.         *)
CommitsLand ==
    \A w \in Isolated :
        phase[w] = "done" /\ (\A c \in Committers : committer[c].of # w) =>
            (iso[w].trx.end > 0 <=>
                \E i \in DOMAIN traces : traces[i].of = w /\ traces[i].attempt = iso[w].attempt)

NoPanic == ~panicked

(* README and OnTxReset promise a retry that starts clean.                 *)
RetriesStartClean == \A w \in Isolated : iso[w].transient.preimages \subseteq {iso[w].attempt}

(* What newIsolatedTransactionTracer says of the block it hands on: the    *)
(* isolated tracer only reads it.                                          *)
SharedBlockReadOnly == [][iso' # iso /\ open' => own' = own]_vars
=============================================================================
