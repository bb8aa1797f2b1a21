------------------------------- MODULE Tracer -------------------------------
(***************************************************************************)
(* One tracer, driven hook by hook from a single goroutine: the block it   *)
(* is building, the ordinal counter, the transaction or system call in     *)
(* progress, and the transaction a system call has set aside (tracer.go).  *)
(* Each action is one hook, with every ensure* check it makes of the       *)
(* block, transaction and call in progress.  A failed check panics; what a *)
(* hook had changed before it panicked is not kept, nothing runs after it. *)
(***************************************************************************)
EXTENDS CallTrace

CONSTANT DropTransactionsWithoutReceipt    \* the Config field of that name

ASSUME DropAssumption == DropTransactionsWithoutReceipt \in BOOLEAN

VARIABLES block,          \* the block being built; ~block.open stands for nil
          ordinal,        \* blockOrdinal
          cur,            \* the transaction-scope fields, all that resetTransaction clears
          inSystemCall,
          interrupted,    \* interruptedTransaction: <<>> stands for nil
          panicked

tracerVars == <<block, ordinal, cur, inSystemCall, interrupted, panicked>>
-----------------------------------------------------------------------------
NoReceipt == [status |-> "none", logs |-> <<>>]

(* A transaction trace; ~trx.open stands for the nil transaction.  The     *)
(* calls carry StateReverted in the trace; here it is the set of the       *)
(* positions it is true at.                                                *)
NoTrx == [open |-> FALSE, id |-> 0, begin |-> 0, end |-> 0, calls |-> <<>>,
          status |-> "unknown", receipt |-> NoReceipt, stateReverted |-> {}]

FreshState == [trx |-> NoTrx, logIndex |-> 0, preimages |-> <<>>,
               callStack |-> NewCallStack, deferred |-> NoEntries, suicided |-> FALSE]

NoBlock == [open |-> FALSE, traces |-> <<>>, systemCalls |-> <<>>, changes |-> NoEntries]

InTrx == cur.trx.open

TracerInit ==
    /\ block = NoBlock
    /\ ordinal = 0
    /\ cur = FreshState
    /\ inSystemCall = FALSE
    /\ interrupted = <<>>
    /\ panicked = FALSE

(* panicInvalidState, a panic of another kind, or a runtime panic.         *)
Panic == panicked' = TRUE /\ UNCHANGED <<block, ordinal, cur, inSystemCall, interrupted>>

(* What a hook does behind its ensure* checks.  What they ask of the chain *)
(* configuration is settled before the first block (see FlushQueue).       *)
Ensured(check, step) == \/ check /\ step /\ UNCHANGED panicked
                        \/ ~check /\ Panic

ResetTransaction == cur' = FreshState /\ inSystemCall' = FALSE
-----------------------------------------------------------------------------
(* Blocks                                                                  *)

(* Neither an open block nor the ordinal left by one is looked at.         *)
OnBlockStart ==
    /\ block' = [NoBlock EXCEPT !.open = TRUE]
    /\ UNCHANGED <<ordinal, cur, inSystemCall, interrupted, panicked>>

ResetBlock == block' = NoBlock /\ ordinal' = 0 /\ interrupted' = <<>>

(* Mutant of OnBlockEnd: a failed block leaves its transaction behind.     *)
OnBlockEndKeepsTrx(err) ==
    Ensured(block.open /\ (err \/ ~InTrx),
            /\ ResetBlock
            /\ IF err THEN UNCHANGED <<cur, inSystemCall>> ELSE ResetTransaction)

(* The block goes to the printer, unless processing it failed.             *)
OnBlockEnd(err) ==
    Ensured(block.open /\ (err \/ ~InTrx), ResetBlock /\ ResetTransaction)

OnSkippedBlock == Ensured(~InTrx, ResetBlock /\ ResetTransaction)
-----------------------------------------------------------------------------
(* Transactions                                                            *)

OnTxStart(id) ==
    Ensured(block.open /\ ~InTrx /\ ~HasActiveCall(cur.callStack),
            /\ ordinal' = ordinal + 1
            /\ cur' = [cur EXCEPT !.trx = [NoTrx EXCEPT !.open  = TRUE,
                                                        !.id    = id,
                                                        !.begin = ordinal + 1]]
            /\ UNCHANGED <<block, inSystemCall, interrupted>>)

(* Mutant of CompleteCalls: what is still deferred is forgotten.           *)
CompleteCallsForgetsDeferred ==
    AttachPreimages(SortedByIndex(cur.trx.calls), cur.preimages)

(* The calls of a transaction that ends, once sorted, completed with what  *)
(* was still deferred, and with the log indexes of reverted calls removed. *)
CompleteCalls ==
    LET sorted == SortedByIndex(cur.trx.calls)
        rooted == [sorted EXCEPT ![1] = PopulateOnRoot(cur.deferred, @)]
    IN  AttachPreimages(rooted, cur.preimages)

(* A reverted root call overrides the receipt.                             *)
TrxStatus(receipt, rootCall) ==
    IF rootCall.outcome = "reverted" THEN "reverted"
    ELSE IF receipt = NoReceipt THEN "unknown" ELSE receipt.status

CompleteTransaction(receipt) ==
    LET calls    == CompleteCalls
        reverted == StateReverted(calls)
        final    == RemoveLogBlockIndex(calls, reverted)
        logs     == SurvivingLogs(final, reverted)
        assigned == [receipt EXCEPT !.logs = AssignToReceiptLogs(logs, receipt.logs)]
    IN  IF cur.trx.calls = <<>> THEN [cur.trx EXCEPT !.end = ordinal + 1]
        ELSE [cur.trx EXCEPT !.calls         = final,
                             !.stateReverted = reverted,
                             !.status        = TrxStatus(receipt, calls[1]),
                             !.receipt       = assigned,
                             !.end           = ordinal + 1]

(* completeTransaction panics on a log or storage change left without a    *)
(* call, and on receipt logs other than those of the calls.                *)
Completable(receipt) ==
    LET calls    == CompleteCalls
        reverted == StateReverted(calls)
    IN  IF cur.trx.calls = <<>> THEN ~HasCallOnlyChanges(cur.deferred)
        ELSE /\ ParentsInRange(calls)
             /\ LogsMatch(SurvivingLogs(RemoveLogBlockIndex(calls, reverted), reverted),
                          receipt.logs)

Dropped(receipt) == receipt = NoReceipt /\ DropTransactionsWithoutReceipt

OnTxEnd(receipt) ==
    Ensured(block.open /\ InTrx /\ (Dropped(receipt) \/ Completable(receipt)),
            /\ IF Dropped(receipt)
               THEN UNCHANGED <<block, ordinal>>
               ELSE /\ block' = [block EXCEPT !.traces = Append(@, CompleteTransaction(receipt))]
                    /\ ordinal' = ordinal + 1
            /\ ResetTransaction
            /\ UNCHANGED interrupted)
-----------------------------------------------------------------------------
(* System calls                                                            *)

(* A transaction in progress is set aside for the time of the call.        *)
OnSystemCallStart ==
    Ensured(block.open /\ ~(InTrx /\ inSystemCall),
            /\ interrupted' = IF InTrx THEN <<cur>> ELSE interrupted
            /\ cur' = [(IF InTrx THEN FreshState ELSE cur) EXCEPT !.trx = [NoTrx EXCEPT !.open = TRUE]]
            /\ inSystemCall' = TRUE
            /\ UNCHANGED <<block, ordinal>>)

(* Mutant of OnSystemCallEnd: the log index of the interrupted transaction *)
(* is not restored.                                                        *)
OnSystemCallEndKeepsLogIndex ==
    Ensured(block.open /\ InTrx /\ inSystemCall /\ ~HasCallOnlyChanges(cur.deferred),
            /\ block' = [block EXCEPT !.systemCalls =
                            @ \o AttachPreimages(cur.trx.calls, cur.preimages)]
            /\ cur' = IF interrupted = <<>> THEN FreshState
                      ELSE [interrupted[1] EXCEPT !.logIndex = cur.logIndex]
            /\ interrupted' = <<>>
            /\ inSystemCall' = FALSE
            /\ UNCHANGED ordinal)

(* The calls go to the block in the order of their exits.                  *)
OnSystemCallEnd ==
    Ensured(block.open /\ InTrx /\ inSystemCall /\ ~HasCallOnlyChanges(cur.deferred),
            /\ block' = [block EXCEPT !.systemCalls =
                            @ \o AttachPreimages(cur.trx.calls, cur.preimages)]
            /\ cur' = IF interrupted = <<>> THEN FreshState ELSE interrupted[1]
            /\ interrupted' = <<>>
            /\ inSystemCall' = FALSE
            /\ UNCHANGED ordinal)
-----------------------------------------------------------------------------
(* Calls                                                                   *)

(* Mutant of OnCallEnter: the deferred changes stay deferred.              *)
OnCallEnterKeepsDeferred(depth, data) ==
    LET call == NewCall(ordinal + 1, data)
    IN  /\ ordinal' = ordinal + 1
        /\ cur' = [cur EXCEPT !.callStack =
                      Push(@, IF depth = 0 THEN PopulateOnEnter(cur.deferred, call) ELSE call)]
        /\ UNCHANGED <<block, inSystemCall, interrupted, panicked>>

OnCallEnter(depth, data) ==
    LET call == NewCall(ordinal + 1, data)
    IN  /\ ordinal' = ordinal + 1
        /\ cur' = IF depth = 0
                  THEN [cur EXCEPT !.callStack = Push(@, PopulateOnEnter(cur.deferred, call)),
                                   !.deferred  = NoEntries]
                  ELSE [cur EXCEPT !.callStack = Push(@, call)]
        /\ UNCHANGED <<block, inSystemCall, interrupted, panicked>>

(* A call type that is none of the EVM's.                                  *)
OnCallEnterUnspecified == Panic

(* SELFDESTRUCT is not a call of the trace; the exit that follows is       *)
(* skipped.                                                                *)
OnSelfDestructEnter ==
    /\ cur' = [cur EXCEPT !.suicided = TRUE]
    /\ UNCHANGED <<block, ordinal, inSystemCall, interrupted, panicked>>

(* Mutant of OnCallExit: the last ordinal is used again.                   *)
OnCallExitReusesOrdinal(outcome) ==
    IF cur.suicided
    THEN /\ cur' = [cur EXCEPT !.suicided = FALSE]
         /\ UNCHANGED <<block, ordinal, inSystemCall, interrupted, panicked>>
    ELSE Ensured(block.open /\ InTrx /\ HasActiveCall(cur.callStack),
                 LET call == [Peek(cur.callStack) EXCEPT !.outcome = outcome, !.end = ordinal]
                 IN  /\ cur' = [cur EXCEPT !.callStack = Pop(@),
                                           !.trx.calls = Append(@, call)]
                     /\ UNCHANGED <<block, ordinal, inSystemCall, interrupted>>)

OnCallExit(outcome) ==
    IF cur.suicided
    THEN /\ cur' = [cur EXCEPT !.suicided = FALSE]
         /\ UNCHANGED <<block, ordinal, inSystemCall, interrupted, panicked>>
    ELSE Ensured(block.open /\ InTrx /\ HasActiveCall(cur.callStack),
                 LET call == [Peek(cur.callStack) EXCEPT !.outcome = outcome, !.end = ordinal + 1]
                 IN  /\ ordinal' = ordinal + 1
                     /\ cur' = [cur EXCEPT !.callStack = Pop(@),
                                           !.trx.calls = Append(@, call)]
                     /\ UNCHANGED <<block, inSystemCall, interrupted>>)
-----------------------------------------------------------------------------
(* State changes, logs, opcodes, preimages                                 *)
(*                                                                         *)
(* A change that changes nothing, and a balance change for no known        *)
(* reason, returns before any check: the tracer stutters.                  *)

(* An entry goes to the active call, or is deferred to the root call.      *)
Attached(k, e) ==
    LET call == Peek(cur.callStack)
    IN  IF HasActiveCall(cur.callStack)
        THEN [cur EXCEPT !.callStack = OnTop(@, [call EXCEPT !.lists = Add(call.lists, k, e)])]
        ELSE [cur EXCEPT !.deferred = Add(@, k, e)]

(* Balance changes, and code changes other than those of a destruction,    *)
(* belong to the block when no transaction is in progress.                 *)
OnBlockOrTrxChange(k, data) ==
    Ensured(InTrx \/ block.open,
            LET change == Change(ordinal + 1, data)
            IN  /\ ordinal' = ordinal + 1
                /\ IF InTrx THEN cur' = Attached(k, change) /\ UNCHANGED block
                   ELSE /\ block' = [block EXCEPT !.changes = Add(@, k, change)]
                        /\ UNCHANGED cur
                /\ UNCHANGED <<inSystemCall, interrupted>>)

OnBalanceChange(data) == OnBlockOrTrxChange("balance", data)

(* `cleared` is a change from some code to none: geth reports one for a    *)
(* self-destruction, which is ignored while the destroyed call is active.  *)
OnCodeChange(data, cleared) ==
    IF /\ InTrx
       /\ HasActiveCall(cur.callStack)
       /\ Peek(cur.callStack).suicide
       /\ cleared
    THEN UNCHANGED tracerVars
    ELSE OnBlockOrTrxChange("code", data)

(* Nonce and storage changes.                                              *)
OnTrxChange(k, data) ==
    Ensured(block.open /\ InTrx,
            /\ ordinal' = ordinal + 1
            /\ cur' = Attached(k, Change(ordinal + 1, data))
            /\ UNCHANGED <<block, inSystemCall, interrupted>>)

OnNonceChange(data) == OnTrxChange("nonce", data)

OnStorageChange(data) == OnTrxChange("storage", data)

OnLog(data, blockIndex) ==
    Ensured(block.open /\ InTrx,
            LET log == [ord |-> ordinal + 1, data |-> data,
                        index |-> cur.logIndex, blockIndex |-> blockIndex]
            IN  /\ ordinal' = ordinal + 1
                /\ cur' = [Attached("log", log) EXCEPT !.logIndex = @ + 1]
                /\ UNCHANGED <<block, inSystemCall, interrupted>>)

(* OnOpcode and, with failed, OnOpcodeFault.                               *)
OnOpcode(selfdestruct, failed) ==
    LET call    == Peek(cur.callStack)
        suicide == call.suicide \/ (selfdestruct /\ ~failed)
    IN  /\ cur' = IF HasActiveCall(cur.callStack)
                  THEN [cur EXCEPT !.callStack =
                           OnTop(@, [call EXCEPT !.executed = TRUE, !.suicide = suicide])]
                  ELSE cur
        /\ UNCHANGED <<block, ordinal, inSystemCall, interrupted, panicked>>

(* The preimage is small enough to be recorded.                            *)
OnKeccakPreimage(data) ==
    Ensured(block.open /\ InTrx /\ HasActiveCall(cur.callStack),
            /\ cur' = [cur EXCEPT !.preimages =
                          Append(@, [call |-> Peek(cur.callStack).index, data |-> data])]
            /\ UNCHANGED <<block, ordinal, inSystemCall, interrupted>>)
-----------------------------------------------------------------------------
(* Types                                                                   *)

Receipts == {NoReceipt} \cup [status : {"ok", "failed"}, logs : Seq(Entry)]

Trx == [open : BOOLEAN, id : Nat, begin : Nat, end : Nat, calls : Seq(Call),
        status : {"unknown", "ok", "failed", "reverted"}, receipt : Receipts,
        stateReverted : SUBSET Nat]

TrxState == [trx : Trx, logIndex : Nat, preimages : Seq([call : Nat, data : Data]),
             callStack : CallStack, deferred : [Lists -> Seq(Entry)], suicided : BOOLEAN]

Blocks == [open : BOOLEAN, traces : Seq(Trx), systemCalls : Seq(Call),
           changes : [Lists -> Seq(Entry)]]

TracerTypeOK ==
    /\ block \in Blocks
    /\ ordinal \in Nat
    /\ cur \in TrxState
    /\ inSystemCall \in BOOLEAN
    /\ interrupted \in Seq(TrxState) /\ Len(interrupted) <= 1
    /\ panicked \in BOOLEAN
-----------------------------------------------------------------------------
(* The facts a tracer has recorded, wherever it keeps them                 *)

Fact(ord, what, data) == [ord |-> ord, what |-> what, data |-> data]

ListFacts(lists) == UNION {{Fact(e.ord, k, e.data) : e \in ToSet(lists[k])} : k \in Lists}

CallFacts(c) ==
    {Fact(c.begin, "enter", c.data)} \cup ListFacts(c.lists)
      \cup (IF c.outcome = "open" THEN {} ELSE {Fact(c.end, "exit", c.data)})

CallsFacts(calls) == UNION {CallFacts(c) : c \in ToSet(calls)}

TrxFacts(trx) ==
    LET data == [by |-> trx.id, sys |-> FALSE, frame |-> 0]
    IN  CallsFacts(trx.calls)
          \cup (IF trx.begin = 0 THEN {} ELSE {Fact(trx.begin, "begin", data)})
          \cup (IF trx.end = 0 THEN {} ELSE {Fact(trx.end, "end", data)})

StateFacts(s) == TrxFacts(s.trx) \cup CallsFacts(s.callStack.stack) \cup ListFacts(s.deferred)

RecordedFacts ==
    (UNION {TrxFacts(trx) : trx \in ToSet(block.traces)})
      \cup CallsFacts(block.systemCalls) \cup ListFacts(block.changes)
      \cup StateFacts(cur) \cup (UNION {StateFacts(s) : s \in ToSet(interrupted)})
=============================================================================
