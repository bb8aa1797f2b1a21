----------------------------- MODULE TracedBlock -----------------------------
(***************************************************************************)
(* A tracer and the EVM client (the node) that drives it.  The client is   *)
(* not part of the repository: it is modelled from how the hooks are meant *)
(* to be called, the way go-ethereum and the chains the hooks name call    *)
(* them.  It runs blocks of transactions and system calls made of nested   *)
(* call frames, keeps the logs of the block in a journal that a failing    *)
(* frame truncates, and hands each transaction's remaining logs over in    *)
(* its receipt.                                                            *)
(***************************************************************************)
EXTENDS Tracer

CONSTANTS Profiles,    \* the kinds of client, see Profile
          MaxContexts, \* bound: transactions and system calls in a block
          MaxFrames    \* bound: call frames in one of them

(* What a kind of client does and how much of it: the lists it adds to     *)
(* inside a call frame, in a transaction or system call around its calls,  *)
(* and in a block outside of both; what else it may do (see Behaves); and  *)
(* its own bounds, with those on the ordinals given out in a block and on  *)
(* the frames at depth 0 of a context.                                     *)
Profile == [inFrame : SUBSET Lists, outsideTrx : SUBSET Lists, outsideSys : SUBSET Lists,
            inBlock : SUBSET {"balance", "code"}, behaviours : SUBSET STRING,
            ordinals : Nat, contexts : Nat, frames : Nat, roots : Nat]

ASSUME ClientAssumption ==
    /\ Profiles \subseteq Profile
    /\ MaxContexts \in Nat
    /\ MaxFrames \in Nat \ {0}
    /\ [by : 0..MaxContexts, sys : BOOLEAN, frame : 0..MaxFrames] \subseteq Data

VARIABLES evm,      \* the client
          profile   \* what kind of client it is

vars == <<block, ordinal, cur, inSystemCall, interrupted, panicked, evm, profile>>

(* "failing block", "no receipt", "no call", "self-destruct", "fault",     *)
(* "preimage".                                                             *)
Behaves(b) == b \in profile.behaviours

(* started: contexts begun in the block; running: the open ones, the last  *)
(* interrupting the one before it; logs: the live logs of the block;       *)
(* destructing: between the enter and the exit of a SELFDESTRUCT.          *)
EvmAtRest == [started |-> 0, running |-> <<>>, logs |-> <<>>, destructing |-> FALSE]

(* frames: the open frames, each with its number and the length of the log *)
(* journal when it was entered.                                            *)
NewContext(id, sys, mark) ==
    [id |-> id, sys |-> sys, frames |-> <<>>, entered |-> 0, roots |-> 0, mark |-> mark]

Init == TracerInit /\ evm = EvmAtRest /\ profile \in Profiles
-----------------------------------------------------------------------------
Running == evm.running # <<>>
Top == Last(evm.running)
InFrameNow == Running /\ Top.frames # <<>>
Frame == Last(Top.frames)

(* The payload of what happens now.                                        *)
Now == IF ~Running THEN [by |-> 0, sys |-> FALSE, frame |-> 0]
       ELSE [by |-> Top.id, sys |-> Top.sys, frame |-> IF InFrameNow THEN Frame.number ELSE 0]

Truncate(logs, n) == SubSeq(logs, 1, IF n < Len(logs) THEN n ELSE Len(logs))

WithTop(c) == [evm EXCEPT !.running[Len(evm.running)] = c]

(* Ordinals still needed to close what is open, a transaction after at     *)
(* least one call.                                                         *)
Unrooted(c) == ~c.sys /\ c.roots = 0
Pending == LET Owed(c) == Len(c.frames) + (IF c.sys THEN 0 ELSE 1) + (IF Unrooted(c) THEN 2 ELSE 0)
           IN  CASE Len(evm.running) = 0 -> 0
                 [] Len(evm.running) = 1 -> Owed(evm.running[1])
                 [] OTHER                -> Owed(evm.running[1]) + Owed(evm.running[2])

Room(n) == ordinal + n + Pending <= profile.ordinals

Idle == ~panicked /\ ~evm.destructing
-----------------------------------------------------------------------------
StartBlock == Idle /\ ~block.open /\ OnBlockStart /\ UNCHANGED evm

EndBlock == Idle /\ block.open /\ ~Running /\ OnBlockEnd(FALSE) /\ evm' = EvmAtRest

FailBlock == Idle /\ block.open /\ Behaves("failing block") /\ OnBlockEnd(TRUE) /\ evm' = EvmAtRest

SkipBlock == Idle /\ ~block.open /\ OnSkippedBlock /\ UNCHANGED evm

NextId == evm.started + 1

MayBegin == NextId <= MaxContexts /\ NextId <= profile.contexts

Begin(sys) == evm' = [evm EXCEPT !.started = NextId,
                                 !.running = Append(@, NewContext(NextId, sys, Len(evm.logs)))]

StartTrx ==
    /\ Idle /\ block.open /\ ~Running /\ Room(4) /\ MayBegin
    /\ Begin(FALSE)
    /\ OnTxStart(NextId)

StartSystemCall ==
    /\ Idle /\ block.open /\ MayBegin
    /\ Running => ~Top.sys
    /\ Begin(TRUE)
    /\ OnSystemCallStart

EndSystemCall ==
    /\ Idle /\ Running /\ Top.sys /\ ~InFrameNow
    /\ evm' = [evm EXCEPT !.running = Front(@)]
    /\ OnSystemCallEnd

(* The receipt holds the transaction's live logs as the client knows them. *)
Receipt(status) ==
    LET own  == {i \in DOMAIN evm.logs : evm.logs[i].data.by = Top.id}
        logs == InOrder(own, [i \in own |-> i])
    IN  [status |-> status,
         logs   |-> [j \in DOMAIN logs |->
                       LET l == evm.logs[logs[j]]
                       IN  [ord |-> 0, index |-> 0, data |-> l.data, blockIndex |-> l.blockIndex]]]

EndTrx ==
    /\ Idle /\ Running /\ ~Top.sys /\ ~InFrameNow
    /\ Top.roots = 0 => Behaves("no call")
    /\ evm' = [evm EXCEPT !.running = <<>>]
    /\ \E status \in {"ok", "failed"} : OnTxEnd(Receipt(status))

(* The client gives up on the transaction and undoes it.                   *)
EndTrxWithoutReceipt ==
    /\ Idle /\ Running /\ ~Top.sys /\ ~InFrameNow /\ Behaves("no receipt")
    /\ evm' = [evm EXCEPT !.running = <<>>, !.logs = Truncate(@, Top.mark)]
    /\ OnTxEnd(NoReceipt)
-----------------------------------------------------------------------------
EnterCall ==
    /\ Idle /\ Running /\ Top.entered < MaxFrames /\ Top.entered < profile.frames
    /\ Unrooted(Top) \/ Room(2)
    /\ ~InFrameNow => Top.roots < profile.roots
    /\ LET n == Top.entered + 1
       IN  /\ evm' = WithTop([Top EXCEPT
                        !.entered = n,
                        !.roots   = IF InFrameNow THEN @ ELSE @ + 1,
                        !.frames  = Append(@, [number |-> n, mark |-> Len(evm.logs)])])
           /\ OnCallEnter(Len(Top.frames), [Now EXCEPT !.frame = n])

(* A failing frame takes the logs emitted since it was entered with it.    *)
ExitCall(outcome) ==
    /\ Idle /\ InFrameNow
    /\ evm' = [WithTop([Top EXCEPT !.frames = Front(@)]) EXCEPT
                  !.logs = IF outcome = "ok" THEN @ ELSE Truncate(@, Frame.mark)]
    /\ OnCallExit(outcome)

(* The opcode, then an enter and an exit at once.                          *)
SelfDestruct ==
    /\ Idle /\ InFrameNow /\ Behaves("self-destruct") /\ OnOpcode(TRUE, FALSE) /\ UNCHANGED evm

EnterSelfDestruct ==
    /\ Idle /\ InFrameNow /\ Behaves("self-destruct") /\ Peek(cur.callStack).suicide
    /\ evm' = [evm EXCEPT !.destructing = TRUE]
    /\ OnSelfDestructEnter

ExitSelfDestruct ==
    /\ ~panicked /\ evm.destructing
    /\ evm' = [evm EXCEPT !.destructing = FALSE]
    /\ OnCallExit("ok")

FaultingOpcode ==
    /\ Idle /\ InFrameNow /\ Behaves("fault") /\ OnOpcode(TRUE, TRUE) /\ UNCHANGED evm

ClearCode ==
    /\ Idle /\ InFrameNow /\ Behaves("self-destruct") /\ Room(1)
    /\ OnCodeChange(Now, TRUE) /\ UNCHANGED evm

KeccakPreimage ==
    /\ Idle /\ InFrameNow /\ Behaves("preimage")
    /\ Now \notin {cur.preimages[i].data : i \in DOMAIN cur.preimages}
    /\ OnKeccakPreimage(Now) /\ UNCHANGED evm

(* What may change where the client stands.                                *)
MayEmit(k) == k \in CASE InFrameNow -> profile.inFrame
                      [] ~Running -> profile.inBlock
                      [] Top.sys  -> profile.outsideSys
                      [] OTHER    -> profile.outsideTrx

Changes ==
    /\ Idle /\ block.open /\ Room(1) /\ UNCHANGED evm
    /\ \/ MayEmit("balance") /\ OnBalanceChange(Now)
       \/ MayEmit("nonce")   /\ OnNonceChange(Now)
       \/ MayEmit("code")    /\ OnCodeChange(Now, FALSE)
       \/ MayEmit("storage") /\ OnStorageChange(Now)

(* The block index of a log is the number of live logs before it.          *)
Logs ==
    /\ Idle /\ block.open /\ Room(1) /\ MayEmit("log")
    /\ evm' = [evm EXCEPT !.logs = Append(@, [data |-> Now, blockIndex |-> Len(evm.logs)])]
    /\ OnLog(Now, Len(evm.logs))

Step ==
    \/ StartBlock \/ EndBlock \/ FailBlock \/ SkipBlock
    \/ StartTrx \/ EndTrx \/ EndTrxWithoutReceipt
    \/ StartSystemCall \/ EndSystemCall
    \/ EnterCall \/ \E outcome \in {"ok", "failed", "reverted"} : ExitCall(outcome)
    \/ SelfDestruct \/ EnterSelfDestruct \/ ExitSelfDestruct \/ FaultingOpcode
    \/ ClearCode \/ KeccakPreimage \/ Changes \/ Logs

Next == Step /\ UNCHANGED profile

Spec == Init /\ [][Next]_vars
-----------------------------------------------------------------------------
Contexts ==
    [id : 1..MaxContexts, sys : BOOLEAN, entered : 0..MaxFrames, roots : Nat, mark : Nat,
     frames : Seq([number : 1..MaxFrames, mark : Nat])]

Clients == [started : Nat, running : Seq(Contexts), destructing : BOOLEAN,
            logs : Seq([data : Data, blockIndex : Nat])]

TypeOK == TracerTypeOK /\ evm \in Clients
-----------------------------------------------------------------------------
Journal == INSTANCE BlockJournal WITH
    Ids <- 1..MaxContexts,
    Kinds <- Lists,
    open <- block.open,
    clock <- ordinal,
    contexts <- [i \in DOMAIN evm.running |->
                    LET c == evm.running[i]
                    IN  [id |-> c.id, sys |-> c.sys, entered |-> c.entered,
                         frames |-> [j \in DOMAIN c.frames |-> c.frames[j].number]]],
    facts <- RecordedFacts

(* The tracer keeps the journal of what the client does: each hook records *)
(* one fact, under the next ordinal and in the name of the frame that was  *)
(* running, and none is lost, altered or repeated when calls are sorted,   *)
(* deferred changes moved or transactions set aside and resumed.           *)
ImplementsJournal == Journal!JournalSpec
-----------------------------------------------------------------------------
(* Safety                                                                  *)

(* A client that keeps to the order of the hooks never makes the tracer    *)
(* panic, whatever it interleaves and whichever of its calls fail.         *)
NoPanic == ~panicked

ClosedCalls ==
    (UNION {ToSet(trx.calls) : trx \in ToSet(block.traces)}) \cup ToSet(block.systemCalls)

(* Each list of a call is in the order things happened, also after         *)
(* deferred changes were put in front of it or behind it.                  *)
Chronology ==
    \A c \in ClosedCalls, k \in Lists :
        \A i, j \in DOMAIN c.lists[k] : i < j => c.lists[k][i].ord < c.lists[k][j].ord

SameContext(d, e) == d.by = e.by /\ d.sys = e.sys

(* Every change, log and preimage sits in the call whose frame made it, or *)
(* in a root call if made outside of all, of the context it belongs to.    *)
Attributed ==
    /\ \A c \in ClosedCalls :
         /\ \A k \in Lists : \A e \in ToSet(c.lists[k]) :
              e.data = c.data \/ (SameContext(e.data, c.data) /\ e.data.frame = 0 /\ c.depth = 0)
         /\ c.preimages \subseteq {c.data}
    /\ \A trx \in ToSet(block.traces) : \A c \in ToSet(trx.calls) :
         c.data.by = trx.id /\ ~c.data.sys
    /\ \A c \in ToSet(block.systemCalls) : c.data.sys

(* Index, parent and depth of the calls of one context are those of the    *)
(* tree that their ordinals draw.                                          *)
IsCallTree(calls) ==
    \A c \in calls :
        LET around == {p \in calls : p.begin < c.begin /\ c.begin < p.end}
        IN  /\ c.begin < c.end
            /\ \A p \in around : c.end < p.end
            /\ c.index = Cardinality({d \in calls : d.begin <= c.begin})
            /\ c.depth = Cardinality(around)
            /\ IF around = {} THEN c.parent = 0
               ELSE \E p \in around : /\ c.parent = p.index
                                      /\ \A q \in around : q.begin <= p.begin

CallTrees ==
    /\ \A trx \in ToSet(block.traces) :
         /\ IsCallTree(ToSet(trx.calls))
         /\ \A i \in DOMAIN trx.calls : trx.calls[i].index = i
    /\ \A d \in {c.data.by : c \in ToSet(block.systemCalls)} :
         IsCallTree({c \in ToSet(block.systemCalls) : c.data.by = d})

(* A call's state is reverted exactly when a call around it, or itself,    *)
(* failed.                                                                 *)
RevertedExactly ==
    \A trx \in ToSet(block.traces) :
        trx.stateReverted =
            {i \in DOMAIN trx.calls : \E f \in ToSet(trx.calls) :
                /\ f.outcome \in {"failed", "reverted"}
                /\ f.begin <= trx.calls[i].begin /\ trx.calls[i].end <= f.end}

(* The i-th receipt log carries the ordinal and index of the very log the  *)
(* client put there, not just of one with the same block index.            *)
ReceiptLogsFaithful ==
    \A trx \in ToSet(block.traces) : trx.calls # <<>> =>
        LET logs == trx.receipt.logs
            emitted == UNION {ToSet(c.lists["log"]) : c \in ToSet(trx.calls)}
        IN  \A i \in DOMAIN logs :
                /\ logs[i] \in emitted
                /\ \A j \in DOMAIN logs : i < j => logs[i].ord < logs[j].ord

(* The logs of a transaction, reverted ones included, are numbered from 0  *)
(* in the order they were emitted, across any interruption.                *)
LogIndexesDense ==
    \A trx \in ToSet(block.traces) :
        LET emitted == UNION {ToSet(c.lists["log"]) : c \in ToSet(trx.calls)}
        IN  \A l \in emitted : l.index = Cardinality({m \in emitted : m.ord < l.ord})

(* Nothing of a transaction or a block is left for the next one to find.   *)
NothingLeftBehind ==
    /\ ~InTrx => cur = FreshState /\ ~inSystemCall /\ interrupted = <<>>
    /\ ~block.open => block = NoBlock /\ ordinal = 0 /\ ~InTrx

(* README.md: all state changes are recorded, with their ordinals.         *)
AllRecorded == {f.ord : f \in RecordedFacts} = 1..ordinal
=============================================================================
