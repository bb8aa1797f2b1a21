------------------------------ MODULE HookOrder ------------------------------
(***************************************************************************)
(* A tracer whose hooks are called in any order, with any arguments: what  *)
(* holds of a trace before the tracer panics even if the node misuses it.  *)
(***************************************************************************)
EXTENDS Tracer

CONSTANTS TrxIds, ReceiptChoices,  \* arguments to choose from
          MaxOrdinal,              \* bound: ordinals given out in a block
          MaxPreimages             \* bound: preimages recorded

ASSUME ArgumentsAssumption == TrxIds \subseteq Nat /\ ReceiptChoices \subseteq Receipts

HookInit == TracerInit

Room == ordinal < MaxOrdinal

BlockHooks ==
    \/ OnBlockStart
    \/ \E err \in BOOLEAN : OnBlockEnd(err)
    \/ OnSkippedBlock

TrxHooks ==
    \/ \E id \in TrxIds : Room /\ OnTxStart(id)
    \/ \E receipt \in ReceiptChoices : Room /\ OnTxEnd(receipt)
    \/ OnSystemCallStart
    \/ OnSystemCallEnd

CallHooks ==
    \/ \E depth \in 0..1, d \in Data : Room /\ OnCallEnter(depth, d)
    \/ OnCallEnterUnspecified
    \/ \E outcome \in Outcomes \ {"open"} : Room /\ OnCallExit(outcome)
    \/ OnSelfDestructEnter
    \/ \E failed \in BOOLEAN : OnOpcode(TRUE, failed)

ChangeHooks ==
    \E d \in Data :
        \/ Room /\ OnBalanceChange(d)
        \/ Room /\ OnNonceChange(d)
        \/ \E cleared \in BOOLEAN : Room /\ OnCodeChange(d, cleared)
        \/ Room /\ OnStorageChange(d)
        \/ Room /\ OnLog(d, 0)
        \/ Len(cur.preimages) < MaxPreimages /\ OnKeccakPreimage(d)

(* Nothing runs after a panic.                                             *)
HookNext == ~panicked /\ (BlockHooks \/ TrxHooks \/ CallHooks \/ ChangeHooks)

HookSpec == HookInit /\ [][HookNext]_tracerVars
-----------------------------------------------------------------------------
(* No ordinal of a block is ever given to two facts, and none is ahead of  *)
(* the counter: whatever is called when, two records of a block can be put *)
(* in order.                                                               *)
OrdinalsUnique ==
    \A f, g \in RecordedFacts : f.ord <= ordinal /\ (f.ord = g.ord => f = g)

(* The open calls form one branch of the call tree, also those of a        *)
(* transaction that was set aside: each is the parent of the next, one     *)
(* deeper, and numbered after it.                                          *)
OpenCallsAreBranch ==
    IsBranch(cur.callStack) /\ \A i \in DOMAIN interrupted : IsBranch(interrupted[i].callStack)
=============================================================================
