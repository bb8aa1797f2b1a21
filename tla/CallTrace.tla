------------------------------ MODULE CallTrace ------------------------------
(***************************************************************************)
(* The data a tracer builds for one transaction or system call: the call   *)
(* stack that numbers the calls (callstack.go), the state changes parked   *)
(* while no call is active (deferred_call_state.go), and the passes        *)
(* completeTransaction runs over the calls when the transaction ends       *)
(* (tracer.go).  Everything here is an operator on values; the module      *)
(* Tracer holds the state.                                                 *)
(*                                                                         *)
(* Addresses, balances, topics, code and gas are abstracted to one payload *)
(* `data` that the EVM client chooses: it says who emitted the record.     *)
(***************************************************************************)
EXTENDS Naturals, Sequences, FiniteSets, SequencesExt

CONSTANTS Data,                \* payloads, with the emitter's frame number (0: no call active)
          HasNeverRevertedLog  \* Config.IsNeverRevertedLog is set

ASSUME ConfigAssumption == HasNeverRevertedLog \in BOOLEAN
-----------------------------------------------------------------------------
(* The lists a call (or the deferred state) keeps, each in emission order. *)
Lists == {"balance", "nonce", "code", "storage", "log"}

(* One element of a list.  Only logs use index and blockIndex.             *)
Entry == [ord : Nat, data : Data, index : Nat, blockIndex : Nat]

Change(ord, data) == [ord |-> ord, data |-> data, index |-> 0, blockIndex |-> 0]

NoEntries == [k \in Lists |-> <<>>]

Add(lists, k, e) == [lists EXCEPT ![k] = Append(@, e)]

(* "open" until OnCallExit: then the call succeeded, failed, or failed     *)
(* with one of the errors the model of the trace calls reverted.           *)
Outcomes == {"open", "ok", "failed", "reverted"}

Call == [index : Nat, parent : Nat, depth : Nat, begin : Nat, end : Nat,
         outcome : Outcomes, suicide : BOOLEAN, executed : BOOLEAN,
         data : Data, lists : [Lists -> Seq(Entry)], preimages : SUBSET Data]

NewCall(begin, data) ==
    [index |-> 0, parent |-> 0, depth |-> 0, begin |-> begin, end |-> 0,
     outcome |-> "open", suicide |-> FALSE, executed |-> FALSE,
     data |-> data, lists |-> NoEntries, preimages |-> {}]
-----------------------------------------------------------------------------
(* callstack.go *)

CallStack == [stack : Seq(Call), index : Nat, depth : Nat]

NewCallStack == [stack |-> <<>>, index |-> 0, depth |-> 0]

HasActiveCall(cs) == cs.stack # <<>>

Peek(cs) == cs.stack[Len(cs.stack)]

(* Mutants of Push: the last call numbered taken for the one on top; the   *)
(* depth is not counted up, which Pop counts down.                         *)
PushUnderLast(cs, call) ==
    [stack |-> Append(cs.stack,
                      [call EXCEPT !.index = cs.index + 1, !.depth = cs.depth, !.parent = cs.index]),
     index |-> cs.index + 1,
     depth |-> cs.depth + 1]

PushKeepsDepth(cs, call) ==
    [stack |-> Append(cs.stack,
                      [call EXCEPT !.index  = cs.index + 1,
                                   !.depth  = cs.depth,
                                   !.parent = IF HasActiveCall(cs) THEN Peek(cs).index ELSE 0]),
     index |-> cs.index + 1,
     depth |-> cs.depth]

(* Numbers the call, places it under the top of the stack and pushes it.   *)
Push(cs, call) ==
    [stack |-> Append(cs.stack,
                      [call EXCEPT !.index  = cs.index + 1,
                                   !.depth  = cs.depth,
                                   !.parent = IF HasActiveCall(cs) THEN Peek(cs).index ELSE 0]),
     index |-> cs.index + 1,
     depth |-> cs.depth + 1]

(* Mutant of Pop: the depth stays.                                         *)
PopKeepsDepth(cs) == [cs EXCEPT !.stack = Front(@)]

Pop(cs) ==
    [stack |-> Front(cs.stack), index |-> cs.index, depth |-> cs.depth - 1]

(* The hooks modify the call on top of the stack in place.                 *)
OnTop(cs, call) == [cs EXCEPT !.stack[Len(cs.stack)] = call]

(* The open calls form one branch of the call tree: each is the parent of  *)
(* the next, one deeper, and numbered after it.                            *)
IsBranch(cs) ==
    /\ cs.depth = Len(cs.stack)
    /\ \A i \in DOMAIN cs.stack :
         /\ cs.stack[i].depth = i - 1
         /\ cs.stack[i].index <= cs.index
         /\ cs.stack[i].parent = IF i = 1 THEN 0 ELSE cs.stack[i - 1].index
         /\ i > 1 => cs.stack[i - 1].index < cs.stack[i].index
-----------------------------------------------------------------------------
(* deferred_call_state.go *)

HasCallOnlyChanges(deferred) == deferred["log"] # <<>> \/ deferred["storage"] # <<>>

(* Source "enter": what happened before the root call goes first ...       *)
PopulateOnEnter(deferred, call) ==
    [call EXCEPT !.lists = [k \in Lists |-> deferred[k] \o @[k]]]

(* ... and source "root": what happened after it goes last.                *)
PopulateOnRoot(deferred, call) ==
    [call EXCEPT !.lists = [k \in Lists |-> @[k] \o deferred[k]]]
-----------------------------------------------------------------------------
(* The passes of completeTransaction, in the order it runs them.           *)

(* slices.SortFunc, on a set of elements that all differ in their key: the *)
(* i-th has i elements up to itself.                                       *)
InOrder(S, key) ==
    [i \in 1..Cardinality(S) |->
        CHOOSE e \in S : Cardinality({d \in S : key[d] <= key[e]}) = i]

(* The calls come in the order of their exits; the trace wants the order   *)
(* of their entries.                                                       *)
SortedByIndex(calls) == InOrder(ToSet(calls), [c \in ToSet(calls) |-> c.index])

(* Mutant of AttachPreimages: to every call.                               *)
AttachPreimagesEverywhere(calls, recorded) ==
    IF \A i \in DOMAIN calls : calls[i].lists["storage"] = <<>> THEN calls
    ELSE [i \in DOMAIN calls |->
            [calls[i] EXCEPT !.preimages = @ \cup {r.data : r \in ToSet(recorded)}]]

(* attachStorageSlotPreimages, for a transaction whose hashes and storage  *)
(* keys all belong to one slot derivation: with a storage change anywhere  *)
(* in the calls every recorded hash explains it, without one none does.    *)
AttachPreimages(calls, recorded) ==
    IF \A i \in DOMAIN calls : calls[i].lists["storage"] = <<>>
    THEN calls
    ELSE [i \in DOMAIN calls |->
            [calls[i] EXCEPT !.preimages =
                @ \cup {r.data : r \in {s \in ToSet(recorded) : s.call = calls[i].index}}]]

(* populateStateReverted looks parents up by number, out of range is a     *)
(* runtime panic.                                                          *)
ParentsInRange(calls) == \A i \in DOMAIN calls : calls[i].parent <= Len(calls)

(* Mutant of StateReverted: the parent's verdict is not inherited.         *)
StateRevertedAlone(calls) == {i \in DOMAIN calls : calls[i].outcome \in {"failed", "reverted"}}

(* One pass in index order: the parent's verdict is read as it stands when *)
(* the child is reached, so only a parent placed earlier can count.        *)
StateReverted(calls) ==
    LET reverted[i \in DOMAIN calls] ==
            \/ calls[i].outcome \in {"failed", "reverted"}
            \/ calls[i].parent \in 1..(i - 1) /\ reverted[calls[i].parent]
    IN  {i \in DOMAIN calls : reverted[i]}

(* The one chain policy known: logs emitted while no call was active.      *)
IsNeverRevertedLog(log) == HasNeverRevertedLog /\ log.data.frame = 0

RemoveLogBlockIndex(calls, reverted) ==
    [i \in DOMAIN calls |->
        IF i \notin reverted THEN calls[i]
        ELSE [calls[i] EXCEPT !.lists["log"] =
                [j \in DOMAIN @ |-> IF IsNeverRevertedLog(@[j]) THEN @[j]
                                    ELSE [@[j] EXCEPT !.blockIndex = 0]]]]

(* Mutant of SurvivingLogs: logs of reverted calls survive.                *)
SurvivingLogsAll(calls, reverted) ==
    LET logs == UNION {ToSet(calls[i].lists["log"]) : i \in DOMAIN calls}
    IN  InOrder(logs, [l \in logs |-> l.ord])

(* The logs that made it into the state, in emission order.                *)
SurvivingLogs(calls, reverted) ==
    LET logs == UNION {{l \in ToSet(calls[i].lists["log"]) :
                           i \in reverted => IsNeverRevertedLog(l)} : i \in DOMAIN calls}
    IN  InOrder(logs, [l \in logs |-> l.ord])

(* assignOrdinalAndIndexToReceiptLogs panics unless the two lists of logs  *)
(* agree in number and, log by log, in block index ...                     *)
LogsMatch(callLogs, receiptLogs) ==
    /\ Len(callLogs) = Len(receiptLogs)
    /\ \A i \in DOMAIN callLogs : callLogs[i].blockIndex = receiptLogs[i].blockIndex

(* Mutant of AssignToReceiptLogs: numbers them itself.                     *)
AssignToReceiptLogsByPosition(callLogs, receiptLogs) ==
    [i \in DOMAIN receiptLogs |->
        [receiptLogs[i] EXCEPT !.ord = callLogs[i].ord, !.index = i - 1]]

(* ... and gives the receipt logs the ordinal and index of the call logs.  *)
AssignToReceiptLogs(callLogs, receiptLogs) ==
    [i \in DOMAIN receiptLogs |->
        [receiptLogs[i] EXCEPT !.ord = callLogs[i].ord, !.index = callLogs[i].index]]
=============================================================================
