---------------------------- MODULE MCTracedBlock ----------------------------
(* The kinds of bounded client, and the payloads they choose.              *)
EXTENDS TracedBlock

MCData == [by : 0..MaxContexts, sys : BOOLEAN, frame : 0..MaxFrames]

(* One transaction at a time, its calls logging and ending in any way.     *)
LoggingCalls ==
    [inFrame |-> {"log"}, outsideTrx |-> {}, outsideSys |-> {}, inBlock |-> {}, behaviours |-> {},
     ordinals |-> 11, contexts |-> 1, frames |-> 4, roots |-> 1]

(* What opcodes do to the call they run in, self-destruction above all.    *)
Opcodes ==
    [inFrame |-> {"storage"}, outsideTrx |-> {"storage"}, outsideSys |-> {}, inBlock |-> {},
     behaviours |-> {"self-destruct", "preimage"},
     ordinals |-> 7, contexts |-> 2, frames |-> 2, roots |-> 1]

(* Opcodes that fail, in calls that set code.                              *)
Faults ==
    [inFrame |-> {"code"}, outsideTrx |-> {"storage"}, outsideSys |-> {}, inBlock |-> {},
     behaviours |-> {"fault"}, ordinals |-> 7, contexts |-> 2, frames |-> 2, roots |-> 1]

(* System calls around and inside transactions, and whatever is given up.  *)
Interruptions ==
    [inFrame |-> {"log"}, outsideTrx |-> {}, outsideSys |-> {}, inBlock |-> {},
     behaviours |-> {"no call", "no receipt", "failing block"},
     ordinals |-> 9, contexts |-> 3, frames |-> 2, roots |-> 1]

(* Changes around the calls of a transaction with several roots.     *)
DeferredChanges ==
    [inFrame |-> {"balance", "log"}, outsideTrx |-> {"balance", "nonce", "log"}, outsideSys |-> {},
     inBlock |-> {"balance", "code"}, behaviours |-> {},
     ordinals |-> 8, contexts |-> 2, frames |-> 2, roots |-> 2]

(* A transaction that makes no call.                                       *)
Transfers ==
    [inFrame |-> {}, outsideTrx |-> {"balance"}, outsideSys |-> {}, inBlock |-> {},
     behaviours |-> {"no call"}, ordinals |-> 6, contexts |-> 1, frames |-> 1, roots |-> 1]

MCProfiles == {LoggingCalls, Opcodes, Faults, Interruptions, DeferredChanges}
MCTransfers == {Transfers}
=============================================================================
