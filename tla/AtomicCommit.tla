---------------------------- MODULE AtomicCommit ----------------------------
(***************************************************************************)
(* What committing transactions traced in parallel promises: the block     *)
(* grows by one whole transaction at a time, which takes the ordinals      *)
(* right after the last one used, as many as it has.                       *)
(***************************************************************************)
EXTENDS Naturals, Sequences

CONSTANTS Tracers, Attempts, MaxLength

VARIABLES open,
          clock,    \* the last ordinal used
          block,    \* the committed transactions
          waiting   \* those whose commit was asked for

atomicVars == <<open, clock, block, waiting>>

AtomicInit == open = FALSE /\ clock = 0 /\ block = <<>> /\ waiting = {}

Start == ~open /\ open' = TRUE /\ UNCHANGED <<clock, block, waiting>>

Finish == open /\ waiting = {} /\ open' = FALSE /\ clock' = 0 /\ block' = <<>> /\ UNCHANGED waiting

(* An ordinal for something that is not a committed transaction.           *)
Own == open /\ clock' = clock + 1 /\ UNCHANGED <<open, block, waiting>>

Ask(w, n, length) ==
    /\ open
    /\ \A x \in waiting : x.of # w
    /\ \A i \in DOMAIN block : block[i].of = w => block[i].attempt < n
    /\ waiting' = waiting \cup {[of |-> w, attempt |-> n, length |-> length]}
    /\ UNCHANGED <<open, clock, block>>

Commit ==
    \E x \in waiting :
        /\ block' = Append(block, [of |-> x.of, attempt |-> x.attempt,
                                   begin |-> clock + 1, end |-> clock + x.length])
        /\ clock' = clock + x.length
        /\ waiting' = waiting \ {x}
        /\ UNCHANGED open

AtomicNext ==
    \/ Start \/ Finish \/ Own \/ Commit
    \/ \E w \in Tracers, n \in Attempts, length \in 2..MaxLength : Ask(w, n, length)

AtomicSpec == AtomicInit /\ [][AtomicNext]_atomicVars

AtomicFairness == WF_atomicVars(Commit)
=============================================================================
