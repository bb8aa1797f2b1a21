----------------------------- MODULE FlashSequence -----------------------------
(***************************************************************************)
(* What flash blocks promise, without lists, prefixes and ordinals to      *)
(* restore: a block is one sequence of items.  The iterations of a block   *)
(* number are emitted one after the other, and each one starts from a copy *)
(* of what the one before it had kept, if it had kept anything.            *)
(***************************************************************************)
EXTENDS Integers, Sequences

CONSTANTS Kinds,     \* of items, see FlashBlocks
          Width(_),  \* the ordinals an item of a kind takes
          Numbers,   \* block numbers
          Indexes,   \* flash block indexes
          NoIndex,   \* for a regular block
          Nothing

VARIABLES kept,     \* what the next iteration starts from
          current   \* the block being built

vars == <<kept, current>>

SequenceInit == kept = Nothing /\ current = Nothing

Clock(items) == IF items = <<>> THEN 0 ELSE items[Len(items)].last

(* An iteration may not repeat or go behind the index of what it starts    *)
(* from; one of another block number does away with it.                    *)
Begin(number, index) ==
    LET resumes == index # NoIndex /\ kept # Nothing /\ kept.number = number
    IN  /\ current = Nothing
        /\ resumes => index > kept.index
        /\ current' = [number |-> number, index |-> index,
                       items |-> IF resumes THEN kept.items ELSE <<>>]
        /\ kept' = IF index # NoIndex /\ ~resumes THEN Nothing ELSE kept

Do(kind) ==
    /\ current # Nothing
    /\ LET clock == Clock(current.items)
       IN  current' = [current EXCEPT !.items = Append(@,
               [kind |-> kind, number |-> current.number, index |-> current.index,
                first |-> clock + 1, last |-> clock + Width(kind)])]
    /\ UNCHANGED kept

Keep == current # Nothing /\ current.index # NoIndex /\ kept' = current /\ UNCHANGED current

Emit == current # Nothing /\ current' = Nothing /\ UNCHANGED kept

(* An iteration that fails takes what was kept with it.                    *)
Abandon ==
    /\ current # Nothing
    /\ kept' = IF current.index # NoIndex THEN Nothing ELSE kept
    /\ current' = Nothing

(* OnSkippedBlock: an iteration without items of its own.                  *)
BeginAndEmit(number, index) ==
    /\ current = Nothing /\ UNCHANGED current
    /\ IF index # NoIndex /\ kept # Nothing /\ kept.number = number
       THEN index > kept.index /\ UNCHANGED kept
       ELSE kept' = IF index # NoIndex THEN Nothing ELSE kept

SequenceNext ==
    \/ \E number \in Numbers, index \in Indexes \cup {NoIndex} :
          Begin(number, index) \/ BeginAndEmit(number, index)
    \/ \E kind \in Kinds : Do(kind)
    \/ Keep \/ Emit \/ Abandon

SequenceSpec == SequenceInit /\ [][SequenceNext]_vars
=============================================================================
