------------------------------ MODULE MCCompletion ------------------------------
(* Two steps of completeTransaction that share no state: each is explored  *)
(* with the other idle.  For the filter, words are two decimal digits, the *)
(* hashes are 20, 42 and 64, and they explain the word above them too.     *)
EXTENDS KeccakFilter, SetCodeAuth

(* Nested mappings, deeper than the limit; a key before the slot, and a    *)
(* preimage that is too long; a hash found on two levels.                  *)
MCHashings ==
    {[h \in Hashes |-> CASE h = 20 -> <<0, 1>> [] h = 42 -> <<0, 7, 2, 0>> [] h = 64 -> <<0, 7, 4, 2>>],
     [h \in Hashes |-> CASE h = 20 -> <<0, 1>> [] h = 42 -> <<9, 2, 1>> [] h = 64 -> <<2, 0, 4, 2, 0, 0>>],
     [h \in Hashes |-> CASE h = 20 -> <<5>> [] h = 42 -> <<2, 0>> [] h = 64 -> <<2, 1, 4, 3>>]}

MCInit == FilterInit /\ AuthInit

AuthIdle == stage = "none" /\ UNCHANGED authVars

(* Under one of the hashings: to authorizations they are all the same.     *)
FilterIdle ==
    /\ preimageOf = CHOOSE hashing \in Hashings : TRUE
    /\ phase = "running" /\ recorded = {} /\ \A c \in Calls : stored[c] = {}
    /\ UNCHANGED filterVars

MCNext ==
    \/ AuthIdle /\ FilterNext
    \/ FilterIdle /\ AuthNext

MCSpec == MCInit /\ [][MCNext]_<<filterVars, authVars>>
=============================================================================
