----------------------------- MODULE MCHookOrder -----------------------------
(* One payload from inside a frame; a missing, an empty and a one-log      *)
(* receipt.                                                                *)
EXTENDS HookOrder

MCData == {[by |-> 1, sys |-> FALSE, frame |-> 1]}

MCReceipts ==
    {NoReceipt, [status |-> "ok", logs |-> <<>>]}
      \cup {[status |-> "failed", logs |-> <<[ord |-> 0, index |-> 0, blockIndex |-> 0, data |-> d]>>] :
              d \in MCData}
=============================================================================
