----------------------------- MODULE MCFlashBlocks -----------------------------
(* Two kinds of node: one whose blocks have items, and one that moves      *)
(* through block numbers and finality, around the edges of both.           *)
EXTENDS FlashBlocks

MCNodes ==
    {[numbers |-> {1, 2}, indexes |-> {0, 1, 2}, finalized |-> {0}, final |-> {FALSE}, ordinals |-> 3],
     [numbers |-> {0, 2, 3, 5}, indexes |-> {0, 1, 4}, finalized |-> {0, 1, 2, 4}, final |-> BOOLEAN,
      ordinals |-> 0]}
=============================================================================
