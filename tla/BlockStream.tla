----------------------------- MODULE BlockStream -----------------------------
(***************************************************************************)
(* What the output stream promises a reader: an init line, then the lines  *)
(* of the blocks handed over, whole, in order and without gaps.  Only the  *)
(* last line may still be incomplete.                                      *)
(***************************************************************************)
EXTENDS Naturals, Sequences

CONSTANTS Lines,        \* numbers of the lines, 0 for the init line
          LineLength

VARIABLES output,       \* the bytes written, each with the line it is of
          pending,      \* the bytes handed over and not yet written
          closed        \* a close has returned

streamVars == <<output, pending, closed>>

StreamInit == output = <<>> /\ pending = <<>> /\ closed = FALSE

Bytes(l) == [i \in 1..LineLength |-> [line |-> l, byte |-> i]]

Hand(l) ==
    /\ closed => l = 0
    /\ l = IF output \o pending = <<>> THEN 0
           ELSE (output \o pending)[Len(output \o pending)].line + 1
    /\ pending' = pending \o Bytes(l)
    /\ UNCHANGED <<output, closed>>

Write(n) ==
    /\ output' = output \o SubSeq(pending, 1, n)
    /\ pending' = SubSeq(pending, n + 1, Len(pending))
    /\ UNCHANGED closed

(* A close waits for the blocks; the init line is not its business.        *)
Close ==
    /\ \A i \in DOMAIN pending : pending[i].line = 0
    /\ closed' = TRUE /\ UNCHANGED <<output, pending>>

StreamNext ==
    \/ \E l \in Lines : Hand(l)
    \/ \E n \in 1..LineLength : n <= Len(pending) /\ Write(n)
    \/ Close

StreamSpec == StreamInit /\ [][StreamNext]_streamVars
=============================================================================
