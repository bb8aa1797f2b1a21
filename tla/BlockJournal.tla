---------------------------- MODULE BlockJournal ----------------------------
(***************************************************************************)
(* What a traced block promises, with no tracer in sight: a journal of     *)
(* facts.  Everything the node does while it processes a block is noted    *)
(* once, under the next ordinal, with who did it: which transaction or     *)
(* system call, and which of its call frames.  A fact noted is never lost  *)
(* and never changed, except that a dropped transaction takes its own      *)
(* facts with it.                                                          *)
(***************************************************************************)
EXTENDS Naturals, Sequences

CONSTANTS Ids,      \* identities of transactions and system calls
          Kinds     \* kinds of state changes, and "log"

VARIABLES open,      \* a block is being processed
          clock,     \* the last ordinal given out
          contexts,  \* what is running, each interrupting the one before it
          facts

journalVars == <<open, clock, contexts, facts>>

Top == contexts[Len(contexts)]
Running == contexts # <<>>

(* Who speaks: the innermost frame of the innermost context.               *)
Speaker(c) ==
    [by |-> c.id, sys |-> c.sys,
     frame |-> IF c.frames = <<>> THEN 0 ELSE c.frames[Len(c.frames)]]

Nobody == [by |-> 0, sys |-> FALSE, frame |-> 0]

JournalInit ==
    /\ open = FALSE
    /\ clock = 0
    /\ contexts = <<>>
    /\ facts = {}

Note(what, data) ==
    /\ open
    /\ clock' = clock + 1
    /\ facts' = facts \cup {[ord |-> clock + 1, what |-> what, data |-> data]}
    /\ UNCHANGED open

Open == ~open /\ open' = TRUE /\ UNCHANGED <<clock, contexts, facts>>

Close ==
    /\ open
    /\ open' = FALSE /\ clock' = 0 /\ contexts' = <<>> /\ facts' = {}

Fresh(id, sys) == [id |-> id, sys |-> sys, frames |-> <<>>, entered |-> 0]

Unused(id) == /\ \A f \in facts : f.data.by # id
              /\ \A i \in DOMAIN contexts : contexts[i].id # id

BeginTrx(id) ==
    /\ ~Running /\ Unused(id)
    /\ contexts' = <<Fresh(id, FALSE)>>
    /\ Note("begin", Speaker(Fresh(id, FALSE)))

EndTrx ==
    /\ Running /\ ~Top.sys /\ Top.frames = <<>>
    /\ contexts' = <<>>
    /\ Note("end", Speaker(Top))

Forget ==
    /\ Running /\ ~Top.sys /\ Top.frames = <<>>
    /\ contexts' = <<>>
    /\ facts' = {f \in facts : f.data.by # Top.id}
    /\ UNCHANGED <<open, clock>>

BeginSystemCall(id) ==
    /\ open /\ (Running => ~Top.sys) /\ Unused(id)
    /\ contexts' = Append(contexts, Fresh(id, TRUE))
    /\ UNCHANGED <<open, clock, facts>>

EndSystemCall ==
    /\ Running /\ Top.sys /\ Top.frames = <<>>
    /\ contexts' = SubSeq(contexts, 1, Len(contexts) - 1)
    /\ UNCHANGED <<open, clock, facts>>

Enter ==
    /\ Running
    /\ LET entered == [Top EXCEPT !.entered = @ + 1,
                                  !.frames  = Append(@, Top.entered + 1)]
       IN  /\ contexts' = [contexts EXCEPT ![Len(contexts)] = entered]
           /\ Note("enter", Speaker(entered))

Exit ==
    /\ Running /\ Top.frames # <<>>
    /\ contexts' = [contexts EXCEPT ![Len(contexts)].frames = SubSeq(@, 1, Len(@) - 1)]
    /\ Note("exit", Speaker(Top))

Emit(k) ==
    /\ UNCHANGED contexts
    /\ Note(k, IF Running THEN Speaker(Top) ELSE Nobody)

JournalNext ==
    \/ Open \/ Close
    \/ \E id \in Ids : BeginTrx(id) \/ BeginSystemCall(id)
    \/ EndTrx \/ Forget \/ EndSystemCall
    \/ Enter \/ Exit
    \/ \E k \in Kinds : Emit(k)

JournalSpec == JournalInit /\ [][JournalNext]_journalVars
=============================================================================
