------------------------- MODULE ParallelCommitProofs -------------------------
(***************************************************************************)
(* Commits of transactions traced in parallel, for any number of isolated  *)
(* tracers, goroutines, executions and ordinals: commitMutex is held by    *)
(* one goroutine at a time, and if each transaction is committed once and  *)
(* traces no system call, commits are atomic, leave no gap in the ordinals *)
(* and lose no execution.                                                  *)
(***************************************************************************)
EXTENDS ParallelCommit, FiniteSetTheorems, SequenceTheorems, TLAPS

(* What the findings CommitTwice and IsolatedSystemCall show to be needed. *)
Disciplined == Contenders = {} /\ SystemCallers = {}

Inside == {"locked", "rebased", "appended", "set"}

(* A goroutine inside OnTxCommit works for one isolated tracer; those      *)
(* behind Lock and before the end of Unlock are those that hold the mutex. *)
MutexInv ==
    /\ TypeOK
    /\ \A c \in Committers : (committer[c].pc = "outside") = (committer[c].of = None)
    /\ \A c \in Committers : (committer[c].pc \in Inside) = (mutex = c)
-----------------------------------------------------------------------------
(* The ordinals from lo to hi are lo, those of the changes and those of    *)
(* the logs, and hi, each once.                                            *)
Tight(changes, logs, lo, hi) ==
    /\ hi = lo + Len(changes) + Len(logs) + 1
    /\ \A i \in 1..Len(changes) : lo < changes[i] /\ changes[i] < hi
    /\ \A i \in 1..Len(logs) : lo < logs[i] /\ logs[i] < hi
    /\ \A i, j \in 1..Len(changes) : changes[i] = changes[j] => i = j
    /\ \A i, j \in 1..Len(logs) : logs[i] = logs[j] => i = j
    /\ \A i \in 1..Len(changes), j \in 1..Len(logs) : changes[i] # logs[j]
    /\ \A n \in (lo + 1)..(hi - 1) : \/ \E i \in 1..Len(changes) : changes[i] = n
                                     \/ \E i \in 1..Len(logs) : logs[i] = n

(* A transaction that has ended, on the ordinals behind base.              *)
Ended(t, w, n, base) ==
    /\ t.of = w /\ t.attempt = n /\ t.begin = base + 1
    /\ t.receipt \in {<<>>, t.logs}
    /\ Len(t.changes) + Len(t.logs) <= MaxMarks
    /\ Tight(t.changes, t.logs, t.begin, t.end)

(* An isolated tracer in each of its phases.                               *)
LocalOK(w) ==
    LET t == iso[w]
    IN  /\ t.attempt <= MaxAttempts
        /\ phase[w] = "none" => t = NewIsolated
        /\ phase[w] = "idle" => t.ordinal = 0 /\ t.transient = NoTrace /\ t.dropped = FALSE
        /\ phase[w] \in {"running", "ended", "done"} => t.attempt >= 1
        /\ phase[w] = "running" =>
             /\ t.trx.of = w /\ t.trx.attempt = t.attempt /\ t.trx.begin = 1 /\ t.trx.end = 0
             /\ t.trx.receipt = <<>> /\ t.dropped = FALSE /\ t.transient = NoTrace
             /\ Len(t.trx.changes) + Len(t.trx.logs) <= MaxMarks
             /\ Tight(t.trx.changes, t.trx.logs, 1, t.ordinal + 1)
        /\ phase[w] = "ended" =>
             IF t.dropped = TRUE THEN t.trx.end = 0 /\ t.transient = NoTrace
             ELSE t.trx.end > 0 /\ Ended(t.trx, w, t.attempt, 0) /\ t.transient = t.trx
        /\ phase[w] = "done" =>
             t.dropped = FALSE /\ (t.trx.end > 0 => Ended(t.trx, w, t.attempt, 0))

(* A goroutine inside OnTxCommit.                                          *)
CommitOK(c) ==
    LET w == committer[c].of
        t == iso[w]
        pc == committer[c].pc
    IN  pc # "outside" =>
            /\ phase[w] = "done" /\ t.trx.end > 0
            /\ pc \in {"checked", "locked"} => t.transient = t.trx
            /\ pc = "locked" => committer[c].base = ordinal
            /\ pc \in {"rebased", "appended"} => t.transient = Rebased(t.trx, ordinal)
            /\ pc = "appended" => traces # <<>> /\ traces[Len(traces)] = t.transient

LocalInv ==
    /\ \A w \in Isolated : LocalOK(w)
    /\ \A c \in Committers : CommitOK(c)
    /\ \A c, d \in Committers :
         committer[c].pc # "outside" /\ committer[c].of = committer[d].of => c = d
    /\ open = FALSE =>
         ordinal = 0 /\ traces = <<>> /\ own = {} /\ \A w \in Isolated : phase[w] = "none"
    /\ panicked = FALSE
-----------------------------------------------------------------------------
Appending == \E c \in Committers : committer[c].pc = "appended"

(* The last ordinal the block uses.                                        *)
LastUsed == IF Appending THEN traces[Len(traces)].end ELSE ordinal

(* The transactions of the block and what the coordinator traced itself    *)
(* share its ordinals out among them.                                      *)
LayoutInv ==
    /\ \A i \in DOMAIN traces :
         /\ traces[i].of \in Isolated /\ traces[i].begin >= 1
         /\ Ended(traces[i], traces[i].of, traces[i].attempt, traces[i].begin - 1)
         /\ traces[i].end <= LastUsed
    /\ \A i, j \in DOMAIN traces : i < j => traces[i].end < traces[j].begin
    /\ \A n \in own : 1 <= n /\ n <= ordinal
    /\ \A n \in own, i \in DOMAIN traces : n < traces[i].begin \/ traces[i].end < n
    /\ \A n \in 1..LastUsed :
         n \in own \/ \E i \in DOMAIN traces : traces[i].begin <= n /\ n <= traces[i].end

(* The last execution of w is not in the block yet, or will not be.        *)
Absent(w) ==
    \/ phase[w] \in {"running", "ended"}
    \/ phase[w] = "done" /\ iso[w].trx.end = 0
    \/ \E c \in Committers :
         committer[c].of = w /\ committer[c].pc \in {"checked", "locked", "rebased"}

(* Executions come into the block in their order, and the last one when    *)
(* its commit is done.                                                     *)
LandedInv ==
    \A w \in Isolated :
        /\ \A i \in DOMAIN traces : traces[i].of = w =>
             traces[i].attempt <= iso[w].attempt /\ (Absent(w) => traces[i].attempt < iso[w].attempt)
        /\ phase[w] = "done" /\ ~Absent(w) =>
             \E i \in DOMAIN traces : traces[i].of = w /\ traces[i].attempt = iso[w].attempt
-----------------------------------------------------------------------------
(* Types                                                                   *)

(* A record as the tracers start from has its type.                        *)
LEMMA NewTyped == NoTrace \in TraceType /\ NewIsolated \in IsoType
<1>1. <<>> \in Seq(Nat) /\ {} \in SUBSET Nat
  OBVIOUS
<1>2. NoTrace \in TraceType
  BY <1>1 DEF NoTrace, TraceType, Ordinals
<1> QED BY <1>1, <1>2 DEF NewIsolated, IsoType

(* Rebasing keeps a list as long and adds the base to each of its ordinals. *)
LEMMA ShiftTyped ==
    ASSUME NEW ords \in Seq(Nat), NEW base \in Nat
    PROVE  /\ Shift(ords, base) \in Seq(Nat) /\ Len(Shift(ords, base)) = Len(ords)
           /\ DOMAIN Shift(ords, base) = DOMAIN ords
           /\ \A i \in DOMAIN ords : Shift(ords, base)[i] = ords[i] + base
<1> DEFINE n == Len(ords)
<1>1. n \in Nat /\ DOMAIN ords = 1..n /\ \A i \in 1..n : ords[i] + base \in Nat
  OBVIOUS
<1>2. Shift(ords, base) = [i \in 1..n |-> ords[i] + base]
  BY <1>1 DEF Shift
<1> HIDE DEF n
<1>3. Shift(ords, base) \in Seq(Nat) /\ Len(Shift(ords, base)) = n
  BY <1>1, <1>2
<1> QED BY <1>1, <1>2, <1>3 DEF n

(* What reorderTransactionOrdinals makes of a transaction.                 *)
LEMMA RebasedTyped ==
    ASSUME NEW t \in TraceType, NEW base \in Nat
    PROVE  /\ Rebased(t, base) \in TraceType
           /\ Rebased(t, base).of = t.of /\ Rebased(t, base).attempt = t.attempt
           /\ Rebased(t, base).begin = t.begin + base /\ Rebased(t, base).end = t.end + base
           /\ Rebased(t, base).changes = Shift(t.changes, base)
           /\ Rebased(t, base).logs = Shift(t.logs, base)
           /\ Rebased(t, base).receipt = Shift(t.receipt, base)
<1> DEFINE changes == Shift(t.changes, base)
           logs    == Shift(t.logs, base)
           receipt == Shift(t.receipt, base)
<1>1. /\ changes \in Seq(Nat) /\ logs \in Seq(Nat) /\ receipt \in Seq(Nat)
      /\ t.begin + base \in Nat /\ t.end + base \in Nat
  BY ShiftTyped DEF TraceType, Ordinals
<1>2. Rebased(t, base) = [t EXCEPT !.begin = t.begin + base, !.changes = changes, !.logs = logs,
                                   !.receipt = receipt, !.end = t.end + base]
  BY DEF Rebased
<1> HIDE DEF changes, logs, receipt
<1>3. /\ Rebased(t, base) \in TraceType
      /\ Rebased(t, base).of = t.of /\ Rebased(t, base).attempt = t.attempt
      /\ Rebased(t, base).begin = t.begin + base /\ Rebased(t, base).end = t.end + base
      /\ Rebased(t, base).changes = changes /\ Rebased(t, base).logs = logs
      /\ Rebased(t, base).receipt = receipt
  BY <1>1, <1>2 DEF TraceType, Ordinals
<1> QED BY <1>3 DEF changes, logs, receipt

(* An isolated tracer replaced, the others as they were.                   *)
LEMMA UpdateTyped ==
    ASSUME TypeOK, NEW w \in Isolated, NEW t \in IsoType, Update(w, t)
    PROVE  /\ iso' \in [Isolated -> IsoType] /\ iso'[w] = t
           /\ \A v \in Isolated : v # w => iso'[v] = iso[v]
BY DEF TypeOK, Update

(* How far the node is changes for one tracer only.                        *)
LEMMA MoveTyped ==
    ASSUME TypeOK, NEW w \in Isolated, NEW from, NEW to \in Phases, Move(w, from, to)
    PROVE  /\ panicked = FALSE /\ phase[w] \in from
           /\ phase' \in [Isolated -> Phases] /\ phase'[w] = to
           /\ \A v \in Isolated : v # w => phase'[v] = phase[v]
BY DEF TypeOK, Move
-----------------------------------------------------------------------------
(* What each action makes of the tracer, the goroutine or the coordinator  *)
(* it belongs to                                                           *)

(* A step of w's goroutine leaves the others alone.                        *)
Apace(w) ==
    /\ iso' \in [Isolated -> IsoType] /\ phase' \in [Isolated -> Phases]
    /\ \A v \in Isolated : v # w => iso'[v] = iso[v] /\ phase'[v] = phase[v]
    /\ panicked = FALSE
    /\ UNCHANGED <<open, ordinal, traces, mutex, committer, panicked>>

(* A spawned tracer is new.                                                *)
LEMMA SpawnStep ==
    ASSUME TypeOK, NEW w \in Isolated, OnTxSpawn(w)
    PROVE  /\ Apace(w) /\ UNCHANGED own /\ open = TRUE
           /\ phase[w] = "none" /\ phase'[w] = "idle" /\ iso'[w] = NewIsolated
<1>1. Update(w, NewIsolated) /\ Move(w, {"none"}, "idle")
  BY DEF OnTxSpawn, Update
<1>2. "idle" \in Phases
  BY DEF Phases
<1>3. open = TRUE /\ UNCHANGED <<open, ordinal, traces, own, mutex, committer, panicked>>
  BY DEF OnTxSpawn, TypeOK
<1>4. Apace(w) /\ phase[w] = "none" /\ phase'[w] = "idle" /\ iso'[w] = NewIsolated
  BY <1>1, <1>2, <1>3, NewTyped, UpdateTyped, MoveTyped, ZenonT(60) DEF Apace
<1> QED BY <1>3, <1>4

(* An execution that starts takes the first of its local ordinals.         *)
LEMMA StartStep ==
    ASSUME TypeOK, NEW w \in Isolated, OnTxStart(w)
    PROVE  /\ Apace(w) /\ UNCHANGED own
           /\ phase[w] = "idle" /\ phase'[w] = "running" /\ iso[w].attempt < MaxAttempts
           /\ iso'[w].attempt = iso[w].attempt + 1 /\ iso'[w].ordinal = iso[w].ordinal + 1
           /\ iso'[w].transient = iso[w].transient /\ iso'[w].dropped = iso[w].dropped
           /\ iso'[w].trx.of = w /\ iso'[w].trx.attempt = iso[w].attempt + 1
           /\ iso'[w].trx.begin = iso[w].ordinal + 1 /\ iso'[w].trx.end = 0
           /\ iso'[w].trx.changes = <<>> /\ iso'[w].trx.logs = <<>> /\ iso'[w].trx.receipt = <<>>
<1> DEFINE trx == [NoTrace EXCEPT !.of = w, !.attempt = iso[w].attempt + 1,
                                  !.begin = iso[w].ordinal + 1]
           t == [iso[w] EXCEPT !.attempt = iso[w].attempt + 1, !.ordinal = iso[w].ordinal + 1,
                               !.trx = trx]
<1>1. /\ iso[w] \in IsoType /\ iso[w].attempt + 1 \in Nat /\ iso[w].ordinal + 1 \in Nat
      /\ "running" \in Phases
  BY DEF TypeOK, IsoType, Phases
<1>2. /\ trx \in TraceType /\ trx.of = w /\ trx.attempt = iso[w].attempt + 1
      /\ trx.begin = iso[w].ordinal + 1 /\ trx.end = 0
      /\ trx.changes = <<>> /\ trx.logs = <<>> /\ trx.receipt = <<>>
  <2>1. NoTrace \in TraceType /\ NoTrace.end = 0
        /\ NoTrace.changes = <<>> /\ NoTrace.logs = <<>> /\ NoTrace.receipt = <<>>
    BY NewTyped DEF NoTrace
  <2> QED BY <1>1, <2>1 DEF TraceType
<1>3. Update(w, t) /\ Move(w, {"idle"}, "running")
  BY <1>1 DEF OnTxStart, Update, IsoType
<1> HIDE DEF trx
<1>4. /\ t \in IsoType /\ t.attempt = iso[w].attempt + 1 /\ t.ordinal = iso[w].ordinal + 1
      /\ t.trx = trx /\ t.transient = iso[w].transient /\ t.dropped = iso[w].dropped
  BY <1>1, <1>2 DEF IsoType
<1> HIDE DEF t
<1>5. /\ iso' \in [Isolated -> IsoType] /\ iso'[w] = t
      /\ \A v \in Isolated : v # w => iso'[v] = iso[v]
  BY <1>3, <1>4, UpdateTyped
<1>6. Apace(w) /\ phase[w] = "idle" /\ phase'[w] = "running"
  BY <1>1, <1>3, <1>5, MoveTyped DEF OnTxStart, Apart, Apace
<1> QED BY <1>2, <1>4, <1>5, <1>6 DEF OnTxStart

(* A reset forgets the execution, not how many there were, and waits for   *)
(* the commit to return.                                                   *)
LEMMA ResetStep ==
    ASSUME TypeOK, NEW w \in Isolated, OnTxReset(w)
    PROVE  /\ Apace(w) /\ UNCHANGED own
           /\ phase[w] \in {"running", "ended", "done"} /\ phase'[w] = "idle"
           /\ \A c \in Committers : committer[c].of # w
           /\ iso'[w].attempt = iso[w].attempt /\ iso'[w].ordinal = 0
           /\ iso'[w].trx = NoTrace /\ iso'[w].transient = NoTrace /\ iso'[w].dropped = FALSE
<1> DEFINE t == [iso[w] EXCEPT !.trx = NoTrace, !.transient = NoTrace, !.dropped = FALSE,
                               !.ordinal = 0]
<1>1. iso[w] \in IsoType /\ "idle" \in Phases
  BY DEF TypeOK, Phases
<1>2. Update(w, t) /\ Move(w, {"running", "ended", "done"}, "idle")
  BY DEF OnTxReset
<1>3. /\ t \in IsoType /\ t.attempt = iso[w].attempt /\ t.ordinal = 0
      /\ t.trx = NoTrace /\ t.transient = NoTrace /\ t.dropped = FALSE
  BY <1>1, NewTyped DEF IsoType
<1> HIDE DEF t
<1>4. /\ iso' \in [Isolated -> IsoType] /\ iso'[w] = t
      /\ \A v \in Isolated : v # w => iso'[v] = iso[v]
  BY <1>2, <1>3, UpdateTyped
<1>5. Apace(w) /\ phase[w] \in {"running", "ended", "done"} /\ phase'[w] = "idle"
  BY <1>1, <1>2, <1>4, MoveTyped DEF OnTxReset, Apart, Apace
<1> QED BY <1>3, <1>4, <1>5 DEF OnTxReset

(* Whatever a running execution records, one change or log at the next     *)
(* local ordinal.                                                          *)
LEMMA ChangeStep ==
    ASSUME TypeOK, NEW w \in Isolated, OnChange(w)
    PROVE  /\ Apace(w) /\ UNCHANGED own
           /\ phase[w] = "running" /\ phase'[w] = "running"
           /\ Len(iso[w].trx.changes) + Len(iso[w].trx.logs) < MaxMarks
           /\ iso'[w] = [iso[w] EXCEPT !.ordinal = iso'[w].ordinal, !.trx = iso'[w].trx]
           /\ iso'[w].ordinal = iso[w].ordinal + 1
           /\ iso'[w].trx = [iso[w].trx EXCEPT !.changes =
                               Append(iso[w].trx.changes, iso[w].ordinal + 1)]
<1> DEFINE trx == [iso[w].trx EXCEPT !.changes = Append(iso[w].trx.changes, iso[w].ordinal + 1)]
           t == [iso[w] EXCEPT !.ordinal = iso[w].ordinal + 1, !.trx = trx]
<1>1. iso[w] \in IsoType /\ iso[w].trx \in TraceType /\ iso[w].ordinal + 1 \in Nat
  BY DEF TypeOK, IsoType
<1>2. Append(iso[w].trx.changes, iso[w].ordinal + 1) \in Seq(Nat)
  BY <1>1 DEF TraceType, Ordinals
<1>3. trx \in TraceType
  BY <1>1, <1>2 DEF TraceType, Ordinals
<1>4. Update(w, t)
  BY <1>1 DEF OnChange, Update, IsoType, TraceType
<1> HIDE DEF trx
<1>5. /\ t \in IsoType /\ t = [iso[w] EXCEPT !.ordinal = t.ordinal, !.trx = t.trx]
      /\ t.ordinal = iso[w].ordinal + 1 /\ t.trx = trx
  BY <1>1, <1>3 DEF IsoType
<1> HIDE DEF t
<1>6. /\ iso' \in [Isolated -> IsoType] /\ iso'[w] = t
      /\ \A v \in Isolated : v # w => iso'[v] = iso[v]
  BY <1>4, <1>5, UpdateTyped
<1>7. Apace(w) /\ phase' = phase /\ phase[w] = "running"
  BY <1>6 DEF OnChange, Emitting, Apart, Apace, TypeOK
<1> QED BY <1>5, <1>6, <1>7 DEF OnChange, Emitting, trx

(* A log takes the next ordinal of its execution.                          *)
LEMMA LogStep ==
    ASSUME TypeOK, NEW w \in Isolated, OnLog(w)
    PROVE  /\ Apace(w) /\ UNCHANGED own
           /\ phase[w] = "running" /\ phase'[w] = "running"
           /\ Len(iso[w].trx.changes) + Len(iso[w].trx.logs) < MaxMarks
           /\ iso'[w] = [iso[w] EXCEPT !.ordinal = iso'[w].ordinal, !.trx = iso'[w].trx]
           /\ iso'[w].ordinal = iso[w].ordinal + 1
           /\ iso'[w].trx = [iso[w].trx EXCEPT !.logs =
                               Append(iso[w].trx.logs, iso[w].ordinal + 1)]
<1> DEFINE trx == [iso[w].trx EXCEPT !.logs = Append(iso[w].trx.logs, iso[w].ordinal + 1)]
           t == [iso[w] EXCEPT !.ordinal = iso[w].ordinal + 1, !.trx = trx]
<1>1. iso[w] \in IsoType /\ iso[w].trx \in TraceType /\ iso[w].ordinal + 1 \in Nat
  BY DEF TypeOK, IsoType
<1>2. Append(iso[w].trx.logs, iso[w].ordinal + 1) \in Seq(Nat)
  BY <1>1 DEF TraceType, Ordinals
<1>3. trx \in TraceType
  BY <1>1, <1>2 DEF TraceType, Ordinals
<1>4. Update(w, t)
  BY <1>1 DEF OnLog, Update, IsoType, TraceType
<1> HIDE DEF trx
<1>5. /\ t \in IsoType /\ t = [iso[w] EXCEPT !.ordinal = t.ordinal, !.trx = t.trx]
      /\ t.ordinal = iso[w].ordinal + 1 /\ t.trx = trx
  BY <1>1, <1>3 DEF IsoType
<1> HIDE DEF t
<1>6. /\ iso' \in [Isolated -> IsoType] /\ iso'[w] = t
      /\ \A v \in Isolated : v # w => iso'[v] = iso[v]
  BY <1>4, <1>5, UpdateTyped
<1>7. Apace(w) /\ phase' = phase /\ phase[w] = "running"
  BY <1>6 DEF OnLog, Emitting, Apart, Apace, TypeOK
<1> QED BY <1>5, <1>6, <1>7 DEF OnLog, Emitting, trx

(* A recorded preimage uses no ordinal.                                    *)
LEMMA PreimageStep ==
    ASSUME TypeOK, NEW w \in Isolated, OnKeccakPreimage(w)
    PROVE  /\ Apace(w) /\ UNCHANGED own
           /\ phase[w] = "running" /\ phase'[w] = "running"
           /\ iso'[w] = [iso[w] EXCEPT !.preimages = iso'[w].preimages]
<1> DEFINE t == [iso[w] EXCEPT !.preimages = iso[w].preimages \cup {iso[w].attempt}]
<1>1. iso[w] \in IsoType
  BY DEF TypeOK
<1>2. Update(w, t)
  BY <1>1 DEF OnKeccakPreimage, Update, IsoType
<1>3. t \in IsoType /\ t = [iso[w] EXCEPT !.preimages = t.preimages]
  BY <1>1 DEF IsoType
<1> HIDE DEF t
<1>4. /\ iso' \in [Isolated -> IsoType] /\ iso'[w] = t
      /\ \A v \in Isolated : v # w => iso'[v] = iso[v]
  BY <1>2, <1>3, UpdateTyped
<1>5. Apace(w) /\ phase' = phase /\ phase[w] = "running"
  BY <1>4 DEF OnKeccakPreimage, Emitting, Apart, Apace, TypeOK
<1> QED BY <1>3, <1>4, <1>5 DEF OnKeccakPreimage

(* A system call in a transaction touches the tracer and the shared block. *)
LEMMA SystemCallStep ==
    ASSUME TypeOK, NEW w \in Isolated, SystemCall(w)
    PROVE  Apace(w) /\ phase' = phase /\ own' \in SUBSET Nat
<1> DEFINE t == [iso[w] EXCEPT !.ordinal = iso[w].ordinal + 2]
<1>1. iso[w] \in IsoType /\ iso[w].ordinal + 1 \in Nat /\ iso[w].ordinal + 2 \in Nat
  BY DEF TypeOK, IsoType
<1>2. Update(w, t) /\ t \in IsoType
  BY <1>1 DEF SystemCall, Update, IsoType
<1>3. Apace(w)
  BY <1>2, UpdateTyped DEF SystemCall, Emitting, Apart, Apace, TypeOK
<1> QED BY <1>1, <1>3 DEF SystemCall, Emitting, TypeOK

(* An execution that ends is dropped, or closed one ordinal further and    *)
(* kept for the commit.                                                    *)
LEMMA EndStep ==
    ASSUME TypeOK, NEW w \in Isolated, NEW receipt \in BOOLEAN, OnTxEnd(w, receipt)
    PROVE  /\ Apace(w) /\ UNCHANGED own
           /\ phase[w] = "running" /\ phase'[w] = "ended"
           /\ iso'[w].attempt = iso[w].attempt
           /\ \/ iso'[w].trx = iso[w].trx /\ iso'[w].transient = iso[w].transient
                 /\ iso'[w].dropped = TRUE
              \/ /\ iso'[w].transient = iso'[w].trx /\ iso'[w].dropped = iso[w].dropped
                 /\ iso'[w].trx.of = iso[w].trx.of /\ iso'[w].trx.attempt = iso[w].trx.attempt
                 /\ iso'[w].trx.begin = iso[w].trx.begin
                 /\ iso'[w].trx.end = iso[w].ordinal + 1
                 /\ iso'[w].trx.changes = iso[w].trx.changes
                 /\ iso'[w].trx.logs = iso[w].trx.logs
                 /\ iso'[w].trx.receipt \in {<<>>, iso[w].trx.logs}
<1> DEFINE trace == [iso[w].trx EXCEPT !.receipt   = IF receipt THEN iso[w].trx.logs ELSE <<>>,
                                       !.preimages = iso[w].preimages,
                                       !.end       = iso[w].ordinal + 1]
           kept == [iso[w] EXCEPT !.ordinal = iso[w].ordinal + 1, !.trx = trace,
                                  !.transient = trace, !.preimages = {}]
           dropped == [iso[w] EXCEPT !.dropped = TRUE]
<1>1. /\ iso[w] \in IsoType /\ iso[w].trx \in TraceType /\ iso[w].ordinal + 1 \in Nat
      /\ iso[w].preimages \in SUBSET Nat /\ {} \in SUBSET Nat /\ "ended" \in Phases
  BY DEF TypeOK, IsoType, Phases
<1>2. (IF receipt THEN iso[w].trx.logs ELSE <<>>) \in Seq(Nat)
      /\ (IF receipt THEN iso[w].trx.logs ELSE <<>>) \in {<<>>, iso[w].trx.logs}
  BY <1>1 DEF TraceType, Ordinals
<1>3. /\ trace \in TraceType /\ trace.of = iso[w].trx.of /\ trace.attempt = iso[w].trx.attempt
      /\ trace.begin = iso[w].trx.begin /\ trace.end = iso[w].ordinal + 1
      /\ trace.changes = iso[w].trx.changes /\ trace.logs = iso[w].trx.logs
      /\ trace.receipt \in {<<>>, iso[w].trx.logs}
  BY <1>1, <1>2 DEF TraceType, Ordinals
<1>4. Update(w, IF ~receipt /\ DropTransactionsWithoutReceipt THEN dropped ELSE kept)
      /\ Move(w, {"running"}, "ended")
  BY <1>1 DEF OnTxEnd, Update, IsoType
<1> HIDE DEF trace
<1>5. /\ kept \in IsoType /\ kept.attempt = iso[w].attempt /\ kept.trx = trace
      /\ kept.transient = trace /\ kept.dropped = iso[w].dropped
  BY <1>1, <1>3 DEF IsoType
<1>6. /\ dropped \in IsoType /\ dropped.attempt = iso[w].attempt /\ dropped.trx = iso[w].trx
      /\ dropped.transient = iso[w].transient /\ dropped.dropped = TRUE
  BY <1>1 DEF IsoType
<1> HIDE DEF kept, dropped
<1>7. PICK t \in {kept, dropped} : Update(w, t)
  BY <1>4
<1>8. /\ iso' \in [Isolated -> IsoType] /\ iso'[w] = t
      /\ \A v \in Isolated : v # w => iso'[v] = iso[v]
  BY <1>5, <1>6, <1>7, UpdateTyped
<1>9. Apace(w) /\ phase[w] = "running" /\ phase'[w] = "ended"
  BY <1>1, <1>4, <1>8, MoveTyped DEF OnTxEnd, Apart, Apace
<1> QED BY <1>3, <1>5, <1>6, <1>8, <1>9 DEF OnTxEnd
-----------------------------------------------------------------------------
(* A step of a goroutine that commits leaves the other ones alone.         *)
CommitterType == [pc : Labels, of : Isolated \cup {None}, base : Nat]

Alone(c) ==
    /\ committer' \in [Committers -> CommitterType] /\ iso' \in [Isolated -> IsoType]
    /\ \A d \in Committers : d # c => committer'[d] = committer[d]
    /\ panicked = FALSE
    /\ UNCHANGED <<open, own>>

(* A call of OnTxCommit returns at once or enters the commit.              *)
LEMMA CheckStep ==
    ASSUME TypeOK, NEW w \in Isolated, NEW c \in Committers, CheckCommit(c, w)
    PROVE  /\ Alone(c) /\ UNCHANGED <<ordinal, traces, mutex, panicked>>
           /\ committer[c].pc = "outside"
           /\ phase[w] = "ended" \/ w \in Contenders
           /\ phase' \in [Isolated -> Phases] /\ phase'[w] = "done"
           /\ \A v \in Isolated : v # w => iso'[v] = iso[v] /\ phase'[v] = phase[v]
           /\ \/ iso[w].dropped = TRUE /\ committer' = committer
                 /\ iso'[w] = [iso[w] EXCEPT !.dropped = FALSE]
              \/ iso[w].dropped = FALSE /\ iso' = iso /\ iso[w].transient # NoTrace
                 /\ committer'[c] = [pc |-> "checked", of |-> w, base |-> 0]
<1>1. iso[w] \in IsoType /\ "done" \in Phases
  BY DEF TypeOK, Phases
<1>2. /\ panicked = FALSE /\ (phase[w] = "ended" \/ w \in Contenders)
      /\ phase' \in [Isolated -> Phases] /\ phase'[w] = "done"
      /\ \A v \in Isolated : v # w => phase'[v] = phase[v]
  BY <1>1, MoveTyped DEF CheckCommit, Move, TypeOK
<1>3. CASE iso[w].dropped
  <2> DEFINE t == [iso[w] EXCEPT !.dropped = FALSE]
  <2>1. t \in IsoType
    BY <1>1 DEF IsoType
  <2>2. Update(w, t) /\ committer' = committer
    BY <1>1, <1>3 DEF CheckCommit, Update, IsoType
  <2> HIDE DEF t
  <2>3. /\ iso' \in [Isolated -> IsoType] /\ iso'[w] = t
        /\ \A v \in Isolated : v # w => iso'[v] = iso[v]
    BY <2>1, <2>2, UpdateTyped
  <2>4. Alone(c) /\ committer[c].pc = "outside"
    BY <1>2, <2>2, <2>3 DEF CheckCommit, At, Alone, TypeOK, CommitterType
  <2>5. iso[w].dropped = TRUE
    BY <1>1, <1>3 DEF IsoType
  <2> QED BY <1>2, <2>2, <2>3, <2>4, <2>5 DEF CheckCommit, t
<1>4. CASE ~iso[w].dropped
  <2> DEFINE checked == [pc |-> "checked", of |-> w, base |-> 0]
  <2>1. checked \in CommitterType
    BY DEF CommitterType, Labels
  <2>2. committer' = [committer EXCEPT ![c] = checked] /\ iso' = iso /\ iso[w].transient # NoTrace
    BY <1>4 DEF CheckCommit
  <2> HIDE DEF checked
  <2>3. Alone(c) /\ committer[c].pc = "outside" /\ committer'[c] = checked
    BY <1>2, <2>1, <2>2 DEF CheckCommit, At, Alone, TypeOK, CommitterType
  <2>4. iso[w].dropped = FALSE
    BY <1>1, <1>4 DEF IsoType
  <2> QED BY <1>2, <2>2, <2>3, <2>4 DEF CheckCommit, checked
<1> QED BY <1>3, <1>4

(* Who gets the mutex reads the counter.                                   *)
LEMMA LockStep ==
    ASSUME TypeOK, NEW c \in Committers, Lock(c)
    PROVE  /\ Alone(c) /\ UNCHANGED <<ordinal, traces, iso, phase, panicked>>
           /\ committer[c].pc = "checked" /\ mutex = None /\ mutex' = c
           /\ committer'[c].pc = "locked" /\ committer'[c].of = committer[c].of
           /\ committer'[c].base = ordinal
<1>1. committer \in [Committers -> CommitterType] /\ ordinal \in Nat /\ "locked" \in Labels
  BY DEF TypeOK, CommitterType, Labels
<1>2. committer' = [committer EXCEPT ![c].pc = "locked", ![c].base = ordinal]
      /\ committer[c].pc = "checked" /\ panicked = FALSE
  BY DEF Lock, At, TypeOK
<1>3. /\ committer' \in [Committers -> CommitterType]
      /\ \A d \in Committers : d # c => committer'[d] = committer[d]
      /\ committer'[c].pc = "locked" /\ committer'[c].of = committer[c].of
      /\ committer'[c].base = ordinal
  BY <1>1, <1>2 DEF CommitterType
<1> QED BY <1>2, <1>3 DEF Lock, Alone, TypeOK

(* A goroutine moves on in its commit and keeps what it works for.         *)
LEMMA GoStep ==
    ASSUME TypeOK, NEW c \in Committers, NEW from, NEW to \in Labels, At(c, from), Go(c, to)
    PROVE  /\ committer[c].pc = from /\ panicked = FALSE
           /\ committer' \in [Committers -> CommitterType]
           /\ \A d \in Committers : d # c => committer'[d] = committer[d]
           /\ committer'[c].pc = to /\ committer'[c].of = committer[c].of
           /\ committer'[c].base = committer[c].base
BY DEF TypeOK, At, Go, CommitterType

(* The rebased transaction goes to the end of the block.                   *)
LEMMA AppendStep ==
    ASSUME TypeOK, NEW c \in Committers, AppendTrace(c)
    PROVE  /\ Alone(c) /\ UNCHANGED <<ordinal, mutex, iso, phase, panicked>>
           /\ committer[c].pc = "rebased" /\ committer'[c].pc = "appended"
           /\ committer'[c].of = committer[c].of
           /\ traces' = Append(traces, iso[committer[c].of].transient)
<1>1. "appended" \in Labels
  BY DEF Labels
<1> QED BY <1>1, GoStep DEF AppendTrace, Alone, TypeOK

(* The counter moves to the transaction's last ordinal.                    *)
LEMMA SetStep ==
    ASSUME TypeOK, NEW c \in Committers, SetOrdinal(c)
    PROVE  /\ Alone(c) /\ UNCHANGED <<traces, mutex, iso, phase, panicked>>
           /\ committer[c].pc = "appended" /\ committer'[c].pc = "set"
           /\ committer'[c].of = committer[c].of
           /\ ordinal' = iso[committer[c].of].transient.end
<1>1. "set" \in Labels
  BY DEF Labels
<1> QED BY <1>1, GoStep DEF SetOrdinal, Alone, TypeOK

(* The tracer a goroutine works for.                                       *)
LEMMA Works ==
    ASSUME MutexInv, NEW c \in Committers, committer[c].pc # "outside"
    PROVE  committer[c].of \in Isolated /\ iso[committer[c].of] \in IsoType
           /\ iso[committer[c].of].transient \in TraceType
           /\ iso[committer[c].of].trx \in TraceType
<1>1. committer[c] \in CommitterType /\ committer[c].of # None
  BY DEF MutexInv, TypeOK, CommitterType
<1>2. committer[c].of \in Isolated
  BY <1>1 DEF CommitterType
<1> QED BY <1>2 DEF MutexInv, TypeOK, IsoType

(* Rebasing changes the tracer's finished transaction only, or panics.     *)
LEMMA RebaseStep ==
    ASSUME MutexInv, NEW c \in Committers, Rebase(c), NEW w, w = committer[c].of
    PROVE  /\ Alone(c) /\ UNCHANGED <<ordinal, traces, mutex, phase>>
           /\ committer[c].pc = "locked" /\ committer'[c].of = w /\ w \in Isolated
           /\ \A v \in Isolated : v # w => iso'[v] = iso[v]
           /\ \/ iso[w].transient = NoTrace /\ panicked' = TRUE
                 /\ iso' = iso /\ committer' = committer
              \/ /\ iso[w].transient # NoTrace /\ panicked' = FALSE
                 /\ committer'[c].pc = "rebased"
                 /\ iso'[w] = [iso[w] EXCEPT !.transient = iso'[w].transient]
                 /\ iso'[w].transient = Rebased(iso[w].transient, committer[c].base)
<1>1. committer[c].pc = "locked" /\ panicked = FALSE /\ "rebased" \in Labels /\ TypeOK
  BY DEF Rebase, At, MutexInv, TypeOK, Labels
<1>2. w \in Isolated /\ iso[w] \in IsoType /\ iso[w].transient \in TraceType
      /\ committer[c].base \in Nat
  BY <1>1, Works DEF MutexInv, TypeOK
<1>3. CASE iso[w].transient = NoTrace
  BY <1>1, <1>2, <1>3 DEF Rebase, Alone, TypeOK, CommitterType
<1>4. CASE iso[w].transient # NoTrace
  <2> DEFINE trace == Rebased(iso[w].transient, committer[c].base)
             t == [iso[w] EXCEPT !.transient = trace]
  <2>1. trace \in TraceType
    BY <1>2, RebasedTyped
  <2>2. Update(w, t) /\ Go(c, "rebased") /\ At(c, "locked") /\ panicked' = panicked
    BY <1>2, <1>4 DEF Rebase, Update, IsoType
  <2> HIDE DEF trace
  <2>3. t \in IsoType /\ t = [iso[w] EXCEPT !.transient = t.transient] /\ t.transient = trace
    BY <1>2, <2>1 DEF IsoType
  <2> HIDE DEF t
  <2>4. /\ iso' \in [Isolated -> IsoType] /\ iso'[w] = t
        /\ \A v \in Isolated : v # w => iso'[v] = iso[v]
    BY <1>1, <1>2, <2>2, <2>3, UpdateTyped
  <2>5. /\ committer' \in [Committers -> CommitterType]
        /\ \A d \in Committers : d # c => committer'[d] = committer[d]
        /\ committer'[c].pc = "rebased" /\ committer'[c].of = committer[c].of
    BY <1>1, <2>2, GoStep
  <2>6. Alone(c) /\ UNCHANGED <<ordinal, traces, mutex, phase>>
    BY <1>1, <2>4, <2>5 DEF Alone, Rebase
  <2> QED BY <1>1, <1>2, <1>4, <2>2, <2>3, <2>4, <2>5, <2>6 DEF trace
<1> QED BY <1>3, <1>4

(* A commit that returns forgets the finished transaction and gives the    *)
(* mutex back.                                                             *)
LEMMA UnlockStep ==
    ASSUME MutexInv, NEW c \in Committers, Unlock(c), NEW w, w = committer[c].of
    PROVE  /\ Alone(c) /\ UNCHANGED <<ordinal, traces, phase, panicked>>
           /\ committer[c].pc = "set" /\ committer'[c] = Outside /\ w \in Isolated
           /\ mutex' = None
           /\ \A v \in Isolated : v # w => iso'[v] = iso[v]
           /\ iso'[w] = [iso[w] EXCEPT !.transient = NoTrace]
<1>1. committer[c].pc = "set" /\ panicked = FALSE /\ TypeOK
  BY DEF Unlock, At, MutexInv, TypeOK
<1>2. w \in Isolated /\ iso[w] \in IsoType
  BY <1>1, Works
<1>3. Update(w, [iso[w] EXCEPT !.transient = NoTrace])
  BY <1>2 DEF Unlock, Update, IsoType
<1>4. [iso[w] EXCEPT !.transient = NoTrace] \in IsoType
  BY <1>2, NewTyped DEF IsoType
<1>5. /\ iso' \in [Isolated -> IsoType] /\ iso'[w] = [iso[w] EXCEPT !.transient = NoTrace]
      /\ \A v \in Isolated : v # w => iso'[v] = iso[v]
  BY <1>1, <1>2, <1>3, <1>4, UpdateTyped
<1>6. Outside \in CommitterType
  BY DEF Outside, CommitterType, Labels
<1>7. /\ committer' \in [Committers -> CommitterType] /\ committer'[c] = Outside
      /\ \A d \in Committers : d # c => committer'[d] = committer[d]
  <2>1. committer' = [committer EXCEPT ![c] = Outside] /\ committer \in [Committers -> CommitterType]
    BY <1>1 DEF Unlock, TypeOK, CommitterType
  <2> QED BY <1>6, <2>1
<1> QED BY <1>1, <1>2, <1>5, <1>7 DEF Unlock, Alone
-----------------------------------------------------------------------------
(* Types and the mutex, whatever the node does                             *)

(* Nobody commits at the start.                                            *)
LEMMA MutexInit ==
    ASSUME Init
    PROVE  MutexInv
<1>1. traces \in Seq(TraceType) /\ {} \in SUBSET Nat
  BY DEF Init
<1>2. Outside \in CommitterType
  BY DEF Outside, CommitterType, Labels
<1>3. TypeOK
  BY <1>1, <1>2, NewTyped DEF Init, TypeOK, CommitterType, Phases
<1>4. None \notin Committers
  BY ParallelAssumption
<1> QED BY <1>3, <1>4 DEF Init, MutexInv, Outside, Inside

(* The node's own steps, and those of the goroutine of an isolated tracer. *)
LEMMA MutexApart ==
    ASSUME MutexInv, committer' = committer, mutex' = mutex, panicked' = panicked,
           open' \in BOOLEAN, ordinal' \in Nat, traces' \in Seq(TraceType), own' \in SUBSET Nat,
           iso' \in [Isolated -> IsoType], phase' \in [Isolated -> Phases]
    PROVE  MutexInv'
BY DEF MutexInv, TypeOK

(* A step of one goroutine keeps the mutex exclusive when it takes or      *)
(* gives it only for itself.                                               *)
LEMMA MutexCommit ==
    ASSUME MutexInv, NEW c \in Committers, Alone(c),
           ordinal' \in Nat, traces' \in Seq(TraceType), panicked' \in BOOLEAN,
           phase' \in [Isolated -> Phases], mutex' \in Committers \cup {None},
           (committer'[c].pc = "outside") = (committer'[c].of = None),
           (committer'[c].pc \in Inside) = (mutex' = c),
           \A d \in Committers : d # c => (mutex' = d) = (mutex = d)
    PROVE  MutexInv'
<1>1. TypeOK'
  BY DEF MutexInv, TypeOK, Alone, CommitterType
<1>2. \A d \in Committers : (committer'[d].pc = "outside") = (committer'[d].of = None)
  BY DEF MutexInv, Alone
<1>3. \A d \in Committers : (committer'[d].pc \in Inside) = (mutex' = d)
  BY DEF MutexInv, Alone
<1> QED BY <1>1, <1>2, <1>3 DEF MutexInv

(* Every step keeps the mutex exclusive.                                   *)
LEMMA MutexStep ==
    ASSUME MutexInv, [Next]_vars
    PROVE  MutexInv'
<1> TypeOK /\ None \notin Isolated \cup Committers
  BY ParallelAssumption DEF MutexInv
<1>1. CASE OnBlockStart
  BY <1>1, MutexApart DEF OnBlockStart, TypeOK
<1>2. CASE OnBlockEnd
  <2>1. iso' \in [Isolated -> IsoType] /\ phase' \in [Isolated -> Phases]
    BY <1>2, NewTyped DEF OnBlockEnd, Phases
  <2>2. <<>> \in Seq(TraceType) /\ {} \in SUBSET Nat /\ 0 \in Nat /\ FALSE \in BOOLEAN
    OBVIOUS
  <2> QED BY <1>2, <2>1, <2>2, MutexApart DEF OnBlockEnd
<1>3. CASE CoordinatorHook
  <2>1. ordinal' \in Nat /\ own' \in SUBSET Nat
    BY <1>3 DEF CoordinatorHook, TypeOK
  <2> QED BY <1>3, <2>1, MutexApart DEF CoordinatorHook, TypeOK
<1>4. ASSUME NEW w \in Isolated, Apace(w), own' \in SUBSET Nat
      PROVE  MutexInv'
  BY <1>4, MutexApart DEF Apace, TypeOK
<1>5. ASSUME NEW w \in Isolated,
             OnTxSpawn(w) \/ OnTxStart(w) \/ OnTxReset(w) \/ OnChange(w) \/ OnLog(w)
             \/ OnKeccakPreimage(w) \/ \E receipt \in BOOLEAN : OnTxEnd(w, receipt)
      PROVE  Apace(w) /\ own' = own
  BY <1>5, SpawnStep, StartStep, ResetStep, ChangeStep, LogStep, PreimageStep, EndStep, ZenonT(60)
<1>6. ASSUME NEW w \in Isolated, SystemCall(w)
      PROVE  MutexInv'
  BY <1>4, <1>6, SystemCallStep
<1>7. ASSUME NEW w \in Isolated, NEW c \in Committers, CheckCommit(c, w)
      PROVE  MutexInv'
  <2>1. /\ Alone(c) /\ UNCHANGED <<ordinal, traces, mutex, panicked>>
        /\ committer[c].pc = "outside" /\ phase' \in [Isolated -> Phases]
        /\ committer' = committer \/ committer'[c] = [pc |-> "checked", of |-> w, base |-> 0]
    BY <1>7, CheckStep
  <2>2. (committer'[c].pc = "outside") = (committer'[c].of = None) /\ committer'[c].pc \notin Inside
        /\ mutex' # c
    BY <2>1 DEF MutexInv, Inside
  <2>3. (committer'[c].pc \in Inside) = (mutex' = c)
    BY <2>2
  <2> QED BY <2>1, <2>2, <2>3, MutexCommit DEF TypeOK
<1>8. ASSUME NEW c \in Committers, Lock(c)
      PROVE  MutexInv'
  <2>1. /\ Alone(c) /\ UNCHANGED <<ordinal, traces, phase, panicked>>
        /\ committer[c].pc = "checked" /\ mutex = None /\ mutex' = c
        /\ committer'[c].pc = "locked" /\ committer'[c].of = committer[c].of
    BY <1>8, LockStep
  <2>2. (committer'[c].pc = "outside") = (committer'[c].of = None) /\ committer'[c].pc \in Inside
    BY <2>1 DEF MutexInv, Inside
  <2> QED BY <2>1, <2>2, MutexCommit DEF TypeOK
<1>9. ASSUME NEW c \in Committers, InCommit(c)
      PROVE  MutexInv'
  <2>1. CASE Rebase(c)
    <3>1. /\ Alone(c) /\ UNCHANGED <<ordinal, traces, mutex, phase>> /\ panicked' \in BOOLEAN
          /\ committer[c].pc = "locked" /\ committer'[c].of = committer[c].of
          /\ committer'[c].pc \in {"locked", "rebased"}
      BY <2>1, RebaseStep DEF TypeOK
    <3>2. (committer'[c].pc = "outside") = (committer'[c].of = None)
          /\ committer'[c].pc \in Inside /\ mutex' = c
      BY <3>1 DEF MutexInv, Inside
    <3> QED BY <3>1, <3>2, MutexCommit DEF TypeOK
  <2>2. CASE AppendTrace(c)
    <3>1. /\ Alone(c) /\ UNCHANGED <<ordinal, mutex, phase, panicked>>
          /\ committer[c].pc = "rebased" /\ committer'[c].pc = "appended"
          /\ committer'[c].of = committer[c].of
          /\ traces' = Append(traces, iso[committer[c].of].transient)
      BY <2>2, AppendStep
    <3>2. traces' \in Seq(TraceType)
      BY <3>1, Works DEF TypeOK
    <3>3. (committer'[c].pc = "outside") = (committer'[c].of = None)
          /\ committer'[c].pc \in Inside /\ mutex' = c
      BY <3>1 DEF MutexInv, Inside
    <3> QED BY <3>1, <3>2, <3>3, MutexCommit DEF TypeOK
  <2>3. CASE SetOrdinal(c)
    <3>1. /\ Alone(c) /\ UNCHANGED <<traces, mutex, phase, panicked>>
          /\ committer[c].pc = "appended" /\ committer'[c].pc = "set"
          /\ committer'[c].of = committer[c].of
          /\ ordinal' = iso[committer[c].of].transient.end
      BY <2>3, SetStep
    <3>2. ordinal' \in Nat
      BY <3>1, Works DEF TraceType
    <3>3. (committer'[c].pc = "outside") = (committer'[c].of = None)
          /\ committer'[c].pc \in Inside /\ mutex' = c
      BY <3>1 DEF MutexInv, Inside
    <3> QED BY <3>1, <3>2, <3>3, MutexCommit DEF TypeOK
  <2>4. CASE Unlock(c)
    <3>1. /\ Alone(c) /\ UNCHANGED <<ordinal, traces, phase, panicked>>
          /\ committer[c].pc = "set" /\ committer'[c] = Outside /\ mutex' = None
      BY <2>4, UnlockStep
    <3>2. (committer'[c].pc = "outside") = (committer'[c].of = None)
          /\ committer'[c].pc \notin Inside /\ mutex = c
      BY <3>1 DEF MutexInv, Inside, Outside
    <3> QED BY <3>1, <3>2, MutexCommit DEF TypeOK
  <2> QED BY <1>9, <2>1, <2>2, <2>3, <2>4 DEF InCommit
<1>10. CASE UNCHANGED vars
  BY <1>10 DEF vars, MutexInv, TypeOK
<1> QED BY <1>1, <1>2, <1>3, <1>4, <1>5, <1>6, <1>7, <1>8, <1>9, <1>10 DEF Next, TypeOK

(* OnTxCommit holds commitMutex from Lock to Unlock: the values the        *)
(* coordinator, the isolated tracers and the goroutines take are those     *)
(* their types say, whatever is committed twice or calls the system.       *)
THEOREM CommitTypes == Spec => []TypeOK
<1>1. Init => MutexInv
  BY MutexInit
<1>2. MutexInv /\ [Next]_vars => MutexInv'
  BY MutexStep
<1>3. MutexInv => TypeOK
  BY DEF MutexInv
<1> QED BY <1>1, <1>2, <1>3, PTL DEF Spec

(* Who is between Lock and Unlock of OnTxCommit is there alone.            *)
Exclusive == \A c, d \in Committers :
                committer[c].pc \in Inside /\ committer[d].pc \in Inside => c = d

(* No two goroutines are between Lock and Unlock of OnTxCommit.            *)
THEOREM OneCommitAtATime == Spec => []Exclusive
<1>1. Init => MutexInv
  BY MutexInit
<1>2. MutexInv /\ [Next]_vars => MutexInv'
  BY MutexStep
<1>3. MutexInv => Exclusive
  BY DEF MutexInv, Exclusive
<1> QED BY <1>1, <1>2, <1>3, PTL DEF Spec
-----------------------------------------------------------------------------
(* The ordinals of one transaction                                         *)

(* Rebasing keeps ordinals that differ apart.                              *)
LEMMA Cancel ==
    ASSUME NEW x \in Nat, NEW y \in Nat, NEW b \in Nat, x + b = y + b
    PROVE  x = y
OBVIOUS

(* A change or a log takes the next ordinal.                               *)
LEMMA TightChange ==
    ASSUME NEW changes \in Seq(Nat), NEW logs \in Seq(Nat), NEW lo \in Nat, NEW hi \in Nat,
           Tight(changes, logs, lo, hi)
    PROVE  Tight(Append(changes, hi), logs, lo, hi + 1)
<1> DEFINE more == Append(changes, hi)
           n == Len(changes)
           k == Len(logs)
<1>1. /\ n \in Nat /\ k \in Nat /\ Len(more) = n + 1
      /\ \A i \in 1..n : more[i] = changes[i] /\ changes[i] \in Nat
      /\ more[n + 1] = hi
      /\ \A i \in 1..k : logs[i] \in Nat
  OBVIOUS
<1>2. /\ hi = lo + n + k + 1
      /\ \A i \in 1..n : lo < changes[i] /\ changes[i] < hi
      /\ \A i \in 1..k : lo < logs[i] /\ logs[i] < hi
      /\ \A i, j \in 1..n : changes[i] = changes[j] => i = j
      /\ \A i, j \in 1..k : logs[i] = logs[j] => i = j
      /\ \A i \in 1..n, j \in 1..k : changes[i] # logs[j]
      /\ \A m \in (lo + 1)..(hi - 1) : \/ \E i \in 1..n : changes[i] = m
                                       \/ \E i \in 1..k : logs[i] = m
  BY DEF Tight
<1> HIDE DEF more, n, k
<1>3. hi + 1 = lo + (n + 1) + k + 1
  BY <1>1, <1>2
<1>4. \A i \in 1..(n + 1) : lo < more[i] /\ more[i] < hi + 1
  <2> SUFFICES ASSUME NEW i \in 1..(n + 1)
               PROVE  lo < more[i] /\ more[i] < hi + 1
    OBVIOUS
  <2>1. CASE i = n + 1
    BY <1>1, <1>2, <2>1
  <2>2. CASE i \in 1..n
    <3>1. more[i] = changes[i] /\ changes[i] \in Nat /\ lo < changes[i] /\ changes[i] < hi
      BY <1>1, <1>2, <2>2
    <3> QED BY <3>1
  <2> QED BY <1>1, <2>1, <2>2
<1>5. \A i \in 1..k : lo < logs[i] /\ logs[i] < hi + 1
  BY <1>1, <1>2
<1>6. \A i, j \in 1..(n + 1) : more[i] = more[j] => i = j
  <2> SUFFICES ASSUME NEW i \in 1..(n + 1), NEW j \in 1..(n + 1), more[i] = more[j]
               PROVE  i = j
    OBVIOUS
  <2>1. CASE i \in 1..n /\ j \in 1..n
    BY <1>1, <1>2, <2>1
  <2>2. CASE i = n + 1 /\ j \in 1..n
    BY <1>1, <1>2, <2>2
  <2>3. CASE j = n + 1 /\ i \in 1..n
    BY <1>1, <1>2, <2>3
  <2> QED BY <1>1, <2>1, <2>2, <2>3
<1>7. \A i \in 1..(n + 1), j \in 1..k : more[i] # logs[j]
  <2> SUFFICES ASSUME NEW i \in 1..(n + 1), NEW j \in 1..k
               PROVE  more[i] # logs[j]
    OBVIOUS
  <2>1. CASE i \in 1..n
    BY <1>1, <1>2, <2>1
  <2>2. CASE i = n + 1
    BY <1>1, <1>2, <2>2
  <2> QED BY <1>1, <2>1, <2>2
<1>8. \A m \in (lo + 1)..((hi + 1) - 1) : \/ \E i \in 1..(n + 1) : more[i] = m
                                          \/ \E i \in 1..k : logs[i] = m
  <2> SUFFICES ASSUME NEW m \in (lo + 1)..((hi + 1) - 1)
               PROVE  \/ \E i \in 1..(n + 1) : more[i] = m
                      \/ \E i \in 1..k : logs[i] = m
    OBVIOUS
  <2>1. CASE m = hi
    <3>1. n + 1 \in 1..(n + 1)
      BY <1>1
    <3> QED BY <1>1, <2>1, <3>1
  <2>2. CASE m \in (lo + 1)..(hi - 1)
    <3>1. 1..n \subseteq 1..(n + 1)
      BY <1>1
    <3>2. \/ \E i \in 1..n : changes[i] = m
          \/ \E i \in 1..k : logs[i] = m
      BY <1>2, <2>2
    <3> QED BY <1>1, <3>1, <3>2
  <2> QED BY <2>1, <2>2
<1>9. Len(more) = n + 1 /\ Len(logs) = k
  BY <1>1 DEF k
<1> QED BY <1>3, <1>4, <1>5, <1>6, <1>7, <1>8, <1>9, <1>2 DEF Tight, more

(* Changes and logs play the same part.                                    *)
LEMMA TightSwap ==
    ASSUME NEW changes \in Seq(Nat), NEW logs \in Seq(Nat), NEW lo \in Nat, NEW hi \in Nat,
           Tight(changes, logs, lo, hi)
    PROVE  Tight(logs, changes, lo, hi)
<1>1. Len(changes) \in Nat /\ Len(logs) \in Nat
  OBVIOUS
<1> QED BY <1>1 DEF Tight

(* A log takes the next ordinal.                                           *)
LEMMA TightLog ==
    ASSUME NEW changes \in Seq(Nat), NEW logs \in Seq(Nat), NEW lo \in Nat, NEW hi \in Nat,
           Tight(changes, logs, lo, hi)
    PROVE  Tight(changes, Append(logs, hi), lo, hi + 1)
<1>1. Append(logs, hi) \in Seq(Nat) /\ hi + 1 \in Nat
  OBVIOUS
<1> QED BY <1>1, TightSwap, TightChange

(* Rebasing moves all the ordinals of a transaction by the same amount.    *)
LEMMA TightShift ==
    ASSUME NEW changes \in Seq(Nat), NEW logs \in Seq(Nat), NEW lo \in Nat, NEW hi \in Nat,
           NEW base \in Nat, Tight(changes, logs, lo, hi)
    PROVE  Tight(Shift(changes, base), Shift(logs, base), lo + base, hi + base)
<1> DEFINE cs == Shift(changes, base)
           ls == Shift(logs, base)
           n == Len(changes)
           k == Len(logs)
<1>1. /\ n \in Nat /\ k \in Nat /\ DOMAIN changes = 1..n /\ DOMAIN logs = 1..k
      /\ \A i \in 1..n : changes[i] \in Nat
      /\ \A i \in 1..k : logs[i] \in Nat
  OBVIOUS
<1>2. /\ Len(cs) = n /\ Len(ls) = k
      /\ \A i \in 1..n : cs[i] = changes[i] + base
      /\ \A i \in 1..k : ls[i] = logs[i] + base
  BY <1>1, ShiftTyped
<1>3. /\ hi = lo + n + k + 1
      /\ \A i \in 1..n : lo < changes[i] /\ changes[i] < hi
      /\ \A i \in 1..k : lo < logs[i] /\ logs[i] < hi
      /\ \A i, j \in 1..n : changes[i] = changes[j] => i = j
      /\ \A i, j \in 1..k : logs[i] = logs[j] => i = j
      /\ \A i \in 1..n, j \in 1..k : changes[i] # logs[j]
      /\ \A m \in (lo + 1)..(hi - 1) : \/ \E i \in 1..n : changes[i] = m
                                       \/ \E i \in 1..k : logs[i] = m
  BY DEF Tight
<1> HIDE DEF cs, ls, n, k
<1>4. hi + base = (lo + base) + n + k + 1
  BY <1>1, <1>3
<1>5. /\ \A i \in 1..n : lo + base < cs[i] /\ cs[i] < hi + base
      /\ \A i \in 1..k : lo + base < ls[i] /\ ls[i] < hi + base
  <2>1. ASSUME NEW i \in 1..n
        PROVE  lo + base < cs[i] /\ cs[i] < hi + base
    <3>1. cs[i] = changes[i] + base /\ changes[i] \in Nat /\ lo < changes[i] /\ changes[i] < hi
      BY <1>1, <1>2, <1>3
    <3> QED BY <3>1
  <2>2. ASSUME NEW i \in 1..k
        PROVE  lo + base < ls[i] /\ ls[i] < hi + base
    <3>1. ls[i] = logs[i] + base /\ logs[i] \in Nat /\ lo < logs[i] /\ logs[i] < hi
      BY <1>1, <1>2, <1>3
    <3> QED BY <3>1
  <2> QED BY <2>1, <2>2
<1>6. /\ \A i, j \in 1..n : cs[i] = cs[j] => i = j
      /\ \A i, j \in 1..k : ls[i] = ls[j] => i = j
  <2>1. ASSUME NEW i \in 1..n, NEW j \in 1..n, cs[i] = cs[j]
        PROVE  i = j
    <3>1. /\ cs[i] = changes[i] + base /\ changes[i] \in Nat
          /\ cs[j] = changes[j] + base /\ changes[j] \in Nat
      BY <1>1, <1>2
    <3>2. changes[i] + base = changes[j] + base
      BY <2>1, <3>1
    <3>3. changes[i] = changes[j]
      BY <3>1, <3>2, Cancel
    <3> QED BY <1>3, <3>3
  <2>2. ASSUME NEW i \in 1..k, NEW j \in 1..k, ls[i] = ls[j]
        PROVE  i = j
    <3>1. /\ ls[i] = logs[i] + base /\ logs[i] \in Nat
          /\ ls[j] = logs[j] + base /\ logs[j] \in Nat
      BY <1>1, <1>2
    <3>2. logs[i] + base = logs[j] + base
      BY <2>2, <3>1
    <3>3. logs[i] = logs[j]
      BY <3>1, <3>2, Cancel
    <3> QED BY <1>3, <3>3
  <2> QED BY <2>1, <2>2
<1>7. \A i \in 1..n, j \in 1..k : cs[i] # ls[j]
  BY <1>1, <1>2, <1>3
<1>8. \A m \in ((lo + base) + 1)..((hi + base) - 1) : \/ \E i \in 1..n : cs[i] = m
                                                      \/ \E i \in 1..k : ls[i] = m
  <2> SUFFICES ASSUME NEW m \in ((lo + base) + 1)..((hi + base) - 1)
               PROVE  \/ \E i \in 1..n : cs[i] = m
                      \/ \E i \in 1..k : ls[i] = m
    OBVIOUS
  <2>1. m - base \in (lo + 1)..(hi - 1) /\ (m - base) + base = m
    OBVIOUS
  <2>2. \/ \E i \in 1..n : changes[i] = m - base
        \/ \E i \in 1..k : logs[i] = m - base
    BY <1>3, <2>1
  <2> QED BY <1>2, <2>1, <2>2
<1> QED BY <1>2, <1>4, <1>5, <1>6, <1>7, <1>8 DEF Tight, cs, ls

(* Rebased, a transaction follows the ordinals the block has used.         *)
LEMMA EndedRebased ==
    ASSUME NEW t \in TraceType, NEW w, NEW n, NEW base \in Nat, Ended(t, w, n, 0)
    PROVE  Ended(Rebased(t, base), w, n, base)
<1> DEFINE u == Rebased(t, base)
<1>1. /\ t.changes \in Seq(Nat) /\ t.logs \in Seq(Nat) /\ t.receipt \in Seq(Nat)
      /\ t.begin \in Nat /\ t.end \in Nat
  BY DEF TraceType, Ordinals
<1>2. /\ u.of = t.of /\ u.attempt = t.attempt /\ u.begin = t.begin + base /\ u.end = t.end + base
      /\ u.changes = Shift(t.changes, base) /\ u.logs = Shift(t.logs, base)
      /\ u.receipt = Shift(t.receipt, base)
  BY RebasedTyped
<1> HIDE DEF u
<1>3. u.of = w /\ u.attempt = n /\ u.begin = base + 1
  BY <1>1, <1>2 DEF Ended
<1>4. Tight(u.changes, u.logs, u.begin, u.end)
  BY <1>1, <1>2, TightShift DEF Ended
<1>5. Len(u.changes) = Len(t.changes) /\ Len(u.logs) = Len(t.logs)
  BY <1>1, <1>2, ShiftTyped
<1>6. u.receipt \in {<<>>, u.logs}
  <2>1. CASE t.receipt = t.logs
    BY <1>2, <2>1
  <2>2. CASE t.receipt = <<>>
    <3>1. u.receipt \in Seq(Nat) /\ Len(u.receipt) = Len(t.receipt)
      BY <1>1, <1>2, ShiftTyped
    <3>2. Len(t.receipt) = 0
      BY <2>2
    <3>3. u.receipt = <<>>
      BY <3>1, <3>2, EmptySeq
    <3> QED BY <3>3
  <2> QED BY <2>1, <2>2 DEF Ended
<1> QED BY <1>3, <1>4, <1>5, <1>6 DEF Ended, u

(* It has an ordinal of its own for the start and for the end.             *)
LEMMA EndedLength ==
    ASSUME NEW t \in TraceType, NEW w, NEW n, NEW base \in Nat, Ended(t, w, n, base)
    PROVE  /\ t.end - t.begin + 1 \in 2..(MaxMarks + 2) /\ t.begin = base + 1 /\ t.begin < t.end
           /\ t.end - t.begin + 1 = Len(t.changes) + Len(t.logs) + 2
<1>1. t.changes \in Seq(Nat) /\ t.logs \in Seq(Nat) /\ t.begin \in Nat /\ t.end \in Nat
  BY DEF TraceType, Ordinals
<1>2. Len(t.changes) \in Nat /\ Len(t.logs) \in Nat /\ MaxMarks \in Nat
  BY <1>1, ParallelAssumption
<1>3. t.end = t.begin + Len(t.changes) + Len(t.logs) + 1 /\ t.begin = base + 1
      /\ Len(t.changes) + Len(t.logs) <= MaxMarks
  BY DEF Ended, Tight
<1>4. t.end - t.begin + 1 \in 2..(MaxMarks + 2) /\ t.begin < t.end
      /\ t.end - t.begin + 1 = Len(t.changes) + Len(t.logs) + 2
  <2> DEFINE n1 == Len(t.changes)
             n2 == Len(t.logs)
             x == t.begin
             y == t.end
  <2>1. x \in Nat /\ y \in Nat /\ n1 \in Nat /\ n2 \in Nat /\ y = x + n1 + n2 + 1
        /\ n1 + n2 <= MaxMarks /\ MaxMarks \in Nat
    BY <1>1, <1>2, <1>3
  <2> HIDE DEF n1, n2, x, y
  <2>2. y - x + 1 \in 2..(MaxMarks + 2) /\ x < y /\ y - x + 1 = n1 + n2 + 2
    BY <2>1
  <2> QED BY <2>2 DEF n1, n2, x, y
<1> QED BY <1>3, <1>4
-----------------------------------------------------------------------------
(* The phases of an isolated tracer and of a commit                        *)

(* A step that leaves a tracer alone keeps what is said of it.             *)
LEMMA LocalFrame ==
    ASSUME NEW v, LocalOK(v), iso'[v] = iso[v], phase'[v] = phase[v]
    PROVE  LocalOK(v)'
BY DEF LocalOK

(* A step that leaves a goroutine, its tracer, the counter and the block   *)
(* alone keeps what is said of it.                                         *)
LEMMA CommitFrame ==
    ASSUME NEW d, CommitOK(d), committer'[d] = committer[d],
           committer[d].pc # "outside" =>
               iso'[committer[d].of] = iso[committer[d].of]
               /\ phase'[committer[d].of] = phase[committer[d].of],
           committer[d].pc \in Inside => ordinal' = ordinal /\ traces' = traces
    PROVE  CommitOK(d)'
BY DEF CommitOK, Inside

(* A step of the goroutine of a tracer no commit is under way for.         *)
LEMMA LocalApart ==
    ASSUME MutexInv, LocalInv, NEW w \in Isolated, Apace(w), own' = own, open = TRUE,
           \A c \in Committers : committer[c].pc # "outside" => committer[c].of # w,
           LocalOK(w)'
    PROVE  LocalInv'
<1>1. \A v \in Isolated : LocalOK(v)'
  BY LocalFrame DEF LocalInv, Apace
<1>2. ASSUME NEW c \in Committers
      PROVE  CommitOK(c)'
  <2>1. committer[c].pc # "outside" =>
            committer[c].of \in Isolated /\ committer[c].of # w
    BY Works
  <2> QED BY <2>1, CommitFrame DEF LocalInv, Apace
<1>3. /\ \A c, d \in Committers :
           committer'[c].pc # "outside" /\ committer'[c].of = committer'[d].of => c = d
      /\ open' # FALSE /\ panicked' = FALSE
  BY DEF LocalInv, Apace
<1> QED BY <1>1, <1>2, <1>3 DEF LocalInv

(* A tracer past "none" belongs to an open block; one that is not done is  *)
(* nobody's to commit.                                                     *)
LEMMA LocalFacts ==
    ASSUME MutexInv, LocalInv, NEW w \in Isolated
    PROVE  /\ phase[w] # "none" => open = TRUE
           /\ phase[w] # "done" =>
                \A c \in Committers : committer[c].pc # "outside" => committer[c].of # w
           /\ iso[w] \in IsoType /\ iso[w].trx \in TraceType /\ iso[w].transient \in TraceType
           /\ iso[w].attempt \in Nat /\ iso[w].ordinal \in Nat
           /\ iso[w].ordinal + 1 \in Nat /\ iso[w].ordinal + 1 > 0
<1>1. iso[w] \in IsoType
  BY DEF MutexInv, TypeOK
<1>2. iso[w].ordinal \in Nat /\ iso[w].attempt \in Nat
      /\ iso[w].trx \in TraceType /\ iso[w].transient \in TraceType
  BY <1>1 DEF IsoType
<1>3. /\ phase[w] # "none" => open = TRUE
      /\ phase[w] # "done" =>
           \A c \in Committers : committer[c].pc # "outside" => committer[c].of # w
  BY DEF MutexInv, LocalInv, CommitOK, TypeOK
<1> QED BY <1>1, <1>2, <1>3

(* An execution that has just started uses its first ordinal.              *)
LEMMA TightEmpty == Tight(<<>>, <<>>, 1, 2)
<1>1. Len(<<>>) = 0
  OBVIOUS
<1> QED BY <1>1 DEF Tight

(* OnTxSpawn                                                               *)
LEMMA LocalSpawn ==
    ASSUME MutexInv, LocalInv, NEW w \in Isolated, OnTxSpawn(w)
    PROVE  LocalInv'
<1>1. /\ Apace(w) /\ own' = own /\ open = TRUE
      /\ phase[w] = "none" /\ phase'[w] = "idle" /\ iso'[w] = NewIsolated
  BY SpawnStep DEF MutexInv
<1>2. LocalOK(w)'
  BY <1>1, ParallelAssumption DEF LocalOK, NewIsolated
<1> QED BY <1>1, <1>2, LocalApart, LocalFacts

(* OnTxStart                                                               *)
LEMMA LocalStart ==
    ASSUME MutexInv, LocalInv, NEW w \in Isolated, OnTxStart(w)
    PROVE  LocalInv'
<1>1. /\ Apace(w) /\ own' = own
      /\ phase[w] = "idle" /\ phase'[w] = "running" /\ iso[w].attempt < MaxAttempts
      /\ iso'[w].attempt = iso[w].attempt + 1 /\ iso'[w].ordinal = iso[w].ordinal + 1
      /\ iso'[w].transient = iso[w].transient /\ iso'[w].dropped = iso[w].dropped
      /\ iso'[w].trx.of = w /\ iso'[w].trx.attempt = iso[w].attempt + 1
      /\ iso'[w].trx.begin = iso[w].ordinal + 1 /\ iso'[w].trx.end = 0
      /\ iso'[w].trx.changes = <<>> /\ iso'[w].trx.logs = <<>> /\ iso'[w].trx.receipt = <<>>
  BY StartStep DEF MutexInv
<1>2. /\ open = TRUE /\ iso[w].attempt \in Nat
      /\ \A c \in Committers : committer[c].pc # "outside" => committer[c].of # w
  BY <1>1, LocalFacts
<1>3. iso[w].ordinal = 0 /\ iso[w].transient = NoTrace /\ iso[w].dropped = FALSE
  BY <1>1 DEF LocalInv, LocalOK
<1>4. iso'[w].attempt <= MaxAttempts /\ iso'[w].attempt >= 1 /\ iso'[w].ordinal + 1 = 2
      /\ iso'[w].trx.begin = 1 /\ iso'[w].trx.attempt = iso'[w].attempt
  BY <1>1, <1>2, <1>3, ParallelAssumption
<1>5. /\ Len(iso'[w].trx.changes) + Len(iso'[w].trx.logs) <= MaxMarks
      /\ Tight(iso'[w].trx.changes, iso'[w].trx.logs, 1, iso'[w].ordinal + 1)
  <2>1. Len(<<>>) + Len(<<>>) <= MaxMarks
    BY ParallelAssumption
  <2> QED BY <1>1, <1>4, <2>1, TightEmpty
<1>6. LocalOK(w)'
  BY <1>1, <1>3, <1>4, <1>5 DEF LocalOK
<1> QED BY <1>1, <1>2, <1>6, LocalApart

(* OnTxReset                                                               *)
LEMMA LocalReset ==
    ASSUME MutexInv, LocalInv, NEW w \in Isolated, OnTxReset(w)
    PROVE  LocalInv'
<1>1. /\ Apace(w) /\ own' = own
      /\ phase[w] \in {"running", "ended", "done"} /\ phase'[w] = "idle"
      /\ \A c \in Committers : committer[c].of # w
      /\ iso'[w].attempt = iso[w].attempt /\ iso'[w].ordinal = 0
      /\ iso'[w].transient = NoTrace /\ iso'[w].dropped = FALSE
  BY ResetStep DEF MutexInv
<1>2. open = TRUE
  BY <1>1, LocalFacts
<1>3. LocalOK(w)'
  BY <1>1 DEF LocalOK, LocalInv
<1> QED BY <1>1, <1>2, <1>3, LocalApart

(* A change or a log of an execution                                       *)
LEMMA LocalEmit ==
    ASSUME MutexInv, LocalInv, NEW w \in Isolated, OnChange(w) \/ OnLog(w)
    PROVE  LocalInv'
<1> DEFINE t == iso[w].trx
           n == iso[w].ordinal + 1
           changes == IF OnChange(w) THEN Append(t.changes, n) ELSE t.changes
           logs == IF OnChange(w) THEN t.logs ELSE Append(t.logs, n)
<1>1. /\ Apace(w) /\ own' = own /\ phase[w] = "running" /\ phase'[w] = "running"
      /\ Len(t.changes) + Len(t.logs) < MaxMarks
      /\ iso'[w] = [iso[w] EXCEPT !.ordinal = iso'[w].ordinal, !.trx = iso'[w].trx]
      /\ iso'[w].ordinal = n
      /\ iso'[w].trx = [t EXCEPT !.changes = changes] \/ iso'[w].trx = [t EXCEPT !.logs = logs]
      /\ iso'[w].trx.changes = changes /\ iso'[w].trx.logs = logs
  <2>1. TypeOK /\ t \in TraceType
    BY LocalFacts DEF MutexInv
  <2>2. CASE OnChange(w)
    BY <2>1, <2>2, ChangeStep DEF TraceType
  <2>3. CASE ~OnChange(w)
    BY <2>1, <2>3, LogStep DEF TraceType
  <2> QED BY <2>2, <2>3
<1>2. /\ open = TRUE /\ iso[w] \in IsoType /\ t \in TraceType
      /\ \A c \in Committers : committer[c].pc # "outside" => committer[c].of # w
      /\ n \in Nat
  BY <1>1, LocalFacts
<1>3. t.changes \in Seq(Nat) /\ t.logs \in Seq(Nat)
  BY <1>2 DEF TraceType, Ordinals
<1>4. /\ iso[w].attempt <= MaxAttempts /\ iso[w].attempt >= 1
      /\ t.of = w /\ t.attempt = iso[w].attempt /\ t.begin = 1 /\ t.end = 0 /\ t.receipt = <<>>
      /\ iso[w].dropped = FALSE /\ iso[w].transient = NoTrace
      /\ Tight(t.changes, t.logs, 1, n)
  BY <1>1 DEF LocalInv, LocalOK
<1>5. /\ iso'[w].attempt = iso[w].attempt /\ iso'[w].dropped = iso[w].dropped
      /\ iso'[w].transient = iso[w].transient
      /\ iso'[w].trx.of = t.of /\ iso'[w].trx.attempt = t.attempt /\ iso'[w].trx.begin = t.begin
      /\ iso'[w].trx.end = t.end /\ iso'[w].trx.receipt = t.receipt
  BY <1>1, <1>2, ZenonT(60) DEF IsoType, TraceType
<1>6. Tight(changes, logs, 1, n + 1) /\ Len(changes) + Len(logs) <= MaxMarks
  <2>1. Len(Append(t.changes, n)) = Len(t.changes) + 1 /\ Len(Append(t.logs, n)) = Len(t.logs) + 1
        /\ Len(t.changes) \in Nat /\ Len(t.logs) \in Nat /\ 1 \in Nat /\ MaxMarks \in Nat
    BY <1>2, <1>3, ParallelAssumption
  <2>2. Tight(Append(t.changes, n), t.logs, 1, n + 1) /\ Tight(t.changes, Append(t.logs, n), 1, n + 1)
    BY <1>2, <1>3, <1>4, <2>1, TightChange, TightLog
  <2>3. Len(Append(t.changes, n)) + Len(t.logs) <= MaxMarks
        /\ Len(t.changes) + Len(Append(t.logs, n)) <= MaxMarks
    <3> DEFINE i == Len(t.changes)
               j == Len(t.logs)
    <3>1. i \in Nat /\ j \in Nat /\ i + j < MaxMarks /\ MaxMarks \in Nat
      BY <1>1, <2>1
    <3> HIDE DEF i, j
    <3>2. (i + 1) + j <= MaxMarks /\ i + (j + 1) <= MaxMarks
      BY <3>1
    <3> QED BY <2>1, <3>2 DEF i, j
  <2> QED BY <2>2, <2>3
<1> HIDE DEF t, n, changes, logs
<1>7. LocalOK(w)'
  BY <1>1, <1>4, <1>5, <1>6 DEF LocalOK
<1> QED BY <1>1, <1>2, <1>7, LocalApart

(* OnKeccakPreimage                                                        *)
LEMMA LocalPreimage ==
    ASSUME MutexInv, LocalInv, NEW w \in Isolated, OnKeccakPreimage(w)
    PROVE  LocalInv'
<1>1. /\ Apace(w) /\ own' = own /\ phase[w] = "running" /\ phase'[w] = "running"
      /\ iso'[w] = [iso[w] EXCEPT !.preimages = iso'[w].preimages]
  BY PreimageStep DEF MutexInv
<1>2. /\ open = TRUE /\ iso[w] \in IsoType
      /\ \A c \in Committers : committer[c].pc # "outside" => committer[c].of # w
  BY <1>1, LocalFacts
<1>3. /\ iso'[w].attempt = iso[w].attempt /\ iso'[w].dropped = iso[w].dropped
      /\ iso'[w].transient = iso[w].transient /\ iso'[w].trx = iso[w].trx
      /\ iso'[w].ordinal = iso[w].ordinal
  BY <1>1, <1>2 DEF IsoType
<1>4. LocalOK(w)'
  BY <1>1, <1>3, ZenonT(60) DEF LocalInv, LocalOK
<1> QED BY <1>1, <1>2, <1>4, LocalApart

(* OnTxEnd, with a receipt or without                                      *)
LEMMA LocalEnd ==
    ASSUME MutexInv, LocalInv, NEW w \in Isolated, NEW receipt \in BOOLEAN, OnTxEnd(w, receipt)
    PROVE  LocalInv'
<1>1. /\ Apace(w) /\ own' = own
      /\ phase[w] = "running" /\ phase'[w] = "ended"
      /\ iso'[w].attempt = iso[w].attempt
      /\ \/ iso'[w].trx = iso[w].trx /\ iso'[w].transient = iso[w].transient
            /\ iso'[w].dropped = TRUE
         \/ /\ iso'[w].transient = iso'[w].trx /\ iso'[w].dropped = iso[w].dropped
            /\ iso'[w].trx.of = iso[w].trx.of /\ iso'[w].trx.attempt = iso[w].trx.attempt
            /\ iso'[w].trx.begin = iso[w].trx.begin
            /\ iso'[w].trx.end = iso[w].ordinal + 1
            /\ iso'[w].trx.changes = iso[w].trx.changes
            /\ iso'[w].trx.logs = iso[w].trx.logs
            /\ iso'[w].trx.receipt \in {<<>>, iso[w].trx.logs}
  BY EndStep DEF MutexInv
<1>2. /\ open = TRUE /\ iso[w].ordinal + 1 > 0
      /\ \A c \in Committers : committer[c].pc # "outside" => committer[c].of # w
  BY <1>1, LocalFacts
<1>3. /\ iso[w].attempt <= MaxAttempts /\ iso[w].attempt >= 1
      /\ iso[w].trx.of = w /\ iso[w].trx.attempt = iso[w].attempt
      /\ iso[w].trx.begin = 1 /\ iso[w].trx.end = 0
      /\ iso[w].dropped = FALSE /\ iso[w].transient = NoTrace
      /\ Len(iso[w].trx.changes) + Len(iso[w].trx.logs) <= MaxMarks
      /\ Tight(iso[w].trx.changes, iso[w].trx.logs, 1, iso[w].ordinal + 1)
  BY <1>1 DEF LocalInv, LocalOK
<1>4. CASE iso'[w].trx = iso[w].trx /\ iso'[w].transient = iso[w].transient /\ iso'[w].dropped = TRUE
  <2>1. LocalOK(w)'
    BY <1>1, <1>3, <1>4 DEF LocalOK
  <2> QED BY <1>1, <1>2, <2>1, LocalApart
<1>5. CASE /\ iso'[w].transient = iso'[w].trx /\ iso'[w].dropped = iso[w].dropped
           /\ iso'[w].trx.of = iso[w].trx.of /\ iso'[w].trx.attempt = iso[w].trx.attempt
           /\ iso'[w].trx.begin = iso[w].trx.begin
           /\ iso'[w].trx.end = iso[w].ordinal + 1
           /\ iso'[w].trx.changes = iso[w].trx.changes
           /\ iso'[w].trx.logs = iso[w].trx.logs
           /\ iso'[w].trx.receipt \in {<<>>, iso[w].trx.logs}
  <2>1. Ended(iso'[w].trx, w, iso'[w].attempt, 0)
    <3>1. Tight(iso'[w].trx.changes, iso'[w].trx.logs, iso'[w].trx.begin, iso'[w].trx.end)
      BY <1>3, <1>5
    <3>2. iso'[w].trx.begin = 0 + 1
      BY <1>3, <1>5
    <3> QED BY <1>1, <1>3, <1>5, <3>1, <3>2 DEF Ended
  <2>2. LocalOK(w)'
    BY <1>1, <1>2, <1>3, <1>5, <2>1 DEF LocalOK
  <2> QED BY <1>1, <1>2, <2>2, LocalApart
<1> QED BY <1>1, <1>4, <1>5

(* The checks of OnTxCommit                                                *)
LEMMA LocalCheck ==
    ASSUME MutexInv, LocalInv, Disciplined, NEW w \in Isolated, NEW c \in Committers,
           CheckCommit(c, w)
    PROVE  LocalInv'
<1>1. /\ Alone(c) /\ UNCHANGED <<ordinal, traces, mutex, panicked>>
      /\ committer[c].pc = "outside" /\ phase[w] = "ended" /\ phase'[w] = "done"
      /\ \A v \in Isolated : v # w => iso'[v] = iso[v] /\ phase'[v] = phase[v]
      /\ \/ iso[w].dropped = TRUE /\ committer' = committer
            /\ iso'[w] = [iso[w] EXCEPT !.dropped = FALSE]
         \/ iso[w].dropped = FALSE /\ iso' = iso
            /\ committer'[c] = [pc |-> "checked", of |-> w, base |-> 0]
  BY CheckStep DEF MutexInv, Disciplined
<1>2. /\ open = TRUE /\ iso[w] \in IsoType
      /\ \A d \in Committers : committer[d].pc # "outside" => committer[d].of # w
  BY <1>1, LocalFacts
<1>3. /\ iso[w].attempt <= MaxAttempts /\ iso[w].attempt >= 1
      /\ iso[w].dropped = TRUE => iso[w].trx.end = 0
      /\ iso[w].dropped = FALSE =>
           iso[w].trx.end > 0 /\ Ended(iso[w].trx, w, iso[w].attempt, 0)
           /\ iso[w].transient = iso[w].trx
  BY <1>1 DEF LocalInv, LocalOK
<1>4. \A d \in Committers : committer[d].pc # "outside" => committer[d].of \in Isolated
  BY Works
<1>5. /\ iso'[w].attempt = iso[w].attempt /\ iso'[w].trx = iso[w].trx
      /\ iso'[w].transient = iso[w].transient /\ iso'[w].dropped = FALSE
  BY <1>1, <1>2 DEF IsoType
<1>6. LocalOK(w)'
  <2>1. ~(0 > 0)
    OBVIOUS
  <2> QED BY <1>1, <1>3, <1>5, <2>1 DEF LocalOK
<1>7. \A v \in Isolated : LocalOK(v)'
  BY <1>1, <1>6, LocalFrame DEF LocalInv
<1>8. \A d \in Committers : committer'[d] = committer[d] => CommitOK(d)'
  BY <1>1, <1>2, <1>4, CommitFrame DEF LocalInv
<1>9. open' # FALSE /\ panicked' = FALSE
  BY <1>1, <1>2 DEF Alone, LocalInv
<1>10. CASE iso[w].dropped = TRUE
  <2>1. \A d, e \in Committers :
          committer'[d].pc # "outside" /\ committer'[d].of = committer'[e].of => d = e
    BY <1>1, <1>10 DEF LocalInv
  <2> QED BY <1>1, <1>7, <1>8, <1>9, <1>10, <2>1 DEF LocalInv
<1>11. CASE iso[w].dropped = FALSE
  <2>1. CommitOK(c)'
    <3>1. committer'[c].pc = "checked" /\ committer'[c].of = w
      BY <1>1, <1>11
    <3> QED BY <1>1, <1>3, <1>5, <1>11, <3>1 DEF CommitOK
  <2>2. \A d \in Committers : CommitOK(d)'
    BY <1>1, <1>8, <2>1 DEF Alone
  <2>3. \A d, e \in Committers :
          committer'[d].pc # "outside" /\ committer'[d].of = committer'[e].of => d = e
    <3> SUFFICES ASSUME NEW d \in Committers, NEW e \in Committers,
                        committer'[d].pc # "outside", committer'[d].of = committer'[e].of, d # e
                 PROVE  FALSE
      OBVIOUS
    <3>1. committer'[c].of = w /\ w # None
      BY <1>1, <1>11, ParallelAssumption
    <3>2. \A f \in Committers : f # c => committer'[f] = committer[f] /\ committer[f].of # w
      BY <1>1, <1>2, <3>1 DEF Alone, MutexInv
    <3> QED BY <3>1, <3>2 DEF LocalInv
  <2> QED BY <1>7, <1>9, <2>2, <2>3 DEF LocalInv
<1> QED BY <1>1, <1>10, <1>11

(* A step behind Lock touches the transaction to commit and no other.      *)
LEMMA LocalCommit ==
    ASSUME MutexInv, LocalInv, NEW c \in Committers, NEW w \in Isolated,
           Alone(c), phase' = phase, panicked' = FALSE,
           committer[c].pc # "outside", committer[c].of = w,
           committer'[c].of = w \/ committer'[c] = Outside,
           \A d \in Committers : d # c => committer[d].pc \notin Inside,
           \A v \in Isolated : v # w => iso'[v] = iso[v],
           iso'[w] = [iso[w] EXCEPT !.transient = iso'[w].transient],
           CommitOK(c)'
    PROVE  LocalInv'
<1>1. phase[w] = "done" /\ iso[w] \in IsoType /\ open = TRUE
  <2>1. phase[w] = "done"
    BY DEF LocalInv, CommitOK
  <2> QED BY <2>1, LocalFacts
<1>2. /\ iso'[w].attempt = iso[w].attempt /\ iso'[w].trx = iso[w].trx
      /\ iso'[w].dropped = iso[w].dropped
  BY <1>1 DEF IsoType
<1>3. LocalOK(w)'
  BY <1>1, <1>2 DEF LocalInv, LocalOK
<1>4. \A v \in Isolated : LocalOK(v)'
  BY <1>3, LocalFrame DEF LocalInv
<1>5. ASSUME NEW d \in Committers, d # c
      PROVE  CommitOK(d)'
  <2>1. committer[d].pc # "outside" => committer[d].of \in Isolated /\ committer[d].of # w
    BY <1>5, Works DEF LocalInv
  <2> QED BY <1>5, <2>1, CommitFrame DEF LocalInv, Alone
<1>6. \A d, e \in Committers :
        committer'[d].pc # "outside" /\ committer'[d].of = committer'[e].of => d = e
  <2> SUFFICES ASSUME NEW d \in Committers, NEW e \in Committers,
                      committer'[d].pc # "outside", committer'[d].of = committer'[e].of, d # e
               PROVE  FALSE
    OBVIOUS
  <2>1. CASE d # c /\ e # c
    BY <2>1 DEF LocalInv, Alone
  <2>2. CASE d = c
    <3>1. committer'[d].of = w
      BY <2>2 DEF Outside
    <3>2. committer[e].of = w
      BY <2>2, <3>1 DEF Alone
    <3> QED BY <2>2, <3>2 DEF LocalInv
  <2>3. CASE e = c
    <3>1. committer'[d] = committer[d]
      BY <2>3 DEF Alone
    <3>2. committer[d].of # None
      BY <3>1 DEF MutexInv
    <3>3. committer[d].of = w
      BY <2>3, <3>1, <3>2 DEF Outside
    <3> QED BY <2>3, <3>1, <3>3 DEF LocalInv
  <2> QED BY <2>1, <2>2, <2>3
<1>7. open' # FALSE
  BY <1>1 DEF Alone
<1> QED BY <1>4, <1>5, <1>6, <1>7 DEF LocalInv

(* A goroutine that holds the mutex is alone behind Lock.                  *)
LEMMA AloneInside ==
    ASSUME MutexInv, NEW c \in Committers, committer[c].pc \in Inside
    PROVE  committer[c].pc # "outside" /\ \A d \in Committers : d # c => committer[d].pc \notin Inside
BY DEF MutexInv, Inside

(* The lock: the base a goroutine reads stays the counter's value while it *)
(* holds the mutex.                                                        *)
LEMMA LocalLock ==
    ASSUME MutexInv, LocalInv, NEW c \in Committers, Lock(c)
    PROVE  LocalInv'
<1> DEFINE w == committer[c].of
<1>1. /\ Alone(c) /\ UNCHANGED <<ordinal, traces, iso, phase, panicked>>
      /\ committer[c].pc = "checked" /\ mutex = None
      /\ committer'[c].pc = "locked" /\ committer'[c].of = w /\ committer'[c].base = ordinal
  BY LockStep DEF MutexInv
<1>2. w \in Isolated /\ iso[w] \in IsoType
  BY <1>1, Works
<1>3. \A d \in Committers : committer[d].pc \notin Inside
  BY <1>1, ParallelAssumption DEF MutexInv
<1>4. phase[w] = "done" /\ iso[w].trx.end > 0 /\ iso[w].transient = iso[w].trx
  BY <1>1 DEF LocalInv, CommitOK
<1> HIDE DEF w
<1>5. CommitOK(c)'
  BY <1>1, <1>4 DEF CommitOK
<1>6. iso'[w] = [iso[w] EXCEPT !.transient = iso'[w].transient]
  BY <1>1, <1>2 DEF IsoType
<1>7. committer[c].of = w /\ panicked' = FALSE
  BY <1>1 DEF w, LocalInv
<1> QED BY <1>1, <1>2, <1>3, <1>5, <1>6, <1>7, LocalCommit

(* The rebase: the transaction of a commit is never nil.                   *)
LEMMA LocalRebase ==
    ASSUME MutexInv, LocalInv, NEW c \in Committers, Rebase(c)
    PROVE  /\ LocalInv' /\ iso[committer[c].of].transient # NoTrace
           /\ committer[c].base = ordinal
<1> DEFINE w == committer[c].of
<1>1. /\ Alone(c) /\ UNCHANGED <<ordinal, traces, mutex, phase>>
      /\ committer[c].pc = "locked" /\ committer'[c].of = w /\ w \in Isolated
      /\ \A v \in Isolated : v # w => iso'[v] = iso[v]
      /\ \/ iso[w].transient = NoTrace
         \/ /\ iso[w].transient # NoTrace /\ panicked' = FALSE
            /\ committer'[c].pc = "rebased"
            /\ iso'[w] = [iso[w] EXCEPT !.transient = iso'[w].transient]
            /\ iso'[w].transient = Rebased(iso[w].transient, committer[c].base)
  BY RebaseStep, ZenonT(60)
<1>2. /\ phase[w] = "done" /\ iso[w].trx.end > 0 /\ iso[w].transient = iso[w].trx
      /\ committer[c].base = ordinal
  BY <1>1 DEF LocalInv, CommitOK
<1>3. NoTrace.end = 0 /\ ~(0 > 0)
  BY DEF NoTrace
<1>4. iso[w].transient # NoTrace
  BY <1>2, <1>3
<1>5. iso[w] \in IsoType /\ committer[c].pc # "outside"
  BY <1>1, Works
<1>6. committer[c].pc # "outside" /\ \A d \in Committers : d # c => committer[d].pc \notin Inside
  BY <1>1, AloneInside DEF Inside
<1>7. committer[c].of = w
  OBVIOUS
<1> HIDE DEF w
<1>8. iso'[w].trx = iso[w].trx
  BY <1>1, <1>4, <1>5 DEF IsoType
<1>9. CommitOK(c)'
  BY <1>1, <1>2, <1>4, <1>8 DEF CommitOK
<1>10. LocalInv'
  BY <1>1, <1>4, <1>6, <1>7, <1>9, LocalCommit
<1> QED BY <1>2, <1>4, <1>7, <1>10

(* The append                                                              *)
LEMMA LocalAppend ==
    ASSUME MutexInv, LocalInv, NEW c \in Committers, AppendTrace(c)
    PROVE  LocalInv'
<1> DEFINE w == committer[c].of
<1>1. /\ Alone(c) /\ UNCHANGED <<ordinal, mutex, iso, phase, panicked>>
      /\ committer[c].pc = "rebased" /\ committer'[c].pc = "appended"
      /\ committer'[c].of = w /\ traces' = Append(traces, iso[w].transient)
  BY AppendStep DEF MutexInv
<1>2. w \in Isolated /\ iso[w] \in IsoType /\ iso[w].transient \in TraceType
  BY <1>1, Works
<1>3. committer[c].pc # "outside" /\ \A d \in Committers : d # c => committer[d].pc \notin Inside
  BY <1>1, AloneInside DEF Inside
<1>4. phase[w] = "done" /\ iso[w].trx.end > 0 /\ iso[w].transient = Rebased(iso[w].trx, ordinal)
  BY <1>1 DEF LocalInv, CommitOK
<1>5. traces' # <<>> /\ traces'[Len(traces')] = iso[w].transient
  BY <1>1, <1>2 DEF MutexInv, TypeOK
<1>6. committer[c].of = w /\ panicked' = FALSE
  BY <1>1 DEF LocalInv
<1> HIDE DEF w
<1>7. CommitOK(c)'
  BY <1>1, <1>4, <1>5 DEF CommitOK
<1>8. iso'[w] = [iso[w] EXCEPT !.transient = iso'[w].transient]
  BY <1>1, <1>2 DEF IsoType
<1> QED BY <1>1, <1>2, <1>3, <1>6, <1>7, <1>8, LocalCommit

(* The counter's move                                                      *)
LEMMA LocalSet ==
    ASSUME MutexInv, LocalInv, NEW c \in Committers, SetOrdinal(c)
    PROVE  LocalInv'
<1> DEFINE w == committer[c].of
<1>1. /\ Alone(c) /\ UNCHANGED <<traces, mutex, iso, phase, panicked>>
      /\ committer[c].pc = "appended" /\ committer'[c].pc = "set" /\ committer'[c].of = w
  BY SetStep DEF MutexInv
<1>2. w \in Isolated /\ iso[w] \in IsoType
  BY <1>1, Works
<1>3. committer[c].pc # "outside" /\ \A d \in Committers : d # c => committer[d].pc \notin Inside
  BY <1>1, AloneInside DEF Inside
<1>4. phase[w] = "done" /\ iso[w].trx.end > 0
  BY <1>1 DEF LocalInv, CommitOK
<1>5. committer[c].of = w /\ panicked' = FALSE
  BY <1>1 DEF LocalInv
<1> HIDE DEF w
<1>6. CommitOK(c)'
  BY <1>1, <1>4 DEF CommitOK
<1>7. iso'[w] = [iso[w] EXCEPT !.transient = iso'[w].transient]
  BY <1>1, <1>2 DEF IsoType
<1> QED BY <1>1, <1>2, <1>3, <1>5, <1>6, <1>7, LocalCommit

(* The unlock                                                              *)
LEMMA LocalUnlock ==
    ASSUME MutexInv, LocalInv, NEW c \in Committers, Unlock(c)
    PROVE  LocalInv'
<1> DEFINE w == committer[c].of
<1>1. /\ Alone(c) /\ UNCHANGED <<ordinal, traces, phase, panicked>>
      /\ committer[c].pc = "set" /\ committer'[c] = Outside /\ w \in Isolated
      /\ \A v \in Isolated : v # w => iso'[v] = iso[v]
      /\ iso'[w] = [iso[w] EXCEPT !.transient = NoTrace]
  BY UnlockStep
<1>2. committer[c].of = w /\ panicked' = FALSE /\ iso[w] \in IsoType
  BY <1>1, Works DEF LocalInv
<1>3. committer[c].pc # "outside" /\ \A d \in Committers : d # c => committer[d].pc \notin Inside
  BY <1>1, AloneInside DEF Inside
<1> HIDE DEF w
<1>4. iso'[w] = [iso[w] EXCEPT !.transient = iso'[w].transient]
  BY <1>1, <1>2 DEF IsoType
<1>5. CommitOK(c)'
  BY <1>1 DEF CommitOK, Outside
<1> QED BY <1>1, <1>2, <1>3, <1>4, <1>5, LocalCommit

(* The coordinator's own hooks                                             *)
LEMMA LocalBlock ==
    ASSUME MutexInv, LocalInv, OnBlockStart \/ OnBlockEnd \/ CoordinatorHook
    PROVE  LocalInv'
<1>1. CASE OnBlockStart
  <2>1. open = FALSE /\ open' = TRUE
        /\ UNCHANGED <<ordinal, mutex, iso, committer, phase, panicked>>
    BY <1>1 DEF OnBlockStart, MutexInv, TypeOK
  <2>2. \A v \in Isolated : LocalOK(v)'
    BY <2>1, LocalFrame DEF LocalInv
  <2>3. \A c \in Committers : CommitOK(c)'
    <3>1. \A c \in Committers : committer[c].pc = "outside"
      BY <2>1, Works DEF LocalInv, CommitOK
    <3> QED BY <2>1, <3>1 DEF CommitOK
  <2> QED BY <2>1, <2>2, <2>3 DEF LocalInv
<1>2. CASE OnBlockEnd
  <2>1. /\ open' = FALSE /\ ordinal' = 0 /\ traces' = <<>> /\ own' = {}
        /\ UNCHANGED <<mutex, committer, panicked>>
        /\ \A c \in Committers : committer[c].pc = "outside"
        /\ \A v \in Isolated : phase'[v] = "none" /\ iso'[v] = NewIsolated
    BY <1>2 DEF OnBlockEnd, Joined
  <2>2. \A v \in Isolated : LocalOK(v)'
    <3> SUFFICES ASSUME NEW v \in Isolated
                 PROVE  LocalOK(v)'
      OBVIOUS
    <3>1. NewIsolated.attempt = 0 /\ 0 <= MaxAttempts
      BY ParallelAssumption DEF NewIsolated
    <3>2. phase'[v] = "none" /\ iso'[v] = NewIsolated /\ iso'[v].attempt <= MaxAttempts
      BY <2>1, <3>1
    <3> QED BY <3>2 DEF LocalOK
  <2>3. \A c \in Committers : CommitOK(c)'
    BY <2>1 DEF CommitOK
  <2> QED BY <2>1, <2>2, <2>3 DEF LocalInv
<1>3. CASE CoordinatorHook
  <2>1. /\ open = TRUE /\ UNCHANGED <<open, traces, mutex, iso, committer, phase, panicked>>
        /\ \A c \in Committers : committer[c].pc = "outside"
    BY <1>3 DEF CoordinatorHook, Joined, MutexInv, TypeOK
  <2>2. \A v \in Isolated : LocalOK(v)'
    BY <2>1, LocalFrame DEF LocalInv
  <2>3. \A c \in Committers : CommitOK(c)'
    BY <2>1 DEF CommitOK
  <2> QED BY <2>1, <2>2, <2>3 DEF LocalInv
<1> QED BY <1>1, <1>2, <1>3

(* No tracer is spawned at the start.                                      *)
LEMMA LocalInit ==
    ASSUME Init
    PROVE  LocalInv
<1>1. \A w \in Isolated : LocalOK(w)
  <2>1. NewIsolated.attempt = 0 /\ MaxAttempts \in Nat
    BY ParallelAssumption DEF NewIsolated
  <2> QED BY <2>1 DEF Init, LocalOK
<1>2. \A c \in Committers : committer[c].pc = "outside"
  BY DEF Init, Outside
<1> QED BY <1>1, <1>2 DEF Init, LocalInv, CommitOK

(* Every step keeps each tracer and each goroutine in order.               *)
LEMMA LocalStep ==
    ASSUME MutexInv, LocalInv, Disciplined, [Next]_vars
    PROVE  LocalInv'
<1>1. CASE UNCHANGED vars
  BY <1>1, ZenonT(60) DEF vars, LocalInv, LocalOK, CommitOK
<1>2. ~\E w \in Isolated : SystemCall(w)
  BY DEF Disciplined, SystemCall
<1> QED
  BY <1>1, <1>2, LocalBlock, LocalSpawn, LocalStart, LocalReset, LocalEmit, LocalPreimage, LocalEnd,
     LocalCheck, LocalLock, LocalRebase, LocalAppend, LocalSet, LocalUnlock DEF Next, InCommit

(* Committed once each, transactions traced without a system call never    *)
(* make OnTxCommit rebase one that is gone.                                *)
THEOREM CommitNeverPanics == Disciplined => (Spec => []NoPanic)
<1> SUFFICES ASSUME Disciplined
             PROVE  Spec => []NoPanic
  OBVIOUS
<1>1. Init => MutexInv /\ LocalInv
  BY MutexInit, LocalInit
<1>2. MutexInv /\ LocalInv /\ [Next]_vars => (MutexInv /\ LocalInv)'
  BY MutexStep, LocalStep
<1>3. MutexInv /\ LocalInv => NoPanic
  BY DEF LocalInv, NoPanic
<1> QED BY <1>1, <1>2, <1>3, PTL DEF Spec
-----------------------------------------------------------------------------
(* The ordinals of the block                                               *)

(* A step that leaves the block, the counter and the coordinator's         *)
(* ordinals alone keeps the layout.                                        *)
LEMMA LayoutFrame ==
    ASSUME LayoutInv, UNCHANGED <<traces, ordinal, own>>, Appending' = Appending
    PROVE  LayoutInv'
<1>1. LastUsed' = LastUsed
  BY DEF LastUsed
<1> QED BY <1>1 DEF LayoutInv

(* The ordinals and the ends of the block's transactions are numbers.      *)
LEMMA LayoutTypes ==
    ASSUME MutexInv
    PROVE  /\ ordinal \in Nat /\ own \in SUBSET Nat /\ Len(traces) \in Nat
           /\ DOMAIN traces = 1..Len(traces)
           /\ \A i \in DOMAIN traces : traces[i] \in TraceType
                                       /\ traces[i].begin \in Nat /\ traces[i].end \in Nat
<1>1. ordinal \in Nat /\ own \in SUBSET Nat /\ traces \in Seq(TraceType)
  BY DEF MutexInv, TypeOK
<1>2. Len(traces) \in Nat /\ DOMAIN traces = 1..Len(traces)
      /\ \A i \in DOMAIN traces : traces[i] \in TraceType
  BY <1>1
<1>3. \A t \in TraceType : t.begin \in Nat /\ t.end \in Nat
  BY DEF TraceType
<1> QED BY <1>1, <1>2, <1>3

(* While a goroutine is inside the commit no other has appended.           *)
LEMMA NoneAppending ==
    ASSUME MutexInv, NEW c \in Committers, committer[c].pc \in Inside \ {"appended"}
    PROVE  ~Appending
BY DEF MutexInv, Inside, Appending

(* The coordinator uses the next ordinal itself.                           *)
LEMMA LayoutHook ==
    ASSUME MutexInv, LayoutInv, CoordinatorHook
    PROVE  LayoutInv'
<1> DEFINE n == ordinal + 1
<1>1. /\ ordinal' = n /\ own' = own \cup {n} /\ traces' = traces /\ committer' = committer
      /\ \A c \in Committers : committer[c].pc = "outside"
  BY DEF CoordinatorHook, Joined
<1>2. ordinal \in Nat /\ n = ordinal + 1 /\ own \in SUBSET Nat
      /\ \A i \in DOMAIN traces : traces[i].begin \in Nat /\ traces[i].end \in Nat
  BY LayoutTypes
<1>3. LastUsed = ordinal /\ LastUsed' = n
  BY <1>1 DEF LastUsed, Appending
<1> HIDE DEF n
<1>4. \A i \in DOMAIN traces' :
        /\ traces'[i].of \in Isolated /\ traces'[i].begin >= 1
        /\ Ended(traces'[i], traces'[i].of, traces'[i].attempt, traces'[i].begin - 1)
        /\ traces'[i].end <= LastUsed'
  <2> SUFFICES ASSUME NEW i \in DOMAIN traces
               PROVE  /\ traces[i].of \in Isolated /\ traces[i].begin >= 1
                      /\ Ended(traces[i], traces[i].of, traces[i].attempt, traces[i].begin - 1)
                      /\ traces[i].end <= n
    BY <1>1, <1>3
  <2>1. traces[i].end <= ordinal /\ traces[i].end \in Nat
    BY <1>2, <1>3 DEF LayoutInv
  <2>2. traces[i].end <= n
    BY <1>2, <2>1
  <2> QED BY <2>2 DEF LayoutInv
<1>5. \A m \in own' : 1 <= m /\ m <= ordinal'
  <2> SUFFICES ASSUME NEW m \in own \cup {n}
               PROVE  1 <= m /\ m <= n
    BY <1>1
  <2>1. CASE m = n
    BY <1>2, <2>1
  <2>2. CASE m \in own
    <3>1. 1 <= m /\ m <= ordinal /\ m \in Nat
      BY <1>2, <2>2 DEF LayoutInv
    <3> QED BY <1>2, <3>1
  <2> QED BY <2>1, <2>2
<1>6. \A m \in own', i \in DOMAIN traces' : m < traces'[i].begin \/ traces'[i].end < m
  <2> SUFFICES ASSUME NEW m \in own \cup {n}, NEW i \in DOMAIN traces
               PROVE  m < traces[i].begin \/ traces[i].end < m
    BY <1>1
  <2>1. CASE m = n
    <3>1. traces[i].end <= ordinal /\ traces[i].end \in Nat
      BY <1>2, <1>3 DEF LayoutInv
    <3> QED BY <1>2, <2>1, <3>1
  <2>2. CASE m \in own
    BY <2>2 DEF LayoutInv
  <2> QED BY <2>1, <2>2
<1>7. \A m \in 1..LastUsed' :
        m \in own' \/ \E i \in DOMAIN traces' : traces'[i].begin <= m /\ m <= traces'[i].end
  <2> SUFFICES ASSUME NEW m \in 1..n, m # n
               PROVE  m \in own \/ \E i \in DOMAIN traces : traces[i].begin <= m /\ m <= traces[i].end
    BY <1>1, <1>3
  <2>1. m \in 1..ordinal
    BY <1>2
  <2> QED BY <1>3, <2>1 DEF LayoutInv
<1>8. \A i, j \in DOMAIN traces' : i < j => traces'[i].end < traces'[j].begin
  BY <1>1 DEF LayoutInv
<1> QED BY <1>4, <1>5, <1>6, <1>7, <1>8 DEF LayoutInv

(* The transaction appended to the block follows everything in it.         *)
LEMMA LayoutAppend ==
    ASSUME MutexInv, LocalInv, LayoutInv, NEW c \in Committers, AppendTrace(c)
    PROVE  LayoutInv'
<1> DEFINE w == committer[c].of
           t == iso[w].transient
           k == Len(traces) + 1
<1>1. /\ Alone(c) /\ UNCHANGED <<ordinal, own, iso, phase>>
      /\ committer[c].pc = "rebased" /\ committer'[c].pc = "appended"
      /\ traces' = Append(traces, t)
  BY AppendStep DEF MutexInv, Alone
<1>2. w \in Isolated /\ iso[w].trx \in TraceType /\ t \in TraceType
  BY <1>1, Works
<1>3. phase[w] = "done" /\ iso[w].trx.end > 0 /\ t = Rebased(iso[w].trx, ordinal)
  BY <1>1 DEF LocalInv, CommitOK
<1>4. ordinal \in Nat /\ own \in SUBSET Nat /\ Len(traces) \in Nat
      /\ DOMAIN traces = 1..Len(traces)
      /\ \A i \in DOMAIN traces : traces[i].begin \in Nat /\ traces[i].end \in Nat
  BY LayoutTypes
<1>5. Ended(t, w, iso[w].attempt, ordinal)
  <2>1. Ended(iso[w].trx, w, iso[w].attempt, 0)
    BY <1>2, <1>3 DEF LocalInv, LocalOK
  <2> QED BY <1>2, <1>3, <1>4, <2>1, EndedRebased
<1>6. t.of = w /\ t.attempt = iso[w].attempt /\ t.begin = ordinal + 1 /\ t.begin < t.end
      /\ t.end \in Nat
  <2>1. t.begin < t.end
    BY <1>2, <1>4, <1>5, EndedLength
  <2> QED BY <1>2, <1>5, <2>1 DEF Ended, TraceType
<1>7. LastUsed = ordinal
  <2>1. ~Appending
    BY <1>1, NoneAppending DEF Inside
  <2> QED BY <2>1 DEF LastUsed
<1>8. /\ DOMAIN traces' = 1..k /\ k = Len(traces) + 1
      /\ traces'[k] = t /\ \A i \in 1..Len(traces) : traces'[i] = traces[i]
      /\ Len(traces') = k
  BY <1>1, <1>2 DEF MutexInv, TypeOK
<1>9. LastUsed' = t.end
  <2>1. Appending'
    BY <1>1 DEF Appending
  <2> QED BY <1>8, <2>1 DEF LastUsed
<1> HIDE DEF t, w, k
<1>10. \A i \in 1..k :
        /\ traces'[i].of \in Isolated /\ traces'[i].begin >= 1
        /\ Ended(traces'[i], traces'[i].of, traces'[i].attempt, traces'[i].begin - 1)
        /\ traces'[i].end <= LastUsed'
  <2> SUFFICES ASSUME NEW i \in 1..k
               PROVE  /\ traces'[i].of \in Isolated /\ traces'[i].begin >= 1
                      /\ Ended(traces'[i], traces'[i].of, traces'[i].attempt, traces'[i].begin - 1)
                      /\ traces'[i].end <= LastUsed'
    OBVIOUS
  <2>1. CASE i = k
    <3>1. t.begin >= 1 /\ t.begin - 1 = ordinal /\ t.end <= t.end
      BY <1>4, <1>6
    <3> QED BY <1>2, <1>5, <1>6, <1>8, <1>9, <2>1, <3>1
  <2>2. CASE i # k
    <3>1. i \in 1..Len(traces) /\ i \in DOMAIN traces
      BY <1>4, <1>8, <2>2
    <3>2. /\ traces[i].of \in Isolated /\ traces[i].begin >= 1
          /\ Ended(traces[i], traces[i].of, traces[i].attempt, traces[i].begin - 1)
          /\ traces[i].end <= ordinal /\ traces[i].end \in Nat
      BY <1>4, <1>7, <3>1 DEF LayoutInv
    <3>3. traces[i].end <= t.end
      BY <1>4, <1>6, <3>2
    <3> QED BY <1>8, <1>9, <3>1, <3>2, <3>3
  <2> QED BY <2>1, <2>2
<1>11. \A i, j \in 1..k : i < j => traces'[i].end < traces'[j].begin
  <2> SUFFICES ASSUME NEW i \in 1..k, NEW j \in 1..k, i < j
               PROVE  traces'[i].end < traces'[j].begin
    OBVIOUS
  <2>1. i \in 1..Len(traces) /\ i \in DOMAIN traces
    BY <1>4, <1>8
  <2>2. CASE j = k
    <3>1. traces[i].end <= ordinal /\ traces[i].end \in Nat
      BY <1>4, <1>7, <2>1 DEF LayoutInv
    <3>2. traces[i].end < t.begin
      BY <1>4, <1>6, <3>1
    <3> QED BY <1>8, <2>1, <2>2, <3>2
  <2>3. CASE j # k
    <3>1. j \in 1..Len(traces) /\ j \in DOMAIN traces
      BY <1>4, <1>8, <2>3
    <3> QED BY <1>8, <2>1, <3>1 DEF LayoutInv
  <2> QED BY <2>2, <2>3
<1>12. \A n \in own, i \in 1..k : n < traces'[i].begin \/ traces'[i].end < n
  <2> SUFFICES ASSUME NEW n \in own, NEW i \in 1..k
               PROVE  n < traces'[i].begin \/ traces'[i].end < n
    OBVIOUS
  <2>1. CASE i = k
    <3>1. n <= ordinal /\ n \in Nat
      BY <1>4 DEF LayoutInv
    <3>2. n < t.begin
      BY <1>4, <1>6, <3>1
    <3> QED BY <1>8, <2>1, <3>2
  <2>2. CASE i # k
    <3>1. i \in 1..Len(traces) /\ i \in DOMAIN traces
      BY <1>4, <1>8, <2>2
    <3> QED BY <1>8, <3>1 DEF LayoutInv
  <2> QED BY <2>1, <2>2
<1>13. \A n \in 1..t.end : n \in own \/ \E i \in 1..k : traces'[i].begin <= n /\ n <= traces'[i].end
  <2> SUFFICES ASSUME NEW n \in 1..t.end, n \notin own
               PROVE  \E i \in 1..k : traces'[i].begin <= n /\ n <= traces'[i].end
    OBVIOUS
  <2>1. CASE n <= ordinal
    <3>1. n \in 1..ordinal
      BY <1>4, <1>6, <2>1
    <3>2. PICK i \in DOMAIN traces : traces[i].begin <= n /\ n <= traces[i].end
      BY <1>7, <3>1 DEF LayoutInv
    <3>3. i \in 1..k /\ i \in 1..Len(traces)
      BY <1>4, <1>8, <3>2
    <3> QED BY <1>8, <3>2, <3>3
  <2>2. CASE n > ordinal
    <3>1. t.begin <= n /\ n <= t.end /\ k \in 1..k
      BY <1>4, <1>6, <1>8, <2>2
    <3> QED BY <1>8, <3>1
  <2> QED BY <1>4, <1>6, <2>1, <2>2
<1>14. \A n \in own : 1 <= n /\ n <= ordinal
  BY DEF LayoutInv
<1> QED BY <1>1, <1>8, <1>9, <1>10, <1>11, <1>12, <1>13, <1>14 DEF LayoutInv

(* The coordinator's counter moves past it.                                *)
LEMMA LayoutSet ==
    ASSUME MutexInv, LocalInv, LayoutInv, NEW c \in Committers, SetOrdinal(c)
    PROVE  LayoutInv'
<1> DEFINE w == committer[c].of
           t == iso[w].transient
<1>1. /\ Alone(c) /\ UNCHANGED <<traces, own>>
      /\ committer[c].pc = "appended" /\ committer'[c].pc = "set"
      /\ ordinal' = t.end
  BY SetStep DEF MutexInv, Alone
<1>2. w \in Isolated /\ iso[w].trx \in TraceType /\ t \in TraceType
  BY <1>1, Works
<1>3. /\ t = Rebased(iso[w].trx, ordinal) /\ traces[Len(traces)] = t
      /\ phase[w] = "done" /\ iso[w].trx.end > 0
  BY <1>1 DEF LocalInv, CommitOK
<1>4. ordinal \in Nat /\ own \in SUBSET Nat
  BY LayoutTypes
<1>5. t.begin = ordinal + 1 /\ t.begin < t.end /\ t.end \in Nat
  <2>1. Ended(iso[w].trx, w, iso[w].attempt, 0)
    BY <1>2, <1>3 DEF LocalInv, LocalOK
  <2>2. Ended(t, w, iso[w].attempt, ordinal)
    BY <1>2, <1>3, <1>4, <2>1, EndedRebased
  <2>3. t.begin = ordinal + 1 /\ t.begin < t.end
    BY <1>2, <1>4, <2>2, EndedLength
  <2> QED BY <1>2, <2>3 DEF TraceType
<1>6. LastUsed = t.end
  <2>1. Appending
    BY <1>1 DEF Appending
  <2> QED BY <1>3, <2>1 DEF LastUsed
<1>7. LastUsed' = t.end
  <2>1. \A d \in Committers : d # c => committer[d].pc # "appended"
    BY <1>1, AloneInside DEF Inside
  <2>2. ~Appending'
    BY <1>1, <2>1 DEF Appending, Alone
  <2> QED BY <1>1, <2>2 DEF LastUsed
<1> HIDE DEF t, w
<1>8. \A n \in own' : 1 <= n /\ n <= ordinal'
  <2> SUFFICES ASSUME NEW n \in own
               PROVE  1 <= n /\ n <= t.end
    BY <1>1
  <2>1. 1 <= n /\ n <= ordinal /\ n \in Nat
    BY <1>4 DEF LayoutInv
  <2> QED BY <1>4, <1>5, <2>1
<1> QED BY <1>1, <1>6, <1>7, <1>8 DEF LayoutInv

(* The block is empty at the start.                                        *)
LEMMA LayoutInit ==
    ASSUME Init
    PROVE  LayoutInv
<1>1. LastUsed = 0 /\ DOMAIN traces = {} /\ 1..0 = {}
  BY DEF Init, LastUsed, Appending, Outside
<1> QED BY <1>1 DEF Init, LayoutInv

(* Every step keeps the ordinals of the block shared out.                  *)
LEMMA LayoutStep ==
    ASSUME MutexInv, LocalInv, LayoutInv, Disciplined, [Next]_vars
    PROVE  LayoutInv'
<1> TypeOK
  BY DEF MutexInv
<1>1. CASE OnBlockStart \/ OnBlockEnd
  <2>1. traces' = <<>> /\ own' = {} /\ ordinal' = 0 /\ committer' = committer
    BY <1>1 DEF OnBlockStart, OnBlockEnd, LocalInv
  <2>2. \A c \in Committers : committer[c].pc = "outside"
    <3>1. CASE OnBlockEnd
      BY <3>1 DEF OnBlockEnd, Joined
    <3>2. CASE OnBlockStart
      <4>1. open = FALSE
        BY <3>2 DEF OnBlockStart, TypeOK
      <4> QED BY <4>1, Works DEF LocalInv, CommitOK
    <3> QED BY <1>1, <3>1, <3>2
  <2>3. ~Appending'
    BY <2>1, <2>2 DEF Appending
  <2>4. LastUsed' = 0 /\ DOMAIN traces' = {} /\ 1..0 = {}
    BY <2>1, <2>3 DEF LastUsed
  <2> QED BY <2>1, <2>4 DEF LayoutInv
<1>2. CASE CoordinatorHook
  BY <1>2, LayoutHook
<1>3. ASSUME NEW w \in Isolated,
             OnTxSpawn(w) \/ OnTxStart(w) \/ OnTxReset(w) \/ OnChange(w) \/ OnLog(w)
             \/ OnKeccakPreimage(w) \/ \E receipt \in BOOLEAN : OnTxEnd(w, receipt)
      PROVE  LayoutInv'
  <2>1. Apace(w) /\ own' = own
    BY <1>3, SpawnStep, StartStep, ResetStep, ChangeStep, LogStep, PreimageStep, EndStep, ZenonT(60)
  <2>2. Appending' = Appending
    BY <2>1 DEF Apace, Appending
  <2> QED BY <2>1, <2>2, LayoutFrame DEF Apace
<1>4. ASSUME NEW c \in Committers, Alone(c), UNCHANGED <<ordinal, traces>>,
             committer[c].pc # "appended", committer'[c].pc # "appended"
      PROVE  LayoutInv'
  <2>1. \A d \in Committers : (committer'[d].pc = "appended") = (committer[d].pc = "appended")
    BY <1>4 DEF Alone
  <2>2. Appending' = Appending
    BY <2>1 DEF Appending
  <2> QED BY <1>4, <2>2, LayoutFrame DEF Alone
<1>5. ASSUME NEW w \in Isolated, NEW c \in Committers, CheckCommit(c, w)
      PROVE  LayoutInv'
  <2>1. /\ Alone(c) /\ UNCHANGED <<ordinal, traces>>
        /\ committer[c].pc = "outside" /\ committer'[c].pc \in {"outside", "checked"}
    <3>1. [pc |-> "checked", of |-> w, base |-> 0].pc = "checked"
      OBVIOUS
    <3> QED BY <1>5, <3>1, CheckStep, ZenonT(60)
  <2> QED BY <1>4, <2>1
<1>6. ASSUME NEW c \in Committers, Lock(c)
      PROVE  LayoutInv'
  <2>1. /\ Alone(c) /\ UNCHANGED <<ordinal, traces>>
        /\ committer[c].pc = "checked" /\ committer'[c].pc = "locked"
    BY <1>6, LockStep
  <2> QED BY <1>4, <2>1
<1>7. ASSUME NEW c \in Committers, Rebase(c)
      PROVE  LayoutInv'
  <2>1. /\ Alone(c) /\ UNCHANGED <<ordinal, traces>>
        /\ committer[c].pc = "locked" /\ committer'[c].pc \in {"locked", "rebased"}
    BY <1>7, RebaseStep
  <2> QED BY <1>4, <2>1
<1>8. ASSUME NEW c \in Committers, Unlock(c)
      PROVE  LayoutInv'
  <2>1. /\ Alone(c) /\ UNCHANGED <<ordinal, traces>>
        /\ committer[c].pc = "set" /\ committer'[c].pc = "outside"
    <3>1. /\ Alone(c) /\ UNCHANGED <<ordinal, traces, phase, panicked>>
          /\ committer[c].pc = "set" /\ committer'[c] = Outside
      BY <1>8, UnlockStep
    <3> QED BY <3>1 DEF Outside
  <2> QED BY <1>4, <2>1
<1>9. CASE UNCHANGED vars
  <2>1. Appending' = Appending
    BY <1>9 DEF vars, Appending
  <2> QED BY <1>9, <2>1, LayoutFrame DEF vars
<1>10. ~\E w \in Isolated : SystemCall(w)
  BY DEF Disciplined, SystemCall
<1> QED
  BY <1>1, <1>2, <1>3, <1>5, <1>6, <1>7, <1>8, <1>9, <1>10, LayoutAppend, LayoutSet DEF Next, InCommit

(* A transaction of the block uses the ordinals from its first to its last *)
(* one, each once.                                                         *)
LEMMA UsedOnce ==
    ASSUME NEW t \in TraceType, NEW w, NEW n, NEW base \in Nat, Ended(t, w, n, base)
    PROVE  LET u == UsedOrdinals(t)
           IN  /\ Len(u) \in Nat /\ Len(u) <= MaxMarks + 2
               /\ \A i \in 1..Len(u) : u[i] \in Nat /\ t.begin <= u[i] /\ u[i] <= t.end
               /\ \A i, j \in 1..Len(u) : u[i] = u[j] => i = j
               /\ \A m \in t.begin..t.end : \E i \in 1..Len(u) : u[i] = m
<1> DEFINE cs == t.changes
           ls == t.logs
           a  == t.begin
           b  == t.end
           x  == Len(cs)
           y  == Len(ls)
           u  == UsedOrdinals(t)
<1>1. /\ cs \in Seq(Nat) /\ ls \in Seq(Nat) /\ a \in Nat /\ b \in Nat
      /\ x \in Nat /\ y \in Nat /\ MaxMarks \in Nat
      /\ \A i \in 1..x : cs[i] \in Nat
      /\ \A i \in 1..y : ls[i] \in Nat
  <2>1. cs \in Seq(Nat) /\ ls \in Seq(Nat) /\ a \in Nat /\ b \in Nat
    BY DEF TraceType, Ordinals
  <2> QED BY <2>1, ParallelAssumption, SMTT(60)
<1>2. /\ b = a + x + y + 1 /\ x + y <= MaxMarks
      /\ \A i \in 1..x : a < cs[i] /\ cs[i] < b
      /\ \A i \in 1..y : a < ls[i] /\ ls[i] < b
      /\ \A i, j \in 1..x : cs[i] = cs[j] => i = j
      /\ \A i, j \in 1..y : ls[i] = ls[j] => i = j
      /\ \A i \in 1..x, j \in 1..y : cs[i] # ls[j]
      /\ \A m \in (a + 1)..(b - 1) : \/ \E i \in 1..x : cs[i] = m
                                     \/ \E i \in 1..y : ls[i] = m
  BY DEF Ended, Tight
<1>3. u = <<a>> \o cs \o ls \o <<b>>
  BY DEF UsedOrdinals
<1> HIDE DEF u, x, y, cs, ls, a, b
<1>4. /\ Len(u) = x + y + 2
      /\ u[1] = a
      /\ \A i \in 1..x : u[i + 1] = cs[i]
      /\ \A i \in 1..y : u[i + x + 1] = ls[i]
      /\ u[x + y + 2] = b
  <2>1. <<a>> \in Seq(Nat) /\ <<b>> \in Seq(Nat) /\ Len(<<a>>) = 1 /\ Len(<<b>>) = 1
    BY <1>1
  <2> DEFINE p == <<a>> \o cs
             q == p \o ls
  <2>2. /\ p \in Seq(Nat) /\ Len(p) = 1 + x
        /\ \A i \in 1..(1 + x) : p[i] = IF i <= 1 THEN a ELSE cs[i - 1]
    BY <1>1, <2>1, ConcatProperties DEF x
  <2> HIDE DEF p
  <2>3. /\ q \in Seq(Nat) /\ Len(q) = (1 + x) + y
        /\ \A i \in 1..((1 + x) + y) : q[i] = IF i <= 1 + x THEN p[i] ELSE ls[i - (1 + x)]
    <3>1. /\ p \o ls \in Seq(Nat) /\ Len(p \o ls) = Len(p) + Len(ls)
          /\ \A i \in 1..(Len(p) + Len(ls)) :
               (p \o ls)[i] = IF i <= Len(p) THEN p[i] ELSE ls[i - Len(p)]
      BY <1>1, <2>2, ConcatProperties
    <3>2. Len(ls) = y
      BY DEF y
    <3> QED BY <2>2, <3>1, <3>2
  <2> HIDE DEF q
  <2>4. /\ Len(q \o <<b>>) = (1 + x + y) + 1
        /\ \A i \in 1..((1 + x + y) + 1) :
             (q \o <<b>>)[i] = IF i <= 1 + x + y THEN q[i] ELSE <<b>>[i - (1 + x + y)]
    <3>1. /\ Len(q \o <<b>>) = Len(q) + Len(<<b>>)
          /\ \A i \in 1..(Len(q) + Len(<<b>>)) :
               (q \o <<b>>)[i] = IF i <= Len(q) THEN q[i] ELSE <<b>>[i - Len(q)]
      BY <2>1, <2>3, ConcatProperties
    <3>2. Len(q) = 1 + x + y
      BY <1>1, <2>3
    <3> QED BY <2>1, <3>1, <3>2
  <2>5. u = q \o <<b>>
    BY <1>3 DEF q, p
  <2>6. Len(u) = x + y + 2
    BY <1>1, <2>4, <2>5
  <2>7. u[1] = a
    <3>1. 1 \in 1..((1 + x + y) + 1) /\ 1 \in 1..((1 + x) + y) /\ 1 \in 1..(1 + x)
          /\ 1 <= 1 + x + y /\ 1 <= 1 + x
      BY <1>1
    <3> QED BY <2>2, <2>3, <2>4, <2>5, <3>1
  <2>8. ASSUME NEW i \in 1..x
        PROVE  u[i + 1] = cs[i]
    <3>1. i + 1 \in 1..((1 + x + y) + 1) /\ i + 1 \in 1..((1 + x) + y) /\ i + 1 \in 1..(1 + x)
          /\ i + 1 <= 1 + x + y /\ i + 1 <= 1 + x /\ ~(i + 1 <= 1) /\ (i + 1) - 1 = i
      BY <1>1
    <3> QED BY <2>2, <2>3, <2>4, <2>5, <3>1
  <2>9. ASSUME NEW i \in 1..y
        PROVE  u[i + x + 1] = ls[i]
    <3>1. i + x + 1 \in 1..((1 + x + y) + 1) /\ i + x + 1 \in 1..((1 + x) + y)
          /\ i + x + 1 <= 1 + x + y /\ ~(i + x + 1 <= 1 + x) /\ (i + x + 1) - (1 + x) = i
      BY <1>1
    <3> QED BY <2>3, <2>4, <2>5, <3>1
  <2>10. u[x + y + 2] = b
    <3>1. x + y + 2 \in 1..((1 + x + y) + 1) /\ ~(x + y + 2 <= 1 + x + y)
          /\ (x + y + 2) - (1 + x + y) = 1 /\ <<b>>[1] = b
      BY <1>1
    <3> QED BY <2>4, <2>5, <3>1
  <2> QED BY <2>6, <2>7, <2>8, <2>9, <2>10
<1>5. ASSUME NEW i \in 1..Len(u)
      PROVE  \/ i = 1 \/ i = x + y + 2
             \/ i - 1 \in 1..x /\ i = (i - 1) + 1
             \/ i - x - 1 \in 1..y /\ i = (i - x - 1) + x + 1
  BY <1>1, <1>4
<1>6. ASSUME NEW i \in 1..Len(u)
      PROVE  \/ i = 1 /\ u[i] = a
             \/ i = x + y + 2 /\ u[i] = b
             \/ \E k \in 1..x : i = k + 1 /\ u[i] = cs[k]
             \/ \E k \in 1..y : i = k + x + 1 /\ u[i] = ls[k]
  <2>1. CASE i - 1 \in 1..x /\ i = (i - 1) + 1
    <3>1. u[i] = cs[i - 1]
      BY <1>4, <2>1
    <3> QED BY <2>1, <3>1
  <2>2. CASE i - x - 1 \in 1..y /\ i = (i - x - 1) + x + 1
    <3>1. u[i] = ls[i - x - 1]
      BY <1>4, <2>2
    <3> QED BY <2>2, <3>1
  <2> QED BY <1>4, <1>5, <2>1, <2>2
<1>7. a < b
  BY <1>1, <1>2
<1>8. \A i \in 1..Len(u) : u[i] \in Nat /\ a <= u[i] /\ u[i] <= b
  <2> SUFFICES ASSUME NEW i \in 1..Len(u)
               PROVE  u[i] \in Nat /\ a <= u[i] /\ u[i] <= b
    OBVIOUS
  <2>1. CASE u[i] = a \/ u[i] = b
    BY <1>1, <1>7, <2>1
  <2>2. CASE \E k \in 1..x : i = k + 1 /\ u[i] = cs[k]
    <3>1. PICK k \in 1..x : u[i] = cs[k]
      BY <2>2
    <3>2. cs[k] \in Nat /\ a < cs[k] /\ cs[k] < b
      BY <1>1, <1>2
    <3> QED BY <1>1, <3>1, <3>2
  <2>3. CASE \E k \in 1..y : i = k + x + 1 /\ u[i] = ls[k]
    <3>1. PICK k \in 1..y : u[i] = ls[k]
      BY <2>3
    <3>2. ls[k] \in Nat /\ a < ls[k] /\ ls[k] < b
      BY <1>1, <1>2
    <3> QED BY <1>1, <3>1, <3>2
  <2> QED BY <1>6, <2>1, <2>2, <2>3
<1>9. \A i, j \in 1..Len(u) : u[i] = u[j] => i = j
  <2> SUFFICES ASSUME NEW i \in 1..Len(u), NEW j \in 1..Len(u), u[i] = u[j]
               PROVE  i = j
    OBVIOUS
  <2>1. \A k \in 1..x : cs[k] # a /\ cs[k] # b
    BY <1>1, <1>2
  <2>2. \A k \in 1..y : ls[k] # a /\ ls[k] # b
    BY <1>1, <1>2
  <2>3. a # b
    BY <1>1, <1>7
  <2>4. CASE u[i] = a /\ i = 1
    BY <1>6, <2>1, <2>2, <2>3, <2>4
  <2>5. CASE u[i] = b /\ i = x + y + 2
    BY <1>6, <2>1, <2>2, <2>3, <2>5
  <2>6. CASE \E k \in 1..x : i = k + 1 /\ u[i] = cs[k]
    <3>1. PICK k \in 1..x : i = k + 1 /\ u[i] = cs[k]
      BY <2>6
    <3>2. PICK m \in 1..x : j = m + 1 /\ u[j] = cs[m]
      BY <1>2, <1>6, <2>1, <3>1
    <3>3. k = m
      BY <1>2, <3>1, <3>2
    <3> QED BY <3>1, <3>2, <3>3
  <2>7. CASE \E k \in 1..y : i = k + x + 1 /\ u[i] = ls[k]
    <3>1. PICK k \in 1..y : i = k + x + 1 /\ u[i] = ls[k]
      BY <2>7
    <3>2. PICK m \in 1..y : j = m + x + 1 /\ u[j] = ls[m]
      BY <1>2, <1>6, <2>2, <3>1
    <3>3. k = m
      BY <1>2, <3>1, <3>2
    <3> QED BY <3>1, <3>2, <3>3
  <2> QED BY <1>6, <2>4, <2>5, <2>6, <2>7
<1>10. \A m \in a..b : \E i \in 1..Len(u) : u[i] = m
  <2> SUFFICES ASSUME NEW m \in a..b
               PROVE  \E i \in 1..Len(u) : u[i] = m
    OBVIOUS
  <2>1. CASE m = a
    <3>1. 1 \in 1..Len(u)
      BY <1>1, <1>4
    <3> QED BY <1>4, <2>1, <3>1
  <2>2. CASE m = b
    <3>1. x + y + 2 \in 1..Len(u)
      BY <1>1, <1>4
    <3> QED BY <1>4, <2>2, <3>1
  <2>3. CASE m # a /\ m # b
    <3>1. m \in (a + 1)..(b - 1)
      BY <1>1, <2>3
    <3>2. CASE \E i \in 1..x : cs[i] = m
      <4>1. PICK k \in 1..x : cs[k] = m
        BY <3>2
      <4>2. k + 1 \in 1..Len(u) /\ u[k + 1] = m
        BY <1>1, <1>4, <4>1
      <4> QED BY <4>2
    <3>3. CASE \E i \in 1..y : ls[i] = m
      <4>1. PICK k \in 1..y : ls[k] = m
        BY <3>3
      <4>2. k + x + 1 \in 1..Len(u)
        BY <1>1, <1>4
      <4>3. u[k + x + 1] = m
        BY <1>4, <4>1
      <4> QED BY <4>2, <4>3
    <3> QED BY <1>2, <3>1, <3>2, <3>3
  <2> QED BY <2>1, <2>2, <2>3
<1>11. Len(u) \in Nat /\ Len(u) <= MaxMarks + 2
  BY <1>1, <1>2, <1>4
<1> QED BY <1>8, <1>9, <1>10, <1>11 DEF u, a, b

(* With no commit under way the block's own ordinals and those of its      *)
(* transactions are those up to the counter, each used once.               *)
LEMMA LayoutDense ==
    ASSUME MutexInv, LayoutInv
    PROVE  OrdinalsDense
<1> DEFINE used == {p \in (DOMAIN traces) \X (1..(MaxMarks + 2)) :
                      p[2] <= Len(UsedOrdinals(traces[p[1]]))}
           AtP(p) == UsedOrdinals(traces[p[1]])[p[2]]
           free == (1..ordinal) \ own
<1> SUFFICES ASSUME Joined
             PROVE  /\ own \cup {AtP(p) : p \in used} = 1..ordinal
                    /\ Cardinality(own) + Cardinality(used) = ordinal
  BY DEF OrdinalsDense
<1>1. LastUsed = ordinal
  BY DEF Joined, LastUsed, Appending
<1>2. /\ ordinal \in Nat /\ own \in SUBSET Nat /\ Len(traces) \in Nat
      /\ DOMAIN traces = 1..Len(traces)
      /\ \A i \in DOMAIN traces : traces[i] \in TraceType
                                  /\ traces[i].begin \in Nat /\ traces[i].end \in Nat
  BY LayoutTypes
<1>3. own \subseteq 1..ordinal
  BY <1>2 DEF LayoutInv
<1>4. ASSUME NEW i \in DOMAIN traces
      PROVE  LET u == UsedOrdinals(traces[i])
             IN  /\ Len(u) \in Nat /\ Len(u) <= MaxMarks + 2
                 /\ \A j \in 1..Len(u) : /\ u[j] \in Nat /\ traces[i].begin <= u[j]
                                         /\ u[j] <= traces[i].end
                 /\ \A j, k \in 1..Len(u) : u[j] = u[k] => j = k
                 /\ \A m \in traces[i].begin..traces[i].end : \E j \in 1..Len(u) : u[j] = m
  <2>1. traces[i].begin - 1 \in Nat
    BY <1>2 DEF LayoutInv
  <2>2. Ended(traces[i], traces[i].of, traces[i].attempt, traces[i].begin - 1)
    BY DEF LayoutInv
  <2> QED BY <1>2, <2>1, <2>2, UsedOnce
<1>5. ASSUME NEW p \in used
      PROVE  /\ p[1] \in DOMAIN traces /\ p[2] \in 1..Len(UsedOrdinals(traces[p[1]]))
             /\ AtP(p) \in Nat /\ traces[p[1]].begin <= AtP(p) /\ AtP(p) <= traces[p[1]].end
             /\ AtP(p) \in free
  <2>1. p[1] \in DOMAIN traces /\ p[2] \in 1..(MaxMarks + 2)
        /\ p[2] <= Len(UsedOrdinals(traces[p[1]]))
    OBVIOUS
  <2>2. p[2] \in 1..Len(UsedOrdinals(traces[p[1]]))
    BY <1>4, <2>1
  <2>3. AtP(p) \in Nat /\ traces[p[1]].begin <= AtP(p) /\ AtP(p) <= traces[p[1]].end
    BY <1>4, <2>1, <2>2
  <2>4. traces[p[1]].begin >= 1 /\ traces[p[1]].end <= ordinal
    BY <1>1, <2>1 DEF LayoutInv
  <2>5. AtP(p) \notin own
    <3> SUFFICES ASSUME AtP(p) \in own
                 PROVE  FALSE
      OBVIOUS
    <3>1. AtP(p) < traces[p[1]].begin \/ traces[p[1]].end < AtP(p)
      BY <2>1 DEF LayoutInv
    <3>2. traces[p[1]].begin \in Nat /\ traces[p[1]].end \in Nat
      BY <1>2, <2>1
    <3> HIDE DEF AtP
    <3> QED BY <2>3, <3>1, <3>2
  <2>6. AtP(p) \in 1..ordinal
    <3>1. traces[p[1]].begin \in Nat /\ traces[p[1]].end \in Nat
      BY <1>2, <2>1
    <3> HIDE DEF AtP
    <3> QED BY <1>2, <2>3, <2>4, <3>1
  <2> QED BY <2>1, <2>2, <2>3, <2>5, <2>6
<1>6. ASSUME NEW m \in free
      PROVE  \E p \in used : AtP(p) = m
  <2>1. PICK i \in DOMAIN traces : traces[i].begin <= m /\ m <= traces[i].end
    BY <1>1 DEF LayoutInv
  <2>2. m \in traces[i].begin..traces[i].end
    BY <1>2, <2>1
  <2>3. PICK j \in 1..Len(UsedOrdinals(traces[i])) : UsedOrdinals(traces[i])[j] = m
    BY <1>4, <2>2
  <2>4. j \in 1..(MaxMarks + 2) /\ j <= Len(UsedOrdinals(traces[i]))
    BY <1>4, <2>3, ParallelAssumption
  <2>5. <<i, j>> \in used
    BY <2>4
  <2>6. AtP(<<i, j>>) = m
    BY <2>3
  <2> QED BY <2>5, <2>6
<1>7. ASSUME NEW p \in used, NEW q \in used, AtP(p) = AtP(q)
      PROVE  p = q
  <2>1. /\ p[1] \in DOMAIN traces /\ q[1] \in DOMAIN traces
        /\ AtP(p) \in Nat /\ traces[p[1]].begin <= AtP(p) /\ AtP(p) <= traces[p[1]].end
        /\ traces[q[1]].begin <= AtP(q) /\ AtP(q) <= traces[q[1]].end
        /\ p[2] \in 1..Len(UsedOrdinals(traces[p[1]]))
        /\ q[2] \in 1..Len(UsedOrdinals(traces[q[1]]))
    BY <1>5
  <2>2. p[1] \in Nat /\ q[1] \in Nat
    BY <1>2, <2>1
  <2>3. ~(p[1] < q[1]) /\ ~(q[1] < p[1])
    <3>1. p[1] < q[1] => traces[p[1]].end < traces[q[1]].begin
      BY <2>1 DEF LayoutInv
    <3>2. q[1] < p[1] => traces[q[1]].end < traces[p[1]].begin
      BY <2>1 DEF LayoutInv
    <3>3. /\ traces[p[1]].begin \in Nat /\ traces[p[1]].end \in Nat
          /\ traces[q[1]].begin \in Nat /\ traces[q[1]].end \in Nat
      BY <1>2, <2>1
    <3> HIDE DEF AtP
    <3> QED BY <1>7, <2>1, <3>1, <3>2, <3>3
  <2>4. p[1] = q[1]
    BY <2>2, <2>3
  <2>5. p[2] = q[2]
    BY <1>4, <1>7, <2>1, <2>4
  <2>6. p = <<p[1], p[2]>> /\ q = <<q[1], q[2]>>
    OBVIOUS
  <2> QED BY <2>4, <2>5, <2>6
<1>8. IsFiniteSet(1..ordinal) /\ Cardinality(1..ordinal) = ordinal
  <2>1. 1 \in Int /\ ordinal \in Int /\ (~(1 > ordinal) \/ ordinal = 0)
    BY <1>2
  <2>2. IsFiniteSet(1..ordinal)
        /\ Cardinality(1..ordinal) = IF 1 > ordinal THEN 0 ELSE ordinal - 1 + 1
    BY <1>2, FS_Interval
  <2> QED BY <1>2, <2>1, <2>2
<1>9. IsFiniteSet(free) /\ Cardinality(free) = ordinal - Cardinality(own)
  <2>1. (1..ordinal) \cap own = own
    BY <1>3
  <2>2. /\ IsFiniteSet((1..ordinal) \ own)
        /\ Cardinality((1..ordinal) \ own)
             = Cardinality(1..ordinal) - Cardinality((1..ordinal) \cap own)
    BY <1>8, FS_Difference
  <2> QED BY <1>8, <2>1, <2>2
<1>10. IsFiniteSet(own) /\ Cardinality(own) \in Nat
  BY <1>3, <1>8, FS_Subset, FS_CardinalityType
<1> HIDE DEF used, AtP, free
<1> DEFINE f == [p \in used |-> AtP(p)]
<1>11. /\ f \in [used -> free]
       /\ \A p, q \in used : f[p] = f[q] => p = q
       /\ \A m \in free : \E p \in used : f[p] = m
  BY <1>5, <1>6, <1>7
<1> HIDE DEF f
<1>12. f \in Injection(used, free) /\ f \in Bijection(used, free)
  BY <1>11 DEF Injection, Surjection, Bijection, IsInjective
<1>13. IsFiniteSet(used)
  BY <1>9, <1>12, FS_Injection
<1>14. Cardinality(free) = Cardinality(used)
  BY <1>12, <1>13, FS_Bijection DEF ExistsBijection
<1>15. Cardinality(used) \in Nat
  BY <1>13, FS_CardinalityType
<1>16. Cardinality(own) + Cardinality(used) = ordinal
  BY <1>2, <1>9, <1>10, <1>14, <1>15
<1>17. own \cup {AtP(p) : p \in used} = 1..ordinal
  <2>1. {AtP(p) : p \in used} = free
    BY <1>5, <1>6
  <2> QED BY <1>3, <2>1 DEF free
<1> QED BY <1>16, <1>17

(* Transactions committed by any number of goroutines at a time, whatever  *)
(* they recorded and however often each was executed, leave no ordinal of  *)
(* the block unused and none used twice.                                   *)
THEOREM CommitsLeaveNoGap == Disciplined => (Spec => []OrdinalsDense)
<1> SUFFICES ASSUME Disciplined
             PROVE  Spec => []OrdinalsDense
  OBVIOUS
<1>1. Init => MutexInv /\ LocalInv /\ LayoutInv
  BY MutexInit, LocalInit, LayoutInit
<1>2. MutexInv /\ LocalInv /\ LayoutInv /\ [Next]_vars => (MutexInv /\ LocalInv /\ LayoutInv)'
  BY MutexStep, LocalStep, LayoutStep
<1>3. MutexInv /\ LocalInv /\ LayoutInv => OrdinalsDense
  BY LayoutDense
<1> QED BY <1>1, <1>2, <1>3, PTL DEF Spec

(* reorderTransactionOrdinals moves the logs of a receipt with those of    *)
(* the calls: rebased, they are still the same.                            *)
THEOREM ReceiptsFollow == Disciplined => (Spec => []ReceiptFollowsLogs)
<1> SUFFICES ASSUME Disciplined
             PROVE  Spec => []ReceiptFollowsLogs
  OBVIOUS
<1>1. Init => MutexInv /\ LocalInv /\ LayoutInv
  BY MutexInit, LocalInit, LayoutInit
<1>2. MutexInv /\ LocalInv /\ LayoutInv /\ [Next]_vars => (MutexInv /\ LocalInv /\ LayoutInv)'
  BY MutexStep, LocalStep, LayoutStep
<1>3. MutexInv /\ LocalInv /\ LayoutInv => ReceiptFollowsLogs
  BY DEF LayoutInv, Ended, ReceiptFollowsLogs
<1> QED BY <1>1, <1>2, <1>3, PTL DEF Spec
-----------------------------------------------------------------------------
(* The executions in the block                                             *)

LandedOne(w) ==
    /\ \A i \in DOMAIN traces : traces[i].of = w =>
         traces[i].attempt <= iso[w].attempt /\ (Absent(w) => traces[i].attempt < iso[w].attempt)
    /\ phase[w] = "done" /\ ~Absent(w) =>
         \E i \in DOMAIN traces : traces[i].of = w /\ traces[i].attempt = iso[w].attempt

(* A step that leaves a tracer's executions where they were keeps what is  *)
(* said of them.                                                           *)
LEMMA LandedFrame ==
    ASSUME NEW v, LandedOne(v), traces' = traces, iso'[v].attempt = iso[v].attempt,
           phase'[v] = phase[v], Absent(v)' = Absent(v)
    PROVE  LandedOne(v)'
BY DEF LandedOne

Asking == {"checked", "locked", "rebased"}

(* A commit's step that does not append leaves every tracer's execution    *)
(* where it was.                                                           *)
LEMMA LandedCommit ==
    ASSUME LandedInv, NEW c \in Committers, Alone(c), traces' = traces, phase' = phase,
           \A v \in Isolated : iso'[v].attempt = iso[v].attempt /\ iso'[v].trx = iso[v].trx,
           (committer'[c].pc \in Asking) = (committer[c].pc \in Asking),
           committer[c].pc \in Asking => committer'[c].of = committer[c].of
    PROVE  LandedInv'
<1> SUFFICES ASSUME NEW v \in Isolated
             PROVE  LandedOne(v)'
  BY DEF LandedInv, LandedOne
<1>1. \A d \in Committers :
        (committer'[d].of = v /\ committer'[d].pc \in Asking)
            = (committer[d].of = v /\ committer[d].pc \in Asking)
  BY DEF Alone
<1>2. Absent(v)' = Absent(v)
  BY <1>1 DEF Absent, Asking
<1>3. LandedOne(v)
  BY DEF LandedInv, LandedOne
<1> QED BY <1>2, <1>3, LandedFrame

(* A step of a tracer nobody commits, which does not finish it, lands      *)
(* nothing.                                                                *)
LEMMA LandedApart ==
    ASSUME MutexInv, LandedInv, NEW w \in Isolated, Apace(w),
           \A c \in Committers : committer[c].pc # "outside" => committer[c].of # w,
           phase'[w] # "done",
           \/ iso'[w].attempt = iso[w].attempt
              /\ (phase'[w] \in {"running", "ended"} => phase[w] \in {"running", "ended"})
           \/ iso'[w].attempt = iso[w].attempt + 1
    PROVE  LandedInv'
<1> SUFFICES ASSUME NEW v \in Isolated
             PROVE  LandedOne(v)'
  BY DEF LandedInv, LandedOne
<1>1. LandedOne(v) /\ traces' = traces /\ committer' = committer
  BY DEF LandedInv, LandedOne, Apace
<1>2. CASE v # w
  <2>1. iso'[v] = iso[v] /\ phase'[v] = phase[v]
    BY <1>2 DEF Apace
  <2>2. Absent(v)' = Absent(v)
    BY <1>1, <2>1 DEF Absent
  <2> QED BY <1>1, <2>1, <2>2, LandedFrame
<1>3. CASE v = w
  <2>1. ~\E c \in Committers : committer'[c].of = w /\ committer'[c].pc \in Asking
    BY <1>1 DEF Asking
  <2>2. Absent(w)' => phase'[w] \in {"running", "ended"}
    BY <2>1 DEF Absent, Asking
  <2>3. iso[w].attempt \in Nat /\ \A i \in DOMAIN traces : traces[i].attempt \in Nat
    <3>1. iso[w] \in IsoType
      BY DEF MutexInv, TypeOK
    <3>2. \A i \in DOMAIN traces : traces[i] \in TraceType
      BY LayoutTypes
    <3> QED BY <3>1, <3>2 DEF IsoType, TraceType
  <2>4. ASSUME NEW i \in DOMAIN traces, traces[i].of = w
        PROVE  traces[i].attempt <= iso'[w].attempt
               /\ (Absent(w)' => traces[i].attempt < iso'[w].attempt)
    <3>1. traces[i].attempt <= iso[w].attempt /\ (Absent(w) => traces[i].attempt < iso[w].attempt)
      BY <1>1, <1>3, <2>4 DEF LandedOne
    <3>2. CASE iso'[w].attempt = iso[w].attempt
               /\ (phase'[w] \in {"running", "ended"} => phase[w] \in {"running", "ended"})
      <4>1. Absent(w)' => Absent(w)
        BY <2>2, <3>2 DEF Absent
      <4> QED BY <3>1, <3>2, <4>1
    <3>3. CASE iso'[w].attempt = iso[w].attempt + 1
      <4> DEFINE x == traces[i].attempt
                 y == iso[w].attempt
      <4>1. x \in Nat /\ y \in Nat /\ x <= y
        BY <2>3, <3>1
      <4> HIDE DEF x, y
      <4>2. x <= y + 1 /\ x < y + 1
        BY <4>1
      <4> QED BY <3>3, <4>2 DEF x, y
    <3> QED BY <3>2, <3>3
  <2> QED BY <1>1, <1>3, <2>4 DEF LandedOne
<1> QED BY <1>2, <1>3

(* The steps of a tracer's own goroutine land nothing and lose nothing.    *)
LEMMA LandedGoroutine ==
    ASSUME MutexInv, LocalInv, LandedInv, NEW w \in Isolated,
           OnTxSpawn(w) \/ OnTxStart(w) \/ OnTxReset(w) \/ OnChange(w) \/ OnLog(w)
           \/ OnKeccakPreimage(w) \/ \E receipt \in BOOLEAN : OnTxEnd(w, receipt)
    PROVE  LandedInv'
<1> TypeOK /\ iso[w] \in IsoType
  BY LocalFacts DEF MutexInv
<1>1. CASE OnTxSpawn(w)
  <2>1. Apace(w) /\ phase[w] = "none" /\ phase'[w] = "idle" /\ iso'[w] = NewIsolated
    BY <1>1, SpawnStep
  <2>2. iso[w] = NewIsolated
    BY <2>1 DEF LocalInv, LocalOK
  <2>3. \A c \in Committers : committer[c].pc # "outside" => committer[c].of # w
    BY <2>1, LocalFacts
  <2> QED BY <2>1, <2>2, <2>3, LandedApart
<1>2. CASE OnTxStart(w)
  <2>1. /\ Apace(w) /\ phase[w] = "idle" /\ phase'[w] = "running"
        /\ iso'[w].attempt = iso[w].attempt + 1
    BY <1>2, StartStep
  <2>2. \A c \in Committers : committer[c].pc # "outside" => committer[c].of # w
    BY <2>1, LocalFacts
  <2> QED BY <2>1, <2>2, LandedApart
<1>3. CASE OnTxReset(w)
  <2>1. /\ Apace(w) /\ phase'[w] = "idle" /\ iso'[w].attempt = iso[w].attempt
        /\ \A c \in Committers : committer[c].of # w
    BY <1>3, ResetStep
  <2> QED BY <2>1, LandedApart
<1>4. CASE OnChange(w) \/ OnLog(w) \/ OnKeccakPreimage(w)
  <2>1. Apace(w) /\ phase[w] = "running" /\ phase'[w] = "running" /\ iso'[w].attempt = iso[w].attempt
    <3>1. CASE OnChange(w)
      BY <3>1, ChangeStep DEF IsoType
    <3>2. CASE OnLog(w)
      BY <3>2, LogStep DEF IsoType
    <3>3. CASE OnKeccakPreimage(w)
      BY <3>3, PreimageStep DEF IsoType
    <3> QED BY <1>4, <3>1, <3>2, <3>3
  <2>2. \A c \in Committers : committer[c].pc # "outside" => committer[c].of # w
    BY <2>1, LocalFacts
  <2> QED BY <2>1, <2>2, LandedApart
<1>5. CASE \E receipt \in BOOLEAN : OnTxEnd(w, receipt)
  <2>1. /\ Apace(w) /\ phase[w] = "running" /\ phase'[w] = "ended"
        /\ iso'[w].attempt = iso[w].attempt
    BY <1>5, EndStep
  <2>2. \A c \in Committers : committer[c].pc # "outside" => committer[c].of # w
    BY <2>1, LocalFacts
  <2> QED BY <2>1, <2>2, LandedApart
<1> QED BY <1>1, <1>2, <1>3, <1>4, <1>5

(* Asked for its commit, an execution is not in the block yet; if it was   *)
(* dropped, it will not be.                                                *)
LEMMA LandedCheck ==
    ASSUME MutexInv, LocalInv, LandedInv, Disciplined, NEW w \in Isolated, NEW c \in Committers,
           CheckCommit(c, w)
    PROVE  LandedInv'
<1>1. /\ Alone(c) /\ traces' = traces
      /\ committer[c].pc = "outside" /\ phase[w] = "ended" /\ phase'[w] = "done"
      /\ \A v \in Isolated : v # w => iso'[v] = iso[v] /\ phase'[v] = phase[v]
      /\ \/ iso[w].dropped = TRUE /\ committer' = committer
            /\ iso'[w] = [iso[w] EXCEPT !.dropped = FALSE]
         \/ iso[w].dropped = FALSE /\ iso' = iso
            /\ committer'[c] = [pc |-> "checked", of |-> w, base |-> 0]
  BY CheckStep DEF MutexInv, Disciplined
<1>2. iso[w] \in IsoType
  BY LocalFacts
<1>3. iso'[w].attempt = iso[w].attempt /\ iso'[w].trx = iso[w].trx
  BY <1>1, <1>2 DEF IsoType
<1>4. iso[w].dropped = TRUE => iso[w].trx.end = 0
  BY <1>1 DEF LocalInv, LocalOK
<1>5. committer[c].of = None /\ None \notin Isolated
  BY <1>1, ParallelAssumption DEF MutexInv
<1> SUFFICES ASSUME NEW v \in Isolated
             PROVE  LandedOne(v)'
  BY DEF LandedInv, LandedOne
<1>6. LandedOne(v)
  BY DEF LandedInv, LandedOne
<1>7. CASE v # w
  <2>1. \A d \in Committers : (committer'[d].of = v /\ committer'[d].pc \in Asking)
                                  = (committer[d].of = v /\ committer[d].pc \in Asking)
    <3>1. committer'[c].of # v /\ committer[c].of # v
      BY <1>1, <1>5, <1>7
    <3> QED BY <1>1, <3>1 DEF Alone
  <2>2. Absent(v)' = Absent(v)
    BY <1>1, <1>7, <2>1 DEF Absent, Asking
  <2> QED BY <1>1, <1>6, <1>7, <2>2, LandedFrame
<1>8. CASE v = w
  <2>1. Absent(w)
    BY <1>1 DEF Absent
  <2>2. Absent(w)'
    <3>1. CASE iso[w].dropped = TRUE
      BY <1>1, <1>3, <1>4, <3>1 DEF Absent
    <3>2. CASE iso[w].dropped = FALSE
      <4>1. committer'[c].of = w /\ committer'[c].pc = "checked"
        BY <1>1, <3>2
      <4> QED BY <4>1 DEF Absent
    <3> QED BY <1>1, <3>1, <3>2
  <2> QED BY <1>1, <1>3, <1>6, <1>8, <2>1, <2>2 DEF LandedOne
<1> QED BY <1>7, <1>8

(* The append lands the last execution of the tracer.                      *)
LEMMA LandedAppend ==
    ASSUME MutexInv, LocalInv, LandedInv, NEW c \in Committers, AppendTrace(c)
    PROVE  LandedInv'
<1>0. PICK w \in Isolated : w = committer[c].of
  BY AppendStep, Works DEF MutexInv
<1> DEFINE t == iso[w].transient
           k == Len(traces) + 1
<1>1. /\ Alone(c) /\ iso' = iso /\ phase' = phase
      /\ committer[c].pc = "rebased" /\ committer'[c].pc = "appended" /\ committer'[c].of = w
      /\ traces' = Append(traces, t)
  BY <1>0, AppendStep DEF MutexInv
<1>2. iso[w] \in IsoType /\ t \in TraceType /\ iso[w].trx \in TraceType
  BY <1>0, <1>1, Works
<1>3. phase[w] = "done" /\ iso[w].trx.end > 0 /\ t = Rebased(iso[w].trx, ordinal)
  BY <1>0, <1>1 DEF LocalInv, CommitOK
<1>4. t.of = w /\ t.attempt = iso[w].attempt
  <2>1. Ended(iso[w].trx, w, iso[w].attempt, 0)
    BY <1>2, <1>3 DEF LocalInv, LocalOK
  <2>2. ordinal \in Nat
    BY LayoutTypes
  <2>3. Rebased(iso[w].trx, ordinal).of = iso[w].trx.of
        /\ Rebased(iso[w].trx, ordinal).attempt = iso[w].trx.attempt
    BY <1>2, <2>2, RebasedTyped
  <2> QED BY <1>3, <2>1, <2>3 DEF Ended
<1>5. /\ DOMAIN traces' = 1..k /\ traces'[k] = t /\ k \in 1..k
      /\ DOMAIN traces = 1..Len(traces) /\ \A i \in 1..k : i # k => i \in DOMAIN traces
      /\ \A i \in DOMAIN traces : traces'[i] = traces[i]
  <2>1. traces \in Seq(TraceType)
    BY DEF MutexInv, TypeOK
  <2>2. /\ Len(traces) \in Nat /\ DOMAIN traces = 1..Len(traces) /\ DOMAIN traces' = 1..k
        /\ traces'[k] = t /\ \A i \in 1..Len(traces) : traces'[i] = traces[i]
    BY <1>1, <1>2, <2>1
  <2> QED BY <2>2
<1>6. ~Absent(w)'
  <2>1. \A d \in Committers : d # c => committer'[d].of # w
    BY <1>0, <1>1 DEF LocalInv, Alone
  <2>2. ~\E d \in Committers : committer'[d].of = w /\ committer'[d].pc \in Asking
    BY <1>1, <2>1 DEF Asking
  <2>3. iso[w].trx.end # 0
    BY <1>2, <1>3 DEF TraceType
  <2> QED BY <1>1, <1>3, <2>2, <2>3 DEF Absent, Asking
<1>7. committer[c].of = w /\ iso[w].attempt \in Nat
  BY <1>0, <1>2 DEF IsoType
<1> HIDE DEF t, k
<1> SUFFICES ASSUME NEW v \in Isolated
             PROVE  LandedOne(v)'
  BY DEF LandedInv, LandedOne
<1>8. LandedOne(v)
  BY DEF LandedInv, LandedOne
<1>9. CASE v = w
  <2>1. \A i \in 1..k : traces'[i].of = w => traces'[i].attempt <= iso[w].attempt
    <3> SUFFICES ASSUME NEW i \in 1..k, traces'[i].of = w
                 PROVE  traces'[i].attempt <= iso[w].attempt
      OBVIOUS
    <3>1. CASE i = k
      BY <1>4, <1>5, <1>7, <3>1
    <3>2. CASE i # k
      <4>1. i \in DOMAIN traces /\ traces'[i] = traces[i]
        BY <1>5, <3>2
      <4> QED BY <1>8, <1>9, <4>1 DEF LandedOne
    <3> QED BY <3>1, <3>2
  <2>2. traces'[k].of = w /\ traces'[k].attempt = iso'[w].attempt /\ k \in DOMAIN traces'
    BY <1>1, <1>4, <1>5
  <2>3. \A i \in DOMAIN traces' : traces'[i].of = w => traces'[i].attempt <= iso'[w].attempt
    BY <1>1, <1>5, <2>1
  <2>4. LandedOne(w)'
    BY <1>6, <2>2, <2>3 DEF LandedOne
  <2> QED BY <1>9, <2>4
<1>10. CASE v # w
  <2>1. \A d \in Committers : (committer'[d].of = v /\ committer'[d].pc \in Asking)
                                  = (committer[d].of = v /\ committer[d].pc \in Asking)
    BY <1>1, <1>7, <1>10 DEF Alone
  <2>2. Absent(v)' = Absent(v)
    BY <1>1, <2>1 DEF Absent, Asking
  <2>3. \A i \in 1..k : traces'[i].of = v => i \in DOMAIN traces /\ traces'[i] = traces[i]
    BY <1>4, <1>5, <1>10
  <2>4. \A i \in DOMAIN traces : i \in 1..k /\ traces'[i] = traces[i]
    <3>1. \A i \in DOMAIN traces : i \in DOMAIN traces'
      BY <1>5, LayoutTypes DEF k
    <3> QED BY <1>5, <3>1
  <2> QED BY <1>1, <1>5, <1>8, <2>2, <2>3, <2>4 DEF LandedOne
<1> QED BY <1>9, <1>10

(* Nothing has landed at the start.                                        *)
LEMMA LandedInit ==
    ASSUME Init
    PROVE  LandedInv
BY DEF Init, LandedInv

(* Every step keeps executions in order in the block.                      *)
LEMMA LandedStep ==
    ASSUME MutexInv, LocalInv, LandedInv, Disciplined, [Next]_vars
    PROVE  LandedInv'
<1> TypeOK
  BY DEF MutexInv
<1>1. CASE OnBlockStart
  <2>1. traces' = traces /\ iso' = iso /\ phase' = phase /\ committer' = committer
    BY <1>1 DEF OnBlockStart, LocalInv, TypeOK
  <2> QED BY <2>1 DEF LandedInv, Absent
<1>2. CASE OnBlockEnd
  <2>1. DOMAIN traces' = {} /\ \A w \in Isolated : phase'[w] = "none"
    BY <1>2 DEF OnBlockEnd
  <2> QED BY <2>1 DEF LandedInv
<1>3. CASE CoordinatorHook
  BY <1>3 DEF CoordinatorHook, LandedInv, Absent
<1>4. ASSUME NEW c \in Committers, Lock(c)
      PROVE  LandedInv'
  <2>1. /\ Alone(c) /\ UNCHANGED <<traces, iso, phase>>
        /\ committer[c].pc = "checked" /\ committer'[c].pc = "locked"
        /\ committer'[c].of = committer[c].of
    BY <1>4, LockStep
  <2> QED BY <2>1, LandedCommit DEF Asking
<1>5. ASSUME NEW c \in Committers, Rebase(c)
      PROVE  LandedInv'
  <2> DEFINE w == committer[c].of
  <2>1. /\ Alone(c) /\ UNCHANGED <<traces, phase>>
        /\ committer[c].pc = "locked" /\ committer'[c].of = w /\ w \in Isolated
        /\ \A v \in Isolated : v # w => iso'[v] = iso[v]
        /\ \/ iso' = iso /\ committer' = committer
           \/ committer'[c].pc = "rebased"
              /\ iso'[w] = [iso[w] EXCEPT !.transient = iso'[w].transient]
    BY <1>5, RebaseStep, ZenonT(60)
  <2>2. iso[w] \in IsoType
    BY <2>1, LocalFacts
  <2> HIDE DEF w
  <2>3. iso'[w].attempt = iso[w].attempt /\ iso'[w].trx = iso[w].trx
    BY <2>1, <2>2 DEF IsoType
  <2>4. \A v \in Isolated : iso'[v].attempt = iso[v].attempt /\ iso'[v].trx = iso[v].trx
    BY <2>1, <2>3
  <2>5. (committer'[c].pc \in Asking) = (committer[c].pc \in Asking) /\ committer[c].of = w
    BY <2>1 DEF Asking, w
  <2> QED BY <2>1, <2>4, <2>5, LandedCommit
<1>6. ASSUME NEW c \in Committers, SetOrdinal(c)
      PROVE  LandedInv'
  <2>1. /\ Alone(c) /\ UNCHANGED <<traces, iso, phase>>
        /\ committer[c].pc = "appended" /\ committer'[c].pc = "set"
    BY <1>6, SetStep
  <2> QED BY <2>1, LandedCommit DEF Asking
<1>7. ASSUME NEW c \in Committers, Unlock(c)
      PROVE  LandedInv'
  <2> DEFINE w == committer[c].of
  <2>1. /\ Alone(c) /\ UNCHANGED <<traces, phase>>
        /\ committer[c].pc = "set" /\ committer'[c] = Outside /\ w \in Isolated
        /\ \A v \in Isolated : v # w => iso'[v] = iso[v]
        /\ iso'[w] = [iso[w] EXCEPT !.transient = NoTrace]
    BY <1>7, UnlockStep
  <2>2. iso[w] \in IsoType
    BY <2>1, LocalFacts
  <2> HIDE DEF w
  <2>3. iso'[w].attempt = iso[w].attempt /\ iso'[w].trx = iso[w].trx
    BY <2>1, <2>2 DEF IsoType
  <2>4. \A v \in Isolated : iso'[v].attempt = iso[v].attempt /\ iso'[v].trx = iso[v].trx
    BY <2>1, <2>3
  <2>5. committer'[c].pc \notin Asking /\ committer[c].pc \notin Asking
    BY <2>1 DEF Asking, Outside
  <2> QED BY <2>1, <2>4, <2>5, LandedCommit
<1>8. CASE UNCHANGED vars
  BY <1>8 DEF vars, LandedInv, Absent
<1>9. ~\E w \in Isolated : SystemCall(w)
  BY DEF Disciplined, SystemCall
<1> QED
  BY <1>1, <1>2, <1>3, <1>4, <1>5, <1>6, <1>7, <1>8, <1>9, LandedGoroutine, LandedCheck,
     LandedAppend DEF Next, InCommit

(* Once a commit has returned, the execution it was asked for is in the    *)
(* block unless it was dropped, and no retry or other commit takes it out  *)
(* or puts it there twice.                                                 *)
THEOREM CommitsReallyLand == Disciplined => (Spec => []CommitsLand)
<1> SUFFICES ASSUME Disciplined
             PROVE  Spec => []CommitsLand
  OBVIOUS
<1>1. Init => MutexInv /\ LocalInv /\ LandedInv
  BY MutexInit, LocalInit, LandedInit
<1>2. MutexInv /\ LocalInv /\ LandedInv /\ [Next]_vars => (MutexInv /\ LocalInv /\ LandedInv)'
  BY MutexStep, LocalStep, LandedStep
<1>3. MutexInv /\ LandedInv => CommitsLand
  <2> SUFFICES ASSUME MutexInv, LandedInv, NEW w \in Isolated, phase[w] = "done",
                      \A c \in Committers : committer[c].of # w
               PROVE  iso[w].trx.end > 0 <=>
                          \E i \in DOMAIN traces :
                              traces[i].of = w /\ traces[i].attempt = iso[w].attempt
    BY DEF CommitsLand
  <2>1. Absent(w) <=> iso[w].trx.end = 0
    BY DEF Absent
  <2>2. iso[w].trx.end \in Nat
    BY DEF MutexInv, TypeOK, IsoType, TraceType
  <2>3. iso[w].attempt \in Nat
    BY DEF MutexInv, TypeOK, IsoType
  <2>4. iso[w].trx.end > 0 <=> ~Absent(w)
    BY <2>1, <2>2
  <2>5. ~Absent(w) =>
            \E i \in DOMAIN traces : traces[i].of = w /\ traces[i].attempt = iso[w].attempt
    BY DEF LandedInv
  <2>6. Absent(w) =>
            \A i \in DOMAIN traces : traces[i].of = w => traces[i].attempt < iso[w].attempt
    BY DEF LandedInv
  <2>7. ~(iso[w].attempt < iso[w].attempt)
    BY <2>3
  <2> QED BY <2>4, <2>5, <2>6, <2>7
<1> QED BY <1>1, <1>2, <1>3, PTL DEF Spec
-----------------------------------------------------------------------------
(* Commits are atomic                                                      *)

(* The variables of AtomicCommit.                                          *)
Entry(t) == [of |-> t.of, attempt |-> t.attempt, begin |-> t.begin, end |-> t.end]

Block == [i \in DOMAIN Landed |->
             [of |-> Landed[i].of, attempt |-> Landed[i].attempt,
              begin |-> Landed[i].begin, end |-> Landed[i].end]]

Waiting == {LET t == iso[committer[c].of].transient
            IN  [of |-> t.of, attempt |-> t.attempt, length |-> t.end - t.begin + 1] :
               c \in InFlight}

(* What the commit of w asks for.                                          *)
Ticket(w) == [of |-> w, attempt |-> iso[w].attempt, length |-> iso[w].trx.end]

(* Rebasing a transaction changes nothing of what its commit asked for.    *)
LEMMA WaitingTickets ==
    MutexInv /\ LocalInv => Waiting = {Ticket(committer[c].of) : c \in InFlight}
<1> SUFFICES ASSUME MutexInv, LocalInv, NEW c \in InFlight
             PROVE  LET t == iso[committer[c].of].transient
                    IN  [of |-> t.of, attempt |-> t.attempt, length |-> t.end - t.begin + 1]
                            = Ticket(committer[c].of)
  BY DEF Waiting
<1>1. c \in Committers /\ committer[c].pc \in {"checked", "locked", "rebased", "appended"}
  BY DEF InFlight
<1>2. PICK w \in Isolated : w = committer[c].of
  BY <1>1, Works
<1> DEFINE t == iso[w].transient
           u == iso[w].trx
<1>3. /\ phase[w] = "done" /\ u.end > 0
      /\ t = u \/ t = Rebased(u, ordinal)
  BY <1>1, <1>2 DEF LocalInv, CommitOK
<1>4. Ended(u, w, iso[w].attempt, 0) /\ u \in TraceType
  BY <1>3, LocalFacts DEF LocalInv, LocalOK
<1>5. u.of = w /\ u.attempt = iso[w].attempt /\ u.begin = 1 /\ u.end \in Nat
  BY <1>4 DEF Ended, TraceType
<1>6. ordinal \in Nat
  BY LayoutTypes
<1>7. /\ Rebased(u, ordinal).of = u.of /\ Rebased(u, ordinal).attempt = u.attempt
      /\ Rebased(u, ordinal).begin = u.begin + ordinal /\ Rebased(u, ordinal).end = u.end + ordinal
  BY <1>4, <1>6, RebasedTyped
<1> HIDE DEF t, u
<1>8. t.of = w /\ t.attempt = iso[w].attempt /\ t.end - t.begin + 1 = u.end
  <2>1. CASE t = u
    BY <1>5, <2>1
  <2>2. CASE t = Rebased(u, ordinal)
    <3>1. (u.end + ordinal) - (1 + ordinal) + 1 = u.end
      BY <1>5, <1>6
    <3> QED BY <1>5, <1>7, <2>2, <3>1
  <2> QED BY <1>3, <2>1, <2>2
<1> QED BY <1>2, <1>8 DEF Ticket, t, u

(* The same in the next state.                                             *)
LEMMA WaitingTicketsNext ==
    (MutexInv /\ LocalInv => Waiting = {Ticket(committer[c].of) : c \in InFlight})'
BY WaitingTickets, PTL

(* Landed is the block without the transaction appended last while the     *)
(* counter has not moved past it.                                          *)
LEMMA LandedSeq ==
    ASSUME MutexInv, LocalInv
    PROVE  /\ Landed \in Seq(TraceType)
           /\ Landed = IF Appending THEN Front(traces) ELSE traces
           /\ \A i \in DOMAIN Landed : i \in DOMAIN traces /\ Landed[i] = traces[i]
           /\ Appending => Len(traces) >= 1 /\ Len(Landed) = Len(traces) - 1
<1>1. traces \in Seq(TraceType) /\ Len(traces) \in Nat /\ DOMAIN traces = 1..Len(traces)
      /\ \A i \in 1..Len(traces) : traces[i] \in TraceType
  BY DEF MutexInv, TypeOK
<1>2. Landed = IF Appending THEN Front(traces) ELSE traces
  BY DEF Landed, Appending
<1>3. CASE ~Appending
  BY <1>1, <1>2, <1>3
<1>4. CASE Appending
  <2>1. traces # <<>>
    BY <1>4 DEF Appending, LocalInv, CommitOK
  <2>2. Len(traces) >= 1
    BY <1>1, <2>1, EmptySeq
  <2> DEFINE n == Len(traces) - 1
  <2>3. n \in Nat /\ n - 1 + 1 = n /\ (1 <= n => n - 1 + 1 = n) /\ (~(1 <= n) => n = 0)
        /\ \A i \in 1..n : i \in 1..Len(traces) /\ 1 + i - 1 = i
    BY <1>1, <2>2
  <2>4. \A i \in 1..n : traces[i] \in TraceType
    BY <1>1, <2>3
  <2> HIDE DEF n
  <2>5. /\ SubSeq(traces, 1, n) \in Seq(TraceType)
        /\ Len(SubSeq(traces, 1, n)) = IF 1 <= n THEN n - 1 + 1 ELSE 0
        /\ \A i \in 1..(n - 1 + 1) : SubSeq(traces, 1, n)[i] = traces[1 + i - 1]
    BY <2>3, <2>4, SubSeqProperties
  <2>6. Landed = SubSeq(traces, 1, n)
    BY <1>2, <1>4 DEF Front, n
  <2>7. Len(Landed) = n /\ Landed \in Seq(TraceType)
    BY <2>3, <2>5, <2>6
  <2>8. DOMAIN Landed = 1..n
    BY <2>7
  <2>9. \A i \in 1..n : Landed[i] = traces[i]
    BY <2>3, <2>5, <2>6
  <2> QED BY <1>1, <1>2, <2>2, <2>3, <2>7, <2>8, <2>9 DEF n
<1> QED BY <1>3, <1>4

(* A step that leaves the block, the counter and what was asked for alone. *)
LEMMA Stutters ==
    ASSUME Block' = Block, Waiting' = Waiting, ordinal' = ordinal, open' = open
    PROVE  UNCHANGED Atomic!atomicVars
BY DEF Atomic!atomicVars, Block, Waiting

(* Commits in flight ask for the same as long as their tracers' executions *)
(* are the same.                                                           *)
LEMMA SameTickets ==
    ASSUME MutexInv, LocalInv, MutexInv', LocalInv', InFlight' = InFlight,
           \A c \in InFlight : /\ committer'[c].of = committer[c].of
                               /\ iso'[committer[c].of].attempt = iso[committer[c].of].attempt
                               /\ iso'[committer[c].of].trx = iso[committer[c].of].trx
    PROVE  Waiting' = Waiting
<1>1. Waiting = {Ticket(committer[c].of) : c \in InFlight}
  BY WaitingTickets
<1>2. Waiting' = {Ticket(committer[c].of) : c \in InFlight}'
  BY WaitingTicketsNext
<1>3. \A c \in InFlight : Ticket(committer[c].of)' = Ticket(committer[c].of)
  BY DEF Ticket
<1> QED BY <1>1, <1>2, <1>3

(* A step that neither appends to the block nor begins or ends the time    *)
(* between the append and the counter's move leaves Block alone.           *)
LEMMA SameBlock ==
    ASSUME traces' = traces, Appending' = Appending
    PROVE  Block' = Block
<1>1. Landed' = Landed
  BY DEF Landed, Appending
<1> QED BY <1>1 DEF Block

(* The node and the isolated tracers' goroutines do nothing to what is     *)
(* committed or asked for.                                                 *)
LEMMA AtomicGoroutine ==
    ASSUME MutexInv, LocalInv, MutexInv', LocalInv', NEW w \in Isolated,
           OnTxSpawn(w) \/ OnTxStart(w) \/ OnTxReset(w) \/ OnChange(w) \/ OnLog(w)
           \/ OnKeccakPreimage(w) \/ \E receipt \in BOOLEAN : OnTxEnd(w, receipt)
    PROVE  UNCHANGED Atomic!atomicVars
<1> TypeOK
  BY DEF MutexInv
<1>1. Apace(w) /\ (phase[w] # "done" \/ \A c \in Committers : committer[c].of # w)
  <2>1. CASE OnTxSpawn(w)
    BY <2>1, SpawnStep
  <2>2. CASE OnTxStart(w)
    BY <2>2, StartStep
  <2>3. CASE OnTxReset(w)
    BY <2>3, ResetStep
  <2>4. CASE OnChange(w)
    BY <2>4, ChangeStep
  <2>5. CASE OnLog(w)
    BY <2>5, LogStep
  <2>6. CASE OnKeccakPreimage(w)
    BY <2>6, PreimageStep
  <2>7. CASE \E receipt \in BOOLEAN : OnTxEnd(w, receipt)
    BY <2>7, EndStep
  <2> QED BY <2>1, <2>2, <2>3, <2>4, <2>5, <2>6, <2>7
<1>2. \A c \in Committers : committer[c].pc # "outside" =>
          committer[c].of \in Isolated /\ committer[c].of # w
  BY <1>1, LocalFacts, Works
<1>3. InFlight' = InFlight /\ Appending' = Appending
  BY <1>1 DEF Apace, InFlight, Appending
<1>4. \A c \in InFlight : iso'[committer[c].of] = iso[committer[c].of]
  BY <1>1, <1>2 DEF Apace, InFlight
<1>5. Waiting' = Waiting
  BY <1>1, <1>3, <1>4, SameTickets DEF Apace
<1>6. Block' = Block
  BY <1>1, <1>3, SameBlock DEF Apace
<1> QED BY <1>1, <1>5, <1>6, Stutters DEF Apace

(* So do the steps of a commit that leave it in flight, or out of flight.  *)
LEMMA AtomicInside ==
    ASSUME MutexInv, LocalInv, MutexInv', LocalInv', NEW c \in Committers, Alone(c),
           \A v \in Isolated : iso'[v].attempt = iso[v].attempt /\ iso'[v].trx = iso[v].trx,
           (c \in InFlight') = (c \in InFlight),
           c \in InFlight => committer'[c].of = committer[c].of
    PROVE  Waiting' = Waiting
<1>1. InFlight' = InFlight
  BY DEF InFlight, Alone
<1>2. \A d \in InFlight : committer[d].of \in Isolated /\ committer'[d].of = committer[d].of
  BY Works DEF InFlight, Alone
<1> QED BY <1>1, <1>2, SameTickets

(* Taking the mutex shows nothing.                                         *)
LEMMA AtomicLock ==
    ASSUME MutexInv, LocalInv, MutexInv', LocalInv', NEW c \in Committers, Lock(c)
    PROVE  UNCHANGED Atomic!atomicVars
<1>1. /\ Alone(c) /\ UNCHANGED <<ordinal, traces, iso, phase, panicked>>
      /\ committer[c].pc = "checked" /\ committer'[c].pc = "locked"
      /\ committer'[c].of = committer[c].of
  BY LockStep DEF MutexInv
<1>2. c \in InFlight /\ c \in InFlight'
  BY <1>1 DEF InFlight
<1>3. Waiting' = Waiting
  BY <1>1, <1>2, AtomicInside
<1>4. \A d \in Committers : (committer'[d].pc = "appended") = (committer[d].pc = "appended")
  BY <1>1 DEF Alone
<1>5. Block' = Block
  BY <1>1, <1>4, SameBlock DEF Appending
<1> QED BY <1>1, <1>3, <1>5, Stutters DEF Alone

(* Rebasing shows nothing.                                                 *)
LEMMA AtomicRebase ==
    ASSUME MutexInv, LocalInv, MutexInv', LocalInv', NEW c \in Committers, Rebase(c)
    PROVE  UNCHANGED Atomic!atomicVars
<1>1. PICK w \in Isolated : w = committer[c].of
  BY RebaseStep
<1>2. /\ Alone(c) /\ UNCHANGED <<ordinal, traces, mutex, phase>>
      /\ committer[c].pc = "locked" /\ committer'[c].of = w
      /\ \A v \in Isolated : v # w => iso'[v] = iso[v]
      /\ iso[w].transient # NoTrace => committer'[c].pc = "rebased"
                     /\ iso'[w] = [iso[w] EXCEPT !.transient = iso'[w].transient]
  BY <1>1, RebaseStep, ZenonT(60)
<1>3. iso[w].transient # NoTrace /\ iso[w] \in IsoType
  BY <1>1, LocalRebase, LocalFacts
<1>4. \A v \in Isolated : iso'[v].attempt = iso[v].attempt /\ iso'[v].trx = iso[v].trx
  BY <1>2, <1>3 DEF IsoType
<1>5. c \in InFlight /\ c \in InFlight' /\ committer'[c].of = committer[c].of
  BY <1>1, <1>2, <1>3 DEF InFlight
<1>6. Waiting' = Waiting
  BY <1>2, <1>4, <1>5, AtomicInside
<1>7. \A d \in Committers : (committer'[d].pc = "appended") = (committer[d].pc = "appended")
  BY <1>2, <1>3 DEF Alone
<1>8. Block' = Block
  BY <1>2, <1>7, SameBlock DEF Appending
<1> QED BY <1>2, <1>6, <1>8, Stutters DEF Alone

(* Giving the mutex back shows nothing.                                    *)
LEMMA AtomicUnlock ==
    ASSUME MutexInv, LocalInv, MutexInv', LocalInv', NEW c \in Committers, Unlock(c)
    PROVE  UNCHANGED Atomic!atomicVars
<1>1. PICK w \in Isolated : w = committer[c].of
  BY UnlockStep
<1>2. /\ Alone(c) /\ UNCHANGED <<ordinal, traces, phase, panicked>>
      /\ committer[c].pc = "set" /\ committer'[c] = Outside
      /\ \A v \in Isolated : v # w => iso'[v] = iso[v]
      /\ iso'[w] = [iso[w] EXCEPT !.transient = NoTrace]
  BY <1>1, UnlockStep
<1>3. iso[w] \in IsoType
  BY LocalFacts
<1>4. \A v \in Isolated : iso'[v].attempt = iso[v].attempt /\ iso'[v].trx = iso[v].trx
  BY <1>2, <1>3 DEF IsoType
<1>5. c \notin InFlight /\ c \notin InFlight' /\ committer'[c].pc = "outside"
  BY <1>2 DEF InFlight, Outside
<1>6. Waiting' = Waiting
  BY <1>2, <1>4, <1>5, AtomicInside
<1>7. \A d \in Committers : (committer'[d].pc = "appended") = (committer[d].pc = "appended")
  BY <1>2, <1>5 DEF Alone
<1>8. Block' = Block
  BY <1>2, <1>7, SameBlock DEF Appending
<1> QED BY <1>2, <1>6, <1>8, Stutters DEF Alone

(* The transaction appended is not the block's until the counter moves.    *)
LEMMA AtomicAppend ==
    ASSUME MutexInv, LocalInv, MutexInv', LocalInv', NEW c \in Committers, AppendTrace(c)
    PROVE  UNCHANGED Atomic!atomicVars
<1>1. /\ Alone(c) /\ UNCHANGED <<ordinal, mutex, iso, phase, panicked>>
      /\ committer[c].pc = "rebased" /\ committer'[c].pc = "appended"
      /\ committer'[c].of = committer[c].of
      /\ traces' = Append(traces, iso[committer[c].of].transient)
  BY AppendStep DEF MutexInv
<1>2. c \in InFlight /\ c \in InFlight'
  BY <1>1 DEF InFlight
<1>3. Waiting' = Waiting
  BY <1>1, <1>2, AtomicInside
<1>4. ~Appending /\ Appending'
  <2>1. ~Appending
    BY <1>1, NoneAppending DEF Inside
  <2>2. Appending'
    BY <1>1 DEF Appending
  <2> QED BY <2>1, <2>2
<1>5. PICK t \in TraceType : t = iso[committer[c].of].transient
  BY <1>1, Works
<1>6. traces \in Seq(TraceType)
  BY DEF MutexInv, TypeOK
<1>7. Front(Append(traces, t)) = traces
  <2> DEFINE s == Append(traces, t)
             n == Len(traces)
  <2>1. /\ n \in Nat /\ s \in Seq(TraceType) /\ Len(s) = n + 1
        /\ \A i \in 1..n : s[i] = traces[i] /\ s[i] \in TraceType
    BY <1>6
  <2>2. (n + 1) - 1 = n /\ (1 <= n => n - 1 + 1 = n) /\ (~(1 <= n) => n = 0)
        /\ n - 1 + 1 = n /\ \A i \in 1..n : 1 + i - 1 = i
    BY <2>1
  <2> HIDE DEF s
  <2>3. n = Len(traces)
    OBVIOUS
  <2> HIDE DEF n
  <2>4. /\ SubSeq(s, 1, n) \in Seq(TraceType)
        /\ Len(SubSeq(s, 1, n)) = IF 1 <= n THEN n - 1 + 1 ELSE 0
        /\ \A i \in 1..(n - 1 + 1) : SubSeq(s, 1, n)[i] = s[1 + i - 1]
    BY <2>1, SubSeqProperties
  <2>5. Len(SubSeq(s, 1, n)) = Len(traces)
    BY <2>2, <2>3, <2>4
  <2>6. \A i \in 1..Len(SubSeq(s, 1, n)) : SubSeq(s, 1, n)[i] = traces[i]
    BY <2>1, <2>2, <2>3, <2>4, <2>5
  <2>7. SubSeq(s, 1, n) = traces
    BY <1>6, <2>4, <2>5, <2>6, SeqEqual
  <2> QED BY <2>1, <2>2, <2>7 DEF Front, s
<1>8. Landed = traces /\ Landed' = traces
  BY <1>1, <1>4, <1>5, <1>7 DEF Landed, Appending
<1>9. Block' = Block
  BY <1>8 DEF Block
<1> QED BY <1>1, <1>3, <1>9, Stutters DEF Alone

(* The counter moves past the transaction appended last: its commit takes  *)
(* effect.                                                                 *)
LEMMA AtomicSet ==
    ASSUME MutexInv, LocalInv, MutexInv', LocalInv', NEW c \in Committers, SetOrdinal(c)
    PROVE  Atomic!Commit
<1>1. /\ Alone(c) /\ UNCHANGED <<traces, mutex, iso, phase, panicked>>
      /\ committer[c].pc = "appended" /\ committer'[c].pc = "set"
      /\ committer'[c].of = committer[c].of
      /\ ordinal' = iso[committer[c].of].transient.end
  BY SetStep DEF MutexInv
<1>2. PICK w \in Isolated : w = committer[c].of
  BY <1>1, Works
<1> DEFINE u == iso[w].trx
           t == Rebased(u, ordinal)
           m == Len(traces)
<1>3. /\ phase[w] = "done" /\ u.end > 0 /\ iso[w].transient = t
      /\ traces # <<>> /\ traces[m] = t
  BY <1>1, <1>2 DEF LocalInv, CommitOK
<1>4. Ended(u, w, iso[w].attempt, 0) /\ u \in TraceType
  BY <1>3, LocalFacts DEF LocalInv, LocalOK
<1>5. u.of = w /\ u.attempt = iso[w].attempt /\ u.begin = 1 /\ u.end \in Nat /\ ordinal \in Nat
  BY <1>4, LayoutTypes DEF Ended, TraceType
<1>6. t.of = w /\ t.attempt = iso[w].attempt /\ t.begin = u.begin + ordinal /\ t.end = u.end + ordinal
  BY <1>4, <1>5, RebasedTyped
<1>7. t.begin = ordinal + 1 /\ t.end = ordinal + u.end
  <2> HIDE DEF t, u
  <2> QED BY <1>5, <1>6
<1>8. Appending /\ ~Appending'
  <2>1. \A d \in Committers : d # c => committer[d].pc \notin Inside
    BY <1>1, AloneInside DEF Inside
  <2>2. \A d \in Committers : committer'[d].pc # "appended"
    BY <1>1, <2>1 DEF Alone, Inside
  <2>3. ~Appending'
    BY <2>2 DEF Appending
  <2> QED BY <1>1, <2>3 DEF Appending
<1> HIDE DEF t, u
<1>9. Block' = Append(Block, [of |-> w, attempt |-> iso[w].attempt,
                              begin |-> ordinal + 1, end |-> ordinal + u.end])
  <2> DEFINE e == [of |-> w, attempt |-> iso[w].attempt,
                   begin |-> ordinal + 1, end |-> ordinal + u.end]
             E == {Entry(x) : x \in TraceType}
             n == m - 1
  <2>1. traces \in Seq(TraceType) /\ m \in Nat /\ m >= 1
        /\ DOMAIN traces = 1..m /\ \A i \in 1..m : traces[i] \in TraceType
    BY <1>8, LandedSeq, LayoutTypes DEF MutexInv, TypeOK
  <2>2. /\ n \in Nat /\ m = n + 1 /\ m \in 1..m
        /\ \A i \in 1..m : i \in 1..n \/ i = m
        /\ \A i \in 1..n : i \in 1..m
    <3>1. m \in Nat /\ m >= 1
      BY <2>1
    <3> HIDE DEF m
    <3> QED BY <3>1
  <2>3. Len(Landed) = n /\ Landed \in Seq(TraceType) /\ DOMAIN Landed = 1..n
        /\ \A i \in 1..n : i \in 1..m /\ Landed[i] = traces[i]
    <3>1. /\ Landed \in Seq(TraceType) /\ Len(Landed) = n
          /\ \A i \in DOMAIN Landed : Landed[i] = traces[i]
      BY <1>8, LandedSeq
    <3>2. DOMAIN Landed = 1..n
      BY <3>1
    <3>3. \A i \in 1..n : i \in 1..m
      BY <2>2
    <3> QED BY <3>1, <3>2, <3>3
  <2>4. Landed' = traces
    BY <1>1, <1>8 DEF Landed, Appending
  <2> HIDE DEF m, n
  <2>5. Block = [i \in 1..n |-> Entry(traces[i])]
    BY <2>3 DEF Block, Entry
  <2>6. Block' = [i \in 1..m |-> Entry(traces[i])]
    BY <2>1, <2>4 DEF Block, Entry
  <2>7. \A i \in 1..m : Entry(traces[i]) \in E
    BY <2>1
  <2>8. Entry(traces[m]) = e
    BY <1>3, <1>6, <1>7 DEF Entry
  <2>9. e \in E
    BY <2>2, <2>7, <2>8
  <2> HIDE DEF e, E
  <2>10. Block \in Seq(E) /\ Len(Block) = n
    BY <2>2, <2>3, <2>5, <2>7
  <2>11. Block' \in Seq(E) /\ Len(Block') = m
    BY <2>1, <2>6, <2>7
  <2>12. /\ Append(Block, e) \in Seq(E) /\ Len(Append(Block, e)) = n + 1
         /\ \A i \in 1..n : Append(Block, e)[i] = Block[i]
         /\ Append(Block, e)[n + 1] = e
    BY <2>2, <2>9, <2>10
  <2>13. \A i \in 1..m : Block'[i] = Append(Block, e)[i]
    BY <2>2, <2>3, <2>5, <2>6, <2>8, <2>12
  <2>14. Block' = Append(Block, e)
    BY <2>2, <2>11, <2>12, <2>13, SeqEqual
  <2> QED BY <2>14 DEF e
<1>10. Ticket(w) \in Waiting /\ Waiting' = Waiting \ {Ticket(w)}
  <2>1. Waiting = {Ticket(committer[d].of) : d \in InFlight}
    BY WaitingTickets
  <2>2. Waiting' = {Ticket(committer[d].of) : d \in InFlight}'
    BY WaitingTicketsNext
  <2>3. c \in InFlight /\ InFlight' = InFlight \ {c}
    BY <1>1 DEF InFlight, Alone
  <2>4. \A d \in InFlight \ {c} : committer[d].of # w /\ committer'[d].of = committer[d].of
    BY <1>1, <1>2 DEF InFlight, Alone, LocalInv
  <2>5. \A v : Ticket(v)' = Ticket(v) /\ Ticket(v).of = v
    BY <1>1 DEF Ticket
  <2>6. Waiting' = {Ticket(committer[d].of) : d \in InFlight \ {c}}
    <3>1. \A d \in InFlight \ {c} : Ticket(committer[d].of)' = Ticket(committer[d].of)
      BY <1>1, <2>4 DEF Ticket
    <3> QED BY <2>2, <2>3, <3>1
  <2>7. Ticket(w) \notin {Ticket(committer[d].of) : d \in InFlight \ {c}}
    BY <2>4, <2>5
  <2> QED BY <1>2, <2>1, <2>3, <2>6, <2>7
<1>11. Ticket(w).of = w /\ Ticket(w).attempt = iso[w].attempt /\ Ticket(w).length = u.end
  BY DEF Ticket, u
<1>12. ordinal' = ordinal + u.end /\ open' = open
  BY <1>1, <1>2, <1>3, <1>7 DEF Alone
<1>13. \E x \in Waiting :
         /\ Block' = Append(Block, [of |-> x.of, attempt |-> x.attempt,
                                    begin |-> ordinal + 1, end |-> ordinal + x.length])
         /\ ordinal' = ordinal + x.length
         /\ Waiting' = Waiting \ {x}
         /\ open' = open
  BY <1>9, <1>10, <1>11, <1>12
<1> QED BY <1>13 DEF Atomic!Commit, Block, Waiting

(* A call of OnTxCommit that passes the checks asks for a commit of the    *)
(* tracer's last execution, newer than what the block has of it; one for a *)
(* dropped transaction changes nothing.                                    *)
LEMMA AtomicCheck ==
    ASSUME MutexInv, LocalInv, LandedInv, MutexInv', LocalInv', Disciplined,
           NEW w \in Isolated, NEW c \in Committers, CheckCommit(c, w)
    PROVE  Atomic!AtomicNext \/ UNCHANGED Atomic!atomicVars
<1>1. /\ Alone(c) /\ UNCHANGED <<ordinal, traces, mutex, panicked>>
      /\ committer[c].pc = "outside" /\ phase[w] = "ended" /\ phase'[w] = "done"
      /\ \A v \in Isolated : v # w => iso'[v] = iso[v] /\ phase'[v] = phase[v]
      /\ \/ iso[w].dropped = TRUE /\ committer' = committer
            /\ iso'[w] = [iso[w] EXCEPT !.dropped = FALSE]
         \/ iso[w].dropped = FALSE /\ iso' = iso
            /\ committer'[c] = [pc |-> "checked", of |-> w, base |-> 0]
  BY CheckStep, ZenonT(60) DEF MutexInv, Disciplined
<1>2. iso[w] \in IsoType /\ iso[w].attempt \in Nat /\ iso[w].trx \in TraceType /\ open = TRUE
      /\ \A d \in Committers : committer[d].pc # "outside" => committer[d].of # w
  BY <1>1, LocalFacts
<1>3. Appending' = Appending
  BY <1>1 DEF Alone, Appending
<1>4. Block' = Block
  BY <1>1, <1>3, SameBlock
<1>5. CASE iso[w].dropped = TRUE
  <2>1. \A v \in Isolated : iso'[v].attempt = iso[v].attempt /\ iso'[v].trx = iso[v].trx
    BY <1>1, <1>2, <1>5 DEF IsoType
  <2>2. committer' = committer
    BY <1>1, <1>5
  <2>3. InFlight' = InFlight
    BY <2>2 DEF InFlight
  <2>4. c \in InFlight' <=> c \in InFlight
    BY <2>3
  <2>5. Waiting' = Waiting
    BY <1>1, <2>1, <2>2, <2>4, AtomicInside
  <2> QED BY <1>1, <1>4, <2>5, Stutters DEF Alone
<1>6. CASE iso[w].dropped = FALSE
  <2> DEFINE n == iso[w].attempt
             length == iso[w].trx.end
  <2>1. /\ iso' = iso /\ committer'[c] = [pc |-> "checked", of |-> w, base |-> 0]
        /\ \A d \in Committers : d # c => committer'[d] = committer[d]
    BY <1>1, <1>6 DEF Alone
  <2>2. Ended(iso[w].trx, w, n, 0) /\ n <= MaxAttempts /\ n >= 1
    BY <1>1, <1>6 DEF LocalInv, LocalOK
  <2>3. iso[w].trx.end - iso[w].trx.begin + 1 \in 2..(MaxMarks + 2) /\ iso[w].trx.begin = 1
    <3> DEFINE t == iso[w].trx
    <3>1. t \in TraceType /\ Ended(t, w, n, 0) /\ 0 \in Nat /\ 0 + 1 = 1
      BY <1>2, <2>2
    <3> HIDE DEF t, n
    <3>2. t.end - t.begin + 1 \in 2..(MaxMarks + 2) /\ t.begin = 0 + 1
      BY <3>1, EndedLength
    <3> QED BY <3>1, <3>2 DEF t
  <2>4. length \in Nat
    BY <1>2 DEF TraceType
  <2>5. n \in 1..MaxAttempts
    BY <1>2, <2>2, ParallelAssumption
  <2>6. length \in 2..(MaxMarks + 2)
    <3> HIDE DEF length
    <3>1. length - 1 + 1 = length
      BY <2>4
    <3> QED BY <2>3, <3>1 DEF length
  <2>7. Waiting = {Ticket(committer[d].of) : d \in InFlight}
    BY WaitingTickets
  <2>8. Waiting' = {Ticket(committer[d].of) : d \in InFlight}'
    BY WaitingTicketsNext
  <2>9. c \notin InFlight /\ InFlight' = InFlight \cup {c}
    BY <1>1, <2>1 DEF InFlight
  <2>10. \A d \in InFlight : committer[d].of # w /\ committer'[d].of = committer[d].of
    BY <1>2, <2>1, <2>9 DEF InFlight
  <2>11. Waiting' = Waiting \cup {Ticket(w)}
    <3>1. \A d \in InFlight : Ticket(committer[d].of)' = Ticket(committer[d].of)
      BY <2>1, <2>10 DEF Ticket
    <3>2. Ticket(committer[c].of)' = Ticket(w)
      BY <2>1 DEF Ticket
    <3> QED BY <2>7, <2>8, <2>9, <3>1, <3>2
  <2>12. \A x \in Waiting : x.of # w
    BY <2>7, <2>10 DEF Ticket
  <2>13. \A i \in DOMAIN Block : Block[i].of = w => Block[i].attempt < n
    <3>1. Absent(w)
      BY <1>1 DEF Absent
    <3>2. \A i \in DOMAIN traces : traces[i].of = w => traces[i].attempt < n
      BY <3>1 DEF LandedInv
    <3>3. \A i \in DOMAIN Landed : i \in DOMAIN traces /\ Landed[i] = traces[i]
      BY LandedSeq
    <3> QED BY <3>2, <3>3 DEF Block
  <2>14. Ticket(w) = [of |-> w, attempt |-> n, length |-> length]
    BY DEF Ticket
  <2>15. open' = open /\ ordinal' = ordinal
    BY <1>1 DEF Alone
  <2>16. PICK k \in 1..MaxAttempts : k = n
    BY <2>5
  <2>17. PICK l \in 2..(MaxMarks + 2) : l = length
    BY <2>6
  <2> HIDE DEF n, length
  <2>18. Atomic!Ask(w, k, l)
    BY <1>2, <1>4, <2>11, <2>12, <2>13, <2>14, <2>15, <2>16, <2>17
       DEF Atomic!Ask, Block, Waiting
  <2> QED BY <2>18 DEF Atomic!AtomicNext
<1> QED BY <1>1, <1>5, <1>6

(* The coordinator's own hooks begin and end the block, or take an ordinal *)
(* between two commits.                                                    *)
LEMMA AtomicBlock ==
    ASSUME MutexInv, LocalInv, MutexInv', LocalInv', OnBlockStart \/ OnBlockEnd \/ CoordinatorHook
    PROVE  Atomic!AtomicNext
<1>1. CASE OnBlockStart
  <2>1. open = FALSE /\ open' = TRUE /\ UNCHANGED <<ordinal, iso, committer>> /\ traces' = traces
    BY <1>1 DEF OnBlockStart, LocalInv, MutexInv, TypeOK
  <2>2. InFlight' = InFlight /\ Appending' = Appending
    BY <2>1 DEF InFlight, Appending
  <2>3. Block' = Block
    BY <2>1, <2>2, SameBlock
  <2>4. Waiting' = Waiting
    BY <2>1, <2>2, SameTickets
  <2>5. Atomic!Start
    BY <2>1, <2>3, <2>4 DEF Atomic!Start, Block, Waiting
  <2> QED BY <2>5 DEF Atomic!AtomicNext
<1>2. CASE OnBlockEnd
  <2>1. /\ open = TRUE /\ open' = FALSE /\ ordinal' = 0 /\ traces' = <<>> /\ committer' = committer
        /\ \A c \in Committers : committer[c].pc = "outside"
    BY <1>2 DEF OnBlockEnd, Joined, MutexInv, TypeOK
  <2>2. InFlight = {} /\ InFlight' = {} /\ ~Appending'
    BY <2>1 DEF InFlight, Appending
  <2>3. Waiting = {} /\ Waiting' = {}
    BY <2>2 DEF Waiting
  <2>4. Landed' = <<>>
    BY <2>1, <2>2 DEF Landed, Appending
  <2>5. DOMAIN Block' = {}
    BY <2>4 DEF Block
  <2>6. Block' = <<>>
    BY <2>4, <2>5 DEF Block
  <2>7. Atomic!Finish
    BY <2>1, <2>3, <2>6 DEF Atomic!Finish, Block, Waiting
  <2> QED BY <2>7 DEF Atomic!AtomicNext
<1>3. CASE CoordinatorHook
  <2>1. open = TRUE /\ UNCHANGED <<open, traces, iso, committer>> /\ ordinal' = ordinal + 1
    BY <1>3 DEF CoordinatorHook, MutexInv, TypeOK
  <2>2. InFlight' = InFlight /\ Appending' = Appending
    BY <2>1 DEF InFlight, Appending
  <2>3. Block' = Block
    BY <2>1, <2>2, SameBlock
  <2>4. Waiting' = Waiting
    BY <2>1, <2>2, SameTickets
  <2>5. Atomic!Own
    BY <2>1, <2>3, <2>4 DEF Atomic!Own, Block, Waiting
  <2> QED BY <2>5 DEF Atomic!AtomicNext
<1> QED BY <1>1, <1>2, <1>3

(* The two begin alike.                                                    *)
LEMMA AtomicStart ==
    ASSUME Init
    PROVE  Atomic!AtomicInit
<1>1. open = FALSE /\ ordinal = 0 /\ traces = <<>> /\ \A c \in Committers : committer[c].pc = "outside"
  BY DEF Init, Outside
<1>2. InFlight = {} /\ ~Appending
  BY <1>1 DEF InFlight, Appending
<1>3. Waiting = {} /\ Landed = <<>>
  BY <1>1, <1>2 DEF Waiting, Landed, Appending
<1>4. Block = <<>>
  BY <1>3 DEF Block
<1> QED BY <1>1, <1>3, <1>4 DEF Atomic!AtomicInit, Block, Waiting

(* Each step of the goroutines is one of AtomicCommit, or changes nothing  *)
(* it speaks of.                                                           *)
LEMMA AtomicStep ==
    ASSUME MutexInv, LocalInv, LandedInv, MutexInv', LocalInv', Disciplined, [Next]_vars
    PROVE  [Atomic!AtomicNext]_(Atomic!atomicVars)
<1>1. CASE OnBlockStart \/ OnBlockEnd \/ CoordinatorHook
  BY <1>1, AtomicBlock
<1>2. ASSUME NEW w \in Isolated,
             OnTxSpawn(w) \/ OnTxStart(w) \/ OnTxReset(w) \/ OnChange(w) \/ OnLog(w)
             \/ OnKeccakPreimage(w) \/ \E receipt \in BOOLEAN : OnTxEnd(w, receipt)
      PROVE  UNCHANGED Atomic!atomicVars
  BY <1>2, AtomicGoroutine
<1>3. ASSUME NEW w \in Isolated, NEW c \in Committers, CheckCommit(c, w)
      PROVE  Atomic!AtomicNext \/ UNCHANGED Atomic!atomicVars
  BY <1>3, AtomicCheck
<1>4. ASSUME NEW c \in Committers, Lock(c) \/ Rebase(c) \/ AppendTrace(c) \/ Unlock(c)
      PROVE  UNCHANGED Atomic!atomicVars
  BY <1>4, AtomicLock, AtomicRebase, AtomicAppend, AtomicUnlock
<1>5. ASSUME NEW c \in Committers, SetOrdinal(c)
      PROVE  Atomic!AtomicNext
  BY <1>5, AtomicSet DEF Atomic!AtomicNext
<1>6. CASE UNCHANGED vars
  <2>1. Block' = Block /\ Waiting' = Waiting /\ ordinal' = ordinal /\ open' = open
    BY <1>6 DEF vars, Block, Waiting, Landed, InFlight
  <2> QED BY <2>1, Stutters
<1>7. ~\E w \in Isolated : SystemCall(w)
  BY DEF Disciplined, SystemCall
<1> QED BY <1>1, <1>2, <1>3, <1>4, <1>5, <1>6, <1>7 DEF Next, InCommit

(* Whatever goroutines call OnTxCommit at the same time, the block is the  *)
(* one that commits done one after the other would build, if no two of     *)
(* them commit the same transaction and none traces a system call.         *)
THEOREM ParallelIsAtomic == Disciplined => (Spec => CommitsAreAtomic)
<1> SUFFICES ASSUME Disciplined
             PROVE  Spec => CommitsAreAtomic
  OBVIOUS
<1>1. Init => MutexInv /\ LocalInv /\ LandedInv /\ Atomic!AtomicInit
  BY MutexInit, LocalInit, LandedInit, AtomicStart
<1>2. MutexInv /\ LocalInv /\ LandedInv /\ [Next]_vars => (MutexInv /\ LocalInv /\ LandedInv)'
  BY MutexStep, LocalStep, LandedStep
<1>3. MutexInv /\ LocalInv /\ LandedInv /\ (MutexInv /\ LocalInv /\ LandedInv)' /\ [Next]_vars
          => [Atomic!AtomicNext]_(Atomic!atomicVars)
  BY AtomicStep
<1> QED BY <1>1, <1>2, <1>3, PTL DEF Spec, CommitsAreAtomic, Atomic!AtomicSpec
=============================================================================
