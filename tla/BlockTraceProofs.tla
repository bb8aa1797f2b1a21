--------------------------- MODULE BlockTraceProofs ---------------------------
(***************************************************************************)
(* What the block says of every transaction and system call that ended,    *)
(* whatever the client interleaves, interrupts, fails or panics in: the    *)
(* calls form the tree that their ordinals draw, each change, log and hash *)
(* sits in the call whose frame made it and in the order it was made, logs *)
(* are numbered without a gap, and state is reverted exactly under a call  *)
(* that failed.                                                            *)
(*                                                                         *)
(* The invariant, BlockOK, relates each running context of the client to   *)
(* the state that traces it (Traces: its frames are the stack, its calls a *)
(* forest, its entries rise and belong, its logs are ranked), also while   *)
(* it is set aside, and says of the block that all in it is good.          *)
(*                                                                         *)
(* For clients that are Careful, CarefulOK adds what the receipt needs: the*)
(* logs in the client's journal are the live ones of what is traced, in    *)
(* order, and each frame's mark parts its logs from those before it        *)
(* (Journalled).  Then no hook panics, and receipts are faithful.          *)
(***************************************************************************)
EXTENDS TracedBlockProofs, WellFoundedInduction

(***************************************************************************)
(* The tree of calls.  A call covers the ordinals given out while it runs; *)
(* the calls around another are those that cover its beginning.            *)
(***************************************************************************)
Closed(x) == x.outcome # "open"

Covers(x, o) == x.begin < o /\ (Closed(x) => o < x.end)

Around(X, x) == {y \in X : Covers(y, x.begin)}

Indexes(X) == {y.index : y \in X}

(* What began and ended, did so by ordinal n.                              *)
Timed(X, n) == \A x \in X : x.begin <= n /\ (Closed(x) => x.begin < x.end /\ x.end <= n)

(* Calls are numbered in the order they begin.                             *)
Numbering(X) == \A x, y \in X : x.index < y.index <=> x.begin < y.begin

(* A call ends before those around it.                                     *)
Nested(X) == \A x \in X : \A y \in Around(X, x) : Closed(y) => Closed(x) /\ x.end < y.end

(* Depth and parent are those of the tree that the ordinals draw.          *)
Placing(X, x) ==
    /\ x.depth = Cardinality(Indexes(Around(X, x)))
    /\ IF Around(X, x) = {} THEN x.parent = 0
       ELSE \E p \in Around(X, x) : x.parent = p.index /\ \A q \in Around(X, x) : q.begin <= p.begin

Forest(X, n) == Timed(X, n) /\ Numbering(X) /\ Nested(X) /\ \A x \in X : Placing(X, x)

(* Two records of the same call, as far as it can be told up to n.         *)
Same(x, y, n) ==
    /\ x.index = y.index /\ x.begin = y.begin /\ x.depth = y.depth /\ x.parent = y.parent
    /\ \A o \in 0..n : Covers(x, o) <=> Covers(y, o)

SameCalls(X, Y, n) ==
    /\ \A x \in X : \E y \in Y : Same(x, y, n)
    /\ \A y \in Y : \E x \in X : Same(x, y, n)

(* So the calls around them are the same.                                  *)
LEMMA SameAround ==
    ASSUME NEW X \in SUBSET Call, NEW Y \in SUBSET Call, NEW n \in Nat, SameCalls(X, Y, n),
           NEW x \in X, NEW y \in Y, Same(x, y, n), x.begin <= n
    PROVE  /\ Indexes(Around(X, x)) = Indexes(Around(Y, y))
           /\ \A p \in Around(X, x) : \E q \in Around(Y, y) : Same(p, q, n)
           /\ \A q \in Around(Y, y) : \E p \in Around(X, x) : Same(p, q, n)
<1>1. x.begin \in 0..n /\ y.begin = x.begin
  BY DEF Same, Call
<1>2. ASSUME NEW p \in Around(X, x) PROVE \E q \in Around(Y, y) : Same(p, q, n)
  <2>1. p \in X /\ Covers(p, x.begin)
    BY DEF Around
  <2>2. PICK q \in Y : Same(p, q, n)
    BY <2>1 DEF SameCalls
  <2>3. Covers(q, y.begin)
    BY <1>1, <2>1, <2>2 DEF Same
  <2> QED BY <2>2, <2>3 DEF Around
<1>3. ASSUME NEW q \in Around(Y, y) PROVE \E p \in Around(X, x) : Same(p, q, n)
  <2>1. q \in Y /\ Covers(q, y.begin)
    BY DEF Around
  <2>2. PICK p \in X : Same(p, q, n)
    BY <2>1 DEF SameCalls
  <2>3. Covers(p, x.begin)
    BY <1>1, <2>1, <2>2 DEF Same
  <2> QED BY <2>2, <2>3 DEF Around
<1>4. \A p, q : Same(p, q, n) => p.index = q.index
  BY DEF Same
<1> QED BY <1>2, <1>3, <1>4 DEF Indexes

(* The tree does not depend on what else the calls record, and a call that *)
(* ends leaves it as it is.                                                *)
LEMMA ForestSame ==
    ASSUME NEW X \in SUBSET Call, NEW Y \in SUBSET Call, NEW n \in Nat, NEW m \in Nat,
           Forest(X, n), SameCalls(X, Y, n), Timed(Y, m), Nested(Y)
    PROVE  Forest(Y, m)
<1>1. \A y \in Y : \E x \in X : Same(x, y, n) /\ x.begin <= n
  BY DEF SameCalls, Forest, Timed
<1>2. Numbering(Y)
  BY <1>1 DEF Forest, Numbering, Same
<1>3. ASSUME NEW y \in Y PROVE Placing(Y, y)
  <2>1. PICK x \in X : Same(x, y, n) /\ x.begin <= n
    BY <1>1
  <2>2. /\ Indexes(Around(X, x)) = Indexes(Around(Y, y))
        /\ \A p \in Around(X, x) : \E q \in Around(Y, y) : Same(p, q, n)
        /\ \A q \in Around(Y, y) : \E p \in Around(X, x) : Same(p, q, n)
    BY <2>1, SameAround
  <2>3. Placing(X, x)
    BY DEF Forest
  <2>4. x.depth = y.depth /\ x.parent = y.parent
    BY <2>1 DEF Same
  <2>5. CASE Around(Y, y) = {}
    <3>1. Around(X, x) = {}
      BY <2>2, <2>5
    <3> QED BY <2>2, <2>3, <2>4, <2>5, <3>1 DEF Placing
  <2>6. CASE Around(Y, y) # {}
    <3>1. Around(X, x) # {}
      BY <2>2, <2>6
    <3>2. PICK p \in Around(X, x) : x.parent = p.index /\ \A q \in Around(X, x) : q.begin <= p.begin
      BY <2>3, <3>1 DEF Placing
    <3>3. PICK r \in Around(Y, y) : Same(p, r, n)
      BY <2>2
    <3>4. y.parent = r.index
      BY <2>4, <3>2, <3>3 DEF Same
    <3>5. \A q \in Around(Y, y) : q.begin <= r.begin
      BY <2>2, <3>2, <3>3 DEF Same
    <3> QED BY <2>2, <2>3, <2>4, <2>6, <3>4, <3>5 DEF Placing
  <2> QED BY <2>5, <2>6
<1> QED BY <1>2, <1>3 DEF Forest

(* A call that begins under what is open.                                  *)
LEMMA ForestPush ==
    ASSUME NEW X \in SUBSET Call, NEW n \in Nat, Forest(X, n), NEW u \in Call,
           u.begin = n + 1, ~Closed(u), \A x \in X : x.index < u.index,
           NEW open, open = {y \in X : ~Closed(y)},
           u.depth = Cardinality(Indexes(open)),
           IF open = {} THEN u.parent = 0
           ELSE \E p \in open : u.parent = p.index /\ \A q \in open : q.begin <= p.begin
    PROVE  Forest(X \cup {u}, n + 1)
<1> DEFINE Y == X \cup {u}
<1>1. \A x \in X : x.begin \in Nat /\ x.begin <= n /\ (Closed(x) => x.begin < x.end /\ x.end <= n)
                   /\ x.end \in Nat /\ x.index \in Nat
  BY DEF Forest, Timed, Call
<1>1a. u.index \in Nat
  BY DEF Call
<1>2. \A x \in X : Around(Y, x) = Around(X, x)
  BY <1>1 DEF Around, Covers
<1>3. Around(Y, u) = open
  BY <1>1 DEF Around, Covers
<1>4. Timed(Y, n + 1)
  BY <1>1 DEF Timed
<1>5. Numbering(Y)
  <2> SUFFICES ASSUME NEW x \in Y, NEW y \in Y PROVE x.index < y.index <=> x.begin < y.begin
    BY DEF Numbering
  <2>1. CASE x \in X /\ y \in X
    BY <2>1 DEF Forest, Numbering
  <2>2. CASE x = u \/ y = u
    BY <1>1, <1>1a, <2>2
  <2> QED BY <2>1, <2>2
<1>6. Nested(Y)
  BY <1>2, <1>3 DEF Nested, Forest
<1>7. \A x \in X : Placing(Y, x)
  BY <1>2 DEF Placing, Forest
<1>8. Placing(Y, u)
  BY <1>3 DEF Placing
<1> QED BY <1>4, <1>5, <1>6, <1>7, <1>8 DEF Forest

(* The call t recorded anew as u, or ended.                                *)
LEMMA ForestReplace ==
    ASSUME NEW X \in SUBSET Call, NEW n \in Nat, Forest(X, n), NEW m \in Nat, n <= m,
           NEW t \in X, NEW u \in Call,
           \A x \in X : x.index = t.index => x = t,
           u.index = t.index, u.begin = t.begin, u.depth = t.depth, u.parent = t.parent,
           \/ u.outcome = t.outcome /\ u.end = t.end
           \/ /\ ~Closed(t) /\ Closed(u) /\ u.end = n + 1 /\ n + 1 <= m
              /\ \A x \in X : ~Closed(x) => x.index <= t.index
    PROVE  /\ SameCalls(X, (X \ {t}) \cup {u}, n)
           /\ Forest((X \ {t}) \cup {u}, m)
<1> DEFINE Y == (X \ {t}) \cup {u}
<1>1. \A x \in X : /\ x.begin \in Nat /\ x.begin <= n /\ (Closed(x) => x.begin < x.end /\ x.end <= n)
                   /\ x.end \in Nat /\ x.index \in Nat
  BY DEF Forest, Timed, Call
<1>2. \A o \in 0..n : Covers(t, o) <=> Covers(u, o)
  BY <1>1 DEF Covers, Closed
<1>3. Same(t, u, n) /\ \A x \in X : Same(x, x, n)
  BY <1>2 DEF Same
<1>4. SameCalls(X, Y, n)
  BY <1>3 DEF SameCalls
<1>5. Timed(Y, m)
  BY <1>1 DEF Timed, Closed
<1>6. Nested(Y)
  <2> SUFFICES ASSUME NEW x \in Y, NEW y \in Y, Covers(y, x.begin), Closed(y)
               PROVE  Closed(x) /\ x.end < y.end
    BY DEF Nested, Around
  <2>1. \A v \in X, w \in X : Covers(w, v.begin) /\ Closed(w) => Closed(v) /\ v.end < w.end
    BY DEF Forest, Nested, Around
  <2>2. CASE u.outcome = t.outcome /\ u.end = t.end
    <3>1. \A w : \A v \in Y : v # u => v \in X
      OBVIOUS
    <3>2. PICK v \in X : v.begin = x.begin /\ v.end = x.end /\ v.outcome = x.outcome
      BY <2>2
    <3>3. PICK w \in X : w.begin = y.begin /\ w.end = y.end /\ w.outcome = y.outcome
      BY <2>2
    <3> QED BY <2>1, <3>2, <3>3 DEF Covers, Closed
  <2>3. CASE /\ ~Closed(t) /\ Closed(u) /\ u.end = n + 1
             /\ \A v \in X : ~Closed(v) => v.index <= t.index
    <3>1. CASE x # u /\ y # u
      BY <2>1, <3>1
    <3>2. CASE x # u /\ y = u
      <4>1. x \in X /\ t.begin < x.begin
        BY <3>2 DEF Covers
      <4>2. t.index < x.index
        BY <4>1 DEF Forest, Numbering
      <4>3. Closed(x)
        BY <1>1, <2>3, <4>1, <4>2
      <4> QED BY <1>1, <2>3, <3>2, <4>1, <4>3
    <3>3. CASE x = u /\ y # u
      BY <2>1, <2>3, <3>3
    <3>4. CASE x = u /\ y = u
      <4>1. u.begin < u.begin
        BY <3>4 DEF Covers
      <4>2. u.begin \in Nat
        BY DEF Call
      <4> QED BY <4>1, <4>2
    <3> QED BY <3>1, <3>2, <3>3, <3>4
  <2> QED BY <2>2, <2>3
<1>7. Y \in SUBSET Call
  OBVIOUS
<1> QED BY <1>4, <1>5, <1>6, <1>7, ForestSame

-----------------------------------------------------------------------------
(* The calls of a state                                                    *)

(* All the calls that a state holds.                                       *)
CallsOf(s) == ToSet(s.trx.calls) \cup ToSet(s.callStack.stack)

(* As many keys as elements, when no two have the same.                    *)
LEMMA CountedByKey ==
    ASSUME NEW S, IsFiniteSet(S), NEW f, \A x, y \in S : f[x] = f[y] => x = y
    PROVE  /\ IsFiniteSet({f[x] : x \in S})
           /\ Cardinality({f[x] : x \in S}) = Cardinality(S)
<1> DEFINE T == {f[x] : x \in S}
           g == [x \in S |-> f[x]]
<1>1. g \in [S -> T] /\ \A y \in T : \E x \in S : g[x] = y
  OBVIOUS
<1>2. \A x, y \in S : g[x] = g[y] => x = y
  OBVIOUS
<1> HIDE DEF g, T
<1>3. g \in Injection(S, T) /\ g \in Surjection(S, T)
  BY <1>1, <1>2, Fun_IsInj DEF Surjection
<1> QED BY <1>3, FS_Surjection DEF T

(* The elements of a sequence.                                             *)
LEMMA SeqElements ==
    ASSUME NEW S, NEW s \in Seq(S)
    PROVE  /\ \A x : x \in ToSet(s) <=> \E i \in 1..Len(s) : s[i] = x
           /\ \A i \in 1..Len(s) : s[i] \in ToSet(s) /\ s[i] \in S
           /\ ToSet(s) \subseteq S
<1>1. DOMAIN s = 1..Len(s) /\ \A i \in 1..Len(s) : s[i] \in S
  OBVIOUS
<1> QED BY <1>1 DEF ToSet

(* No two of a state's calls have one number.                              *)
LEMMA CallsOfNumbers ==
    ASSUME NEW s, StateOK(s)
    PROVE  /\ CallsOf(s) \subseteq Call
           /\ \A x \in CallsOf(s) : x.index \in Nat /\ x.index >= 1 /\ x.index <= s.callStack.index
           /\ \A x, y \in CallsOf(s) : x.index = y.index => x = y
           /\ s.callStack.index \in Nat
<1> DEFINE calls == s.trx.calls
           stack == s.callStack.stack
           n     == s.callStack.index
<1>1. calls \in Seq(Call) /\ stack \in Seq(Call) /\ BranchOK(s.callStack) /\ n \in Nat
  BY AllLogsType, StateParts DEF CallStack
<1>2. /\ \A i \in 1..Len(stack) : stack[i].index >= 1
      /\ \A i \in 1..Len(calls) : calls[i].index \in 1..n
      /\ \A i, j \in 1..Len(calls) : calls[i].index = calls[j].index => i = j
      /\ \A i \in 1..Len(calls), j \in 1..Len(stack) : calls[i].index # stack[j].index
  BY StateParts DEF Numbered
<1>3. /\ \A i \in 1..Len(stack) : stack[i].index <= n
      /\ \A i, j \in 1..Len(stack) : i < j => stack[i].index < stack[j].index
  <2>1. DOMAIN stack = 1..Len(stack)
    BY <1>1
  <2> QED BY <1>1, <2>1 DEF BranchOK, IsBranch, Ascending
<1> HIDE DEF calls, stack, n
<1>4. /\ \A x : x \in ToSet(calls) <=> \E i \in 1..Len(calls) : calls[i] = x
      /\ \A x : x \in ToSet(stack) <=> \E i \in 1..Len(stack) : stack[i] = x
      /\ ToSet(calls) \subseteq Call /\ ToSet(stack) \subseteq Call
  BY <1>1, SeqElements
<1>5. \A i, j \in 1..Len(stack) : stack[i].index = stack[j].index => i = j
  <2> SUFFICES ASSUME NEW i \in 1..Len(stack), NEW j \in 1..Len(stack), i # j
               PROVE  stack[i].index # stack[j].index
    OBVIOUS
  <2>1. stack[i].index \in Nat /\ stack[j].index \in Nat /\ i \in Nat /\ j \in Nat
    BY <1>1, CallsType
  <2>2. i < j \/ j < i
    BY <2>1
  <2> QED BY <1>3, <2>1, <2>2
<1>6. CallsOf(s) = ToSet(calls) \cup ToSet(stack)
  BY DEF CallsOf, calls, stack
<1>7. \A x \in CallsOf(s) : x.index \in Nat /\ x.index >= 1 /\ x.index <= n
  <2>1. \A x \in CallsOf(s) : x.index \in Nat
    BY <1>4, <1>6 DEF Call
  <2>2. \A x \in ToSet(calls) : x.index \in 1..n
    BY <1>2, <1>4
  <2>3. \A x \in ToSet(stack) : x.index >= 1 /\ x.index <= n
    BY <1>2, <1>3, <1>4
  <2> QED BY <1>1, <1>6, <2>1, <2>2, <2>3
<1>8. \A x, y \in CallsOf(s) : x.index = y.index => x = y
  BY <1>2, <1>4, <1>5, <1>6
<1> QED BY <1>1, <1>4, <1>6, <1>7, <1>8 DEF n

(* As many numbers are open as the stack is high, the highest on top.      *)
LEMMA OpenNumbers ==
    ASSUME NEW cs, BranchOK(cs)
    PROVE  /\ Cardinality(Indexes(ToSet(cs.stack))) = cs.depth
           /\ HasActiveCall(cs) => /\ Peek(cs) \in ToSet(cs.stack)
                                   /\ \A x \in ToSet(cs.stack) : x.index <= Peek(cs).index
           /\ ~HasActiveCall(cs) => ToSet(cs.stack) = {}
<1> DEFINE stack == cs.stack
           m     == Len(stack)
<1>1. stack \in Seq(Call) /\ m \in Nat /\ cs.depth = m /\ cs \in CallStack
  BY DEF BranchOK, CallStack, IsBranch
<1>2. /\ \A i, j \in 1..m : i < j => stack[i].index < stack[j].index
      /\ \A i \in 1..m : stack[i].index \in Nat
  BY <1>1, CallsType DEF BranchOK, Ascending
<1> HIDE DEF stack
<1>3. /\ \A x : x \in ToSet(stack) <=> \E i \in 1..m : stack[i] = x
      /\ \A i \in 1..m : stack[i] \in ToSet(stack)
  BY <1>1, SeqElements
<1> DEFINE idx == [i \in 1..m |-> stack[i].index]
<1>4. Cardinality(Indexes(ToSet(stack))) = m
  <2>1. Indexes(ToSet(stack)) = {idx[i] : i \in 1..m}
    BY <1>3 DEF Indexes
  <2>2. \A i, j \in 1..m : idx[i] = idx[j] => i = j
    <3> SUFFICES ASSUME NEW i \in 1..m, NEW j \in 1..m, i # j PROVE stack[i].index # stack[j].index
      OBVIOUS
    <3>1. i < j \/ j < i
      BY <1>1
    <3> QED BY <1>2, <3>1
  <2> HIDE DEF idx
  <2>3. IsFiniteSet(1..m) /\ Cardinality(1..m) = m
    BY <1>1, UptoFinite
  <2> QED BY <2>1, <2>2, <2>3, CountedByKey
<1>5. ASSUME HasActiveCall(cs)
      PROVE  Peek(cs) \in ToSet(stack) /\ \A x \in ToSet(stack) : x.index <= Peek(cs).index
  <2>1. m >= 1 /\ Peek(cs) = stack[m]
    BY <1>1, <1>5, PeekType DEF stack
  <2>2. m \in 1..m
    BY <1>1, <2>1
  <2>3. \A i \in 1..m : stack[i].index <= stack[m].index
    <3> TAKE i \in 1..m
    <3>1. i = m \/ i < m
      BY <1>1
    <3> HIDE DEF m
    <3> QED BY <1>2, <2>2, <3>1
  <2> QED BY <1>3, <2>1, <2>2, <2>3
<1>6. ~HasActiveCall(cs) => ToSet(stack) = {}
  BY DEF HasActiveCall, ToSet, stack
<1> QED BY <1>1, <1>4, <1>5, <1>6 DEF stack

(* What a push makes of a call.                                            *)
OnStack(cs, call) ==
    [call EXCEPT !.index = cs.index + 1, !.depth = cs.depth,
                 !.parent = IF HasActiveCall(cs) THEN Peek(cs).index ELSE 0]

(* The open calls after a push: one more, under the next number.           *)
LEMMA PushCalls ==
    ASSUME NEW cs, BranchOK(cs), NEW call \in Call, NEW u, u = OnStack(cs, call)
    PROVE    /\ u \in Call
             /\ ToSet(Push(cs, call).stack) = ToSet(cs.stack) \cup {u}
             /\ u.index = cs.index + 1 /\ u.depth = cs.depth
             /\ u.parent = IF HasActiveCall(cs) THEN Peek(cs).index ELSE 0
             /\ u.begin = call.begin /\ u.end = call.end /\ u.outcome = call.outcome
             /\ u.data = call.data /\ u.lists = call.lists /\ u.preimages = call.preimages
<1> DEFINE parent == IF HasActiveCall(cs) THEN Peek(cs).index ELSE 0
<1>0. u = [call EXCEPT !.index = cs.index + 1, !.depth = cs.depth, !.parent = parent]
  BY DEF OnStack
<1>1. cs.stack \in Seq(Call) /\ cs.index \in Nat /\ cs.depth \in Nat /\ cs \in CallStack
  BY DEF BranchOK, CallStack
<1>2. parent \in Nat
  <2>1. HasActiveCall(cs) => Peek(cs) \in Call
    BY <1>1, PeekType
  <2> QED BY <2>1 DEF Call
<1>3. Push(cs, call).stack = Append(cs.stack, u)
  BY <1>0 DEF Push
<1> HIDE DEF parent
<1>4. /\ u \in Call
      /\ u.index = cs.index + 1 /\ u.depth = cs.depth /\ u.parent = parent
      /\ u.begin = call.begin /\ u.end = call.end /\ u.outcome = call.outcome
      /\ u.data = call.data /\ u.lists = call.lists /\ u.preimages = call.preimages
  <2> DEFINE a == cs.index + 1
             b == cs.depth
             v == [call EXCEPT !.index = a, !.depth = b, !.parent = parent]
  <2>1. a \in Nat /\ b \in Nat
    BY <1>1
  <2> HIDE DEF a, b
  <2>2. /\ v \in Call /\ v.index = a /\ v.depth = b /\ v.parent = parent
        /\ v.begin = call.begin /\ v.end = call.end /\ v.outcome = call.outcome
        /\ v.data = call.data /\ v.lists = call.lists /\ v.preimages = call.preimages
    BY <1>2, <2>1 DEF Call
  <2> QED BY <1>0, <2>2 DEF a, b
<1>5. ToSet(Append(cs.stack, u)) = ToSet(cs.stack) \cup {u}
  BY <1>1, <1>4, AppendToSet
<1> QED BY <1>3, <1>4, <1>5 DEF parent

(* The open calls after a pop: all but the one on top.                     *)
LEMMA PopCalls ==
    ASSUME NEW cs, BranchOK(cs), HasActiveCall(cs)
    PROVE  ToSet(Pop(cs).stack) = ToSet(cs.stack) \ {Peek(cs)}
<1> DEFINE stack == cs.stack
           after == Pop(cs).stack
           m     == Len(stack)
<1>1. stack \in Seq(Call) /\ m \in Nat /\ m >= 1 /\ Peek(cs) = stack[m] /\ cs \in CallStack
  BY PeekType DEF BranchOK, CallStack
<1>2. Len(after) = m - 1 /\ \A i \in 1..(m - 1) : after[i] = stack[i]
  BY PopBranch
<1>3. after \in Seq(Call)
  BY PopBranch DEF BranchOK, CallStack
<1>4. \A i, j \in 1..m : i < j => stack[i].index < stack[j].index
  BY DEF BranchOK, Ascending
<1>5. \A i \in 1..m : stack[i].index \in Nat
  BY <1>1, CallsType
<1> HIDE DEF stack, after
<1>6. /\ \A x : x \in ToSet(stack) <=> \E i \in 1..m : stack[i] = x
      /\ \A x : x \in ToSet(after) <=> \E i \in 1..(m - 1) : after[i] = x
  BY <1>1, <1>2, <1>3, SeqElements
<1>7. \A i \in 1..(m - 1) : i \in 1..m /\ stack[i] # stack[m]
  <2> TAKE i \in 1..(m - 1)
  <2>1. i \in 1..m /\ m \in 1..m /\ i < m
    BY <1>1
  <2>2. stack[i].index < stack[m].index /\ stack[i].index \in Nat
    BY <1>4, <1>5, <2>1
  <2> QED BY <2>1, <2>2
<1>8. \A i \in 1..m : i \in 1..(m - 1) \/ i = m
  BY <1>1
<1>9. ToSet(after) = ToSet(stack) \ {stack[m]}
  BY <1>2, <1>6, <1>7, <1>8
<1> QED BY <1>1, <1>9 DEF stack, after

(* The open calls after a change to the one on top.                        *)
LEMMA OnTopCalls ==
    ASSUME NEW cs, BranchOK(cs), HasActiveCall(cs), NEW call \in Call,
           call.index = Peek(cs).index, call.depth = Peek(cs).depth, call.parent = Peek(cs).parent
    PROVE  ToSet(OnTop(cs, call).stack) = (ToSet(cs.stack) \ {Peek(cs)}) \cup {call}
<1> DEFINE stack == cs.stack
           after == OnTop(cs, call).stack
           m     == Len(stack)
<1>1. stack \in Seq(Call) /\ m \in Nat /\ m >= 1 /\ Peek(cs) = stack[m] /\ cs \in CallStack
  BY PeekType DEF BranchOK, CallStack
<1>2. Len(after) = m /\ \A i \in 1..m : after[i] = IF i = m THEN call ELSE stack[i]
  BY OnTopBranch
<1>3. after \in Seq(Call)
  BY OnTopBranch DEF BranchOK, CallStack
<1>4. \A i, j \in 1..m : i < j => stack[i].index < stack[j].index
  BY DEF BranchOK, Ascending
<1>5. \A i \in 1..m : stack[i].index \in Nat
  BY <1>1, CallsType
<1> HIDE DEF stack, after
<1>6. /\ \A x : x \in ToSet(stack) <=> \E i \in 1..m : stack[i] = x
      /\ \A x : x \in ToSet(after) <=> \E i \in 1..m : after[i] = x
  BY <1>1, <1>2, <1>3, SeqElements
<1>7. \A i \in 1..m : i # m => stack[i] # stack[m]
  <2> TAKE i \in 1..m
  <2>1. m \in 1..m /\ (i # m => i < m)
    BY <1>1
  <2> QED BY <1>4, <1>5, <2>1
<1>8. m \in 1..m
  BY <1>1
<1>9. ToSet(after) = (ToSet(stack) \ {stack[m]}) \cup {call}
  <2>1. ASSUME NEW x \in ToSet(after) PROVE x \in (ToSet(stack) \ {stack[m]}) \cup {call}
    <3>1. PICK i \in 1..m : after[i] = x
      BY <1>6
    <3> QED BY <1>2, <1>6, <1>7, <3>1
  <2>2. ASSUME NEW x \in (ToSet(stack) \ {stack[m]}) \cup {call} PROVE x \in ToSet(after)
    <3>1. CASE x = call
      BY <1>2, <1>6, <1>8, <3>1
    <3>2. CASE x # call
      <4>1. PICK i \in 1..m : stack[i] = x /\ i # m
        BY <1>6, <3>2
      <4>2. after[i] = x
        BY <1>2, <4>1
      <4> QED BY <1>6, <4>2
    <3> QED BY <3>1, <3>2
  <2> QED BY <2>1, <2>2
<1> QED BY <1>1, <1>9 DEF stack, after

-----------------------------------------------------------------------------
(* The tree while it is traced                                             *)

(* The calls of s are those of the context c, open as long as their frames *)
(* are.                                                                    *)
Named(s, c) ==
    /\ Frames(s.callStack, c)
    /\ ~c.sys => s.trx.id = c.id
    /\ s.trx.stateReverted = {}
    /\ \A x \in ToSet(s.trx.calls) : Closed(x)
    /\ \A x \in CallsOf(s) : x.data.by = c.id /\ x.data.sys = c.sys /\ (x.index = 1 => x.depth = 0)

(* Up to ordinal n the calls of s form the tree of the context's frames.   *)
Shape(s, c, n) == Named(s, c) /\ Forest(CallsOf(s), n)

(* The open calls are those on the stack.                                  *)
LEMMA OpenCalls ==
    ASSUME NEW s, StateOK(s), NEW c, Named(s, c)
    PROVE  {y \in CallsOf(s) : ~Closed(y)} = ToSet(s.callStack.stack)
<1>1. s.callStack.stack \in Seq(Call)
  BY AllLogsType
<1>2. \A x \in ToSet(s.callStack.stack) : x.outcome = "open"
  <2>1. \A i \in 1..Len(s.callStack.stack) : s.callStack.stack[i].outcome = "open"
    BY DEF Named, Frames
  <2> QED BY <1>1, <2>1, SeqElements
<1> QED BY <1>2 DEF Named, Closed, CallsOf

(* Time goes on.                                                           *)
LEMMA ShapeLater ==
    ASSUME NEW s, StateOK(s), NEW c, NEW n \in Nat, NEW m \in Nat, n <= m, Shape(s, c, n)
    PROVE  Shape(s, c, m)
<1>1. \A x \in CallsOf(s) : x.begin \in Nat /\ x.end \in Nat
  BY CallsOfNumbers DEF Call
<1>2. Timed(CallsOf(s), m)
  BY <1>1 DEF Shape, Forest, Timed
<1> QED BY <1>2 DEF Shape, Forest

(* A call of the next ordinal for a frame that is entered.                 *)
LEMMA ShapePush ==
    ASSUME NEW s, StateOK(s), NEW c \in Contexts, NEW n \in Nat, Shape(s, c, n),
           NEW call \in Call, call.begin = n + 1, call.outcome = "open",
           NEW f, call.data = Voice(c, f), NEW mark,
           NEW frame, frame = [number |-> f, mark |-> mark],
           NEW e, e.id = c.id, e.sys = c.sys, e.frames = Append(c.frames, frame),
           NEW t, t.trx = s.trx, t.callStack = Push(s.callStack, call),
           NEW u, u = OnStack(s.callStack, call)
    PROVE  /\ Shape(t, e, n + 1)
                /\ u \in Call
                /\ CallsOf(t) = CallsOf(s) \cup {u} /\ u.index = s.callStack.index + 1
                /\ u.begin = n + 1 /\ u.outcome = "open" /\ u.data = call.data /\ u.lists = call.lists
                /\ u.preimages = call.preimages /\ u.depth = s.callStack.depth
                /\ ToSet(t.callStack.stack) = ToSet(s.callStack.stack) \cup {u}
<1> DEFINE cs == s.callStack
           X  == CallsOf(s)
<1>1. BranchOK(cs) /\ cs \in CallStack /\ cs.index \in Nat
  BY StateParts, CallsOfNumbers
<1>2.        /\ u \in Call
             /\ ToSet(Push(cs, call).stack) = ToSet(cs.stack) \cup {u}
             /\ u.index = cs.index + 1 /\ u.depth = cs.depth
             /\ u.parent = IF HasActiveCall(cs) THEN Peek(cs).index ELSE 0
             /\ u.begin = call.begin /\ u.end = call.end /\ u.outcome = call.outcome
             /\ u.data = call.data /\ u.lists = call.lists /\ u.preimages = call.preimages
  <2>1. u = OnStack(cs, call)
    OBVIOUS
  <2> HIDE DEF cs
  <2>2. u \in Call /\ ToSet(Push(cs, call).stack) = ToSet(cs.stack) \cup {u}
    BY <1>1, <2>1, PushCalls
  <2>3. u.index = cs.index + 1 /\ u.depth = cs.depth
    BY <1>1, <2>1, PushCalls
  <2>4. u.parent = IF HasActiveCall(cs) THEN Peek(cs).index ELSE 0
    BY <1>1, <2>1, PushCalls
  <2>5. /\ u.begin = call.begin /\ u.end = call.end /\ u.outcome = call.outcome
        /\ u.data = call.data /\ u.lists = call.lists /\ u.preimages = call.preimages
    BY <1>1, <2>1, PushCalls
  <2> QED BY <2>2, <2>3, <2>4, <2>5
<1>3. CallsOf(t) = X \cup {u}
  BY <1>2 DEF CallsOf
<1>4. X \in SUBSET Call /\ \A x \in X : x.index \in Nat /\ x.index <= cs.index
  BY CallsOfNumbers
<1>5. \A x \in X : x.index < u.index
  BY <1>1, <1>2, <1>4
<1> DEFINE open == {y \in X : ~Closed(y)}
<1>6. open = ToSet(cs.stack)
  BY OpenCalls DEF Shape
<1>7. /\ Cardinality(Indexes(open)) = cs.depth
      /\ HasActiveCall(cs) => Peek(cs) \in open /\ \A x \in open : x.index <= Peek(cs).index
      /\ ~HasActiveCall(cs) => open = {}
  <2>1. /\ Cardinality(Indexes(ToSet(cs.stack))) = cs.depth
        /\ HasActiveCall(cs) => /\ Peek(cs) \in ToSet(cs.stack)
                                /\ \A x \in ToSet(cs.stack) : x.index <= Peek(cs).index
        /\ ~HasActiveCall(cs) => ToSet(cs.stack) = {}
    BY <1>1, OpenNumbers
  <2> QED BY <1>6, <2>1
<1>8. IF open = {} THEN u.parent = 0
      ELSE \E p \in open : u.parent = p.index /\ \A q \in open : q.begin <= p.begin
  <2>1. CASE ~HasActiveCall(cs)
    BY <1>2, <1>7, <2>1
  <2>2. CASE HasActiveCall(cs)
    <3>1. Peek(cs) \in open /\ u.parent = Peek(cs).index
      BY <1>2, <1>7, <2>2
    <3>2. \A q \in open : q.begin <= Peek(cs).begin
      <4> TAKE q \in open
      <4>1. q.index <= Peek(cs).index /\ q \in X /\ Peek(cs) \in X
        BY <1>7, <2>2
      <4>2. q.index \in Nat /\ Peek(cs).index \in Nat /\ q.begin \in Nat /\ Peek(cs).begin \in Nat
        BY <1>4, <4>1 DEF Call
      <4>3. ~(Peek(cs).index < q.index) => ~(Peek(cs).begin < q.begin)
        BY <4>1 DEF Shape, Forest, Numbering
      <4> HIDE DEF cs, X, open
      <4> QED BY <4>1, <4>2, <4>3
    <3> QED BY <3>1, <3>2
  <2> QED BY <2>1, <2>2
<1> HIDE DEF open, X, cs
<1>9. Forest(X \cup {u}, n + 1)
  <2>1. Forest(X, n) /\ u.begin = n + 1 /\ ~Closed(u)
    BY <1>2 DEF Shape, Closed, X
  <2>2. open = {y \in X : ~Closed(y)} /\ u.depth = Cardinality(Indexes(open))
    BY <1>2, <1>7 DEF open
  <2> QED BY <1>2, <1>4, <1>5, <1>8, <2>1, <2>2, ForestPush
<1>10. Named(t, e)
  <2>1. Frames(cs, c) /\ (~c.sys => s.trx.id = c.id) /\ s.trx.stateReverted = {}
        /\ (\A x \in ToSet(s.trx.calls) : Closed(x))
        /\ \A x \in X : x.data.by = c.id /\ x.data.sys = c.sys /\ (x.index = 1 => x.depth = 0)
    BY DEF Shape, Named, cs, X
  <2>2. Frames(t.callStack, e)
    BY <1>1, <2>1, PushFrames DEF cs
  <2>3. u.data.by = c.id /\ u.data.sys = c.sys
    BY <1>2 DEF Voice
  <2>4. u.index = 1 => u.depth = 0
    <3> SUFFICES ASSUME u.index = 1 PROVE u.depth = 0
      OBVIOUS
    <3>1. cs.index = 0
      BY <1>1, <1>2
    <3>2. \A x \in X : FALSE
      <4>1. \A x \in X : x.index >= 1 /\ x.index <= cs.index /\ x.index \in Nat
        BY CallsOfNumbers DEF X, cs
      <4> QED BY <3>1, <4>1
    <3>3. ~HasActiveCall(cs)
      BY <1>7, <3>2 DEF open
    <3>4. cs.depth = Len(cs.stack) /\ cs.stack = <<>>
      BY <1>1, <3>3 DEF BranchOK, IsBranch, HasActiveCall
    <3> QED BY <1>2, <3>4
  <2> QED BY <1>3, <2>1, <2>2, <2>3, <2>4 DEF Named
<1> QED BY <1>2, <1>3, <1>9, <1>10 DEF Shape, X, cs

(* The call on top ends with its frame.                                    *)
LEMMA ShapePop ==
    ASSUME NEW s, StateOK(s), NEW c \in Contexts, NEW n \in Nat, Shape(s, c, n), c.frames # <<>>,
           HasActiveCall(s.callStack), NEW outcome \in Outcomes \ {"open"},
           NEW e, e.id = c.id, e.sys = c.sys, e.frames = Front(c.frames),
           NEW u \in Call, u.index = Peek(s.callStack).index, u.begin = Peek(s.callStack).begin,
           u.depth = Peek(s.callStack).depth, u.parent = Peek(s.callStack).parent,
           u.data = Peek(s.callStack).data, u.outcome = outcome, u.end = n + 1,
           NEW t, t.trx.id = s.trx.id, t.trx.stateReverted = s.trx.stateReverted,
           t.trx.calls = Append(s.trx.calls, u), t.callStack = Pop(s.callStack)
    PROVE  /\ Shape(t, e, n + 1)
           /\ CallsOf(t) = (CallsOf(s) \ {Peek(s.callStack)}) \cup {u}
           /\ Peek(s.callStack) \in CallsOf(s)
           /\ SameCalls(CallsOf(s), CallsOf(t), n)
           /\ ToSet(t.callStack.stack) = ToSet(s.callStack.stack) \ {Peek(s.callStack)}
<1> DEFINE cs  == s.callStack
           X   == CallsOf(s)
           top == Peek(cs)
<1>1. /\ BranchOK(cs) /\ cs \in CallStack /\ s.trx.calls \in Seq(Call) /\ top \in Call
      /\ cs.stack \in Seq(Call)
  BY StateParts, AllLogsType, PeekType
<1>2. /\ X \in SUBSET Call /\ \A x \in X : x.index \in Nat
      /\ \A x, y \in X : x.index = y.index => x = y
  BY CallsOfNumbers
<1>3. /\ u.index = top.index /\ u.begin = top.begin /\ u.depth = top.depth /\ u.parent = top.parent
      /\ u.outcome = outcome /\ u.end = n + 1 /\ u.data = top.data
  OBVIOUS
<1>4. /\ ToSet(t.callStack.stack) = ToSet(cs.stack) \ {top}
      /\ ToSet(t.trx.calls) = ToSet(s.trx.calls) \cup {u}
  <2> HIDE DEF cs, X
  <2>1. ToSet(Pop(cs).stack) = ToSet(cs.stack) \ {Peek(cs)}
    BY <1>1, PopCalls DEF cs
  <2>2. ToSet(Append(s.trx.calls, u)) = ToSet(s.trx.calls) \cup {u}
    BY <1>1, AppendToSet
  <2> QED BY <2>1, <2>2 DEF cs
<1>5. /\ top \in ToSet(cs.stack) /\ \A x \in ToSet(cs.stack) : x.index <= top.index
      /\ {y \in X : ~Closed(y)} = ToSet(cs.stack) /\ top \in X
  <2>1. top \in ToSet(cs.stack) /\ \A x \in ToSet(cs.stack) : x.index <= top.index
    BY <1>1, OpenNumbers
  <2>2. {y \in X : ~Closed(y)} = ToSet(cs.stack)
    BY OpenCalls DEF Shape
  <2> QED BY <2>1, <2>2
<1>6. CallsOf(t) = (X \ {top}) \cup {u}
  <2>1. top \notin ToSet(s.trx.calls)
    BY <1>5 DEF Shape, Named
  <2>2. X = ToSet(s.trx.calls) \cup ToSet(cs.stack) /\ CallsOf(t) = ToSet(t.trx.calls) \cup ToSet(t.callStack.stack)
    BY DEF CallsOf
  <2> HIDE DEF X, cs, top
  <2> QED BY <1>4, <2>1, <2>2
<1> HIDE DEF cs, X, top
<1>7. /\ SameCalls(X, (X \ {top}) \cup {u}, n)
      /\ Forest((X \ {top}) \cup {u}, n + 1)
  <2>1. ~Closed(top) /\ Closed(u) /\ \A x \in X : ~Closed(x) => x.index <= top.index
    BY <1>3, <1>5 DEF Closed
  <2>2. \A x \in X : x.index = top.index => x = top
    BY <1>2, <1>5
  <2>3. Forest(X, n) /\ n <= n + 1 /\ n + 1 \in Nat /\ n + 1 <= n + 1
    BY DEF Shape, X
  <2> QED BY <1>2, <1>3, <1>5, <2>1, <2>2, <2>3, ForestReplace
<1>8. Named(t, e)
  <2>1. Frames(cs, c) /\ (~c.sys => s.trx.id = c.id) /\ s.trx.stateReverted = {}
        /\ (\A x \in ToSet(s.trx.calls) : Closed(x))
        /\ \A x \in X : x.data.by = c.id /\ x.data.sys = c.sys /\ (x.index = 1 => x.depth = 0)
    BY DEF Shape, Named, cs, X
  <2>2. Frames(t.callStack, e)
    BY <1>1, <2>1, PopFrames DEF cs
  <2>3. Closed(u)
    BY <1>3 DEF Closed
  <2>4. (~e.sys => t.trx.id = e.id) /\ t.trx.stateReverted = {}
    BY <2>1
  <2>5. \A x \in ToSet(t.trx.calls) : Closed(x)
    BY <1>4, <2>1, <2>3
  <2>6. \A x \in CallsOf(t) : x.data.by = e.id /\ x.data.sys = e.sys /\ (x.index = 1 => x.depth = 0)
    <3> TAKE x \in CallsOf(t)
    <3>1. \E y \in X : y.data = x.data /\ y.index = x.index /\ y.depth = x.depth
      BY <1>3, <1>5, <1>6
    <3>2. PICK y \in X : y.data = x.data /\ y.index = x.index /\ y.depth = x.depth
      BY <3>1
    <3>3. y.data.by = c.id /\ y.data.sys = c.sys /\ (y.index = 1 => y.depth = 0)
      BY <2>1
    <3> QED BY <3>2, <3>3
  <2> QED BY <2>2, <2>4, <2>5, <2>6 DEF Named
<1> QED BY <1>4, <1>5, <1>6, <1>7, <1>8 DEF Shape, X, cs, top

(* The call on top is recorded anew, in place.                             *)
LEMMA ShapeOnTop ==
    ASSUME NEW s, StateOK(s), NEW c, NEW n \in Nat, Shape(s, c, n), NEW m \in Nat, n <= m,
           HasActiveCall(s.callStack),
           NEW u \in Call, u.index = Peek(s.callStack).index, u.begin = Peek(s.callStack).begin,
           u.depth = Peek(s.callStack).depth, u.parent = Peek(s.callStack).parent,
           u.outcome = Peek(s.callStack).outcome, u.end = Peek(s.callStack).end,
           u.data = Peek(s.callStack).data,
           NEW t, t.trx = s.trx, t.callStack = OnTop(s.callStack, u)
    PROVE  /\ Shape(t, c, m)
           /\ CallsOf(t) = (CallsOf(s) \ {Peek(s.callStack)}) \cup {u}
           /\ Peek(s.callStack) \in CallsOf(s)
           /\ SameCalls(CallsOf(s), CallsOf(t), n)
           /\ ToSet(t.callStack.stack) = (ToSet(s.callStack.stack) \ {Peek(s.callStack)}) \cup {u}
<1> DEFINE cs  == s.callStack
           X   == CallsOf(s)
           top == Peek(cs)
<1>1. /\ BranchOK(cs) /\ cs \in CallStack /\ s.trx.calls \in Seq(Call) /\ top \in Call
      /\ cs.stack \in Seq(Call)
  BY StateParts, AllLogsType, PeekType
<1>2. /\ X \in SUBSET Call /\ \A x \in X : x.index \in Nat
      /\ \A x, y \in X : x.index = y.index => x = y
  BY CallsOfNumbers
<1>4. ToSet(t.callStack.stack) = (ToSet(cs.stack) \ {top}) \cup {u}
  <2> HIDE DEF X
  <2>1. ToSet(OnTop(cs, u).stack) = (ToSet(cs.stack) \ {Peek(cs)}) \cup {u}
    BY <1>1, OnTopCalls
  <2> QED BY <2>1
<1>5. top \in ToSet(cs.stack) /\ {y \in X : ~Closed(y)} = ToSet(cs.stack) /\ top \in X
  <2>1. top \in ToSet(cs.stack)
    BY <1>1, OpenNumbers
  <2>2. {y \in X : ~Closed(y)} = ToSet(cs.stack)
    BY OpenCalls DEF Shape
  <2> QED BY <2>1, <2>2
<1>6. CallsOf(t) = (X \ {top}) \cup {u}
  <2>1. top \notin ToSet(s.trx.calls)
    BY <1>5 DEF Shape, Named
  <2>2. X = ToSet(s.trx.calls) \cup ToSet(cs.stack) /\ CallsOf(t) = ToSet(s.trx.calls) \cup ToSet(t.callStack.stack)
    BY DEF CallsOf
  <2> HIDE DEF X, cs, top
  <2> QED BY <1>4, <2>1, <2>2
<1> HIDE DEF cs, X, top
<1>7. /\ SameCalls(X, (X \ {top}) \cup {u}, n)
      /\ Forest((X \ {top}) \cup {u}, m)
  <2>2. \A x \in X : x.index = top.index => x = top
    BY <1>2, <1>5
  <2>3. Forest(X, n) /\ n <= m
    BY DEF Shape, X
  <2>4. /\ u.index = top.index /\ u.begin = top.begin /\ u.depth = top.depth /\ u.parent = top.parent
        /\ u.outcome = top.outcome /\ u.end = top.end
    BY DEF top, cs
  <2> QED BY <1>2, <1>5, <2>2, <2>3, <2>4, ForestReplace
<1>8. Named(t, c)
  <2>1. Frames(cs, c) /\ (~c.sys => s.trx.id = c.id) /\ s.trx.stateReverted = {}
        /\ (\A x \in ToSet(s.trx.calls) : Closed(x))
        /\ \A x \in X : x.data.by = c.id /\ x.data.sys = c.sys /\ (x.index = 1 => x.depth = 0)
    BY DEF Shape, Named, cs, X
  <2>2. Frames(t.callStack, c)
    <3>1. /\ HasActiveCall(cs) /\ u.index = Peek(cs).index /\ u.depth = Peek(cs).depth
          /\ u.parent = Peek(cs).parent /\ u.outcome = Peek(cs).outcome /\ u.data = Peek(cs).data
      BY DEF cs
    <3> QED BY <1>1, <2>1, <3>1, OnTopFrames DEF cs
  <2>3. u.data = top.data /\ u.index = top.index /\ u.depth = top.depth
    BY DEF top, cs
  <2> QED BY <1>5, <1>6, <2>1, <2>2, <2>3 DEF Named
<1> QED BY <1>4, <1>5, <1>6, <1>7, <1>8 DEF Shape, X, cs, top

-----------------------------------------------------------------------------
(* What the calls hold                                                     *)

(* A list is in the order things happened, up to ordinal n.                *)
Rising(list, n) ==
    /\ \A i \in 1..Len(list) : list[i].ord <= n
    /\ \A i, j \in 1..Len(list) : i < j => list[i].ord < list[j].ord

(* An entry of call x, made by its frame or outside of all.                *)
Belongs(e, x, c) == e.data = x.data \/ (e.data = Voice(c, 0) /\ x.depth = 0)

Filled(x, c, n) ==
    /\ x.preimages = {}
    /\ \A k \in Lists : Rising(x.lists[k], n) /\ \A e \in ToSet(x.lists[k]) : Belongs(e, x, c)

(* A recorded hash is of the call that it names.                           *)
Hashed(s) ==
    \A r \in ToSet(s.preimages) :
        r.call <= s.callStack.index /\ \A x \in CallsOf(s) : x.index = r.call => x.data = r.data

(* What waits for a root call was made outside of all frames, and after    *)
(* all that is in the calls.                                               *)
Waiting(s, c, n) ==
    /\ HasActiveCall(s.callStack) => s.deferred = NoEntries
    /\ \A k \in Lists :
         /\ Rising(s.deferred[k], n)
         /\ \A d \in ToSet(s.deferred[k]) :
              /\ d.data = Voice(c, 0)
              /\ \A x \in CallsOf(s) : \A e \in ToSet(x.lists[k]) : e.ord < d.ord

(* No entry is in two calls.                                               *)
Apart(X) ==
    \A x, y \in X : \A k \in Lists : \A e \in ToSet(x.lists[k]), f \in ToSet(y.lists[k]) :
        e.ord = f.ord => x.index = y.index

Content(s, c, n) ==
    (\A x \in CallsOf(s) : Filled(x, c, n)) /\ Apart(CallsOf(s)) /\ Hashed(s) /\ Waiting(s, c, n)

(* Ordinals are numbers.                                                   *)
LEMMA EntryOrds ==
    ASSUME NEW list \in Seq(Entry)
    PROVE  /\ \A i \in 1..Len(list) : list[i].ord \in Nat
           /\ \A e \in ToSet(list) : e.ord \in Nat
<1>1. \A i \in 1..Len(list) : list[i] \in Entry
  OBVIOUS
<1>2. \A e \in ToSet(list) : e \in Entry
  BY SeqElements
<1>3. \A e \in Entry : e.ord \in Nat
  BY DEF Entry
<1> QED BY <1>1, <1>2, <1>3

(* Lists go on rising.                                                     *)
LEMMA RisingLater ==
    ASSUME NEW list \in Seq(Entry), NEW n \in Nat, NEW m \in Nat, n <= m, Rising(list, n)
    PROVE  Rising(list, m)
<1>1. \A i \in 1..Len(list) : list[i].ord \in Nat
  BY EntryOrds
<1> QED BY <1>1 DEF Rising

(* A list with what happens next still rises.                              *)
LEMMA RisingAdd ==
    ASSUME NEW list \in Seq(Entry), NEW n \in Nat, Rising(list, n), NEW e \in Entry, e.ord = n + 1
    PROVE  Rising(Append(list, e), n + 1)
<1> DEFINE m == Len(list)
           after == Append(list, e)
<1>1. /\ m \in Nat /\ Len(after) = m + 1 /\ after[m + 1] = e
      /\ \A i \in 1..m : after[i] = list[i]
  BY AppendProperties
<1>2. \A i \in 1..m : list[i].ord \in Nat /\ list[i].ord <= n
  BY EntryOrds DEF Rising
<1>3. \A i, j \in 1..m : i < j => list[i].ord < list[j].ord
  BY DEF Rising
<1> HIDE DEF m, after
<1>4. \A i \in 1..(m + 1) : i \in 1..m \/ i = m + 1
  BY <1>1
<1>5. \A i \in 1..(m + 1) : after[i].ord <= n + 1
  BY <1>1, <1>2, <1>4
<1>6. \A i, j \in 1..(m + 1) : i < j => after[i].ord < after[j].ord
  <2> TAKE i \in 1..(m + 1), j \in 1..(m + 1)
  <2> HAVE i < j
  <2>1. i \in 1..m
    BY <1>1
  <2>2. CASE j \in 1..m
    BY <1>1, <1>3, <2>1, <2>2
  <2>3. CASE j = m + 1
    BY <1>1, <1>2, <2>1, <2>3
  <2> QED BY <1>4, <2>2, <2>3
<1> QED BY <1>1, <1>5, <1>6 DEF Rising, after

(* Two lists, one after the other, rise when all of the first is earlier.  *)
LEMMA RisingJoin ==
    ASSUME NEW a \in Seq(Entry), NEW b \in Seq(Entry), NEW n \in Nat, Rising(a, n), Rising(b, n),
           \A x \in ToSet(a), y \in ToSet(b) : x.ord < y.ord
    PROVE  Rising(a \o b, n)
<1> DEFINE l == Len(a)
           m == Len(b)
           ab == a \o b
<1>1. /\ l \in Nat /\ m \in Nat /\ Len(ab) = l + m
      /\ \A i \in 1..(l + m) : ab[i] = IF i <= l THEN a[i] ELSE b[i - l]
  OBVIOUS
<1>2. /\ \A i \in 1..l : a[i] \in ToSet(a) /\ a[i].ord <= n
      /\ \A i \in 1..m : b[i] \in ToSet(b) /\ b[i].ord <= n
      /\ \A i, j \in 1..l : i < j => a[i].ord < a[j].ord
      /\ \A i, j \in 1..m : i < j => b[i].ord < b[j].ord
  BY SeqElements DEF Rising
<1> HIDE DEF l, m, ab
<1>3. \A i \in 1..(l + m) : \/ i \in 1..l /\ ab[i] = a[i]
                            \/ (i - l) \in 1..m /\ ab[i] = b[i - l]
  BY <1>1
<1>4. \A i \in 1..(l + m) : ab[i].ord <= n
  BY <1>2, <1>3
<1>5. ASSUME NEW i \in 1..(l + m), NEW j \in 1..(l + m), i < j PROVE ab[i].ord < ab[j].ord
  <2>1. CASE i <= l /\ j <= l
    <3>1. i \in 1..l /\ j \in 1..l /\ ab[i] = a[i] /\ ab[j] = a[j]
      BY <1>1, <2>1
    <3> QED BY <1>2, <1>5, <3>1
  <2>2. CASE i <= l /\ j > l
    <3>1. i \in 1..l /\ (j - l) \in 1..m /\ ab[i] = a[i] /\ ab[j] = b[j - l]
      BY <1>1, <2>2
    <3> QED BY <1>2, <3>1
  <2>3. CASE i > l /\ j > l
    <3>1. (i - l) \in 1..m /\ (j - l) \in 1..m /\ ab[i] = b[i - l] /\ ab[j] = b[j - l] /\ i - l < j - l
      BY <1>1, <1>5, <2>3
    <3> QED BY <1>2, <3>1
  <2> QED BY <1>1, <1>5, <2>1, <2>2, <2>3
<1> QED BY <1>1, <1>4, <1>5 DEF Rising, ab

(* Nothing that waits is in no order.                                      *)
LEMMA NoneRising ==
    /\ \A k \in Lists : NoEntries[k] = <<>> /\ ToSet(NoEntries[k]) = {}
    /\ \A k \in Lists : \A n : Rising(NoEntries[k], n)
<1>1. \A k \in Lists : NoEntries[k] = <<>> /\ ToSet(NoEntries[k]) = {}
  BY EmptySeq DEF NoEntries, ToSet
<1> QED BY <1>1, EmptySeq DEF Rising

(* The lists of a state.                                                   *)
LEMMA ListsOf ==
    ASSUME NEW s, StateOK(s), NEW k \in Lists
    PROVE  /\ \A x \in CallsOf(s) : x.lists[k] \in Seq(Entry) /\ x.lists \in [Lists -> Seq(Entry)]
           /\ s.deferred[k] \in Seq(Entry) /\ s.deferred \in [Lists -> Seq(Entry)]
           /\ \A x \in CallsOf(s) : \A e \in ToSet(x.lists[k]) : e.ord \in Nat
           /\ \A e \in ToSet(s.deferred[k]) : e.ord \in Nat
<1>1. \A x \in CallsOf(s) : x.lists[k] \in Seq(Entry) /\ x.lists \in [Lists -> Seq(Entry)]
  BY CallsOfNumbers DEF Call
<1>2. s.deferred[k] \in Seq(Entry) /\ s.deferred \in [Lists -> Seq(Entry)]
  BY StateParts
<1>3. \A l \in Seq(Entry) : \A e \in ToSet(l) : e.ord \in Nat
  BY EntryOrds
<1> QED BY <1>1, <1>2, <1>3

(* What is in the calls and waits has happened.                            *)
LEMMA Happened ==
    ASSUME NEW list \in Seq(Entry), NEW n, Rising(list, n)
    PROVE  \A e \in ToSet(list) : e.ord <= n
BY SeqElements DEF Rising

(* Time goes on; the call on top is recorded anew or ends.                 *)
LEMMA ContentReplace ==
    ASSUME NEW s, StateOK(s), NEW c, NEW n \in Nat, NEW m \in Nat, n <= m, Content(s, c, n),
           NEW v \in CallsOf(s), NEW u \in Call, u.index = v.index, u.depth = v.depth, u.data = v.data,
           u.lists = v.lists, u.preimages = v.preimages,
           NEW t, CallsOf(t) = (CallsOf(s) \ {v}) \cup {u}, t.deferred = s.deferred,
           HasActiveCall(t.callStack) => HasActiveCall(s.callStack),
           t.preimages = s.preimages, t.callStack.index = s.callStack.index
    PROVE  Content(t, c, m)
<1>1. \A x \in CallsOf(t) : \E y \in CallsOf(s) : /\ x.index = y.index /\ x.depth = y.depth
                                                 /\ x.data = y.data /\ x.lists = y.lists
                                                 /\ x.preimages = y.preimages
  OBVIOUS
<1>2. \A x \in CallsOf(s), k \in Lists : Rising(x.lists[k], m)
  BY ListsOf, RisingLater DEF Content, Filled
<1>3. \A k \in Lists : Rising(s.deferred[k], m)
  BY ListsOf, RisingLater DEF Content, Waiting
<1>4. ASSUME NEW x \in CallsOf(t) PROVE Filled(x, c, m)
  <2>1. PICK y \in CallsOf(s) : /\ x.index = y.index /\ x.depth = y.depth /\ x.data = y.data
                                /\ x.lists = y.lists /\ x.preimages = y.preimages
    BY <1>1
  <2>2. Filled(y, c, n)
    BY DEF Content
  <2> QED BY <1>2, <2>1, <2>2 DEF Filled, Belongs
<1>5. Hashed(t)
  BY <1>1 DEF Content, Hashed
<1>6. Waiting(t, c, m)
  BY <1>1, <1>3 DEF Content, Waiting
<1>7. Apart(CallsOf(t))
  <2>1. Apart(CallsOf(s))
    BY DEF Content
  <2> HIDE DEF Content
  <2> QED BY <1>1, <2>1 DEF Apart
<1> QED BY <1>4, <1>5, <1>6, <1>7 DEF Content

(* What the calls hold stays as it should as ordinals are given out.       *)
LEMMA ContentLater ==
    ASSUME NEW s, StateOK(s), NEW c, NEW n \in Nat, NEW m \in Nat, n <= m, Content(s, c, n)
    PROVE  Content(s, c, m)
<1>2. \A x \in CallsOf(s), k \in Lists : Rising(x.lists[k], m)
  BY ListsOf, RisingLater DEF Content, Filled
<1>3. \A k \in Lists : Rising(s.deferred[k], m)
  BY ListsOf, RisingLater DEF Content, Waiting
<1> QED BY <1>2, <1>3 DEF Content, Filled, Waiting

(* The next call takes what was waiting.                                   *)
LEMMA ContentPush ==
    ASSUME NEW s, StateOK(s), NEW c, NEW n \in Nat, Content(s, c, n),
           NEW u \in Call, u.index = s.callStack.index + 1, u.lists = s.deferred, u.preimages = {},
           u.depth = 0 \/ HasActiveCall(s.callStack),
           NEW t, CallsOf(t) = CallsOf(s) \cup {u}, t.deferred = NoEntries, t.preimages = s.preimages,
           t.callStack.index = s.callStack.index + 1
    PROVE  Content(t, c, n + 1)
<1>1. \A x \in CallsOf(s) : Filled(x, c, n + 1)
  BY ContentLater DEF Content
<1>2. Filled(u, c, n + 1)
  <2> SUFFICES ASSUME NEW k \in Lists
               PROVE  Rising(s.deferred[k], n + 1) /\ \A e \in ToSet(s.deferred[k]) : Belongs(e, u, c)
    BY DEF Filled
  <2>1. Rising(s.deferred[k], n + 1)
    BY ContentLater DEF Content, Waiting
  <2>2. \A e \in ToSet(s.deferred[k]) : e.data = Voice(c, 0)
    BY DEF Content, Waiting
  <2>3. HasActiveCall(s.callStack) => ToSet(s.deferred[k]) = {}
    BY NoneRising DEF Content, Waiting
  <2> QED BY <2>1, <2>2, <2>3 DEF Belongs
<1>3. Hashed(t)
  <2>1. s.callStack.index \in Nat /\ s.preimages \in Seq([call : Nat, data : Data])
    BY CallsOfNumbers, StateParts
  <2>2. \A r \in ToSet(s.preimages) : r.call \in Nat /\ r.call <= s.callStack.index
    <3>1. \A r \in ToSet(s.preimages) : r \in [call : Nat, data : Data]
      BY <2>1, SeqElements
    <3>2. \A r \in ToSet(s.preimages) : r.call \in Nat
      BY ONLY <3>1
    <3>3. Hashed(s)
      BY DEF Content
    <3>4. \A r \in ToSet(s.preimages) : r.call <= s.callStack.index
      BY ONLY <3>3 DEF Hashed
    <3> QED BY ONLY <3>2, <3>4
  <2> QED BY <2>1, <2>2 DEF Content, Hashed
<1>4. Waiting(t, c, n + 1)
  BY NoneRising DEF Waiting
<1>5. Apart(CallsOf(t))
  <2> SUFFICES ASSUME NEW x \in CallsOf(t), NEW y \in CallsOf(t), NEW k \in Lists,
                      NEW e \in ToSet(x.lists[k]), NEW f \in ToSet(y.lists[k]), e.ord = f.ord
               PROVE  x.index = y.index
    BY DEF Apart
  <2>1. CASE x \in CallsOf(s) /\ y \in CallsOf(s)
    BY <2>1 DEF Content, Apart
  <2>2. \A z \in CallsOf(s) : \A g \in ToSet(z.lists[k]), d \in ToSet(u.lists[k]) :
            g.ord < d.ord /\ g.ord \in Nat
    BY ListsOf DEF Content, Waiting
  <2>3. CASE x = u \/ y = u
    BY <2>2, <2>3
  <2> QED BY <2>1, <2>3
<1> QED BY <1>1, <1>2, <1>3, <1>4, <1>5 DEF Content

(* An entry of the next ordinal in the active call ...                     *)
LEMMA ContentAdd ==
    ASSUME NEW s, StateOK(s), NEW c, NEW n \in Nat, Content(s, c, n), HasActiveCall(s.callStack),
           NEW v \in CallsOf(s), NEW u \in Call, u.index = v.index, u.depth = v.depth, u.data = v.data,
           NEW k \in Lists, NEW e \in Entry, e.ord = n + 1, e.data = v.data,
           u.lists = Add(v.lists, k, e), u.preimages = v.preimages,
           NEW t, CallsOf(t) = (CallsOf(s) \ {v}) \cup {u}, t.deferred = s.deferred,
           t.preimages = s.preimages, t.callStack.index = s.callStack.index
    PROVE  Content(t, c, n + 1)
<1>1. \A x \in CallsOf(s) : Filled(x, c, n + 1)
  BY ContentLater DEF Content
<1>2. v.lists \in [Lists -> Seq(Entry)]
  BY ListsOf
<1>3. /\ u.lists[k] = Append(v.lists[k], e)
      /\ \A j \in Lists : j # k => u.lists[j] = v.lists[j]
  BY <1>2 DEF Add
<1>4. Filled(u, c, n + 1)
  <2>1. u.preimages = {}
    BY <1>1 DEF Filled
  <2>2. ASSUME NEW j \in Lists
        PROVE  Rising(u.lists[j], n + 1) /\ \A d \in ToSet(u.lists[j]) : Belongs(d, u, c)
    <3>1. CASE j # k
      BY <1>1, <1>3, <3>1 DEF Filled, Belongs
    <3>2. CASE j = k
      <4>1. v.lists[k] \in Seq(Entry)
        BY <1>2
      <4>2. Rising(v.lists[k], n)
        BY DEF Content, Filled
      <4>3. Rising(u.lists[k], n + 1)
        BY <1>3, <4>1, <4>2, RisingAdd
      <4>4. ToSet(u.lists[k]) = ToSet(v.lists[k]) \cup {e}
        BY <1>3, <4>1, AppendToSet
      <4> QED BY <1>1, <3>2, <4>3, <4>4 DEF Filled, Belongs
    <3> QED BY <3>1, <3>2
  <2> QED BY <2>1, <2>2 DEF Filled
<1>5. Hashed(t)
  BY DEF Content, Hashed
<1>6. Waiting(t, c, n + 1)
  <2>1. t.deferred = NoEntries
    BY DEF Content, Waiting
  <2> QED BY <2>1, NoneRising DEF Waiting
<1>7. Apart(CallsOf(t))
  <2>1. v.lists[k] \in Seq(Entry) /\ ToSet(u.lists[k]) = ToSet(v.lists[k]) \cup {e}
    BY <1>2, <1>3, AppendToSet
  <2>2. \A z \in CallsOf(s) : \A g \in ToSet(z.lists[k]) : g.ord # n + 1
    <3> TAKE z \in CallsOf(s)
    <3>1. z.lists[k] \in Seq(Entry) /\ Rising(z.lists[k], n)
      BY ListsOf DEF Content, Filled
    <3>2. \A g \in ToSet(z.lists[k]) : g.ord <= n /\ g.ord \in Nat
      BY <3>1, ListsOf, Happened
    <3> QED BY <3>2
  <2> SUFFICES ASSUME NEW x \in CallsOf(t), NEW y \in CallsOf(t), NEW j \in Lists,
                      NEW f \in ToSet(x.lists[j]), NEW g \in ToSet(y.lists[j]), f.ord = g.ord
               PROVE  x.index = y.index
    BY DEF Apart
  <2>3. \A z \in CallsOf(t) : \E w \in CallsOf(s) :
          /\ w.index = z.index
          /\ \A i \in Lists : \A h \in ToSet(z.lists[i]) : h \in ToSet(w.lists[i]) \/ (i = k /\ h = e /\ z = u)
    <3> TAKE z \in CallsOf(t)
    <3>1. CASE z \in CallsOf(s)
      BY <3>1
    <3>2. CASE z = u
      BY <1>3, <2>1, <3>2
    <3> QED BY <3>1, <3>2
  <2>4. PICK w \in CallsOf(s) :
          w.index = x.index /\ (f \in ToSet(w.lists[j]) \/ (j = k /\ f = e /\ x = u))
    BY <2>3
  <2>5. PICK w1 \in CallsOf(s) :
          w1.index = y.index /\ (g \in ToSet(w1.lists[j]) \/ (j = k /\ g = e /\ y = u))
    BY <2>3
  <2>6. CASE f \in ToSet(w.lists[j]) /\ g \in ToSet(w1.lists[j])
    BY <2>4, <2>5, <2>6 DEF Content, Apart
  <2>7. CASE (f = e /\ x = u /\ j = k) \/ (g = e /\ y = u /\ j = k)
    BY <2>2, <2>4, <2>5, <2>7
  <2> QED BY <2>4, <2>5, <2>6, <2>7
<1> QED BY <1>1, <1>4, <1>5, <1>6, <1>7 DEF Content

(* ... or left waiting.                                                    *)
LEMMA ContentDefer ==
    ASSUME NEW s, StateOK(s), NEW c, NEW n \in Nat, Content(s, c, n), ~HasActiveCall(s.callStack),
           NEW k \in Lists, NEW e \in Entry, e.ord = n + 1, e.data = Voice(c, 0),
           NEW t, t.trx = s.trx, t.callStack = s.callStack, t.deferred = Add(s.deferred, k, e),
           t.preimages = s.preimages
    PROVE  Content(t, c, n + 1)
<1>1. CallsOf(t) = CallsOf(s)
  BY DEF CallsOf
<1>2. \A x \in CallsOf(s) : Filled(x, c, n + 1)
  BY ContentLater DEF Content
<1>3. s.deferred \in [Lists -> Seq(Entry)]
  BY ListsOf
<1>4. /\ t.deferred[k] = Append(s.deferred[k], e)
      /\ \A j \in Lists : j # k => t.deferred[j] = s.deferred[j]
  BY <1>3 DEF Add
<1>5. Hashed(t)
  BY <1>1 DEF Content, Hashed
<1>6. ASSUME NEW j \in Lists
      PROVE  /\ Rising(t.deferred[j], n + 1)
             /\ \A d \in ToSet(t.deferred[j]) :
                  /\ d.data = Voice(c, 0)
                  /\ \A x \in CallsOf(t) : \A f \in ToSet(x.lists[j]) : f.ord < d.ord
  <2>1. Rising(s.deferred[j], n + 1)
    BY ContentLater DEF Content, Waiting
  <2>2. \A d \in ToSet(s.deferred[j]) :
          d.data = Voice(c, 0) /\ \A x \in CallsOf(t) : \A f \in ToSet(x.lists[j]) : f.ord < d.ord
    BY <1>1 DEF Content, Waiting
  <2>3. CASE j # k
    BY <1>4, <2>1, <2>2, <2>3
  <2>4. CASE j = k
    <3>1. s.deferred[k] \in Seq(Entry)
      BY <1>3
    <3>2. Rising(s.deferred[k], n)
      BY DEF Content, Waiting
    <3>3. Rising(t.deferred[k], n + 1)
      BY <1>4, <3>1, <3>2, RisingAdd
    <3>4. ToSet(t.deferred[k]) = ToSet(s.deferred[k]) \cup {e}
      BY <1>4, <3>1, AppendToSet
    <3>5. \A x \in CallsOf(t) : \A f \in ToSet(x.lists[k]) : f.ord < e.ord
      <4> TAKE x \in CallsOf(t)
      <4>1. x.lists[k] \in Seq(Entry) /\ Rising(x.lists[k], n)
        BY <1>1, ListsOf DEF Content, Filled
      <4>2. \A f \in ToSet(x.lists[k]) : f.ord <= n /\ f.ord \in Nat
        BY <1>1, <4>1, ListsOf, Happened
      <4> QED BY <4>2
    <3> QED BY <2>2, <2>4, <3>3, <3>4, <3>5
  <2> QED BY <2>3, <2>4
<1>7. Waiting(t, c, n + 1)
  BY <1>6 DEF Waiting
<1>8. Apart(CallsOf(t))
  BY <1>1 DEF Content
<1> QED BY <1>1, <1>2, <1>5, <1>7, <1>8 DEF Content

(* A hash of the active call is recorded.                                  *)
LEMMA ContentHash ==
    ASSUME NEW s, StateOK(s), NEW c, NEW n \in Nat, Content(s, c, n),
           NEW v \in CallsOf(s), NEW d \in Data, d = v.data,
           NEW t, t.trx = s.trx, t.callStack = s.callStack, t.deferred = s.deferred,
           t.preimages = Append(s.preimages, [call |-> v.index, data |-> d])
    PROVE  Content(t, c, n)
<1> DEFINE r == [call |-> v.index, data |-> d]
<1>1. CallsOf(t) = CallsOf(s)
  BY DEF CallsOf
<1>2. /\ s.preimages \in Seq([call : Nat, data : Data]) /\ r \in [call : Nat, data : Data]
      /\ v.index <= s.callStack.index
      /\ \A x, y \in CallsOf(s) : x.index = y.index => x = y
  BY StateParts, CallsOfNumbers
<1>3. ToSet(t.preimages) = ToSet(s.preimages) \cup {r}
  <2> HIDE DEF r
  <2>1. t.preimages = Append(s.preimages, r)
    BY DEF r
  <2> QED BY <1>2, <2>1, AppendToSet
<1>4. Hashed(t)
  <2> SUFFICES ASSUME NEW q \in ToSet(t.preimages)
               PROVE  q.call <= s.callStack.index /\ \A x \in CallsOf(s) : x.index = q.call => x.data = q.data
    BY <1>1 DEF Hashed
  <2>1. CASE q \in ToSet(s.preimages)
    BY <2>1 DEF Content, Hashed
  <2>2. CASE q = r
    <3>1. q.call = v.index /\ q.data = v.data
      BY <2>2
    <3> QED BY <1>2, <3>1
  <2> QED BY <1>3, <2>1, <2>2
<1>5. Waiting(t, c, n)
  BY <1>1 DEF Content, Waiting
<1> QED BY <1>1, <1>4, <1>5 DEF Content

-----------------------------------------------------------------------------
(* The logs, and the hooks inside of a context                             *)

Ords(L) == {l.ord : l \in L}

(* Logs are numbered from 0 in the order they were emitted.                *)
Ranked(s) ==
    /\ s.logIndex = Cardinality(Ords(AllLogs(s)))
    /\ \A l \in AllLogs(s) : l.index = Cardinality({o \in Ords(AllLogs(s)) : o < l.ord})

Traces(s, c, n) == Shape(s, c, n) /\ Content(s, c, n) /\ Ranked(s)

(* Where the logs are.                                                     *)
LEMMA LogsOf ==
    ASSUME NEW s, StateOK(s)
    PROVE  /\ \A l : l \in AllLogs(s) <=>
                       (\E x \in CallsOf(s) : l \in ToSet(x.lists["log"])) \/ l \in ToSet(s.deferred["log"])
           /\ IsFiniteSet(AllLogs(s)) /\ AllLogs(s) \subseteq Entry
<1>1. /\ s.trx.calls \in Seq(Call) /\ s.callStack.stack \in Seq(Call) /\ s.deferred["log"] \in Seq(Entry)
      /\ AllLogs(s) \subseteq Entry
  BY AllLogsType
<1>2. \A calls \in Seq(Call) : \A l : l \in LogsIn(calls) <=> \E x \in ToSet(calls) : l \in ToSet(x.lists["log"])
  BY SeqElements DEF LogsIn
<1>3. IsFiniteSet(AllLogs(s))
  BY <1>1, LogsInFinite, ToSetFinite, FS_Union DEF AllLogs
<1> QED BY <1>1, <1>2, <1>3 DEF AllLogs, CallsOf

(* A log of the next ordinal and index.                                    *)
LEMMA RankedLog ==
    ASSUME NEW s, StateOK(s), NEW n \in Nat, LogsOK(s, n), Ranked(s),
           NEW e \in Entry, e.ord = n + 1, e.index = s.logIndex,
           NEW t, AllLogs(t) = AllLogs(s) \cup {e}, t.logIndex = s.logIndex + 1
    PROVE  Ranked(t)
<1> DEFINE L == AllLogs(s)
           O == Ords(L)
<1>1. IsFiniteSet(L) /\ \A l \in L : l.ord \in Nat /\ l.ord <= n
  <2>1. IsFiniteSet(L) /\ L \subseteq Entry
    BY LogsOf
  <2> QED BY <2>1 DEF Entry, LogsOK
<1>2. IsFiniteSet(O)
  <2> DEFINE g == [l \in L |-> l.ord]
  <2>1. \A l, m \in L : g[l] = g[m] => l = m
    BY DEF LogsOK
  <2>2. O = {g[l] : l \in L}
    BY DEF Ords
  <2> HIDE DEF g, O, L
  <2> QED BY <1>1, <2>1, <2>2, CountedByKey
<1>3. Ords(AllLogs(t)) = O \cup {n + 1}
  BY DEF Ords
<1>4. \A o \in O : o \in Nat /\ o <= n
  BY <1>1 DEF Ords
<1>5. n + 1 \notin O
  BY <1>4
<1>6. Cardinality(O \cup {n + 1}) = Cardinality(O) + 1
  BY <1>2, <1>5, FS_AddElement
<1>7. {o \in O \cup {n + 1} : o < n + 1} = O
  BY <1>4
<1>8. \A l \in L : {o \in O \cup {n + 1} : o < l.ord} = {o \in O : o < l.ord}
  BY <1>1
<1> QED BY <1>3, <1>6, <1>7, <1>8 DEF Ranked

(* Time goes on.                                                           *)
LEMMA TracesLater ==
    ASSUME NEW s, StateOK(s), NEW c, NEW n \in Nat, NEW m \in Nat, n <= m, Traces(s, c, n)
    PROVE  Traces(s, c, m)
BY ShapeLater, ContentLater DEF Traces

(* Only fields that have no part in it change.                             *)
LEMMA TracesSame ==
    ASSUME NEW s, NEW t, NEW c, NEW n, Traces(s, c, n),
           t.trx = s.trx, t.callStack = s.callStack, t.deferred = s.deferred,
           t.preimages = s.preimages, t.logIndex = s.logIndex
    PROVE  Traces(t, c, n)
<1>1. CallsOf(t) = CallsOf(s) /\ AllLogs(t) = AllLogs(s)
  BY DEF CallsOf, AllLogs
<1> QED BY <1>1 DEF Traces, Shape, Named, Content, Hashed, Waiting, Ranked

(* A frame is active when a call is.                                       *)
LEMMA ActiveFrame ==
    ASSUME NEW s, StateOK(s), NEW c \in Contexts, Named(s, c)
    PROVE  /\ HasActiveCall(s.callStack) <=> c.frames # <<>>
           /\ Len(c.frames) = s.callStack.depth
           /\ Len(c.frames) = 0 <=> ~HasActiveCall(s.callStack)
           /\ c.frames # <<>> => Peek(s.callStack).data = Voice(c, Last(c.frames).number)
<1>1. /\ s.callStack.stack \in Seq(Call) /\ c.frames \in Seq([number : 1..MaxFrames, mark : Nat])
      /\ Len(s.callStack.stack) = Len(c.frames) /\ s.callStack.depth = Len(s.callStack.stack)
      /\ BranchOK(s.callStack)
  BY StateParts DEF BranchOK, CallStack, IsBranch, Contexts, Named, Frames
<1>2. HasActiveCall(s.callStack) <=> c.frames # <<>>
  BY <1>1, EmptySeq DEF HasActiveCall
<1>3. c.frames # <<>> => Peek(s.callStack).data = Voice(c, Last(c.frames).number)
  <2> SUFFICES ASSUME c.frames # <<>> PROVE Peek(s.callStack).data = Voice(c, Last(c.frames).number)
    OBVIOUS
  <2> DEFINE m == Len(c.frames)
  <2>1. m \in 1..m /\ Last(c.frames) = c.frames[m]
    BY <1>1, EmptySeq DEF Last
  <2>2. \A i \in 1..m : s.callStack.stack[i].data = Voice(c, c.frames[i].number)
    BY DEF Named, Frames
  <2> QED BY <1>1, <2>1, <2>2 DEF Peek
<1> QED BY <1>1, <1>2, <1>3, EmptySeq

(* OnCallEnter, for a frame that is entered: the call u is pushed and      *)
(* takes what was deferred.                                                *)
LEMMA EnterPushes ==
    ASSUME TracerOK, NEW c \in Contexts, Traces(cur, c, ordinal), NEW f \in Nat, Voice(c, f) \in Data,
           NEW mark, NEW e, e.id = c.id, e.sys = c.sys,
           e.frames = Append(c.frames, [number |-> f, mark |-> mark]),
           OnCallEnter(Len(c.frames), Voice(c, f))
    PROVE  \E u \in Call :
             /\ Shape(cur', e, ordinal + 1) /\ CallsOf(cur') = CallsOf(cur) \cup {u}
             /\ u.index = cur.callStack.index + 1 /\ u.begin = ordinal + 1 /\ u.outcome = "open"
             /\ u.data = Voice(c, f) /\ u.lists = cur.deferred /\ u.preimages = {}
             /\ u.depth = 0 \/ HasActiveCall(cur.callStack)
             /\ cur'.callStack.index = cur.callStack.index + 1 /\ cur'.deferred = NoEntries
             /\ cur'.preimages = cur.preimages /\ cur'.logIndex = cur.logIndex
             /\ UNCHANGED <<block, interrupted>> /\ ordinal' = ordinal + 1
             /\ Len(cur'.callStack.stack) = Len(cur.callStack.stack) + 1
             /\ \A i \in 1..Len(cur.callStack.stack) : cur'.callStack.stack[i] = cur.callStack.stack[i]
             /\ cur'.callStack.stack[Len(cur.callStack.stack) + 1].index = u.index
<1> DEFINE d    == Voice(c, f)
           call == NewCall(ordinal + 1, d)
           root == PopulateOnEnter(cur.deferred, call)
           cs   == cur.callStack
<1>1. /\ StateOK(cur) /\ cur \in TrxState /\ BranchOK(cs) /\ ordinal \in Nat /\ ordinal + 1 \in Nat
      /\ cur.deferred \in [Lists -> Seq(Entry)] /\ cs \in CallStack
  BY StateParts DEF TracerOK, HooksOK
<1>2. /\ Shape(cur, c, ordinal) /\ Content(cur, c, ordinal) /\ Ranked(cur)
      /\ Named(cur, c) /\ Waiting(cur, c, ordinal)
  BY DEF Traces, Shape, Content
<1>3. /\ call \in Call /\ call.outcome = "open" /\ call.data = d /\ call.begin = ordinal + 1
      /\ call.lists = NoEntries /\ call.preimages = {}
      /\ root \in Call /\ root.outcome = "open" /\ root.data = d /\ root.begin = ordinal + 1
      /\ root.lists = cur.deferred /\ root.preimages = {}
  <2>1. call \in Call /\ root \in Call
    BY <1>1, NewCallType, PopulateType
  <2>2. /\ call.outcome = "open" /\ call.data = d /\ call.begin = ordinal + 1
        /\ call.lists = NoEntries /\ call.preimages = {}
    BY DEF NewCall
  <2> DEFINE lists == [k \in Lists |-> cur.deferred[k] \o call.lists[k]]
  <2>3. root = [call EXCEPT !.lists = lists]
    BY DEF PopulateOnEnter
  <2>4. lists = cur.deferred
    <3>1. \A k \in Lists : cur.deferred[k] \o <<>> = cur.deferred[k]
      BY <1>1
    <3>2. \A k \in Lists : lists[k] = cur.deferred[k]
      BY <2>2, <3>1, NoneRising
    <3> QED BY <1>1, <3>2
  <2> HIDE DEF call, root, lists
  <2> QED BY <2>1, <2>2, <2>3, <2>4 DEF Call
<1>4. /\ ordinal' = ordinal + 1 /\ UNCHANGED <<block, interrupted>>
      /\ cur' = IF Len(c.frames) = 0 THEN [cur EXCEPT !.callStack = Push(cs, root), !.deferred = NoEntries]
                ELSE [cur EXCEPT !.callStack = Push(cs, call)]
  BY DEF OnCallEnter
<1> HIDE DEF call, root, d, cs
<1>5. /\ HasActiveCall(cs) <=> Len(c.frames) # 0
      /\ Len(c.frames) = cs.depth
      /\ HasActiveCall(cs) => cur.deferred = NoEntries
  BY <1>1, <1>2, ActiveFrame DEF Waiting, cs
<1>6. PICK x \in Call :
         /\ x.outcome = "open" /\ x.data = d /\ x.begin = ordinal + 1 /\ x.lists = cur.deferred
         /\ x.preimages = {}
         /\ cur'.callStack = Push(cs, x) /\ cur'.trx = cur.trx /\ cur'.deferred = NoEntries
         /\ cur'.preimages = cur.preimages /\ cur'.logIndex = cur.logIndex
  <2>1. CASE Len(c.frames) = 0
    BY <1>1, <1>3, <1>4, <2>1 DEF TrxState
  <2>2. CASE Len(c.frames) # 0
    BY <1>1, <1>3, <1>4, <1>5, <2>2 DEF TrxState
  <2> QED BY <2>1, <2>2
<1> DEFINE u == OnStack(cs, x)
<1>7. /\ Shape(cur', e, ordinal + 1)
           /\ u \in Call
           /\ CallsOf(cur') = CallsOf(cur) \cup {u} /\ u.index = cs.index + 1
           /\ u.begin = ordinal + 1 /\ u.outcome = "open" /\ u.data = d /\ u.lists = cur.deferred
           /\ u.preimages = {} /\ u.depth = cs.depth
  <2>1. x.data = Voice(c, f) /\ cur'.callStack = Push(cur.callStack, x)
    BY <1>6 DEF d, cs
  <2> DEFINE frame == [number |-> f, mark |-> mark]
  <2>2. e.frames = Append(c.frames, frame) /\ frame = [number |-> f, mark |-> mark]
    OBVIOUS
  <2>3. u = OnStack(cur.callStack, x)
    BY DEF cs
  <2> HIDE DEF frame, u
  <2>4. Shape(cur', e, ordinal + 1)
    BY <1>1, <1>2, <1>6, <2>1, <2>2, <2>3, ShapePush
  <2>5. u \in Call /\ CallsOf(cur') = CallsOf(cur) \cup {u}
    BY <1>1, <1>2, <1>6, <2>1, <2>2, <2>3, ShapePush
  <2>6. u.index = cur.callStack.index + 1 /\ u.begin = ordinal + 1 /\ u.outcome = "open"
    BY <1>1, <1>2, <1>6, <2>1, <2>2, <2>3, ShapePush
  <2>7. /\ u.data = x.data /\ u.lists = x.lists /\ u.preimages = x.preimages
        /\ u.depth = cur.callStack.depth
    BY <1>1, <1>2, <1>6, <2>1, <2>2, <2>3, ShapePush
  <2> QED BY <1>6, <2>4, <2>5, <2>6, <2>7 DEF cs
<1> HIDE DEF u
<1>8. cur'.callStack.index = cs.index + 1 /\ (u.depth = 0 \/ HasActiveCall(cs))
  BY <1>5, <1>6, <1>7 DEF Push
<1>9. /\ Len(cur'.callStack.stack) = Len(cs.stack) + 1
      /\ \A i \in 1..Len(cs.stack) : cur'.callStack.stack[i] = cs.stack[i]
      /\ cur'.callStack.stack[Len(cs.stack) + 1].index = cs.index + 1
  BY <1>1, <1>6, PushBranch
<1> QED BY <1>4, <1>6, <1>7, <1>8, <1>9 DEF cs, d

(* So the trace follows the client into the frame.                         *)
LEMMA EnterTraces ==
    ASSUME TracerOK, NEW c \in Contexts, Traces(cur, c, ordinal), NEW f \in Nat, Voice(c, f) \in Data,
           NEW mark, NEW e, e.id = c.id, e.sys = c.sys,
           e.frames = Append(c.frames, [number |-> f, mark |-> mark]),
           OnCallEnter(Len(c.frames), Voice(c, f))
    PROVE  Traces(cur', e, ordinal')
<1>1. StateOK(cur) /\ ordinal \in Nat
  BY DEF TracerOK, HooksOK
<1>2. Content(cur, c, ordinal) /\ Ranked(cur)
  BY DEF Traces
<1>3. PICK u \in Call :
         /\ Shape(cur', e, ordinal + 1) /\ CallsOf(cur') = CallsOf(cur) \cup {u}
         /\ u.index = cur.callStack.index + 1 /\ u.lists = cur.deferred /\ u.preimages = {}
         /\ u.depth = 0 \/ HasActiveCall(cur.callStack)
         /\ cur'.callStack.index = cur.callStack.index + 1 /\ cur'.deferred = NoEntries
         /\ cur'.preimages = cur.preimages /\ cur'.logIndex = cur.logIndex /\ ordinal' = ordinal + 1
  BY EnterPushes
<1>9. Content(cur', e, ordinal + 1)
  <2>3. Content(cur', c, ordinal + 1)
    BY <1>1, <1>2, <1>3, ContentPush
  <2>4. \A n : Voice(e, n) = Voice(c, n)
    BY DEF Voice
  <2> QED BY <2>3, <2>4 DEF Content, Filled, Belongs, Waiting
<1>10. Ranked(cur')
  <2>1. "log" \in Lists
    BY DEF Lists
  <2>2. StateOK(cur') /\ StateOK(cur)
    BY OnCallEnterOK DEF TracerOK, HooksOK
  <2>3. \A l : l \in AllLogs(cur') <=> l \in AllLogs(cur)
    BY <1>3, <2>1, <2>2, LogsOf, NoneRising
  <2>4. AllLogs(cur') = AllLogs(cur)
    BY <2>3
  <2> QED BY <1>2, <1>3, <2>4 DEF Ranked
<1> QED BY <1>3, <1>9, <1>10 DEF Traces

(* OnCallExit, for the frame that is left: the call on top ends as u.      *)
LEMMA ExitPops ==
    ASSUME TracerOK, NEW c \in Contexts, Traces(cur, c, ordinal), c.frames # <<>>,
           NEW e, e.id = c.id, e.sys = c.sys, e.frames = Front(c.frames),
           NEW outcome \in Outcomes \ {"open"}, ~cur.suicided, OnCallExit(outcome), ~Panic
    PROVE  \E u \in Call :
             /\ Shape(cur', e, ordinal + 1)
             /\ CallsOf(cur') = (CallsOf(cur) \ {Peek(cur.callStack)}) \cup {u}
             /\ Peek(cur.callStack) \in CallsOf(cur) /\ HasActiveCall(cur.callStack)
             /\ u.index = Peek(cur.callStack).index /\ u.depth = Peek(cur.callStack).depth
             /\ u.data = Peek(cur.callStack).data /\ u.begin = Peek(cur.callStack).begin
             /\ u.outcome = outcome /\ u.end = ordinal + 1
             /\ u.lists = Peek(cur.callStack).lists /\ u.preimages = Peek(cur.callStack).preimages
             /\ cur'.callStack.index = cur.callStack.index /\ cur'.deferred = cur.deferred
             /\ cur'.preimages = cur.preimages /\ cur'.logIndex = cur.logIndex
             /\ UNCHANGED <<block, interrupted>> /\ ordinal' = ordinal + 1
             /\ Len(cur'.callStack.stack) = Len(cur.callStack.stack) - 1
             /\ \A i \in 1..(Len(cur.callStack.stack) - 1) :
                   cur'.callStack.stack[i] = cur.callStack.stack[i]
<1> DEFINE cs   == cur.callStack
           call == [Peek(cs) EXCEPT !.outcome = outcome, !.end = ordinal + 1]
           top  == Peek(cs)
<1>1. /\ StateOK(cur) /\ cur \in TrxState /\ BranchOK(cs) /\ ordinal \in Nat /\ ordinal + 1 \in Nat
      /\ cur.trx \in Trx /\ cs \in CallStack
  BY StateParts DEF TracerOK, HooksOK
<1>2. /\ Shape(cur, c, ordinal) /\ Content(cur, c, ordinal) /\ Ranked(cur)
  BY DEF Traces
<1>3. /\ HasActiveCall(cs)
      /\ ordinal' = ordinal + 1
      /\ cur' = [cur EXCEPT !.callStack = Pop(@), !.trx.calls = Append(@, call)]
  BY DEF OnCallExit, Ensured
<1>4. top \in Call
  BY <1>1, <1>3, PeekType
<1>5. /\ call \in Call /\ call.index = top.index /\ call.depth = top.depth /\ call.data = top.data
      /\ call.begin = top.begin /\ call.parent = top.parent /\ call.outcome = outcome
      /\ call.end = ordinal + 1
      /\ call.lists = top.lists /\ call.preimages = top.preimages
  <2> HIDE DEF top
  <2>1. call = [top EXCEPT !.outcome = outcome, !.end = ordinal + 1]
    BY DEF top
  <2> DEFINE m == ordinal + 1
  <2>2. m \in Nat
    BY <1>1
  <2> HIDE DEF m
  <2> QED BY <1>4, <2>1, <2>2 DEF Call, m
<1>6. /\ cur'.trx.id = cur.trx.id /\ cur'.trx.stateReverted = cur.trx.stateReverted
      /\ cur'.trx.calls = Append(cur.trx.calls, call)
      /\ cur'.callStack = Pop(cs) /\ cur'.deferred = cur.deferred /\ cur'.preimages = cur.preimages
      /\ cur'.logIndex = cur.logIndex
  <2> HIDE DEF call
  <2> DEFINE after == Pop(cs)
             calls == Append(cur.trx.calls, call)
             trx   == [cur.trx EXCEPT !.calls = calls]
  <2>1. trx.id = cur.trx.id /\ trx.stateReverted = cur.trx.stateReverted /\ trx.calls = calls
    BY <1>1 DEF Trx
  <2>2. cur' = [cur EXCEPT !.callStack = after, !.trx = trx]
    BY <1>1, <1>3 DEF TrxState, Trx
  <2> HIDE DEF after, calls, trx
  <2>3. /\ cur'.trx = trx /\ cur'.callStack = after /\ cur'.deferred = cur.deferred
        /\ cur'.preimages = cur.preimages /\ cur'.logIndex = cur.logIndex
    BY <1>1, <2>2 DEF TrxState
  <2> QED BY <2>1, <2>3 DEF after, calls
<1>7. /\ Shape(cur', e, ordinal + 1)
      /\ CallsOf(cur') = (CallsOf(cur) \ {top}) \cup {call}
      /\ top \in CallsOf(cur)
  <2>1. HasActiveCall(cur.callStack) /\ cur'.callStack = Pop(cur.callStack)
    BY <1>3, <1>6
  <2> HIDE DEF call
  <2> QED BY <1>1, <1>2, <1>5, <1>6, <2>1, ShapePop
<1> HIDE DEF call, top
<1>8. cur'.callStack.index = cs.index
  BY <1>6 DEF Pop
<1>9. /\ Len(cur'.callStack.stack) = Len(cs.stack) - 1
      /\ \A i \in 1..(Len(cs.stack) - 1) : cur'.callStack.stack[i] = cs.stack[i]
  BY <1>1, <1>3, <1>6, PopBranch
<1>10. UNCHANGED <<block, interrupted>>
  BY DEF OnCallExit, Ensured
<1> QED BY <1>3, <1>5, <1>6, <1>7, <1>8, <1>9, <1>10 DEF top, cs

(* So the trace follows the client out of the frame.                       *)
LEMMA ExitTraces ==
    ASSUME TracerOK, NEW c \in Contexts, Traces(cur, c, ordinal), c.frames # <<>>,
           NEW e, e.id = c.id, e.sys = c.sys, e.frames = Front(c.frames),
           NEW outcome \in Outcomes \ {"open"}, ~cur.suicided, OnCallExit(outcome), ~Panic
    PROVE  Traces(cur', e, ordinal')
<1>1. StateOK(cur) /\ ordinal \in Nat /\ ordinal + 1 \in Nat /\ ordinal <= ordinal + 1
  BY DEF TracerOK, HooksOK
<1>2. Content(cur, c, ordinal) /\ Ranked(cur)
  BY DEF Traces
<1> DEFINE top == Peek(cur.callStack)
<1>3. PICK u \in Call :
         /\ Shape(cur', e, ordinal + 1) /\ CallsOf(cur') = (CallsOf(cur) \ {top}) \cup {u}
         /\ top \in CallsOf(cur) /\ HasActiveCall(cur.callStack)
         /\ u.index = top.index /\ u.depth = top.depth /\ u.data = top.data
         /\ u.lists = top.lists /\ u.preimages = top.preimages
         /\ cur'.callStack.index = cur.callStack.index /\ cur'.deferred = cur.deferred
         /\ cur'.preimages = cur.preimages /\ cur'.logIndex = cur.logIndex /\ ordinal' = ordinal + 1
  BY ExitPops
<1> HIDE DEF top
<1>9. Content(cur', e, ordinal + 1)
  <2>1. Content(cur', c, ordinal + 1)
    BY <1>1, <1>2, <1>3, ContentReplace
  <2>2. \A n : Voice(e, n) = Voice(c, n)
    BY DEF Voice
  <2> QED BY <2>1, <2>2 DEF Content, Filled, Belongs, Waiting
<1>10. Ranked(cur')
  <2>2. StateOK(cur') /\ StateOK(cur)
    <3>1. outcome \in Outcomes
      OBVIOUS
    <3> QED BY <3>1, OnCallExitOK DEF TracerOK, HooksOK
  <2>3. \A l : l \in AllLogs(cur') <=> l \in AllLogs(cur)
    BY <1>3, <2>2, LogsOf
  <2>4. AllLogs(cur') = AllLogs(cur)
    BY <2>3
  <2> QED BY <1>2, <1>3, <2>4 DEF Ranked
<1> QED BY <1>3, <1>9, <1>10 DEF Traces

(* A change or a log of the frame that is active, or of none.              *)
LEMMA AttachedTraces ==
    ASSUME StateOK(cur), ordinal \in Nat, LogsOK(cur, ordinal),
           NEW c \in Contexts, Traces(cur, c, ordinal),
           NEW k \in Lists, NEW e \in Entry, e.ord = ordinal + 1,
           e.data = Voice(c, IF c.frames = <<>> THEN 0 ELSE Last(c.frames).number),
           k = "log" => e.index = cur.logIndex,
           NEW t, StateOK(t), t.trx = cur.trx, t.preimages = cur.preimages,
           t.callStack = Attached(k, e).callStack, t.deferred = Attached(k, e).deferred,
           t.logIndex = IF k = "log" THEN cur.logIndex + 1 ELSE cur.logIndex
    PROVE  Traces(t, c, ordinal + 1)
<1> DEFINE cs    == cur.callStack
           top   == Peek(cs)
           lists == Add(top.lists, k, e)
           call  == [top EXCEPT !.lists = lists]
           added == IF k = "log" THEN {e} ELSE {}
<1>1. /\ cur \in TrxState /\ BranchOK(cs) /\ cs \in CallStack /\ ordinal + 1 \in Nat /\ ordinal <= ordinal + 1
      /\ cur.deferred \in [Lists -> Seq(Entry)] /\ "log" \in Lists
  BY StateParts DEF Lists
<1>2. /\ Shape(cur, c, ordinal) /\ Content(cur, c, ordinal) /\ Ranked(cur) /\ Named(cur, c)
  BY DEF Traces, Shape
<1>3. /\ HasActiveCall(cs) <=> c.frames # <<>>
      /\ c.frames # <<>> => top.data = Voice(c, Last(c.frames).number)
  BY <1>2, ActiveFrame
<1>4. ASSUME HasActiveCall(cs)
      PROVE  Shape(t, c, ordinal + 1) /\ Content(t, c, ordinal + 1) /\ \A l : l \in AllLogs(t) <=> l \in AllLogs(cur) \cup added
  <2>1. top \in Call /\ top.lists \in [Lists -> Seq(Entry)]
    <3>1. top \in Call
      BY <1>1, <1>4, PeekType
    <3> HIDE DEF top
    <3> QED BY <3>1 DEF Call
  <2>2. /\ t.callStack = OnTop(cs, call) /\ t.deferred = cur.deferred
    <3> DEFINE after == OnTop(cs, call)
    <3>1. Attached(k, e) = [cur EXCEPT !.callStack = after]
      BY <1>4 DEF Attached
    <3> HIDE DEF after
    <3> QED BY <1>1, <3>1 DEF TrxState, after
  <2>3. lists \in [Lists -> Seq(Entry)]
    BY <2>1, ListsType
  <2> HIDE DEF lists, top, cs
  <2>4. /\ call \in Call /\ call.index = top.index /\ call.begin = top.begin /\ call.depth = top.depth
        /\ call.parent = top.parent /\ call.outcome = top.outcome /\ call.end = top.end
        /\ call.data = top.data /\ call.lists = lists /\ call.preimages = top.preimages
    BY <2>1, <2>3 DEF Call
  <2> HIDE DEF call
  <2>5. /\ Shape(t, c, ordinal + 1)
        /\ CallsOf(t) = (CallsOf(cur) \ {top}) \cup {call}
        /\ top \in CallsOf(cur)
    <3>1. /\ HasActiveCall(cur.callStack) /\ t.callStack = OnTop(cur.callStack, call)
          /\ call.index = Peek(cur.callStack).index /\ call.begin = Peek(cur.callStack).begin
          /\ call.depth = Peek(cur.callStack).depth /\ call.parent = Peek(cur.callStack).parent
          /\ call.outcome = Peek(cur.callStack).outcome /\ call.end = Peek(cur.callStack).end
          /\ call.data = Peek(cur.callStack).data /\ top = Peek(cur.callStack)
      BY <1>4, <2>2, <2>4 DEF top, cs
    <3> QED BY <1>1, <1>2, <2>4, <3>1, ShapeOnTop
  <2>6. e.data = top.data
    BY <1>3, <1>4
  <2>7. t.callStack.index = cur.callStack.index
    <3>1. OnTop(cs, call).index = cs.index
      BY <1>1, <1>4, <2>4, OnTopBranch DEF top
    <3> QED BY <2>2, <3>1 DEF cs
  <2>8. Content(t, c, ordinal + 1)
    <3>1. call.lists = Add(top.lists, k, e) /\ HasActiveCall(cur.callStack)
      BY <1>4, <2>4 DEF lists, cs
    <3> QED BY <1>1, <1>2, <2>2, <2>4, <2>5, <2>6, <2>7, <3>1, ContentAdd
  <2>9. ToSet(call.lists["log"]) = ToSet(top.lists["log"]) \cup added
    <3> DEFINE own == top.lists["log"]
    <3>0. own \in Seq(Entry) /\ call.lists["log"] = IF k = "log" THEN Append(own, e) ELSE own
      BY <1>1, <2>1, <2>4 DEF lists, Add
    <3> HIDE DEF own
    <3>1. CASE k = "log"
      BY <3>0, <3>1, AppendToSet DEF own
    <3>2. CASE k # "log"
      BY <3>0, <3>2 DEF own
    <3> QED BY <3>1, <3>2
  <2>10. \A l : l \in AllLogs(t) <=> l \in AllLogs(cur) \cup added
    <3> HIDE DEF added
    <3>1. /\ \A l : l \in AllLogs(t) <=>
               (\E x \in CallsOf(t) : l \in ToSet(x.lists["log"])) \/ l \in ToSet(t.deferred["log"])
          /\ \A l : l \in AllLogs(cur) <=>
               (\E x \in CallsOf(cur) : l \in ToSet(x.lists["log"])) \/ l \in ToSet(cur.deferred["log"])
      BY LogsOf
    <3> QED BY <2>2, <2>5, <2>9, <3>1
  <2> QED BY <2>5, <2>8, <2>10
<1>5. ASSUME ~HasActiveCall(cs)
      PROVE  Shape(t, c, ordinal + 1) /\ Content(t, c, ordinal + 1) /\ \A l : l \in AllLogs(t) <=> l \in AllLogs(cur) \cup added
  <2>1. t.callStack = cs /\ t.deferred = Add(cur.deferred, k, e)
    <3> DEFINE after == Add(cur.deferred, k, e)
    <3>1. Attached(k, e) = [cur EXCEPT !.deferred = after]
      BY <1>5 DEF Attached
    <3> HIDE DEF after
    <3> QED BY <1>1, <3>1 DEF TrxState, after
  <2>2. CallsOf(t) = CallsOf(cur)
    BY <2>1 DEF CallsOf
  <2>3. Shape(t, c, ordinal + 1)
    <3>1. Shape(cur, c, ordinal + 1)
      BY <1>1, <1>2, ShapeLater
    <3> QED BY <2>1, <2>2, <3>1 DEF Shape, Named
  <2>4. e.data = Voice(c, 0)
    BY <1>3, <1>5
  <2>5. Content(t, c, ordinal + 1)
    BY <1>2, <1>5, <2>1, <2>4, ContentDefer
  <2>6. ToSet(t.deferred["log"]) = ToSet(cur.deferred["log"]) \cup added
    <3> DEFINE own == cur.deferred["log"]
    <3>0. own \in Seq(Entry) /\ t.deferred["log"] = IF k = "log" THEN Append(own, e) ELSE own
      BY <1>1, <2>1 DEF Add
    <3> HIDE DEF own
    <3>1. CASE k = "log"
      BY <3>0, <3>1, AppendToSet DEF own
    <3>2. CASE k # "log"
      BY <3>0, <3>2 DEF own
    <3> QED BY <3>1, <3>2
  <2>7. \A l : l \in AllLogs(t) <=> l \in AllLogs(cur) \cup added
    <3> HIDE DEF added
    <3>1. /\ \A l : l \in AllLogs(t) <=>
               (\E x \in CallsOf(t) : l \in ToSet(x.lists["log"])) \/ l \in ToSet(t.deferred["log"])
          /\ \A l : l \in AllLogs(cur) <=>
               (\E x \in CallsOf(cur) : l \in ToSet(x.lists["log"])) \/ l \in ToSet(cur.deferred["log"])
      BY LogsOf
    <3> QED BY <2>2, <2>6, <3>1
  <2> QED BY <2>3, <2>5, <2>7
<1>6. Shape(t, c, ordinal + 1) /\ Content(t, c, ordinal + 1) /\ AllLogs(t) = AllLogs(cur) \cup added
  BY <1>4, <1>5
<1>7. Ranked(t)
  <2>1. CASE k = "log"
    BY <1>2, <1>6, <2>1, RankedLog
  <2>2. CASE k # "log"
    <3>1. AllLogs(t) = AllLogs(cur) /\ t.logIndex = cur.logIndex
      BY <1>6, <2>2
    <3> QED BY <1>2, <3>1 DEF Ranked
  <2> QED BY <2>1, <2>2
<1> QED BY <1>6, <1>7 DEF Traces

(* OnOpcode.                                                               *)
LEMMA OpcodeTraces ==
    ASSUME TracerOK, NEW c, Traces(cur, c, ordinal),
           NEW selfdestruct \in BOOLEAN, NEW failed \in BOOLEAN, OnOpcode(selfdestruct, failed)
    PROVE  Traces(cur', c, ordinal')
<1> DEFINE cs      == cur.callStack
           top     == Peek(cs)
           suicide == top.suicide \/ (selfdestruct /\ ~failed)
           call    == [top EXCEPT !.executed = TRUE, !.suicide = suicide]
           after   == OnTop(cs, call)
<1>1. StateOK(cur) /\ cur \in TrxState /\ cs \in CallStack /\ BranchOK(cs) /\ ordinal \in Nat
  BY StateParts DEF TracerOK, HooksOK
<1>2. ordinal' = ordinal /\ cur' = IF HasActiveCall(cs) THEN [cur EXCEPT !.callStack = after] ELSE cur
  BY DEF OnOpcode
<1>3. Shape(cur, c, ordinal) /\ Content(cur, c, ordinal) /\ Ranked(cur)
  BY DEF Traces
<1>4. CASE ~HasActiveCall(cs)
  BY <1>2, <1>4
<1>5. CASE HasActiveCall(cs)
  <2>1. top \in Call
    BY <1>1, <1>5, PeekType
  <2>2. suicide \in BOOLEAN
    <3> HIDE DEF top
    <3> QED BY <2>1 DEF Call
  <2>3. /\ cur'.trx = cur.trx /\ cur'.callStack = after /\ cur'.deferred = cur.deferred
        /\ cur'.preimages = cur.preimages /\ cur'.logIndex = cur.logIndex
    <3> HIDE DEF after
    <3> QED BY <1>1, <1>2, <1>5 DEF TrxState
  <2> HIDE DEF suicide, top, cs
  <2>4. /\ call \in Call /\ call.index = top.index /\ call.begin = top.begin /\ call.depth = top.depth
        /\ call.parent = top.parent /\ call.outcome = top.outcome /\ call.end = top.end
        /\ call.data = top.data /\ call.lists = top.lists /\ call.preimages = top.preimages
    BY <2>1, <2>2 DEF Call
  <2> HIDE DEF call
  <2>5. /\ Shape(cur', c, ordinal)
        /\ CallsOf(cur') = (CallsOf(cur) \ {top}) \cup {call}
        /\ top \in CallsOf(cur)
    <3>1. /\ HasActiveCall(cur.callStack) /\ cur'.callStack = OnTop(cur.callStack, call)
          /\ call.index = Peek(cur.callStack).index /\ call.begin = Peek(cur.callStack).begin
          /\ call.depth = Peek(cur.callStack).depth /\ call.parent = Peek(cur.callStack).parent
          /\ call.outcome = Peek(cur.callStack).outcome /\ call.end = Peek(cur.callStack).end
          /\ call.data = Peek(cur.callStack).data /\ top = Peek(cur.callStack)
      BY <1>5, <2>3, <2>4 DEF top, cs
    <3>2. ordinal <= ordinal
      BY <1>1
    <3> QED BY <1>1, <1>3, <2>3, <2>4, <3>1, <3>2, ShapeOnTop
  <2>6. cur'.callStack.index = cur.callStack.index
    <3>1. OnTop(cs, call).index = cs.index
      BY <1>1, <1>5, <2>4, OnTopBranch DEF top
    <3> QED BY <2>3, <3>1 DEF cs
  <2>7. Content(cur', c, ordinal)
    <3>1. ordinal <= ordinal /\ HasActiveCall(cur.callStack)
      BY <1>1, <1>5 DEF cs
    <3> QED BY <1>1, <1>3, <2>3, <2>4, <2>5, <2>6, <3>1, ContentReplace
  <2>8. Ranked(cur')
    <3>1. StateOK(cur')
      BY OnOpcodeOK DEF TracerOK, HooksOK
    <3>2. \A l : l \in AllLogs(cur') <=> l \in AllLogs(cur)
      BY <1>1, <2>3, <2>4, <2>5, <3>1, LogsOf
    <3>3. AllLogs(cur') = AllLogs(cur)
      BY <3>2
    <3> QED BY <1>3, <2>3, <3>3 DEF Ranked
  <2> QED BY <1>2, <2>5, <2>7, <2>8 DEF Traces
<1> QED BY <1>4, <1>5

(* OnKeccakPreimage, by the active frame.                                  *)
LEMMA PreimageTraces ==
    ASSUME TracerOK, NEW c \in Contexts, Traces(cur, c, ordinal), c.frames # <<>>,
           NEW d \in Data, d = Voice(c, Last(c.frames).number), OnKeccakPreimage(d), ~Panic
    PROVE  Traces(cur', c, ordinal') /\ UNCHANGED <<block, ordinal, interrupted>>
<1> DEFINE top == Peek(cur.callStack)
           r   == [call |-> top.index, data |-> d]
<1>1. StateOK(cur) /\ cur \in TrxState /\ BranchOK(cur.callStack) /\ ordinal \in Nat
  BY StateParts DEF TracerOK, HooksOK
<1>2. /\ HasActiveCall(cur.callStack) /\ cur' = [cur EXCEPT !.preimages = Append(@, r)]
      /\ UNCHANGED <<block, ordinal, interrupted>>
  BY DEF OnKeccakPreimage, Ensured
<1>3. Shape(cur, c, ordinal) /\ Content(cur, c, ordinal) /\ Ranked(cur) /\ Named(cur, c)
  BY DEF Traces, Shape
<1>4. /\ cur'.trx = cur.trx /\ cur'.callStack = cur.callStack /\ cur'.deferred = cur.deferred
      /\ cur'.preimages = Append(cur.preimages, r) /\ cur'.logIndex = cur.logIndex
  <2> DEFINE after == Append(cur.preimages, r)
  <2>1. cur' = [cur EXCEPT !.preimages = after]
    BY <1>2
  <2> HIDE DEF after
  <2> QED BY <1>1, <2>1 DEF TrxState, after
<1>5. top \in CallsOf(cur) /\ d = top.data
  <2>1. top \in ToSet(cur.callStack.stack)
    BY <1>1, <1>2, OpenNumbers
  <2>2. d = top.data
    BY <1>1, <1>3, ActiveFrame
  <2> QED BY <2>1, <2>2 DEF CallsOf
<1> HIDE DEF top
<1>6. Content(cur', c, ordinal)
  BY <1>1, <1>3, <1>4, <1>5, ContentHash
<1>7. CallsOf(cur') = CallsOf(cur) /\ AllLogs(cur') = AllLogs(cur)
  BY <1>4 DEF CallsOf, AllLogs
<1> QED BY <1>2, <1>3, <1>4, <1>6, <1>7 DEF Traces, Shape, Named, Ranked

(* A state of no calls yet.                                                *)
LEMMA NewTraces ==
    ASSUME NEW trx, trx.calls = <<>>, trx.stateReverted = {}, NEW c, c.frames = <<>>, ~c.sys => trx.id = c.id, NEW n
    PROVE  Traces([FreshState EXCEPT !.trx = trx], c, n)
<1> DEFINE s == [FreshState EXCEPT !.trx = trx]
<1>1. /\ s.trx = trx /\ s.callStack = NewCallStack /\ s.deferred = NoEntries /\ s.preimages = <<>>
      /\ s.logIndex = 0 /\ NewCallStack.stack = <<>> /\ NewCallStack.index = 0
  BY DEF FreshState, NewCallStack
<1>2. ToSet(<<>>) = {} /\ Len(<<>>) = 0
  BY EmptySeq DEF ToSet
<1> HIDE DEF s
<1>3. CallsOf(s) = {}
  BY <1>1, <1>2 DEF CallsOf
<1>4. AllLogs(s) = {}
  <2>1. LogsIn(<<>>) = {} /\ "log" \in Lists
    BY <1>2 DEF LogsIn, Lists
  <2> QED BY <1>1, <1>2, <2>1, NoneRising DEF AllLogs
<1>5. Shape(s, c, n)
  BY <1>1, <1>2, <1>3 DEF Shape, Named, Frames, Forest, Timed, Numbering, Nested
<1>6. Content(s, c, n)
  BY <1>1, <1>2, <1>3, NoneRising DEF Content, Apart, Hashed, Waiting
<1>7. Ranked(s)
  BY <1>1, <1>4, FS_EmptySet DEF Ranked, Ords
<1> QED BY <1>5, <1>6, <1>7 DEF Traces, s

-----------------------------------------------------------------------------
(* The passes over the calls of what ends                                  *)

(***************************************************************************)
(* What the passes of completeTransaction keep.                            *)
(***************************************************************************)

(* Two records of a call that differ in what they list alone.              *)
SameNode(x, y) ==
    /\ x.index = y.index /\ x.parent = y.parent /\ x.depth = y.depth /\ x.begin = y.begin
    /\ x.end = y.end /\ x.outcome = y.outcome /\ x.data = y.data

(* Two lists that differ in the block indexes of their entries alone.      *)
SameList(a, b) ==
    /\ Len(a) = Len(b)
    /\ \A j \in 1..Len(b) : a[j].ord = b[j].ord /\ a[j].data = b[j].data /\ a[j].index = b[j].index

(* The preimages that go to the call x.                                    *)
Own(recorded, x) == {r.data : r \in {q \in ToSet(recorded) : q.call = x.index}}

(* attachStorageSlotPreimages adds preimages only, each to its call.       *)
LEMMA AttachKeeps ==
    ASSUME NEW calls \in Seq(Call), NEW recorded \in Seq([call : Nat, data : Data]),
           NEW i \in 1..Len(calls)
    PROVE  /\ SameNode(AttachPreimages(calls, recorded)[i], calls[i])
           /\ AttachPreimages(calls, recorded)[i].lists = calls[i].lists
           /\ AttachPreimages(calls, recorded)[i].preimages \subseteq calls[i].preimages \cup Own(recorded, calls[i])
<1> DEFINE after == AttachPreimages(calls, recorded)
           p     == calls[i].preimages \cup {r.data : r \in {s \in ToSet(recorded) : s.call = calls[i].index}}
<1>1. calls[i] \in Call /\ i \in DOMAIN calls
  OBVIOUS
<1>2. CASE after = calls
  BY <1>2 DEF SameNode
<1>3. CASE after # calls
  <2>1. after[i] = [calls[i] EXCEPT !.preimages = p] /\ p = calls[i].preimages \cup Own(recorded, calls[i])
    BY <1>1, <1>3 DEF AttachPreimages, Own
  <2> HIDE DEF p, after
  <2> QED BY <1>1, <2>1 DEF Call, SameNode, after
<1> QED BY <1>2, <1>3

(* RemoveLogBlockIndexOnRevertedCalls changes the block indexes of logs    *)
(* only.                                                                   *)
LEMMA RemoveKeeps ==
    ASSUME NEW calls \in Seq(Call), NEW reverted, NEW i \in 1..Len(calls)
    PROVE  /\ SameNode(RemoveLogBlockIndex(calls, reverted)[i], calls[i])
           /\ RemoveLogBlockIndex(calls, reverted)[i].preimages = calls[i].preimages
           /\ \A k \in Lists : SameList(RemoveLogBlockIndex(calls, reverted)[i].lists[k], calls[i].lists[k])
<1> DEFINE c == calls[i]
           old == c.lists["log"]
           new == [j \in DOMAIN old |-> IF IsNeverRevertedLog(old[j]) THEN old[j]
                                        ELSE [old[j] EXCEPT !.blockIndex = 0]]
           lists == [c.lists EXCEPT !["log"] = new]
           after == RemoveLogBlockIndex(calls, reverted)
<1>1. c \in Call /\ DOMAIN calls = 1..Len(calls) /\ c.lists \in [Lists -> Seq(Entry)] /\ i \in DOMAIN calls
  BY CallsType
<1>2. CASE i \notin reverted
  BY <1>1, <1>2 DEF RemoveLogBlockIndex, SameNode, SameList
<1>3. CASE i \in reverted
  <2>1. after[i] = [c EXCEPT !.lists = lists]
    BY <1>1, <1>3 DEF RemoveLogBlockIndex
  <2>2. old \in Seq(Entry) /\ DOMAIN old = 1..Len(old) /\ Len(old) \in Nat
    BY <1>1 DEF Lists
  <2>3. \A j \in DOMAIN old : old[j] \in Entry
    BY <2>2
  <2>4. DOMAIN new = DOMAIN old
        /\ \A j \in DOMAIN old : /\ new[j] \in Entry /\ new[j].ord = old[j].ord
                                 /\ new[j].data = old[j].data /\ new[j].index = old[j].index
    BY <2>3 DEF Entry
  <2>5. Len(new) = Len(old)
    <3> HIDE DEF old, new
    <3>1. new = [j \in DOMAIN old |-> new[j]]
      BY DEF new
    <3>2. new \in [1..Len(old) -> Entry]
      BY <2>2, <2>4, <3>1
    <3> QED BY <2>2, <3>2, FunctionIsSeq
  <2>6. lists["log"] = new /\ \A k \in Lists : k # "log" => lists[k] = c.lists[k]
    BY <1>1 DEF Lists
  <2> HIDE DEF lists, new, after
  <2>7. after[i].lists = lists /\ after[i].preimages = c.preimages /\ SameNode(after[i], c)
    <3> HIDE DEF c
    <3> QED BY <1>1, <2>1 DEF Call, SameNode
  <2>8. \A k \in Lists : SameList(lists[k], c.lists[k])
    <3> SUFFICES ASSUME NEW k \in Lists PROVE SameList(lists[k], c.lists[k])
      OBVIOUS
    <3>1. CASE k = "log"
      BY <2>2, <2>4, <2>5, <2>6, <3>1 DEF SameList
    <3>2. CASE k # "log"
      BY <2>6, <3>2 DEF SameList
    <3> QED BY <3>1, <3>2
  <2> QED BY <2>7, <2>8 DEF after
<1> QED BY <1>2, <1>3

(* What is still deferred goes behind the lists of the first call.         *)
LEMMA RootKeeps ==
    ASSUME NEW deferred \in [Lists -> Seq(Entry)], NEW c \in Call
    PROVE  /\ SameNode(PopulateOnRoot(deferred, c), c)
           /\ PopulateOnRoot(deferred, c).preimages = c.preimages
           /\ \A k \in Lists : PopulateOnRoot(deferred, c).lists[k] = c.lists[k] \o deferred[k]
<1> DEFINE lists == [k \in Lists |-> c.lists[k] \o deferred[k]]
           root  == PopulateOnRoot(deferred, c)
<1>1. root = [c EXCEPT !.lists = lists] /\ \A k \in Lists : lists[k] = c.lists[k] \o deferred[k]
  BY DEF PopulateOnRoot
<1> HIDE DEF lists, root
<1>2. SameNode(root, c) /\ root.preimages = c.preimages /\ root.lists = lists
  BY <1>1 DEF Call, SameNode
<1> QED BY <1>1, <1>2 DEF root

(* The i-th call in order has i calls up to itself.                        *)
LEMMA SortKeeps ==
    ASSUME NEW calls \in Seq(Call),
           \A i, j \in 1..Len(calls) : calls[i].index = calls[j].index => i = j
    PROVE  \A i \in 1..Len(calls) :
               Cardinality({d \in ToSet(calls) : d.index <= SortedByIndex(calls)[i].index}) = i
<1> DEFINE S      == ToSet(calls)
           key    == [c \in S |-> c.index]
           sorted == InOrder(S, key)
<1>1. IsFiniteSet(S) /\ S \subseteq Call
  BY ToSetFinite
<1>2. \A d, e \in S : d.index = e.index => d = e
  <2>1. \A x : x \in S <=> \E i \in 1..Len(calls) : calls[i] = x
    BY SeqElements
  <2> HIDE DEF S
  <2> QED BY <2>1
<1>3. key \in [S -> Nat] /\ \A d, e \in S : key[d] = key[e] => d = e
  BY <1>1, <1>2 DEF Call
<1>4. Cardinality(S) = Len(calls)
  BY ToSetFinite
<1>5. /\ sorted \in [1..Cardinality(S) -> S]
      /\ \A i \in 1..Cardinality(S) : Cardinality({d \in S : key[d] <= key[sorted[i]]}) = i
  <2> HIDE DEF S, key
  <2>1. sorted \in [1..Cardinality(S) -> S]
    BY <1>1, <1>3, InOrderLists
  <2>2. \A i \in 1..Cardinality(S) : Cardinality({d \in S : key[d] <= key[sorted[i]]}) = i
    BY <1>1, <1>3, InOrderLists
  <2> QED BY <2>1, <2>2
<1>6. ASSUME NEW i \in 1..Len(calls)
      PROVE Cardinality({d \in S : d.index <= sorted[i].index}) = i
  <2> HIDE DEF sorted
  <2>1. Cardinality({d \in S : key[d] <= key[sorted[i]]}) = i /\ sorted[i] \in S
    BY <1>4, <1>5
  <2>2. {d \in S : key[d] <= key[sorted[i]]} = {d \in S : d.index <= sorted[i].index}
    BY <2>1
  <2> QED BY <2>1, <2>2
<1> QED BY <1>6 DEF SortedByIndex

-----------------------------------------------------------------------------
(* The tracer and its client                                               *)

(* Each running context is traced by the state that belongs to it, and the *)
(* system calls of the block are of contexts that are over.                *)
Traced ==
    /\ cur.suicided = evm.destructing
    /\ Len(evm.running) = 1 => Traces(cur, evm.running[1], ordinal)
    /\ Len(evm.running) = 2 =>
         /\ Traces(interrupted[1], evm.running[1], ordinal) /\ ~interrupted[1].suicided
         /\ Traces(cur, evm.running[2], ordinal)
         /\ evm.running[1].id # evm.running[2].id
    /\ \A i \in 1..Len(evm.running) : evm.running[i].id <= evm.started
    /\ \A x \in ToSet(block.systemCalls) :
         /\ x.data.by \in Nat /\ x.data.by <= evm.started
         /\ \A i \in 1..Len(evm.running) : x.data.by # evm.running[i].id

(* What is to be shown of the state after a step.                          *)
LEMMA TracedNext ==
    ASSUME cur'.suicided = evm'.destructing,
           Len(evm'.running) = 1 => Traces(cur', evm'.running[1], ordinal'),
           Len(evm'.running) = 2 =>
             /\ Traces(interrupted'[1], evm'.running[1], ordinal') /\ ~interrupted'[1].suicided
             /\ Traces(cur', evm'.running[2], ordinal')
             /\ evm'.running[1].id # evm'.running[2].id,
           \A i \in 1..Len(evm'.running) : evm'.running[i].id <= evm'.started,
           \A x \in ToSet(block'.systemCalls) :
             /\ x.data.by \in Nat /\ x.data.by <= evm'.started
             /\ \A i \in 1..Len(evm'.running) : x.data.by # evm'.running[i].id
    PROVE  Traced'
<1>1. /\ Traces(cur', evm'.running[1], ordinal') <=> Traces(cur, evm.running[1], ordinal)'
      /\ Traces(cur', evm'.running[2], ordinal') <=> Traces(cur, evm.running[2], ordinal)'
      /\ Traces(interrupted'[1], evm'.running[1], ordinal') <=> Traces(interrupted[1], evm.running[1], ordinal)'
  BY DEF Traces, Shape, Named, Frames, Voice, CallsOf, Forest, Timed, Numbering, Nested, Placing,
         Indexes, Around, Covers, Closed, Content, Filled, Rising, Belongs, Apart, Hashed, Waiting,
         Ranked, Ords, AllLogs, LogsIn, ToSet, HasActiveCall, NoEntries
<1>2. ToSet(block'.systemCalls) = ToSet(block.systemCalls)'
  BY DEF ToSet
<1> QED BY <1>1, <1>2 DEF Traced

(* The state that traces what is on top.                                   *)
LEMMA TopTraces ==
    ASSUME LinkedOK, Linked, Traced, Running
    PROVE  /\ Traces(cur, Top, ordinal) /\ Top \in Contexts /\ Top.id \in Nat /\ Top.id <= evm.started
           /\ evm.started \in Nat /\ evm.running \in Seq(Contexts) /\ Top = evm.running[Len(evm.running)]
           /\ Len(evm.running) \in Nat /\ Len(evm.running) \in 1..Len(evm.running)
           /\ Len(evm.running) = 2 => StateOK(interrupted[1])
<1>1. evm.running \in Seq(Contexts) /\ Len(evm.running) \in 1..Len(evm.running) /\ Top \in Contexts
      /\ Top = evm.running[Len(evm.running)] /\ Len(evm.running) \in Nat
  <2>1. evm \in Clients
    BY DEF LinkedOK
  <2> QED BY <2>1, TopType, EmptySeq DEF Running, Top, Last
<1>2. Traces(cur, Top, ordinal)
  BY LinkedShape DEF Traced
<1>3. Top.id <= evm.started
  BY <1>1 DEF Traced
<1>4. Top.id \in Nat /\ evm.started \in Nat
  <2>1. evm \in Clients /\ Top.id \in 1..MaxContexts
    BY <1>1 DEF LinkedOK, Contexts
  <2> QED BY <2>1, ClientAssumption DEF Clients
<1>5. ASSUME Len(evm.running) = 2 PROVE StateOK(interrupted[1])
  <2>1. interrupted # <<>> /\ interrupted \in Seq(TrxState)
    BY <1>5, LinkedParts DEF Linked
  <2>2. 1 \in 1..Len(interrupted)
    BY <2>1, EmptySeq
  <2> QED BY <2>2 DEF LinkedOK, TracerOK, HooksOK
<1> QED BY <1>1, <1>2, <1>3, <1>4, <1>5

(* A step of the context on top, which becomes c.                          *)
LEMMA InsideTraced ==
    ASSUME LinkedOK, Linked, Traced, Running, NEW c, c.id = Top.id,
           Len(evm'.running) = Len(evm.running),
           \A i \in 1..Len(evm.running) :
               evm'.running[i] = IF i = Len(evm.running) THEN c ELSE evm.running[i],
           evm'.started = evm.started, UNCHANGED <<block, interrupted>>,
           ordinal' \in Nat, ordinal <= ordinal',
           cur'.suicided = evm'.destructing, Traces(cur', c, ordinal')
    PROVE  Traced'
<1>1. /\ Len(evm.running) \in Nat /\ Len(evm.running) \in 1..Len(evm.running)
      /\ Top = evm.running[Len(evm.running)]
      /\ Len(evm.running) = 2 => StateOK(interrupted[1])
      /\ ordinal \in Nat
  BY TopTraces DEF LinkedOK, TracerOK, HooksOK
<1>2. \A i \in 1..Len(evm.running) : evm'.running[i].id = evm.running[i].id
  BY <1>1
<1>3. \A i \in 1..Len(evm'.running) : evm'.running[i].id <= evm'.started
  BY <1>2 DEF Traced
<1>4. \A x \in ToSet(block'.systemCalls) :
          /\ x.data.by \in Nat /\ x.data.by <= evm'.started
             /\ \A i \in 1..Len(evm'.running) : x.data.by # evm'.running[i].id
  BY <1>2 DEF Traced
<1>5. Len(evm'.running) = 1 => Traces(cur', evm'.running[1], ordinal')
  BY <1>1
<1>6. ASSUME Len(evm'.running) = 2
      PROVE  /\ Traces(interrupted'[1], evm'.running[1], ordinal') /\ ~interrupted'[1].suicided
             /\ Traces(cur', evm'.running[2], ordinal')
             /\ evm'.running[1].id # evm'.running[2].id
  <2>1. Traces(interrupted[1], evm.running[1], ordinal) /\ ~interrupted[1].suicided
        /\ evm.running[1].id # evm.running[2].id /\ StateOK(interrupted[1])
    BY <1>1, <1>6 DEF Traced
  <2>2. Traces(interrupted[1], evm.running[1], ordinal')
    BY <1>1, <2>1, TracesLater
  <2>3. evm'.running[1] = evm.running[1] /\ evm'.running[2] = c
    BY <1>1, <1>6
  <2> QED BY <1>1, <1>2, <1>6, <2>1, <2>2, <2>3
<1> QED BY <1>3, <1>4, <1>5, <1>6, TracedNext

(* Nothing is running.                                                     *)
LEMMA RestTraced ==
    ASSUME evm'.running = <<>>, cur'.suicided = evm'.destructing,
           \A x \in ToSet(block'.systemCalls) : x.data.by \in Nat /\ x.data.by <= evm'.started
    PROVE  Traced'
<1>1. Len(evm'.running) = 0
  BY EmptySeq
<1> QED BY <1>1, TracedNext

(* The tracer and its client with nothing running.                         *)
LEMMA NothingRuns ==
    ASSUME LinkedOK, Linked, ~Running
    PROVE  /\ cur = FreshState /\ ~InTrx /\ interrupted = <<>> /\ evm.running = <<>>
           /\ ~block.open => block = NoBlock /\ ordinal = 0
BY DEF LinkedOK, Linked, NothingLeftBehind, Running

(* Blocks begin and end with nothing running.                              *)
LEMMA BlockTraced ==
    ASSUME LinkedOK, Linked, Traced, ~panicked', StartBlock \/ EndBlock \/ FailBlock \/ SkipBlock
    PROVE  Traced' /\ (block'.traces = block.traces \/ block'.traces = <<>>) /\ block'.systemCalls = <<>>
<1>1. ~Panic /\ ~evm.destructing /\ cur.suicided = evm.destructing
  BY DEF Traced, Panic, StartBlock, EndBlock, FailBlock, SkipBlock, Idle
<1>2. ~FreshState.suicided /\ NoBlock.systemCalls = <<>> /\ NoBlock.traces = <<>> /\ ToSet(<<>>) = {}
  BY EmptySeq DEF FreshState, NoBlock, ToSet
<1>3. CASE StartBlock
  <2>1. ~block.open /\ OnBlockStart /\ UNCHANGED evm
    BY <1>3 DEF StartBlock
  <2>2. evm.running = <<>>
    BY <2>1, NothingRuns DEF Linked
  <2>3. block'.systemCalls = <<>> /\ block'.traces = <<>> /\ UNCHANGED cur
    BY <2>1 DEF OnBlockStart, NoBlock
  <2> QED BY <1>1, <1>2, <2>1, <2>2, <2>3, RestTraced
<1>4. CASE EndBlock \/ FailBlock
  <2>1. /\ evm' = EvmAtRest /\ ResetBlock /\ ResetTransaction
    BY <1>1, <1>4 DEF EndBlock, FailBlock, OnBlockEnd, Ensured
  <2>2. evm'.running = <<>> /\ evm'.destructing = FALSE /\ block' = NoBlock /\ cur' = FreshState
    BY <2>1 DEF EvmAtRest, ResetBlock, ResetTransaction
  <2>3. cur'.suicided = evm'.destructing
    BY <2>2 DEF FreshState
  <2> QED BY <1>2, <2>2, <2>3, RestTraced
<1>5. CASE SkipBlock
  <2>1. ~block.open /\ ResetBlock /\ ResetTransaction /\ UNCHANGED evm
    BY <1>1, <1>5 DEF SkipBlock, OnSkippedBlock, Ensured
  <2>2. evm.running = <<>> /\ cur = FreshState
    BY <2>1, NothingRuns DEF Linked
  <2>3. block' = NoBlock /\ cur' = FreshState
    BY <2>1 DEF ResetBlock, ResetTransaction
  <2>4. cur'.suicided = evm'.destructing
    BY <1>1, <2>1, <2>2, <2>3
  <2> QED BY <1>2, <2>1, <2>2, <2>3, <2>4, RestTraced
<1> QED BY <1>3, <1>4, <1>5

(* The context that begins is not known yet.                               *)
LEMMA BeginsNew ==
    ASSUME LinkedOK, Linked, Traced, MayBegin, NEW sys \in BOOLEAN, Begin(sys)
    PROVE  \E id \in 1..MaxContexts, c \in Contexts :
             /\ id = NextId /\ id \in Nat /\ id = evm.started + 1 /\ evm.started \in Nat
             /\ c.id = id /\ c.sys = sys /\ c.frames = <<>>
             /\ evm'.running = Append(evm.running, c) /\ evm'.started = id
             /\ evm'.destructing = evm.destructing
<1>1. evm \in Clients /\ evm.started \in Nat /\ MaxContexts \in Nat /\ Len(evm.logs) \in Nat
  BY ClientAssumption DEF LinkedOK, Clients
<1>2. NextId \in 1..MaxContexts /\ NextId \in Nat /\ NextId = evm.started + 1
  BY <1>1 DEF NextId, MayBegin
<1> DEFINE ctx == NewContext(NextId, sys, Len(evm.logs))
<1>3. ctx \in Contexts /\ ctx.id = NextId /\ ctx.sys = sys /\ ctx.frames = <<>>
  BY <1>1, <1>2, EmptySeq, ClientAssumption DEF NewContext, Contexts
<1>4. evm'.running = Append(evm.running, ctx) /\ evm'.started = NextId
      /\ evm'.destructing = evm.destructing
  BY <1>1 DEF Begin, Clients
<1> HIDE DEF ctx
<1> QED BY <1>1, <1>2, <1>3, <1>4

(* Starting a transaction.                                                 *)
LEMMA StartTrxTraced ==
    ASSUME LinkedOK, Linked, Traced, ~panicked', StartTrx
    PROVE  Traced' /\ UNCHANGED block
<1>1. ~Panic /\ evm.started \in Nat /\ cur.suicided = evm.destructing
  BY DEF Panic, Traced, LinkedOK, Clients
<1>2. ~Running /\ MayBegin /\ Begin(FALSE) /\ OnTxStart(NextId)
  BY DEF StartTrx
<1>3. cur = FreshState /\ evm.running = <<>>
  BY <1>2, NothingRuns
<1>4. PICK id \in 1..MaxContexts, c \in Contexts :
             /\ id = NextId /\ id \in Nat /\ id = evm.started + 1
             /\ c.id = id /\ c.sys = FALSE /\ c.frames = <<>>
             /\ evm'.running = Append(evm.running, c) /\ evm'.started = id
             /\ evm'.destructing = evm.destructing
  BY <1>2, BeginsNew
<1> DEFINE trx == [NoTrx EXCEPT !.open = TRUE, !.id = id, !.begin = ordinal + 1]
<1>5. cur' = [cur EXCEPT !.trx = trx] /\ UNCHANGED block
  BY <1>1, <1>2, <1>4 DEF OnTxStart, Ensured
<1>6. trx.calls = <<>> /\ trx.id = id /\ trx.stateReverted = {}
  BY DEF NoTrx
<1> HIDE DEF trx
<1>7. Traces(cur', c, ordinal')
  BY <1>3, <1>4, <1>5, <1>6, NewTraces
<1>8. evm'.running = <<c>> /\ Len(evm'.running) = 1 /\ evm'.running[1] = c
  <2>1. evm'.running = Append(<<>>, c)
    BY <1>3, <1>4
  <2> QED BY <2>1, FirstElement
<1>9. \A i \in 1..Len(evm'.running) : evm'.running[i] = c
  BY <1>8
<1>10. cur'.suicided = evm'.destructing
  BY <1>1, <1>3, <1>4, <1>5 DEF FreshState
<1>11. \A x \in ToSet(block'.systemCalls) :
          /\ x.data.by \in Nat /\ x.data.by <= evm'.started
             /\ \A i \in 1..Len(evm'.running) : x.data.by # evm'.running[i].id
  <2>1. \A x \in ToSet(block.systemCalls) : x.data.by <= evm.started /\ x.data.by \in Nat
    BY DEF Traced
  <2> QED BY <1>1, <1>4, <1>5, <1>9, <2>1
<1> QED BY <1>4, <1>5, <1>7, <1>8, <1>9, <1>10, <1>11, TracedNext

(* Starting a system call, which may interrupt a transaction.              *)
LEMMA StartSystemCallTraced ==
    ASSUME LinkedOK, Linked, Traced, ~panicked', StartSystemCall
    PROVE  Traced' /\ UNCHANGED block
<1>1. ~Panic /\ evm.started \in Nat /\ cur.suicided = evm.destructing /\ evm.running \in Seq(Contexts)
  BY LinkedParts DEF Panic, Traced, LinkedOK, Clients
<1>2. /\ Running => ~Top.sys
      /\ MayBegin /\ Begin(TRUE) /\ OnSystemCallStart /\ evm.destructing = FALSE
  BY DEF StartSystemCall, Idle, LinkedOK, Clients
<1>3. PICK id \in 1..MaxContexts, c \in Contexts :
             /\ id = NextId /\ id \in Nat /\ id = evm.started + 1
             /\ c.id = id /\ c.sys = TRUE /\ c.frames = <<>>
             /\ evm'.running = Append(evm.running, c) /\ evm'.started = id
             /\ evm'.destructing = evm.destructing
  BY <1>2, BeginsNew
<1> DEFINE trx  == [NoTrx EXCEPT !.open = TRUE]
           base == IF InTrx THEN FreshState ELSE cur
<1>4. /\ interrupted' = IF InTrx THEN <<cur>> ELSE interrupted
      /\ cur' = [base EXCEPT !.trx = trx]
      /\ UNCHANGED <<block, ordinal>>
  BY <1>1, <1>2 DEF OnSystemCallStart, Ensured
<1>5. base = FreshState
  BY DEF LinkedOK, NothingLeftBehind
<1>6. trx.calls = <<>> /\ trx.stateReverted = {}
  BY DEF NoTrx
<1> HIDE DEF trx, base
<1>7. Traces(cur', c, ordinal')
  BY <1>3, <1>4, <1>5, <1>6, NewTraces
<1>8. cur'.suicided = evm'.destructing
  BY <1>1, <1>2, <1>3, <1>4, <1>5 DEF FreshState
<1>9. \A x \in ToSet(block'.systemCalls) : x.data.by \in Nat /\ x.data.by <= evm'.started /\ x.data.by # id
  <2>1. \A x \in ToSet(block.systemCalls) : x.data.by <= evm.started /\ x.data.by \in Nat
    BY DEF Traced
  <2> QED BY <1>1, <1>3, <1>4, <2>1
<1>10. CASE InTrx
  <2>1. Len(evm.running) = 1 /\ evm.running[1] = Top /\ Running
    BY <1>2, <1>10, LinkedShape DEF Linked
  <2>2. Len(evm'.running) = 2 /\ evm'.running[1] = Top /\ evm'.running[2] = c
    BY <1>1, <1>3, <2>1
  <2>3. interrupted'[1] = cur
    BY <1>4, <1>10
  <2>4. Traces(cur, Top, ordinal) /\ Top.id <= evm.started /\ Top.id \in Nat
    BY <2>1, TopTraces
  <2>5. \A i \in 1..Len(evm'.running) : evm'.running[i] = Top \/ evm'.running[i] = c
    <3>1. \A i \in 1..2 : i = 1 \/ i = 2
      OBVIOUS
    <3> QED BY <2>2, <3>1
  <2>6. \A x \in ToSet(block'.systemCalls) : x.data.by # Top.id
    BY <1>4, <2>1 DEF Traced
  <2>7. \A x \in ToSet(block'.systemCalls) :
             /\ x.data.by \in Nat /\ x.data.by <= evm'.started
             /\ \A i \in 1..Len(evm'.running) : x.data.by # evm'.running[i].id
    BY <1>3, <1>9, <2>5, <2>6
  <2>8. /\ Traces(interrupted'[1], evm'.running[1], ordinal') /\ ~interrupted'[1].suicided
        /\ Traces(cur', evm'.running[2], ordinal')
        /\ evm'.running[1].id # evm'.running[2].id
    BY <1>1, <1>2, <1>3, <1>4, <1>7, <2>2, <2>3, <2>4
  <2>9. \A i \in 1..Len(evm'.running) : evm'.running[i].id <= evm'.started
    <3>1. Top.id <= evm'.started /\ c.id <= evm'.started
      BY <1>1, <1>3, <2>4
    <3> QED BY <2>5, <3>1
  <2> QED BY <1>4, <1>8, <2>2, <2>7, <2>8, <2>9, TracedNext
<1>11. CASE ~InTrx
  <2>1. evm.running = <<>>
    BY <1>11, NothingRuns DEF Linked
  <2>2. evm'.running = <<c>> /\ Len(evm'.running) = 1 /\ evm'.running[1] = c
    <3>1. evm'.running = Append(<<>>, c)
      BY <1>3, <2>1
    <3> QED BY <3>1, FirstElement
  <2>3. \A i \in 1..Len(evm'.running) : evm'.running[i] = c
    BY <2>2
  <2>4. \A x \in ToSet(block'.systemCalls) :
             /\ x.data.by \in Nat /\ x.data.by <= evm'.started
             /\ \A i \in 1..Len(evm'.running) : x.data.by # evm'.running[i].id
    BY <1>3, <1>9, <2>3
  <2> QED BY <1>3, <1>4, <1>7, <1>8, <2>2, <2>3, <2>4, TracedNext
<1> QED BY <1>10, <1>11

(* Ending a transaction.                                                   *)
LEMMA EndTrxTraced ==
    ASSUME LinkedOK, Linked, Traced, ~panicked', EndTrx \/ EndTrxWithoutReceipt
    PROVE  /\ Traced' /\ UNCHANGED block.systemCalls
           /\ Running /\ ~Top.sys /\ Top.frames = <<>>
           /\ \E receipt \in Receipts :
                \/ UNCHANGED block.traces
                \/ /\ Completable(receipt)
                   /\ block'.traces = Append(block.traces, CompleteTransaction(receipt))
<1>1. ~Panic /\ evm \in Clients /\ block \in Blocks /\ NoReceipt \in Receipts
  BY LinkedParts DEF Panic, LinkedOK, Receipts
<1>2. /\ Running /\ ~Top.sys /\ Top.frames = <<>> /\ evm.destructing = FALSE
      /\ evm'.running = <<>> /\ evm'.started = evm.started /\ evm'.destructing = evm.destructing
  BY <1>1 DEF EndTrx, EndTrxWithoutReceipt, Idle, Clients, InFrameNow
<1>3. PICK receipt \in Receipts : OnTxEnd(receipt)
  BY <1>1, ReceiptType DEF EndTrx, EndTrxWithoutReceipt
<1> DEFINE traces == Append(block.traces, CompleteTransaction(receipt))
<1>4. /\ cur' = FreshState
      /\ \/ UNCHANGED block
         \/ Completable(receipt) /\ block' = [block EXCEPT !.traces = traces]
  BY <1>1, <1>3 DEF OnTxEnd, Ensured, ResetTransaction
<1> HIDE DEF traces
<1>5. /\ UNCHANGED block.systemCalls
      /\ UNCHANGED block.traces \/ (Completable(receipt) /\ block'.traces = traces)
  BY <1>1, <1>4 DEF Blocks
<1>6. cur'.suicided = evm'.destructing
  BY <1>2, <1>4 DEF FreshState
<1>7. Traced'
  <2>1. \A x \in ToSet(block.systemCalls) : x.data.by <= evm.started /\ x.data.by \in Nat
    BY DEF Traced
  <2> QED BY <1>2, <1>5, <1>6, <2>1, RestTraced
<1> QED BY <1>2, <1>5, <1>7 DEF traces

(* Ending a system call: its calls go to the block, and what it            *)
(* interrupted goes on.                                                    *)
LEMMA EndSystemCallTraced ==
    ASSUME LinkedOK, Linked, Traced, ~panicked', EndSystemCall
    PROVE  /\ Traced' /\ UNCHANGED block.traces
           /\ Running /\ Top.sys /\ Top.frames = <<>>
           /\ block'.systemCalls = block.systemCalls \o AttachPreimages(cur.trx.calls, cur.preimages)
<1> DEFINE own   == AttachPreimages(cur.trx.calls, cur.preimages)
           calls == block.systemCalls \o own
<1>1. /\ evm \in Clients /\ ~Panic /\ StateOK(cur) /\ ordinal \in Nat
      /\ block \in Blocks /\ evm.running \in Seq(Contexts)
  BY LinkedParts DEF Panic, LinkedOK, TracerOK, HooksOK
<1>2. /\ Running /\ Top.sys /\ Top.frames = <<>>
      /\ evm' = [evm EXCEPT !.running = Front(@)] /\ OnSystemCallEnd
      /\ evm.destructing = FALSE
  BY <1>1 DEF EndSystemCall, InFrameNow, Idle, Clients
<1>3. /\ block' = [block EXCEPT !.systemCalls = calls]
      /\ cur' = IF interrupted = <<>> THEN FreshState ELSE interrupted[1]
      /\ interrupted' = <<>> /\ UNCHANGED ordinal
  BY <1>1, <1>2 DEF OnSystemCallEnd, Ensured
<1>4. /\ evm'.running = Front(evm.running) /\ evm'.started = evm.started
      /\ evm'.destructing = evm.destructing
  BY <1>1, <1>2 DEF Clients
<1>5. block'.systemCalls = calls /\ block'.traces = block.traces
  <2> HIDE DEF calls
  <2> QED BY <1>1, <1>3 DEF Blocks
<1>6. /\ Traces(cur, Top, ordinal) /\ Top.id \in Nat /\ Top.id <= evm.started
      /\ evm.started \in Nat
  BY <1>2, TopTraces
<1>7. \A x \in ToSet(block'.systemCalls) : x \in ToSet(block.systemCalls) \/ x.data.by = Top.id
  <2>1. cur.trx.calls \in Seq(Call) /\ cur.preimages \in Seq([call : Nat, data : Data])
    BY <1>1, StateParts, AllLogsType
  <2>2. own \in Seq(Call) /\ Len(own) = Len(cur.trx.calls)
    BY <2>1, AttachPreimagesType
  <2>3. \A i \in 1..Len(own) : own[i].data.by = Top.id
    <3> TAKE i \in 1..Len(own)
    <3>1. own[i].data = cur.trx.calls[i].data
      <4>1. i \in 1..Len(cur.trx.calls)
        BY <2>2
      <4>2. SameNode(own[i], cur.trx.calls[i])
        BY <2>1, <4>1, AttachKeeps
      <4> QED BY ONLY <4>2 DEF SameNode
    <3>2. cur.trx.calls[i] \in ToSet(cur.trx.calls)
      BY <2>1, <2>2, SeqElements
    <3>3. \A x \in ToSet(cur.trx.calls) : x.data.by = Top.id
      BY <1>6 DEF Traces, Shape, Named, CallsOf
    <3> QED BY <3>1, <3>2, <3>3
  <2> HIDE DEF own
  <2>4. block.systemCalls \in Seq(Call)
    BY <1>1 DEF Blocks
  <2>5. ToSet(calls) = ToSet(block.systemCalls) \cup ToSet(own)
    BY <2>2, <2>4, ConcatToSet
  <2>6. \A x : x \in ToSet(own) <=> \E i \in 1..Len(own) : own[i] = x
    BY <2>2, SeqElements
  <2> HIDE DEF calls
  <2> QED BY <1>5, <2>3, <2>5, <2>6
<1> HIDE DEF calls
<1>8. \A x \in ToSet(block'.systemCalls) : x.data.by <= evm'.started /\ x.data.by \in Nat
  <2>1. \A x \in ToSet(block.systemCalls) : x.data.by <= evm.started /\ x.data.by \in Nat
    BY DEF Traced
  <2> QED BY <1>4, <1>6, <1>7, <2>1
<1>9. evm'.running = SubSeq(evm.running, 1, Len(evm.running) - 1) /\ evm.running # <<>>
  BY <1>2, <1>4 DEF Front, Running
<1>10. ASSUME Len(evm.running) = 1, interrupted = <<>> PROVE Traced'
  <2>1. evm'.running = <<>>
    BY <1>1, <1>9, <1>10, DropLast, EmptySeq
  <2>2. cur'.suicided = evm'.destructing
    BY <1>2, <1>3, <1>4, <1>10 DEF FreshState
  <2> QED BY <1>8, <2>1, <2>2, RestTraced
<1>11. ASSUME Len(evm.running) = 2, evm.running[2] = Top, interrupted # <<>> PROVE Traced'
  <2>1. Len(evm'.running) = 1 /\ evm'.running[1] = evm.running[1]
    BY <1>1, <1>9, <1>11, DropLast
  <2>2. /\ Traces(interrupted[1], evm.running[1], ordinal) /\ ~interrupted[1].suicided
        /\ evm.running[1].id # Top.id
    BY <1>11 DEF Traced
  <2>3. cur' = interrupted[1]
    BY <1>3, <1>11
  <2>4. cur'.suicided = evm'.destructing
    <3>1. interrupted[1] \in TrxState
      <4>1. interrupted \in Seq(TrxState)
        BY <1>1, LinkedParts
      <4>2. 1 \in 1..Len(interrupted)
        BY <1>11, <4>1, EmptySeq
      <4> QED BY <4>1, <4>2, ElementType
    <3> QED BY <1>2, <1>4, <2>2, <2>3, <3>1 DEF TrxState
  <2>5. \A i \in 1..Len(evm'.running) : evm'.running[i] = evm.running[1]
    <3>1. \A i \in 1..1 : i = 1
      OBVIOUS
    <3> QED BY <2>1, <3>1
  <2>6. 1 \in 1..Len(evm.running)
    BY <1>11
  <2>7. \A i \in 1..Len(evm'.running) : evm'.running[i].id <= evm'.started
    BY <1>4, <2>5, <2>6 DEF Traced
  <2>8. \A x \in ToSet(block'.systemCalls) :
             /\ x.data.by \in Nat /\ x.data.by <= evm'.started
             /\ \A i \in 1..Len(evm'.running) : x.data.by # evm'.running[i].id
    <3>1. \A x \in ToSet(block.systemCalls) : x.data.by # evm.running[1].id
      BY <2>6 DEF Traced
    <3> QED BY <1>7, <1>8, <2>2, <2>5, <3>1
  <2>9. Traces(cur', evm'.running[1], ordinal')
    BY <1>3, <2>1, <2>2, <2>3
  <2> QED BY <2>1, <2>4, <2>7, <2>8, <2>9, TracedNext
<1>12. Traced'
  BY <1>2, <1>10, <1>11, LinkedShape
<1> QED BY <1>2, <1>5, <1>12 DEF calls

(* Entering a frame.                                                       *)
LEMMA EnterTraced ==
    ASSUME LinkedOK, Linked, Traced, EnterCall
    PROVE  Traced' /\ UNCHANGED block
<1> DEFINE c      == Top
           n      == Top.entered + 1
           mark   == Len(evm.logs)
           frames == Append(Top.frames, [number |-> n, mark |-> mark])
           roots  == IF InFrameNow THEN Top.roots ELSE Top.roots + 1
           e      == [Top EXCEPT !.entered = n, !.roots = roots, !.frames = frames]
           d      == [Now EXCEPT !.frame = n]
           depth  == Len(Top.frames)
<1>1. /\ TracerOK /\ evm \in Clients /\ ordinal \in Nat
      /\ cur.suicided = evm.destructing /\ MaxFrames \in Nat
  BY ClientAssumption DEF LinkedOK, TracerOK, HooksOK, Traced
<1>2. Running /\ Top.entered < MaxFrames /\ evm' = WithTop(e) /\ OnCallEnter(depth, d)
  BY DEF EnterCall
<1>3. Traces(cur, c, ordinal) /\ c \in Contexts
  BY <1>2, TopTraces
<1>4. n \in Nat /\ n \in 1..MaxFrames
  <2>1. c.entered \in 0..MaxFrames
    BY <1>3 DEF Contexts
  <2> HIDE DEF c
  <2>2. c.entered < MaxFrames
    BY <1>2 DEF c
  <2> QED BY <1>1, <2>1, <2>2 DEF c
<1> HIDE DEF n, mark, roots
<1>5. e.id = c.id /\ e.sys = c.sys /\ e.frames = frames
  <2> HIDE DEF frames
  <2> QED BY <1>3 DEF Contexts
<1>6. d = Voice(c, n) /\ d \in Data
  <2>1. d \in Data
    BY <1>1, <1>4, NowType
  <2>2. Now = [by |-> c.id, sys |-> c.sys, frame |-> Now.frame]
    BY <1>2 DEF Now
  <2> QED BY <2>1, <2>2 DEF Voice
<1> HIDE DEF d, e
<1>7. Traces(cur', e, ordinal')
  <2> HIDE DEF c
  <2>1. e.frames = Append(c.frames, [number |-> n, mark |-> mark])
    BY <1>5 DEF c
  <2>2. OnCallEnter(Len(c.frames), Voice(c, n)) /\ Voice(c, n) \in Data
    BY <1>2, <1>6 DEF c
  <2> QED BY <1>1, <1>3, <1>4, <1>5, <2>1, <2>2, EnterTraces
<1>8. ordinal' = ordinal + 1 /\ UNCHANGED <<block, interrupted>> /\ cur'.suicided = cur.suicided
  <2>1. cur \in TrxState
    BY LinkedParts
  <2> QED BY <1>2, <2>1 DEF OnCallEnter, TrxState
<1>9. /\ Len(evm'.running) = Len(evm.running)
      /\ \A i \in 1..Len(evm.running) :
             evm'.running[i] = IF i = Len(evm.running) THEN e ELSE evm.running[i]
      /\ evm'.started = evm.started /\ evm'.destructing = evm.destructing
  BY <1>2, WithTopRunning
<1>10. cur'.suicided = evm'.destructing /\ ordinal' \in Nat /\ ordinal <= ordinal' /\ e.id = Top.id
  BY <1>1, <1>5, <1>8, <1>9
<1> QED BY <1>2, <1>7, <1>8, <1>9, <1>10, InsideTraced

(* Leaving a frame.                                                        *)
LEMMA ExitTraced ==
    ASSUME LinkedOK, Linked, Traced, ~panicked',
           NEW outcome \in {"ok", "failed", "reverted"}, ExitCall(outcome)
    PROVE  Traced' /\ UNCHANGED block
<1> DEFINE c      == Top
           frames == Front(Top.frames)
           e      == [Top EXCEPT !.frames = frames]
           logs   == IF outcome = "ok" THEN evm.logs ELSE Truncate(evm.logs, Frame.mark)
<1>1. /\ TracerOK /\ evm \in Clients /\ ordinal \in Nat
      /\ cur.suicided = evm.destructing
  BY DEF LinkedOK, TracerOK, HooksOK, Traced
<1>2. /\ Running /\ Top.frames # <<>> /\ ~evm.destructing
      /\ evm' = [WithTop(e) EXCEPT !.logs = logs] /\ OnCallExit(outcome)
  BY DEF ExitCall, Idle, InFrameNow, WithTop
<1>3. Traces(cur, c, ordinal) /\ c \in Contexts
  BY <1>2, TopTraces
<1>4. frames \in Seq([number : 1..MaxFrames, mark : Nat])
  <2> DEFINE S == [number : 1..MaxFrames, mark : Nat]
             s == Top.frames
  <2>1. s \in Seq(S) /\ s # <<>>
    BY <1>2, <1>3 DEF Contexts
  <2> HIDE DEF s, S
  <2>2. Front(s) \in Seq(S)
    BY <2>1, DropLast DEF Front
  <2> QED BY <2>2 DEF s, S
<1>5. e \in Contexts /\ e.id = c.id /\ e.sys = c.sys /\ e.frames = frames
  <2> HIDE DEF frames
  <2> QED BY <1>3, <1>4 DEF Contexts
<1> HIDE DEF e, logs
<1>6. ~Panic /\ ~cur.suicided /\ outcome \in Outcomes \ {"open"}
  BY <1>1, <1>2 DEF Panic, Outcomes
<1>7. Traces(cur', e, ordinal')
  <2> HIDE DEF c
  <2>1. c.frames # <<>> /\ e.frames = Front(c.frames)
    BY <1>2, <1>5 DEF c
  <2> QED BY <1>1, <1>2, <1>3, <1>5, <1>6, <2>1, ExitTraces
<1>8. ordinal' = ordinal + 1 /\ UNCHANGED <<block, interrupted>> /\ cur'.suicided = cur.suicided
  <2>1. cur \in TrxState
    BY LinkedParts
  <2> DEFINE after == Pop(cur.callStack)
             trx   == [cur.trx EXCEPT !.calls = Append(@, [Peek(cur.callStack) EXCEPT !.outcome = outcome, !.end = ordinal + 1])]
  <2>2. /\ ordinal' = ordinal + 1 /\ UNCHANGED <<block, interrupted>>
        /\ cur' = [cur EXCEPT !.callStack = after, !.trx = trx]
    BY <1>2, <1>6, <2>1 DEF OnCallExit, Ensured, TrxState, Trx
  <2> HIDE DEF after, trx
  <2> QED BY <2>1, <2>2 DEF TrxState
<1>9. /\ evm'.running = WithTop(e).running /\ evm'.started = WithTop(e).started
      /\ evm'.destructing = WithTop(e).destructing
  <2>1. WithTop(e) \in Clients
    BY <1>1, <1>2, <1>5, WithTopType
  <2> QED BY <1>2, <2>1 DEF Clients
<1>10. /\ Len(evm'.running) = Len(evm.running)
       /\ \A i \in 1..Len(evm.running) :
              evm'.running[i] = IF i = Len(evm.running) THEN e ELSE evm.running[i]
       /\ evm'.started = evm.started /\ evm'.destructing = evm.destructing
  <2> DEFINE r == WithTop(e).running
  <2>1. /\ Len(r) = Len(evm.running)
        /\ \A i \in 1..Len(evm.running) : r[i] = IF i = Len(evm.running) THEN e ELSE evm.running[i]
    BY <1>2, WithTopRunning
  <2>2. WithTop(e).started = evm.started /\ WithTop(e).destructing = evm.destructing
    BY <1>2, WithTopRunning
  <2>3. evm'.running = r
    BY <1>9
  <2> HIDE DEF r
  <2> QED BY <1>9, <2>1, <2>2, <2>3
<1>11. cur'.suicided = evm'.destructing /\ ordinal' \in Nat /\ ordinal <= ordinal' /\ e.id = Top.id
  BY <1>1, <1>5, <1>8, <1>10
<1> QED BY <1>2, <1>7, <1>8, <1>10, <1>11, InsideTraced

(* What is running stays where it is.                                      *)
LEMMA StillTraced ==
    ASSUME LinkedOK, Linked, Traced, Running,
           evm'.running = evm.running, evm'.started = evm.started, UNCHANGED <<block, interrupted>>,
           ordinal' \in Nat, ordinal <= ordinal', cur'.suicided = evm'.destructing,
           Traces(cur', Top, ordinal')
    PROVE  Traced'
<1> DEFINE c == Top
<1>1. \A i \in 1..Len(evm.running) :
          evm'.running[i] = IF i = Len(evm.running) THEN c ELSE evm.running[i]
  BY DEF Top, Last
<1>2. c.id = Top.id /\ Len(evm'.running) = Len(evm.running) /\ Traces(cur', c, ordinal')
  OBVIOUS
<1>3. /\ LinkedOK /\ Linked /\ Traced /\ Running /\ evm'.started = evm.started
      /\ UNCHANGED <<block, interrupted>> /\ ordinal' \in Nat /\ ordinal <= ordinal'
      /\ cur'.suicided = evm'.destructing
  OBVIOUS
<1> HIDE DEF c
<1> QED BY ONLY <1>1, <1>2, <1>3, InsideTraced

(* Opcodes, self-destructions and preimages.                               *)
LEMMA OpcodesTraced ==
    ASSUME LinkedOK, Linked, Traced, ~panicked',
           \/ SelfDestruct \/ EnterSelfDestruct \/ ExitSelfDestruct
           \/ FaultingOpcode \/ KeccakPreimage
    PROVE  Traced' /\ UNCHANGED block
<1>1. /\ TracerOK /\ cur \in TrxState /\ evm \in Clients /\ ordinal \in Nat
      /\ cur.suicided = evm.destructing
  BY LinkedParts DEF LinkedOK, TracerOK, HooksOK, Traced
<1>2. Running
  <2>1. CASE ~ExitSelfDestruct
    BY <2>1 DEF SelfDestruct, EnterSelfDestruct, FaultingOpcode, KeccakPreimage, InFrameNow
  <2>2. CASE ExitSelfDestruct
    <3>1. cur.suicided
      BY <1>1, <2>2 DEF ExitSelfDestruct
    <3>2. ~FreshState.suicided
      BY DEF FreshState
    <3>3. InTrx
      BY <3>1, <3>2 DEF LinkedOK, NothingLeftBehind
    <3> QED BY <3>3 DEF Linked
  <2> QED BY <2>1, <2>2
<1>3. Traces(cur, Top, ordinal) /\ Top \in Contexts
  BY <1>2, TopTraces
<1>4. ~Panic
  BY DEF Panic
<1>5. CASE SelfDestruct \/ FaultingOpcode
  <2>1. PICK failed \in BOOLEAN : OnOpcode(TRUE, failed) /\ UNCHANGED evm
    BY <1>5 DEF SelfDestruct, FaultingOpcode
  <2>2. UNCHANGED <<block, ordinal, interrupted>>
    BY <2>1 DEF OnOpcode
  <2>3. cur'.suicided = cur.suicided
    <3> DEFINE after == OnTop(cur.callStack, [Peek(cur.callStack) EXCEPT !.executed = TRUE,
                                  !.suicide = Peek(cur.callStack).suicide \/ (TRUE /\ ~failed)])
    <3>1. cur' = [cur EXCEPT !.callStack = after] \/ cur' = cur
      BY <2>1 DEF OnOpcode
    <3> HIDE DEF after
    <3> QED BY <1>1, <3>1 DEF TrxState
  <2>4. Traces(cur', Top, ordinal')
    <3> DEFINE c == Top
    <3>1. Traces(cur, c, ordinal)
      BY <1>3
    <3> HIDE DEF c
    <3>2. Traces(cur', c, ordinal')
      BY <1>1, <2>1, <3>1, OpcodeTraces
    <3> QED BY <3>2 DEF c
  <2> QED BY <1>1, <1>2, <2>1, <2>2, <2>3, <2>4, StillTraced
<1>6. CASE EnterSelfDestruct \/ ExitSelfDestruct
  <2>1. PICK b \in BOOLEAN : /\ cur' = [cur EXCEPT !.suicided = b]
                             /\ evm' = [evm EXCEPT !.destructing = b]
                             /\ UNCHANGED <<block, ordinal, interrupted>>
    BY <1>1, <1>6 DEF EnterSelfDestruct, ExitSelfDestruct, OnSelfDestructEnter, OnCallExit
  <2>2. /\ cur'.trx = cur.trx /\ cur'.callStack = cur.callStack /\ cur'.deferred = cur.deferred
        /\ cur'.preimages = cur.preimages /\ cur'.logIndex = cur.logIndex /\ cur'.suicided = b
    BY <1>1, <2>1 DEF TrxState
  <2>3. evm'.running = evm.running /\ evm'.started = evm.started /\ evm'.destructing = b
    BY <1>1, <2>1 DEF Clients
  <2>4. Traces(cur', Top, ordinal)
    BY <1>3, <2>2, TracesSame
  <2> QED BY <1>1, <1>2, <2>1, <2>2, <2>3, <2>4, StillTraced
<1>7. CASE KeccakPreimage
  <2>1. InFrameNow /\ OnKeccakPreimage(Now) /\ UNCHANGED evm
    BY <1>7 DEF KeccakPreimage
  <2>2. Now \in Data /\ Now = Voice(Top, Last(Top.frames).number) /\ Top.frames # <<>>
    BY <1>1, <2>1, NowType DEF Now, InFrameNow, Frame, Voice
  <2>3. Traces(cur', Top, ordinal') /\ UNCHANGED <<block, ordinal, interrupted>>
    <3> DEFINE c == Top
    <3>1. Traces(cur, c, ordinal) /\ c \in Contexts /\ c.frames # <<>> /\ Now = Voice(c, Last(c.frames).number)
      BY <1>3, <2>2
    <3> HIDE DEF c
    <3>2. Traces(cur', c, ordinal') /\ UNCHANGED <<block, ordinal, interrupted>>
      BY <1>1, <1>4, <2>1, <2>2, <3>1, PreimageTraces
    <3> QED BY <3>2 DEF c
  <2>4. cur'.suicided = cur.suicided
    <3> DEFINE after == Append(cur.preimages, [call |-> Peek(cur.callStack).index, data |-> Now])
    <3>1. cur' = [cur EXCEPT !.preimages = after]
      BY <1>4, <2>1 DEF OnKeccakPreimage, Ensured
    <3> HIDE DEF after
    <3> QED BY <1>1, <3>1 DEF TrxState
  <2> QED BY <1>1, <1>2, <2>1, <2>3, <2>4, StillTraced
<1> QED BY <1>5, <1>6, <1>7

(* An entry is added in a context.                                         *)
LEMMA EmittedTraced ==
    ASSUME LinkedOK, Linked, Traced, Running, UNCHANGED <<block, interrupted>>, TracerOK',
           evm'.running = evm.running, evm'.started = evm.started, evm'.destructing = evm.destructing,
           NEW k \in Lists, NEW e \in Entry, e.data = Now, e.ord = ordinal + 1, ordinal' = ordinal + 1,
           \/ k # "log" /\ cur' = Attached(k, e)
           \/ k = "log" /\ e.index = cur.logIndex /\ cur' = [Attached(k, e) EXCEPT !.logIndex = cur.logIndex + 1]
    PROVE  Traced'
<1>1. /\ TracerOK /\ StateOK(cur) /\ ordinal \in Nat /\ LogsOK(cur, ordinal) /\ evm \in Clients
      /\ cur.suicided = evm.destructing /\ StateOK(cur') /\ cur.logIndex \in Nat
      /\ cur \in TrxState
  <2>1. TracerOK /\ StateOK(cur) /\ ordinal \in Nat /\ LogsOK(cur, ordinal) /\ evm \in Clients
      /\ cur.suicided = evm.destructing
    BY DEF LinkedOK, TracerOK, HooksOK, LogOrdinalsOK, Traced
  <2>2. StateOK(cur')
    <3>1. StateOK(cur)' <=> StateOK(cur')
      BY DEF StateOK
    <3> QED BY <3>1 DEF TracerOK, HooksOK
  <2> QED BY <2>1, <2>2, StateParts
<1>2. Traces(cur, Top, ordinal) /\ Top \in Contexts
  BY TopTraces
<1> DEFINE s == Attached(k, e)
<1>3. s \in TrxState
  BY <1>1, AttachedOK DEF StateOK
<1>4. /\ s.trx = cur.trx /\ s.preimages = cur.preimages /\ s.logIndex = cur.logIndex
      /\ s.suicided = cur.suicided
  <2> DEFINE after == OnTop(cur.callStack, [Peek(cur.callStack) EXCEPT !.lists = Add(Peek(cur.callStack).lists, k, e)])
             d == Add(cur.deferred, k, e)
  <2>1. s = [cur EXCEPT !.callStack = after] \/ s = [cur EXCEPT !.deferred = d]
    BY DEF Attached
  <2> HIDE DEF after, d, s
  <2> QED BY <1>1, <2>1 DEF TrxState
<1> HIDE DEF s
<1>5. /\ cur'.trx = cur.trx /\ cur'.preimages = cur.preimages /\ cur'.suicided = cur.suicided
      /\ cur'.callStack = s.callStack /\ cur'.deferred = s.deferred
      /\ cur'.logIndex = IF k = "log" THEN cur.logIndex + 1 ELSE cur.logIndex
  <2>1. CASE k # "log"
    BY <1>4, <2>1 DEF s
  <2>2. CASE k = "log"
    <3> DEFINE m == cur.logIndex + 1
    <3>1. cur' = [s EXCEPT !.logIndex = m]
      BY <2>2 DEF s
    <3> HIDE DEF m
    <3>2. /\ cur'.trx = s.trx /\ cur'.preimages = s.preimages /\ cur'.suicided = s.suicided
          /\ cur'.callStack = s.callStack /\ cur'.deferred = s.deferred /\ cur'.logIndex = m
      BY <1>3, <3>1 DEF TrxState
    <3> QED BY <1>4, <2>2, <3>2 DEF m
  <2> QED BY <2>1, <2>2
<1>6. Now = Voice(Top, IF Top.frames = <<>> THEN 0 ELSE Last(Top.frames).number)
  BY DEF Now, Voice, InFrameNow, Frame
<1>7. Traces(cur', Top, ordinal + 1)
  <2> DEFINE c == Top
  <2>1. /\ c \in Contexts /\ Traces(cur, c, ordinal)
        /\ e.data = Voice(c, IF c.frames = <<>> THEN 0 ELSE Last(c.frames).number)
    BY <1>2, <1>6
  <2> HIDE DEF c
  <2>2. k = "log" => e.index = cur.logIndex
    OBVIOUS
  <2>3. cur'.callStack = Attached(k, e).callStack /\ cur'.deferred = Attached(k, e).deferred
    BY <1>5 DEF s
  <2>4. Traces(cur', c, ordinal + 1)
    BY <1>1, <1>5, <2>1, <2>2, <2>3, AttachedTraces
  <2> QED BY <2>4 DEF c
<1> QED BY <1>1, <1>5, <1>7, StillTraced

(* A change hook.                                                          *)
LEMMA ChangeTraced ==
    ASSUME LinkedOK, Linked, Traced, UNCHANGED evm, TracerOK', NEW k \in Lists, k # "log",
           OnBlockOrTrxChange(k, Now) \/ OnTrxChange(k, Now), ~Panic
    PROVE  Traced' /\ UNCHANGED <<block.traces, block.systemCalls>>
<1> DEFINE change == Change(ordinal + 1, Now)
<1>1. evm \in Clients /\ TracerOK /\ ordinal \in Nat /\ block \in Blocks
  BY LinkedParts DEF LinkedOK, TracerOK, HooksOK
<1>2. Now \in Data /\ ordinal + 1 \in Nat
  BY <1>1, NowType
<1>3. change \in Entry /\ change.ord = ordinal + 1 /\ change.data = Now
  BY <1>2, ChangeType DEF Change
<1>4. /\ ordinal' = ordinal + 1 /\ UNCHANGED <<inSystemCall, interrupted>>
      /\ \/ InTrx /\ cur' = Attached(k, change) /\ UNCHANGED block
         \/ ~InTrx /\ block' = [block EXCEPT !.changes = Add(@, k, change)] /\ UNCHANGED cur
  BY DEF OnBlockOrTrxChange, OnTrxChange, Ensured
<1> HIDE DEF change
<1>6. CASE InTrx
  <2>1. Running /\ cur' = Attached(k, change) /\ UNCHANGED block
    BY <1>4, <1>6 DEF Linked
  <2> QED BY <1>3, <1>4, <2>1, EmittedTraced
<1>7. CASE ~InTrx
  <2>1. ~Running /\ UNCHANGED cur
    BY <1>4, <1>7 DEF Linked
  <2> DEFINE changes == Add(block.changes, k, change)
  <2>2. block' = [block EXCEPT !.changes = changes]
    BY <1>4, <1>7
  <2> HIDE DEF changes
  <2>3. block'.traces = block.traces /\ block'.systemCalls = block.systemCalls
    BY <1>1, <2>2 DEF Blocks
  <2>4. cur'.suicided = evm'.destructing /\ evm'.running = <<>>
    BY <2>1 DEF Traced, Running
  <2>5. \A x \in ToSet(block'.systemCalls) : x.data.by \in Nat /\ x.data.by <= evm'.started
    BY <2>3 DEF Traced
  <2> QED BY <2>3, <2>4, <2>5, RestTraced
<1> QED BY <1>6, <1>7

(* Changes and logs.                                                       *)
LEMMA ChangesTraced ==
    ASSUME LinkedOK, Linked, Traced, ~panicked', TracerOK', ClearCode \/ Changes \/ Logs
    PROVE  Traced' /\ UNCHANGED <<block.traces, block.systemCalls>>
<1>1. /\ evm \in Clients /\ TracerOK /\ ordinal \in Nat /\ block \in Blocks /\ StateOK(cur) /\ cur \in TrxState
  BY LinkedParts DEF LinkedOK, TracerOK, HooksOK
<1>2. ~Panic
  BY DEF Panic
<1>3. {"balance", "nonce", "code", "storage", "log"} \subseteq Lists
  BY DEF Lists
<1>4. CASE ClearCode
  <2>1. Running /\ UNCHANGED evm /\ OnCodeChange(Now, TRUE)
    BY <1>4 DEF ClearCode, InFrameNow
  <2>2. CASE OnBlockOrTrxChange("code", Now)
    BY <1>2, <1>3, <2>1, <2>2, ChangeTraced
  <2>3. CASE UNCHANGED tracerVars
    <3>1. UNCHANGED <<block, ordinal, cur, interrupted>>
      BY <2>3 DEF tracerVars
    <3>2. Traces(cur', Top, ordinal') /\ cur'.suicided = evm'.destructing
      BY <2>1, <3>1, TopTraces DEF Traced
    <3> QED BY <1>1, <2>1, <3>1, <3>2, StillTraced
  <2> QED BY <2>1, <2>2, <2>3 DEF OnCodeChange
<1>5. CASE Changes
  <2>1. PICK k \in Lists : k # "log" /\ (OnBlockOrTrxChange(k, Now) \/ OnTrxChange(k, Now))
    BY <1>3, <1>5 DEF Changes, OnBalanceChange, OnNonceChange, OnCodeChange, OnStorageChange
  <2>2. UNCHANGED evm
    BY <1>5 DEF Changes
  <2> QED BY <1>2, <2>1, <2>2, ChangeTraced
<1>6. CASE Logs
  <2> DEFINE n   == Len(evm.logs)
             log == [ord |-> ordinal + 1, data |-> Now, index |-> cur.logIndex, blockIndex |-> n]
  <2>1. OnLog(Now, n)
        /\ evm' = [evm EXCEPT !.logs = Append(@, [data |-> Now, blockIndex |-> Len(evm.logs)])]
    BY <1>6 DEF Logs
  <2>2. evm'.running = evm.running /\ evm'.started = evm.started /\ evm'.destructing = evm.destructing
        /\ n \in Nat
    BY <1>1, <2>1 DEF Clients
  <2>3. /\ InTrx /\ ordinal' = ordinal + 1 /\ UNCHANGED <<block, interrupted>>
        /\ cur' = [Attached("log", log) EXCEPT !.logIndex = @ + 1]
    BY <1>2, <2>1 DEF OnLog, Ensured
  <2>4. Running
    BY <2>3 DEF Linked
  <2>6. Now \in Data /\ cur.logIndex \in Nat
    BY <1>1, NowType, StateParts
  <2>7. log \in Entry /\ log.data = Now /\ log.ord = ordinal + 1 /\ log.index = cur.logIndex
    BY <1>1, <2>2, <2>6 DEF Entry
  <2> HIDE DEF log
  <2> DEFINE s == Attached("log", log)
  <2>8. s.logIndex = cur.logIndex
    <3> DEFINE after == OnTop(cur.callStack, [Peek(cur.callStack) EXCEPT !.lists = Add(Peek(cur.callStack).lists, "log", log)])
               d == Add(cur.deferred, "log", log)
    <3>1. s = [cur EXCEPT !.callStack = after] \/ s = [cur EXCEPT !.deferred = d]
      BY DEF Attached
    <3> HIDE DEF after, d, s
    <3> QED BY <1>1, <3>1 DEF TrxState
  <2>9. cur' = [Attached("log", log) EXCEPT !.logIndex = cur.logIndex + 1]
    BY <2>3, <2>8
  <2> QED BY <1>3, <2>2, <2>3, <2>4, <2>7, <2>9, EmittedTraced
<1> QED BY <1>4, <1>5, <1>6

-----------------------------------------------------------------------------
(* The calls as they go into the block                                     *)

(* The calls of a state whose stack is empty have the numbers from 1 on.   *)
LEMMA EndedNumbers ==
    ASSUME NEW s, StateOK(s), s.callStack.stack = <<>>
    PROVE  /\ CallsOf(s) = ToSet(s.trx.calls) /\ IsFiniteSet(CallsOf(s))
           /\ s.trx.calls \in Seq(Call) /\ Len(s.trx.calls) \in Nat
           /\ \A i, j \in 1..Len(s.trx.calls) : s.trx.calls[i].index = s.trx.calls[j].index => i = j
           /\ Indexes(CallsOf(s)) = 1..Len(s.trx.calls)
<1> DEFINE calls == s.trx.calls
           X     == CallsOf(s)
           n     == Len(calls)
<1>1. /\ calls \in Seq(Call) /\ n \in Nat /\ Len(s.callStack.stack) = 0 /\ ToSet(<<>>) = {}
  BY AllLogsType, EmptySeq DEF ToSet
<1>2. /\ \A i \in 1..n : calls[i].index \in 1..s.callStack.index
      /\ \A i, j \in 1..n : calls[i].index = calls[j].index => i = j
      /\ n = s.callStack.index
  <2>1. Numbered(s.trx, s.callStack) /\ s.callStack.index \in Nat
    BY StateParts, CallsOfNumbers
  <2>2. n + Len(s.callStack.stack) = s.callStack.index
    BY <2>1 DEF Numbered
  <2>3. n = s.callStack.index
    <3> HIDE DEF n
    <3> QED BY <1>1, <2>1, <2>2
  <2> QED BY <2>1, <2>3 DEF Numbered
<1>3. X = ToSet(calls)
  BY <1>1 DEF CallsOf
<1>4. IsFiniteSet(X) /\ Cardinality(X) = n
  <2>1. \A i, j \in 1..n : calls[i] = calls[j] => i = j
    BY <1>2
  <2> HIDE DEF calls
  <2> QED BY <1>1, <1>3, <2>1, ToSetFinite
<1>5. \A x, y \in X : x.index = y.index => x = y
  BY CallsOfNumbers
<1> DEFINE f == [x \in X |-> x.index]
<1>6. Indexes(X) = {f[x] : x \in X} /\ \A x, y \in X : f[x] = f[y] => x = y
  BY <1>5 DEF Indexes
<1>7. IsFiniteSet(Indexes(X)) /\ Cardinality(Indexes(X)) = n
  <2> HIDE DEF f, X
  <2> QED BY <1>4, <1>6, CountedByKey
<1>8. Indexes(X) \subseteq 1..n
  BY <1>2, CallsOfNumbers DEF Indexes
<1>9. IsFiniteSet(1..n) /\ Cardinality(1..n) = n
  <2> HIDE DEF n
  <2>1. n \in Int /\ 1 \in Int /\ n \in Nat
    BY <1>1
  <2> QED BY <2>1, FS_Interval
<1>10. Indexes(X) = 1..n
  <2> HIDE DEF X, n
  <2> QED BY <1>7, <1>8, <1>9, FS_Subset
<1> QED BY <1>1, <1>2, <1>3, <1>4, <1>10

(* When all have ended, the tree is one that IsCallTree knows.             *)
LEMMA EndedTree ==
    ASSUME NEW Y \in SUBSET Call, IsFiniteSet(Y), NEW m \in Nat, Forest(Y, m),
           \A y \in Y : Closed(y), \A x, y \in Y : x.index = y.index => x = y,
           NEW n \in Nat, Indexes(Y) = 1..n
    PROVE  IsCallTree(Y)
<1> SUFFICES ASSUME NEW c \in Y
             PROVE  LET around == {p \in Y : p.begin < c.begin /\ c.begin < p.end}
                    IN  /\ c.begin < c.end
                        /\ \A p \in around : c.end < p.end
                        /\ c.index = Cardinality({d \in Y : d.begin <= c.begin})
                        /\ c.depth = Cardinality(around)
                        /\ IF around = {} THEN c.parent = 0
                           ELSE \E p \in around : /\ c.parent = p.index
                                                  /\ \A q \in around : q.begin <= p.begin
  BY DEF IsCallTree
<1> DEFINE around == {p \in Y : p.begin < c.begin /\ c.begin < p.end}
           before == {d \in Y : d.begin <= c.begin}
<1>1. around = Around(Y, c)
  BY DEF Around, Covers
<1>2. c.begin < c.end
  BY DEF Forest, Timed
<1>3. \A p \in around : c.end < p.end
  BY <1>1 DEF Forest, Nested, Around
<1>4. Placing(Y, c)
  BY DEF Forest
<1>5. c.index = Cardinality(before)
  <2> DEFINE f == [x \in before |-> x.index]
  <2>1. \A d \in Y : d.begin <= c.begin <=> d.index <= c.index
    <3> TAKE d \in Y
    <3>1. d.index \in Nat /\ c.index \in Nat /\ d.begin \in Nat /\ c.begin \in Nat
      BY DEF Call
    <3>2. c.index < d.index <=> c.begin < d.begin
      BY DEF Forest, Numbering
    <3> QED BY <3>1, <3>2
  <2>2. c.index \in 1..n
    BY DEF Indexes
  <2>3. \A i \in 1..n : \E y \in Y : y.index = i
    BY DEF Indexes
  <2>4. \A y \in Y : y.index \in 1..n
    BY DEF Indexes
  <2>5. {f[x] : x \in before} = 1..c.index
    BY <2>1, <2>2, <2>3, <2>4
  <2>6. IsFiniteSet(before) /\ \A x, y \in before : f[x] = f[y] => x = y
    BY FS_Subset
  <2> HIDE DEF f, before
  <2> DEFINE K == {f[x] : x \in before}
  <2>7. Cardinality(K) = Cardinality(before)
    BY <2>6, CountedByKey
  <2> HIDE DEF K
  <2>8. K = 1..c.index
    BY <2>5 DEF K
  <2>9. c.index \in Nat
    BY <2>2
  <2> QED BY <2>7, <2>8, <2>9, FS_Interval
<1>6. c.depth = Cardinality(around)
  <2> DEFINE f == [x \in around |-> x.index]
  <2>1. Indexes(around) = {f[x] : x \in around}
    BY DEF Indexes
  <2>2. IsFiniteSet(around) /\ \A x, y \in around : f[x] = f[y] => x = y
    BY FS_Subset
  <2> HIDE DEF f, around
  <2>3. Cardinality(Indexes(around)) = Cardinality(around)
    BY <2>1, <2>2, CountedByKey
  <2> QED BY <1>1, <1>4, <2>3 DEF Placing
<1>7. IF around = {} THEN c.parent = 0
      ELSE \E p \in around : c.parent = p.index /\ \A q \in around : q.begin <= p.begin
  BY <1>1, <1>4 DEF Placing
<1> QED BY <1>2, <1>3, <1>5, <1>6, <1>7
-----------------------------------------------------------------------------
(* y is the call x as it goes into the trace: with the hashes recorded for *)
(* it and, if it is the first, with what was still deferred.               *)
Final(y, x, recorded, deferred) ==
    /\ y \in Call /\ SameNode(y, x)
    /\ y.preimages \subseteq x.preimages \cup Own(recorded, x)
    /\ \A k \in Lists :
         SameList(y.lists[k], IF x.index = 1 THEN x.lists[k] \o deferred[k] ELSE x.lists[k])

Orderly(y) == \A k \in Lists : \A i, j \in DOMAIN y.lists[k] : i < j => y.lists[k][i].ord < y.lists[k][j].ord

Attribution(y) ==
    /\ \A k \in Lists : \A e \in ToSet(y.lists[k]) :
         e.data = y.data \/ (SameContext(e.data, y.data) /\ e.data.frame = 0 /\ y.depth = 0)
    /\ y.preimages \subseteq {y.data}

(* Calls that go into the trace are in order and attributed.               *)
LEMMA FinalGood ==
    ASSUME NEW s, StateOK(s), NEW c, NEW n \in Nat, Traces(s, c, n),
           NEW d \in [Lists -> Seq(Entry)], d = s.deferred \/ d = NoEntries,
           NEW x \in CallsOf(s), NEW y, Final(y, x, s.preimages, d)
    PROVE  Orderly(y) /\ Attribution(y) /\ y.data.by = c.id /\ y.data.sys = c.sys
<1>1. /\ Named(s, c) /\ Filled(x, c, n) /\ Hashed(s) /\ Waiting(s, c, n) /\ x \in Call
      /\ x.lists \in [Lists -> Seq(Entry)] /\ y.lists \in [Lists -> Seq(Entry)]
      /\ s.preimages \in Seq([call : Nat, data : Data])
      /\ SameNode(y, x)
  BY CallsOfNumbers, StateParts DEF Traces, Shape, Content, Call, Final
<1>2. /\ x.data.by = c.id /\ x.data.sys = c.sys /\ (x.index = 1 => x.depth = 0)
      /\ y.data = x.data /\ y.depth = x.depth
  BY <1>1 DEF Named, SameNode
<1>3. ASSUME NEW k \in Lists
      PROVE  /\ Rising(d[k], n)
             /\ \A w \in ToSet(d[k]) : w.data = Voice(c, 0) /\ \A e \in ToSet(x.lists[k]) : e.ord < w.ord
  <2>1. CASE d = s.deferred
    BY <1>1, <2>1 DEF Waiting
  <2>2. CASE d = NoEntries
    <3>1. d[k] = <<>> /\ Len(<<>>) = 0 /\ ToSet(<<>>) = {}
      BY <2>2, EmptySeq DEF NoEntries, ToSet
    <3> QED BY <3>1 DEF Rising
  <2> QED BY <2>1, <2>2
<1> DEFINE joined(k) == IF x.index = 1 THEN x.lists[k] \o d[k] ELSE x.lists[k]
<1>4. ASSUME NEW k \in Lists
      PROVE  /\ joined(k) \in Seq(Entry) /\ Rising(joined(k), n)
             /\ \A e \in ToSet(joined(k)) : Belongs(e, x, c)
  <2>1. /\ x.lists[k] \in Seq(Entry) /\ d[k] \in Seq(Entry)
        /\ Rising(x.lists[k], n) /\ \A e \in ToSet(x.lists[k]) : Belongs(e, x, c)
    BY <1>1 DEF Filled
  <2>2. Rising(d[k], n)
        /\ \A w \in ToSet(d[k]) : w.data = Voice(c, 0) /\ \A e \in ToSet(x.lists[k]) : e.ord < w.ord
    BY <1>3
  <2>3. CASE x.index # 1
    BY <2>1, <2>3
  <2>4. CASE x.index = 1
    <3>1. joined(k) = x.lists[k] \o d[k]
      BY <2>4
    <3>2. Rising(x.lists[k] \o d[k], n)
      BY <2>1, <2>2, RisingJoin
    <3>3. ToSet(x.lists[k] \o d[k]) = ToSet(x.lists[k]) \cup ToSet(d[k])
      BY <2>1, ConcatToSet
    <3>4. \A e \in ToSet(d[k]) : Belongs(e, x, c)
      BY <1>2, <2>2, <2>4 DEF Belongs
    <3>5. x.lists[k] \o d[k] \in Seq(Entry)
      BY <2>1
    <3> QED BY <2>1, <3>1, <3>2, <3>3, <3>4, <3>5
  <2> QED BY <2>3, <2>4
<1>5. \A k \in Lists : SameList(y.lists[k], joined(k))
  BY DEF Final
<1> HIDE DEF joined
<1>6. Orderly(y)
  <2> SUFFICES ASSUME NEW k \in Lists, NEW i \in DOMAIN y.lists[k], NEW j \in DOMAIN y.lists[k], i < j
               PROVE  y.lists[k][i].ord < y.lists[k][j].ord
    BY DEF Orderly
  <2>1. y.lists[k] \in Seq(Entry) /\ Len(y.lists[k]) = Len(joined(k)) /\ DOMAIN y.lists[k] = 1..Len(y.lists[k])
    BY <1>1, <1>5 DEF SameList
  <2>2. i \in 1..Len(joined(k)) /\ j \in 1..Len(joined(k))
    BY <2>1
  <2>3. y.lists[k][i].ord = joined(k)[i].ord /\ y.lists[k][j].ord = joined(k)[j].ord
    BY <1>5, <2>2 DEF SameList
  <2> QED BY <1>4, <2>2, <2>3 DEF Rising
<1>7. ASSUME NEW k \in Lists, NEW e \in ToSet(y.lists[k])
      PROVE  e.data = y.data \/ (SameContext(e.data, y.data) /\ e.data.frame = 0 /\ y.depth = 0)
  <2>1. PICK i \in 1..Len(y.lists[k]) : e = y.lists[k][i]
    <3>1. y.lists[k] \in Seq(Entry)
      BY <1>1
    <3> QED BY <3>1, SeqElements
  <2>2. i \in 1..Len(joined(k)) /\ e.data = joined(k)[i].data
    BY <1>5, <2>1 DEF SameList
  <2>3. joined(k)[i] \in ToSet(joined(k))
    <3>1. joined(k) \in Seq(Entry)
      BY <1>4
    <3> QED BY <2>2, <3>1, SeqElements
  <2>4. Belongs(joined(k)[i], x, c)
    BY <1>4, <2>3
  <2> QED BY <1>2, <2>2, <2>4 DEF Belongs, Voice, SameContext
<1>8. y.preimages \subseteq {y.data}
  <2>1. x.preimages = {} /\ y.preimages \subseteq x.preimages \cup Own(s.preimages, x)
    BY <1>1 DEF Filled, Final
  <2>2. \A r \in ToSet(s.preimages) : r.call = x.index => r.data = x.data
    BY <1>1 DEF Hashed
  <2> QED BY <1>2, <2>1, <2>2 DEF Own
<1> QED BY <1>2, <1>6, <1>7, <1>8 DEF Attribution

(* Y is the calls of the state s as they go into the trace.                *)
Finals(Y, s, deferred) ==
    /\ IsFiniteSet(Y) /\ \A x, y \in Y : x.index = y.index => x = y
    /\ \A y \in Y : \E x \in CallsOf(s) : Final(y, x, s.preimages, deferred)
    /\ \A x \in CallsOf(s) : \E y \in Y : Final(y, x, s.preimages, deferred)

(* The tree is still the one that was traced.                              *)
LEMMA FinalsTree ==
    ASSUME NEW s, StateOK(s), s.callStack.stack = <<>>, NEW c, NEW n \in Nat, Traces(s, c, n),
           NEW d, NEW Y, Finals(Y, s, d)
    PROVE  /\ Y \in SUBSET Call /\ IsCallTree(Y) /\ Forest(Y, n) /\ \A y \in Y : Closed(y)
           /\ Indexes(Y) = 1..Len(s.trx.calls)
<1> DEFINE X == CallsOf(s)
<1>1. /\ X \in SUBSET Call /\ Named(s, c) /\ Forest(X, n) /\ X = ToSet(s.trx.calls)
      /\ Indexes(X) = 1..Len(s.trx.calls) /\ Len(s.trx.calls) \in Nat
  BY CallsOfNumbers, EndedNumbers DEF Traces, Shape
<1>2. \A x \in X : Closed(x)
  BY <1>1 DEF Named
<1> HIDE DEF X
<1>3. \A y, x : Final(y, x, s.preimages, d) =>
        /\ y \in Call /\ y.index = x.index /\ y.begin = x.begin /\ y.end = x.end /\ y.depth = x.depth
        /\ y.parent = x.parent /\ (Closed(y) <=> Closed(x)) /\ \A o : Covers(y, o) <=> Covers(x, o)
  BY DEF Final, SameNode, Closed, Covers
<1>4. \A y \in Y : \E x \in X : Final(y, x, s.preimages, d)
  BY DEF Finals, X
<1>5. \A x \in X : \E y \in Y : Final(y, x, s.preimages, d)
  BY DEF Finals, X
<1>6. Y \in SUBSET Call /\ \A y \in Y : Closed(y)
  BY <1>2, <1>3, <1>4
<1>7. SameCalls(X, Y, n)
  <2>1. \A y, x : Final(y, x, s.preimages, d) => Same(x, y, n)
    BY <1>3 DEF Same
  <2> QED BY <1>4, <1>5, <2>1 DEF SameCalls
<1>8. Timed(Y, n)
  BY <1>1, <1>3, <1>4 DEF Forest, Timed
<1>9. Nested(Y)
  <2> SUFFICES ASSUME NEW y \in Y, NEW q \in Around(Y, y) PROVE y.end < q.end
    BY <1>6 DEF Nested
  <2>1. q \in Y /\ Covers(q, y.begin)
    BY DEF Around
  <2>2. PICK x \in X : Final(y, x, s.preimages, d)
    BY <1>4
  <2>3. PICK p \in X : Final(q, p, s.preimages, d)
    BY <1>4, <2>1
  <2>4. p \in Around(X, x)
    BY <1>3, <2>1, <2>2, <2>3 DEF Around
  <2>5. x.end < p.end
    BY <1>1, <1>2, <2>4 DEF Forest, Nested
  <2> QED BY <1>3, <2>2, <2>3, <2>5
<1>10. Forest(Y, n)
  BY <1>1, <1>6, <1>7, <1>8, <1>9, ForestSame
<1>11. Indexes(Y) = Indexes(X)
  BY <1>3, <1>4, <1>5 DEF Indexes
<1>12. IsCallTree(Y)
  <2>1. IsFiniteSet(Y) /\ \A x, y \in Y : x.index = y.index => x = y
    BY DEF Finals
  <2> QED BY <1>1, <1>6, <1>10, <1>11, <2>1, EndedTree
<1> QED BY <1>1, <1>6, <1>10, <1>11, <1>12

(* The calls of a system call that ends.                                   *)
LEMMA SystemCallFinals ==
    ASSUME NEW s, StateOK(s), s.callStack.stack = <<>>
    PROVE  Finals(ToSet(AttachPreimages(s.trx.calls, s.preimages)), s, NoEntries)
<1> DEFINE calls == s.trx.calls
           after == AttachPreimages(calls, s.preimages)
           n     == Len(calls)
<1>1. /\ calls \in Seq(Call) /\ CallsOf(s) = ToSet(calls) /\ n \in Nat
      /\ s.preimages \in Seq([call : Nat, data : Data])
      /\ \A i, j \in 1..n : calls[i].index = calls[j].index => i = j
  BY EndedNumbers, StateParts
<1>2. after \in Seq(Call) /\ Len(after) = n
  BY <1>1, AttachPreimagesType
<1>3. ASSUME NEW i \in 1..n PROVE Final(after[i], calls[i], s.preimages, NoEntries)
  <2>1. /\ SameNode(after[i], calls[i]) /\ after[i].lists = calls[i].lists
        /\ after[i].preimages \subseteq calls[i].preimages \cup Own(s.preimages, calls[i])
    BY <1>1, AttachKeeps
  <2>2. calls[i] \in Call /\ after[i] \in Call
    BY <1>1, <1>2
  <2> HIDE DEF after
  <2>3. \A k \in Lists : /\ calls[i].lists[k] \o NoEntries[k] = calls[i].lists[k]
                         /\ SameList(after[i].lists[k], calls[i].lists[k])
    <3> TAKE k \in Lists
    <3>1. calls[i].lists[k] \in Seq(Entry)
      BY <2>2 DEF Call
    <3>2. NoEntries[k] = <<>>
      BY DEF NoEntries
    <3> QED BY <2>1, <3>1, <3>2 DEF SameList
  <2> QED BY <2>1, <2>2, <2>3 DEF Final
<1>4. \A i \in 1..n : after[i].index = calls[i].index
  BY <1>3 DEF Final, SameNode
<1> HIDE DEF after, calls
<1>5. /\ \A x : x \in ToSet(after) <=> \E i \in 1..n : after[i] = x
      /\ \A x : x \in ToSet(calls) <=> \E i \in 1..n : calls[i] = x
      /\ IsFiniteSet(ToSet(after))
  BY <1>1, <1>2, SeqElements, ToSetFinite
<1>6. \A x, y \in ToSet(after) : x.index = y.index => x = y
  BY <1>1, <1>4, <1>5
<1> QED BY <1>1, <1>3, <1>5, <1>6 DEF Finals, after, calls

(* What goes into list k of the call x.                                    *)
Joined(x, deferred, k) == IF x.index = 1 THEN x.lists[k] \o deferred[k] ELSE x.lists[k]

(* The calls of a transaction that ends.                                   *)
LEMMA TrxFinals ==
    ASSUME StateOK(cur), cur.callStack.stack = <<>>, cur.trx.calls # <<>>,
           NEW reverted, NEW final, final = RemoveLogBlockIndex(CompleteCalls, reverted)
    PROVE  /\ final \in Seq(Call) /\ Len(final) = Len(cur.trx.calls)
           /\ Finals(ToSet(final), cur, cur.deferred)
           /\ \A i \in 1..Len(final) : final[i].index = i /\ SameNode(final[i], CompleteCalls[i])
           /\ CompleteCalls \in Seq(Call) /\ Len(CompleteCalls) = Len(final)
           /\ \A i \in 1..Len(final) : \E x \in CallsOf(cur) :
                /\ x.index = i /\ SameNode(final[i], x)
                /\ \A k \in Lists : CompleteCalls[i].lists[k] = Joined(x, cur.deferred, k)
<1> DEFINE calls  == cur.trx.calls
           sorted == SortedByIndex(calls)
           rooted == [sorted EXCEPT ![1] = PopulateOnRoot(cur.deferred, sorted[1])]
           after  == AttachPreimages(rooted, cur.preimages)
           n      == Len(calls)
<1>1. /\ calls \in Seq(Call) /\ CallsOf(cur) = ToSet(calls) /\ n \in Nat /\ n # 0
      /\ cur.preimages \in Seq([call : Nat, data : Data])
      /\ cur.deferred \in [Lists -> Seq(Entry)]
      /\ \A i, j \in 1..n : calls[i].index = calls[j].index => i = j
      /\ Indexes(CallsOf(cur)) = 1..n
      /\ IsFiniteSet(CallsOf(cur)) /\ CallsOf(cur) \subseteq Call
      /\ \A x, y \in CallsOf(cur) : x.index = y.index => x = y
  BY EndedNumbers, StateParts, EmptySeq, CallsOfNumbers
<1>2. /\ sorted \in Seq(Call) /\ Len(sorted) = n /\ sorted # <<>>
      /\ \A i \in 1..n : \E j \in 1..n : sorted[i] = calls[j]
      /\ \A j \in 1..n : \E i \in 1..n : sorted[i] = calls[j]
  BY <1>1, SortedByIndexType, EmptySeq
<1>3. CompleteCalls = after
  BY DEF CompleteCalls
<1>4. ToSet(sorted) = CallsOf(cur)
  <2> HIDE DEF sorted, calls
  <2>1. \A x : x \in ToSet(sorted) <=> \E i \in 1..Len(sorted) : sorted[i] = x
    BY <1>2, SeqElements
  <2>2. \A x : x \in ToSet(calls) <=> \E i \in 1..Len(calls) : calls[i] = x
    <3>1. calls \in Seq(Call)
      BY <1>1
    <3> QED BY <3>1, SeqElements
  <2>3. \A x : x \in ToSet(sorted) <=> x \in ToSet(calls)
    <3>1. /\ Len(sorted) = Len(calls)
          /\ \A i \in 1..Len(calls) : \E j \in 1..Len(calls) : sorted[i] = calls[j]
          /\ \A j \in 1..Len(calls) : \E i \in 1..Len(calls) : sorted[i] = calls[j]
      BY <1>2
    <3>2. ASSUME NEW x, x \in ToSet(sorted) PROVE x \in ToSet(calls)
      <4>1. PICK i \in 1..Len(sorted) : sorted[i] = x
        BY <2>1, <3>2
      <4>2. PICK j \in 1..Len(calls) : sorted[i] = calls[j]
        BY <3>1
      <4> QED BY <2>2, <4>1, <4>2
    <3>3. ASSUME NEW x, x \in ToSet(calls) PROVE x \in ToSet(sorted)
      <4>1. PICK j \in 1..Len(calls) : calls[j] = x
        BY <2>2, <3>3
      <4>2. PICK i \in 1..Len(sorted) : sorted[i] = calls[j]
        BY <3>1
      <4> QED BY <2>1, <4>1, <4>2
    <3> QED BY <3>2, <3>3
  <2>4. ToSet(sorted) = ToSet(calls)
    BY <2>3
  <2> QED BY <1>1, <2>4
<1>5. \A i \in 1..n : sorted[i].index = i
  <2> TAKE i \in 1..n
  <2> DEFINE X == CallsOf(cur)
             x == sorted[i]
             B == {d \in X : d.index <= x.index}
             f == [d \in B |-> d.index]
  <2>1. Cardinality(B) = i
    BY <1>1, SortKeeps
  <2>2. x \in X
    <3> HIDE DEF sorted
    <3>1. i \in 1..Len(sorted)
      BY <1>2
    <3>2. sorted[i] \in ToSet(sorted)
      BY <1>2, <3>1, SeqElements
    <3> QED BY <1>4, <3>2
  <2> HIDE DEF x
  <2>3. x.index \in 1..n /\ \A d \in X : d.index \in 1..n
    BY <1>1, <2>2 DEF Indexes
  <2>4. \A j \in 1..n : \E d \in X : d.index = j
    BY <1>1 DEF Indexes
  <2>5. {f[d] : d \in B} = 1..x.index
    BY <2>3, <2>4
  <2>6. IsFiniteSet(B) /\ \A d, e \in B : f[d] = f[e] => d = e
    BY <1>1, FS_Subset
  <2> HIDE DEF f, B
  <2> DEFINE K == {f[d] : d \in B}
  <2>7. Cardinality(K) = Cardinality(B)
    BY <2>6, CountedByKey
  <2> HIDE DEF K
  <2>8. K = 1..x.index
    BY <2>5 DEF K
  <2>9. x.index \in Nat
    BY <2>3
  <2>10. Cardinality(1..x.index) = x.index
    BY <2>9, FS_Interval
  <2> QED BY <2>1, <2>7, <2>8, <2>10 DEF x
<1> HIDE DEF sorted
<1>6. rooted \in Seq(Call) /\ Len(rooted) = n /\ rooted = [sorted EXCEPT ![1] = PopulateOnRoot(cur.deferred, sorted[1])]
  <2>1. 1 \in 1..n /\ sorted[1] \in Call
    BY <1>1, <1>2
  <2>2. PopulateOnRoot(cur.deferred, sorted[1]) \in Call
    BY <1>1, <2>1, PopulateType
  <2> QED BY <1>2, <2>1, <2>2
<1> HIDE DEF rooted
<1>7. after \in Seq(Call) /\ Len(after) = n
  BY <1>1, <1>6, AttachPreimagesType
<1> HIDE DEF after
<1>8. final \in Seq(Call) /\ Len(final) = n
  BY <1>3, <1>7, RemoveLogBlockIndexType
<1>9. ASSUME NEW i \in 1..n
      PROVE  /\ SameNode(final[i], after[i]) /\ Final(final[i], sorted[i], cur.preimages, cur.deferred)
             /\ \A k \in Lists : after[i].lists[k] = Joined(sorted[i], cur.deferred, k)
  <2> DEFINE d == cur.deferred
             p == cur.preimages
  <2>a. /\ sorted \in Seq(Call) /\ sorted # <<>> /\ rooted \in Seq(Call)
        /\ rooted[1] = PopulateOnRoot(d, sorted[1])
        /\ \A j \in 1..Len(sorted) : j # 1 => rooted[j] = sorted[j]
        /\ d \in [Lists -> Seq(Entry)] /\ p \in Seq([call : Nat, data : Data])
    <3> DEFINE root == PopulateOnRoot(cur.deferred, sorted[1])
    <3>1. DOMAIN sorted = 1..Len(sorted) /\ sorted # <<>> /\ sorted \in Seq(Call)
      BY <1>2
    <3>2. 1 \in DOMAIN sorted
      BY <3>1, EmptySeq
    <3>3. rooted = [sorted EXCEPT ![1] = root]
      BY <1>6
    <3> HIDE DEF root
    <3>4. rooted[1] = root /\ \A j \in 1..Len(sorted) : j # 1 => rooted[j] = sorted[j]
      BY <3>1, <3>2, <3>3
    <3> QED BY <1>1, <1>6, <3>1, <3>4 DEF root
  <2>0. i \in 1..Len(sorted) /\ i \in 1..Len(rooted) /\ i \in 1..Len(after)
    BY <1>2, <1>6, <1>7
  <2>1. /\ SameNode(final[i], after[i])
        /\ final[i].preimages = after[i].preimages
        /\ \A k \in Lists : SameList(final[i].lists[k], after[i].lists[k])
    BY <1>3, <1>7, <2>0, RemoveKeeps
  <2>2. /\ SameNode(after[i], rooted[i]) /\ after[i].lists = rooted[i].lists
        /\ after[i].preimages \subseteq rooted[i].preimages \cup Own(cur.preimages, rooted[i])
    <3> HIDE DEF p
    <3> QED BY ONLY <2>0, <2>a, AttachKeeps DEF after, p
  <2>3. /\ SameNode(rooted[i], sorted[i]) /\ rooted[i].preimages = sorted[i].preimages
        /\ \A k \in Lists : rooted[i].lists[k] = IF i = 1 THEN sorted[i].lists[k] \o d[k] ELSE sorted[i].lists[k]
    <3> DEFINE root == PopulateOnRoot(d, sorted[i])
    <3>1. sorted[i] \in Call
      BY <2>0, <2>a
    <3>2. /\ SameNode(root, sorted[i]) /\ root.preimages = sorted[i].preimages
          /\ \A k \in Lists : root.lists[k] = sorted[i].lists[k] \o d[k]
      <4> HIDE DEF d
      <4> QED BY <2>a, <3>1, RootKeeps
    <3>3. SameNode(sorted[i], sorted[i])
      BY DEF SameNode
    <3>4. rooted[i] = IF i = 1 THEN root ELSE sorted[i]
      BY <2>0, <2>a
    <3> HIDE DEF root, d
    <3>5. CASE i = 1
      <4>1. rooted[i] = root
        BY <3>4, <3>5
      <4> QED BY <3>2, <3>5, <4>1
    <3>6. CASE i # 1
      <4>1. rooted[i] = sorted[i]
        BY <3>4, <3>6
      <4> QED BY <3>3, <3>6, <4>1
    <3> QED BY <3>5, <3>6
  <2>5. SameNode(final[i], sorted[i])
    BY <2>1, <2>2, <2>3 DEF SameNode
  <2>6. Own(cur.preimages, rooted[i]) = Own(cur.preimages, sorted[i])
    BY <2>3 DEF Own, SameNode
  <2>7. final[i].preimages \subseteq sorted[i].preimages \cup Own(cur.preimages, sorted[i])
    BY <2>1, <2>2, <2>3, <2>6
  <2>8. \A k \in Lists : rooted[i].lists[k] = IF sorted[i].index = 1 THEN sorted[i].lists[k] \o cur.deferred[k]
                                              ELSE sorted[i].lists[k]
    BY <1>5, <2>3
  <2>9. final[i] \in Call
    BY <1>8
  <2>10. \A k \in Lists : after[i].lists[k] = Joined(sorted[i], cur.deferred, k)
    BY <2>2, <2>8 DEF Joined
  <2> QED BY <2>1, <2>2, <2>5, <2>7, <2>8, <2>9, <2>10 DEF Final
<1>10. \A i \in 1..n : final[i].index = i
  BY <1>5, <1>9 DEF Final, SameNode
<1>11. /\ \A x : x \in ToSet(final) <=> \E i \in 1..n : final[i] = x
       /\ \A x : x \in ToSet(sorted) <=> \E i \in 1..n : sorted[i] = x
       /\ IsFiniteSet(ToSet(final))
  <2>1. \A x : x \in ToSet(final) <=> \E i \in 1..Len(final) : final[i] = x
    BY <1>8, SeqElements
  <2>2. \A x : x \in ToSet(sorted) <=> \E i \in 1..Len(sorted) : sorted[i] = x
    BY <1>2, SeqElements
  <2>3. IsFiniteSet(ToSet(final))
    BY <1>8, ToSetFinite
  <2> QED BY <1>2, <1>8, <2>1, <2>2, <2>3
<1>12. \A x, y \in ToSet(final) : x.index = y.index => x = y
  BY <1>10, <1>11
<1>13. Finals(ToSet(final), cur, cur.deferred)
  BY <1>4, <1>9, <1>11, <1>12 DEF Finals
<1>14. ASSUME NEW i \in 1..n
       PROVE  \E x \in CallsOf(cur) : /\ x.index = i /\ SameNode(final[i], x)
                                      /\ \A k \in Lists : after[i].lists[k] = Joined(x, cur.deferred, k)
  <2>1. sorted[i] \in CallsOf(cur)
    BY <1>4, <1>11
  <2> QED BY <1>5, <1>9, <2>1 DEF Final
<1> QED BY <1>3, <1>7, <1>8, <1>9, <1>10, <1>13, <1>14

-----------------------------------------------------------------------------
(* Log indexes                                                             *)

Emitted(Y) == UNION {ToSet(y.lists["log"]) : y \in Y}

(* Each ordinal is found once in the logs of the calls, deferred ones      *)
(* included.                                                               *)
LEMMA JoinedLogs ==
    ASSUME NEW s, StateOK(s), NEW c, NEW n \in Nat, Traces(s, c, n), NEW x \in CallsOf(s)
    PROVE  /\ Joined(x, s.deferred, "log") \in Seq(Entry)
           /\ \A e : e \in ToSet(Joined(x, s.deferred, "log")) <=>
                   e \in ToSet(x.lists["log"]) \/ (x.index = 1 /\ e \in ToSet(s.deferred["log"]))
           /\ \A i, j \in 1..Len(Joined(x, s.deferred, "log")) :
                Joined(x, s.deferred, "log")[i].ord = Joined(x, s.deferred, "log")[j].ord => i = j
<1> DEFINE k == "log"
           a == x.lists[k]
           b == s.deferred[k]
           l == Joined(x, s.deferred, k)
<1>1. k \in Lists
  BY DEF Lists
<1>2. /\ x \in Call /\ a \in Seq(Entry) /\ b \in Seq(Entry)
      /\ Filled(x, c, n) /\ Waiting(s, c, n)
  BY <1>1, CallsOfNumbers, StateParts DEF Traces, Content, Call
<1>3. /\ Rising(a, n) /\ Rising(b, n)
      /\ \A e \in ToSet(a), w \in ToSet(b) : e.ord < w.ord
  BY <1>1, <1>2 DEF Filled, Waiting
<1>4. a \o b \in Seq(Entry) /\ Rising(a \o b, n) /\ ToSet(a \o b) = ToSet(a) \cup ToSet(b)
  <2> HIDE DEF a, b
  <2> QED BY <1>2, <1>3, RisingJoin, ConcatToSet
<1>5. l = IF x.index = 1 THEN a \o b ELSE a
  BY DEF Joined
<1> HIDE DEF l, a, b
<1>6. l \in Seq(Entry) /\ Rising(l, n)
  BY <1>2, <1>3, <1>4, <1>5
<1>7. \A e : e \in ToSet(l) <=> e \in ToSet(a) \/ (x.index = 1 /\ e \in ToSet(b))
  BY <1>4, <1>5
<1>8. ASSUME NEW i \in 1..Len(l), NEW j \in 1..Len(l), l[i].ord = l[j].ord PROVE i = j
  <2>1. l[i].ord \in Nat /\ l[j].ord \in Nat /\ i \in Nat /\ j \in Nat
    BY <1>6, EntryOrds
  <2>2. i < j => l[i].ord < l[j].ord
    BY <1>6 DEF Rising
  <2>3. j < i => l[j].ord < l[i].ord
    BY <1>6 DEF Rising
  <2> QED BY <1>8, <2>1, <2>2, <2>3
<1> QED BY <1>6, <1>7, <1>8 DEF l, a, b

(* Two logs of different calls, deferred ones included, have different     *)
(* ordinals.                                                               *)
LEMMA JoinedApart ==
    ASSUME NEW s, StateOK(s), NEW c, NEW n \in Nat, Traces(s, c, n),
           NEW x \in CallsOf(s), NEW y \in CallsOf(s),
           NEW e \in ToSet(Joined(x, s.deferred, "log")), NEW f \in ToSet(Joined(y, s.deferred, "log")),
           e.ord = f.ord
    PROVE  x = y
<1>1. "log" \in Lists
  BY DEF Lists
<1>2. /\ e \in ToSet(x.lists["log"]) \/ (x.index = 1 /\ e \in ToSet(s.deferred["log"]))
      /\ f \in ToSet(y.lists["log"]) \/ (y.index = 1 /\ f \in ToSet(s.deferred["log"]))
  BY JoinedLogs
<1>3. e \in Entry /\ f \in Entry
  <2>1. Joined(x, s.deferred, "log") \in Seq(Entry) /\ Joined(y, s.deferred, "log") \in Seq(Entry)
    BY JoinedLogs
  <2> QED BY <2>1, SeqElements
<1>4. e.ord \in Nat /\ f.ord \in Nat
  BY <1>3 DEF Entry
<1>5. Waiting(s, c, n) /\ Apart(CallsOf(s)) /\ \A u, v \in CallsOf(s) : u.index = v.index => u = v
  BY CallsOfNumbers DEF Traces, Content
<1>6. CASE e \in ToSet(x.lists["log"]) /\ f \in ToSet(y.lists["log"])
  BY <1>1, <1>5, <1>6 DEF Apart
<1>7. CASE e \in ToSet(s.deferred["log"]) /\ f \in ToSet(y.lists["log"])
  <2>1. f.ord < e.ord
    BY <1>1, <1>5, <1>7 DEF Waiting
  <2> QED BY <1>4, <2>1
<1>8. CASE e \in ToSet(x.lists["log"]) /\ f \in ToSet(s.deferred["log"])
  <2>1. e.ord < f.ord
    BY <1>1, <1>5, <1>8 DEF Waiting
  <2> QED BY <1>4, <2>1
<1>9. CASE x.index = 1 /\ y.index = 1
  BY <1>5, <1>9
<1> QED BY <1>2, <1>6, <1>7, <1>8, <1>9

(* The logs that go into the trace: each is one that the tracer had, with  *)
(* its ordinal and index; none is missing, and no two have one ordinal.    *)
LEMMA FinalsLogs ==
    ASSUME NEW s, StateOK(s), NEW c, NEW n \in Nat, Traces(s, c, n),
           NEW Y, Finals(Y, s, s.deferred), \E x \in CallsOf(s) : x.index = 1
    PROVE  /\ \A l \in Emitted(Y) : \E r \in AllLogs(s) : l.ord = r.ord /\ l.index = r.index /\ l.data = r.data
           /\ \A r \in AllLogs(s) : \E l \in Emitted(Y) : l.ord = r.ord /\ l.index = r.index /\ l.data = r.data
           /\ \A l, m \in Emitted(Y) : l.ord = m.ord => l = m
<1> DEFINE X    == CallsOf(s)
           d    == s.deferred
           J(x) == Joined(x, d, "log")
<1>1. "log" \in Lists
  BY DEF Lists
<1>2. \A x \in X : /\ J(x) \in Seq(Entry)
                   /\ \A e : e \in ToSet(J(x)) <=>
                        e \in ToSet(x.lists["log"]) \/ (x.index = 1 /\ e \in ToSet(d["log"]))
                   /\ \A i, j \in 1..Len(J(x)) : J(x)[i].ord = J(x)[j].ord => i = j
  BY JoinedLogs
<1>3. \A r : r \in AllLogs(s) <=> \E x \in X : r \in ToSet(J(x))
  <2>1. \A r : r \in AllLogs(s) <=>
            (\E x \in X : r \in ToSet(x.lists["log"])) \/ r \in ToSet(d["log"])
    BY LogsOf
  <2> HIDE DEF J
  <2> QED BY <1>2, <2>1
<1>4. ASSUME NEW x \in X, NEW y, Final(y, x, s.preimages, d)
      PROVE  /\ y.lists["log"] \in Seq(Entry) /\ Len(y.lists["log"]) = Len(J(x))
             /\ \A i \in 1..Len(J(x)) :
                  /\ y.lists["log"][i].ord = J(x)[i].ord /\ y.lists["log"][i].index = J(x)[i].index
                  /\ y.lists["log"][i].data = J(x)[i].data
             /\ y.index = x.index
  <2>1. y \in Call /\ SameNode(y, x) /\ SameList(y.lists["log"], J(x))
    BY <1>1, <1>4 DEF Final, Joined
  <2>2. y.lists["log"] \in Seq(Entry)
    BY <1>1, <2>1 DEF Call
  <2> HIDE DEF J
  <2> QED BY <2>1, <2>2 DEF SameNode, SameList
<1>5. \A x, y \in X : \A e \in ToSet(J(x)), f \in ToSet(J(y)) : e.ord = f.ord => x = y
  BY JoinedApart
<1> HIDE DEF J, d
<1>6. ASSUME NEW l \in Emitted(Y)
      PROVE  \E y \in Y, x \in X : \E i \in 1..Len(J(x)) :
                Final(y, x, s.preimages, d) /\ l = y.lists["log"][i]
  <2>1. PICK y \in Y : l \in ToSet(y.lists["log"])
    BY DEF Emitted
  <2>2. PICK x \in X : Final(y, x, s.preimages, d)
    BY DEF Finals, d
  <2>3. PICK i \in 1..Len(y.lists["log"]) : l = y.lists["log"][i]
    <3>1. y.lists["log"] \in Seq(Entry)
      BY <1>4, <2>2
    <3> QED BY <2>1, <3>1, SeqElements
  <2> QED BY <1>4, <2>2, <2>3
<1>7. ASSUME NEW l \in Emitted(Y) PROVE \E r \in AllLogs(s) : l.ord = r.ord /\ l.index = r.index /\ l.data = r.data
  <2>1. PICK y \in Y, x \in X : \E i \in 1..Len(J(x)) :
                Final(y, x, s.preimages, d) /\ l = y.lists["log"][i]
    BY <1>6
  <2>2. PICK i \in 1..Len(J(x)) : Final(y, x, s.preimages, d) /\ l = y.lists["log"][i]
    BY <2>1
  <2>3. J(x)[i] \in ToSet(J(x))
    BY <1>2, SeqElements
  <2> QED BY <1>3, <1>4, <2>2, <2>3
<1>8. ASSUME NEW r \in AllLogs(s) PROVE \E l \in Emitted(Y) : l.ord = r.ord /\ l.index = r.index /\ l.data = r.data
  <2>1. PICK x \in X : r \in ToSet(J(x))
    BY <1>3
  <2>2. PICK i \in 1..Len(J(x)) : r = J(x)[i]
    BY <1>2, <2>1, SeqElements
  <2>3. PICK y \in Y : Final(y, x, s.preimages, d)
    BY DEF Finals, d
  <2>4. y.lists["log"][i] \in ToSet(y.lists["log"])
    <3>1. y.lists["log"] \in Seq(Entry) /\ i \in 1..Len(y.lists["log"])
      BY <1>4, <2>3
    <3> QED BY <3>1, SeqElements
  <2>5. y.lists["log"][i] \in Emitted(Y)
    BY <2>4 DEF Emitted
  <2> QED BY <1>4, <2>2, <2>3, <2>5
<1>9. ASSUME NEW l \in Emitted(Y), NEW m \in Emitted(Y), l.ord = m.ord PROVE l = m
  <2>1. PICK y \in Y, x \in X : \E i \in 1..Len(J(x)) :
                Final(y, x, s.preimages, d) /\ l = y.lists["log"][i]
    BY <1>6
  <2>2. PICK i \in 1..Len(J(x)) : Final(y, x, s.preimages, d) /\ l = y.lists["log"][i]
    BY <2>1
  <2>3. PICK z \in Y, w \in X : \E j \in 1..Len(J(w)) :
                Final(z, w, s.preimages, d) /\ m = z.lists["log"][j]
    BY <1>6
  <2>4. PICK j \in 1..Len(J(w)) : Final(z, w, s.preimages, d) /\ m = z.lists["log"][j]
    BY <2>3
  <2>5. J(x)[i] \in ToSet(J(x)) /\ J(w)[j] \in ToSet(J(w)) /\ J(x)[i].ord = J(w)[j].ord
    <3>1. J(x)[i] \in ToSet(J(x))
      BY <1>2, SeqElements
    <3>2. J(w)[j] \in ToSet(J(w))
      BY <1>2, SeqElements
    <3>3. l.ord = J(x)[i].ord /\ m.ord = J(w)[j].ord
      BY <1>4, <2>2, <2>4
    <3> QED BY <1>9, <3>1, <3>2, <3>3
  <2>6. x = w
    BY <1>5, <2>5
  <2>7. i = j
    BY <1>2, <2>5, <2>6
  <2>8. y = z
    <3>1. y.index = z.index
      BY <1>4, <2>2, <2>4, <2>6
    <3> QED BY <3>1 DEF Finals
  <2> QED BY <2>2, <2>4, <2>7, <2>8
<1> QED BY <1>7, <1>8, <1>9

(* They are numbered from 0 in the order they were emitted.                *)
LEMMA FinalsDense ==
    ASSUME NEW s, StateOK(s), NEW c, NEW n \in Nat, Traces(s, c, n), LogsOK(s, n),
           NEW Y, Finals(Y, s, s.deferred), \E x \in CallsOf(s) : x.index = 1
    PROVE  \A l \in Emitted(Y) : l.index = Cardinality({m \in Emitted(Y) : m.ord < l.ord})
<1> DEFINE E == Emitted(Y)
           O == Ords(AllLogs(s))
<1>1. /\ \A l \in E : \E r \in AllLogs(s) : l.ord = r.ord /\ l.index = r.index
      /\ \A r \in AllLogs(s) : \E l \in E : l.ord = r.ord
      /\ \A l, m \in E : l.ord = m.ord => l = m
  BY FinalsLogs
<1>2. IsFiniteSet(O)
  <2> DEFINE L == AllLogs(s)
             g == [l \in L |-> l.ord]
  <2>1. IsFiniteSet(L) /\ \A l, m \in L : g[l] = g[m] => l = m
    BY LogsOf DEF LogsOK
  <2>2. O = {g[l] : l \in L}
    BY DEF Ords
  <2> HIDE DEF g, O, L
  <2> QED BY <2>1, <2>2, CountedByKey
<1> SUFFICES ASSUME NEW l \in E PROVE l.index = Cardinality({m \in E : m.ord < l.ord})
  OBVIOUS
<1> DEFINE S == {o \in O : o < l.ord}
           f == [o \in S |-> CHOOSE m \in E : m.ord = o]
<1>3. l.index = Cardinality(S)
  BY <1>1 DEF Traces, Ranked
<1>4. \A o \in S : f[o] \in E /\ f[o].ord = o
  <2> TAKE o \in S
  <2>1. \E m \in E : m.ord = o
    BY <1>1 DEF Ords
  <2>2. f[o] = CHOOSE m \in E : m.ord = o
    OBVIOUS
  <2> HIDE DEF f, S, E
  <2> QED BY <2>1, <2>2
<1>5. \A m \in E : m.ord \in O
  BY <1>1 DEF Ords
<1>6. {f[o] : o \in S} = {m \in E : m.ord < l.ord}
  <2>1. \A o \in S : f[o] \in {m \in E : m.ord < l.ord}
    BY <1>4
  <2>2. \A m \in E : m.ord < l.ord => m.ord \in S /\ f[m.ord] = m
    BY <1>1, <1>4, <1>5
  <2> HIDE DEF f, S
  <2> QED BY <2>1, <2>2
<1>7. IsFiniteSet(S) /\ \A o, p \in S : f[o] = f[p] => o = p
  BY <1>2, <1>4, FS_Subset
<1> HIDE DEF f, S
<1> DEFINE K == {f[o] : o \in S}
<1>8. Cardinality(K) = Cardinality(S)
  BY <1>7, CountedByKey
<1> QED BY <1>3, <1>6, <1>8

-----------------------------------------------------------------------------
(* Reverted state                                                          *)

(* The order of the naturals is well founded.                              *)
LEMMA LeastNat ==
    ASSUME NEW T, T \subseteq Nat, T # {}
    PROVE  \E x \in T : \A y \in T : ~(y < x)
<1> DEFINE R == OpToRel(<, Nat)
<1>1. IsWellFoundedOn(R, Nat)
  BY NatLessThanWellFounded
<1>2. \A x, y \in Nat : y < x => <<y, x>> \in R
  BY DEF OpToRel
<1> HIDE DEF R
<1>3. \E x \in T : \A y \in T : ~(<<y, x>> \in R)
  BY <1>1, WFMin
<1> QED BY <1>2, <1>3

Failing(x) == x.outcome \in {"failed", "reverted"}

(* What populateStateReverted computes is the one function that satisfies  *)
(* its equation.                                                           *)
LEMMA RevertedUnique ==
    ASSUME NEW calls \in Seq(Call), NEW R \in SUBSET Nat,
           \A i \in DOMAIN calls : i \in R <=> \/ Failing(calls[i])
                                               \/ calls[i].parent \in 1..(i - 1) /\ calls[i].parent \in R
    PROVE  StateReverted(calls) = {i \in DOMAIN calls : i \in R}
<1> DEFINE Eq(r) == r = [i \in DOMAIN calls |->
                            \/ calls[i].outcome \in {"failed", "reverted"}
                            \/ calls[i].parent \in 1..(i - 1) /\ r[calls[i].parent]]
           f == [i \in DOMAIN calls |-> i \in R]
           g == CHOOSE r : Eq(r)
<1>1. DOMAIN calls = 1..Len(calls) /\ Len(calls) \in Nat /\ \A i \in 1..Len(calls) : calls[i].parent \in Nat
  BY CallsType
<1>2. Eq(f)
  <2> DEFINE h == [i \in DOMAIN calls |->
                            \/ calls[i].outcome \in {"failed", "reverted"}
                            \/ calls[i].parent \in 1..(i - 1) /\ f[calls[i].parent]]
  <2>1. ASSUME NEW i \in DOMAIN calls PROVE f[i] = h[i]
    <3>1. calls[i].parent \in 1..(i - 1) => calls[i].parent \in DOMAIN calls
      BY <1>1
    <3> DEFINE p == calls[i].parent
               bad == calls[i].outcome \in {"failed", "reverted"}
    <3>2. f[i] = (i \in R)
      OBVIOUS
    <3>3. h[i] = (bad \/ (p \in 1..(i - 1) /\ f[p]))
      OBVIOUS
    <3>4. p \in 1..(i - 1) => (f[p] = (p \in R))
      BY <3>1
    <3>5. i \in R <=> (bad \/ (p \in 1..(i - 1) /\ p \in R))
      BY DEF Failing
    <3> HIDE DEF f, h, bad, p
    <3>6. CASE i \in R
      <4>1. f[i] = TRUE
        BY <3>2, <3>6, Zenon
      <4>2. bad \/ (p \in 1..(i - 1) /\ f[p])
        BY <3>4, <3>5, <3>6, Zenon
      <4>3. h[i] = TRUE
        BY <3>3, <4>2, Zenon
      <4> QED BY <4>1, <4>3, Zenon
    <3>7. CASE i \notin R
      <4>0. (i \in R) = FALSE
        BY <3>7
      <4>1. f[i] = FALSE
        BY <3>2, <4>0, Zenon
      <4>2. ~(bad \/ (p \in 1..(i - 1) /\ f[p]))
        BY <3>4, <3>5, <3>7, Zenon
      <4>3. h[i] = FALSE
        BY <3>3, <4>2, Zenon
      <4> QED BY <4>1, <4>3, Zenon
    <3> QED BY <3>6, <3>7, Zenon
  <2>2. f = [i \in DOMAIN calls |-> f[i]] /\ h = [i \in DOMAIN calls |-> h[i]]
    OBVIOUS
  <2> HIDE DEF f, h
  <2>3. f = h
    BY <2>1, <2>2
  <2> QED BY <2>3 DEF h
<1>3. Eq(g)
  <2>1. \E r : Eq(r)
    BY <1>2
  <2> HIDE DEF Eq
  <2> QED BY <2>1
<1>4. StateReverted(calls) = {i \in DOMAIN calls : g[i]}
  BY Zenon DEF StateReverted
<1> HIDE DEF g
<1>5. ASSUME NEW i \in DOMAIN calls
      PROVE  g[i] <=> Failing(calls[i]) \/ (calls[i].parent \in 1..(i - 1) /\ g[calls[i].parent])
  BY <1>3, Zenon DEF Failing
<1> HIDE DEF Eq, f
<1> DEFINE T == {i \in DOMAIN calls : ~(g[i] <=> i \in R)}
<1>6. T = {}
  <2> SUFFICES ASSUME T # {} PROVE FALSE
    OBVIOUS
  <2>1. T \subseteq Nat
    BY <1>1
  <2>2. PICK i \in T : \A j \in T : ~(j < i)
    BY <2>1, LeastNat
  <2>3. i \in DOMAIN calls /\ ~(g[i] <=> i \in R)
    OBVIOUS
  <2> DEFINE p == calls[i].parent
  <2>4. ASSUME p \in 1..(i - 1) PROVE g[p] <=> p \in R
    <3>1. p \in DOMAIN calls /\ p < i
      BY <1>1, <2>3, <2>4
    <3>2. p \notin T
      BY <2>2, <3>1
    <3> QED BY <3>1, <3>2
  <2>5. g[i] <=> Failing(calls[i]) \/ (p \in 1..(i - 1) /\ g[p])
    BY <1>5, <2>3
  <2>6. i \in R <=> Failing(calls[i]) \/ (p \in 1..(i - 1) /\ p \in R)
    BY <2>3
  <2> QED BY <2>3, <2>4, <2>5, <2>6
<1>7. \A i \in DOMAIN calls : g[i] <=> i \in R
  BY <1>6
<1> QED BY <1>4, <1>7

(* A call fails or one around it does: that goes by the parent.            *)
LEMMA RevertedTree ==
    ASSUME NEW F \in Seq(Call), NEW m \in Nat, Forest(ToSet(F), m),
           \A y \in ToSet(F) : Closed(y), \A i \in 1..Len(F) : F[i].index = i,
           NEW calls \in Seq(Call), Len(calls) = Len(F), \A i \in 1..Len(F) : SameNode(F[i], calls[i])
    PROVE  StateReverted(calls) =
               {i \in DOMAIN F : \E f \in ToSet(F) :
                   /\ f.outcome \in {"failed", "reverted"}
                   /\ f.begin <= F[i].begin /\ F[i].end <= f.end}
<1> DEFINE Y == ToSet(F)
           R == {i \in DOMAIN F : \E f \in Y : Failing(f) /\ f.begin <= F[i].begin /\ F[i].end <= f.end}
<1>1. /\ DOMAIN F = 1..Len(F) /\ DOMAIN calls = 1..Len(F) /\ Len(F) \in Nat
      /\ \A y : y \in Y <=> \E i \in 1..Len(F) : F[i] = y
      /\ \A i \in 1..Len(F) : F[i] \in Y
      /\ Y \subseteq Call
  BY SeqElements
<1>2. \A y \in Y : /\ y.begin \in Nat /\ y.end \in Nat /\ y.index \in 1..Len(F) /\ F[y.index] = y
                   /\ y.begin < y.end /\ Closed(y)
  <2> TAKE y \in Y
  <2>1. PICK i \in 1..Len(F) : F[i] = y
    BY <1>1
  <2>2. y.index = i /\ y \in Call
    BY <1>1, <2>1
  <2>3. y.begin \in Nat /\ y.end \in Nat
    BY <2>2 DEF Call
  <2>4. Timed(Y, m) /\ Closed(y)
    BY DEF Forest
  <2>5. y.begin < y.end
    BY <2>4 DEF Timed
  <2> HIDE DEF Y
  <2> QED BY <2>1, <2>2, <2>3, <2>4, <2>5
<1>3. \A x, y \in Y : x.index < y.index <=> x.begin < y.begin
  BY DEF Forest, Numbering
<1>4. \A x, y \in Y : x.begin = y.begin => x = y
  <2> TAKE x \in Y, y \in Y
  <2>1. x.index \in Nat /\ y.index \in Nat
    BY <1>2
  <2>2. x.begin = y.begin => x.index = y.index
    BY <1>2, <1>3, <2>1
  <2> QED BY <1>2, <2>2
<1>5. \A x, y \in Y : y \in Around(Y, x) <=> y.begin < x.begin /\ x.begin < y.end
  BY <1>2 DEF Around, Covers
<1>6. \A x, y \in Y : y \in Around(Y, x) => x.end < y.end
  BY <1>2 DEF Forest, Nested
<1>7. \A x \in Y : Placing(Y, x)
  BY DEF Forest
<1> HIDE DEF Y
<1>8. \A x, f \in Y : f.begin <= x.begin /\ x.end <= f.end <=> f = x \/ f \in Around(Y, x)
  <2> TAKE x \in Y, f \in Y
  <2>1. /\ x.begin \in Nat /\ x.end \in Nat /\ f.begin \in Nat /\ f.end \in Nat
        /\ x.begin < x.end
    BY <1>2
  <2>2. x.begin = f.begin => x = f
    BY <1>4
  <2>3. f \in Around(Y, x) <=> f.begin < x.begin /\ x.begin < f.end
    BY <1>5
  <2>4. f \in Around(Y, x) => x.end < f.end
    BY <1>6
  <2> QED BY <2>1, <2>2, <2>3, <2>4
<1>9. ASSUME NEW i \in DOMAIN calls
      PROVE  i \in R <=> \/ Failing(calls[i])
                         \/ calls[i].parent \in 1..(i - 1) /\ calls[i].parent \in R
  <2> DEFINE x == F[i]
  <2>1. i \in 1..Len(F) /\ x \in Y /\ x.index = i
    BY <1>1
  <2>2. calls[i].parent = x.parent /\ calls[i].outcome = x.outcome
    BY <2>1 DEF SameNode
  <2>3. Failing(calls[i]) <=> Failing(x)
    BY <2>2 DEF Failing
  <2>4. \A j \in 1..Len(F) : j \in R <=> \E f \in Y : Failing(f) /\ (f = F[j] \/ f \in Around(Y, F[j]))
    BY <1>1, <1>8
  <2> HIDE DEF R, x
  <2>5. i \in R <=> Failing(x) \/ \E f \in Around(Y, x) : Failing(f)
    BY <2>1, <2>4 DEF Around, x
  <2>6. CASE Around(Y, x) = {}
    <3>1. x.parent = 0
      BY <1>7, <2>1, <2>6 DEF Placing
    <3> QED BY <2>2, <2>3, <2>5, <2>6, <3>1
  <2>7. CASE Around(Y, x) # {}
    <3>1. PICK p \in Around(Y, x) : x.parent = p.index /\ \A q \in Around(Y, x) : q.begin <= p.begin
      BY <1>7, <2>1, <2>7 DEF Placing
    <3>2. p \in Y /\ p.begin < x.begin /\ x.begin < p.end
      BY <1>5, <2>1, <3>1 DEF Around
    <3>3. p.index \in 1..(i - 1) /\ F[p.index] = p /\ p.index \in 1..Len(F)
      <4>1. p.index < x.index
        BY <1>3, <2>1, <3>2
      <4> QED BY <1>2, <2>1, <3>2, <4>1
    <3>4. \A q \in Y : q \in Around(Y, x) <=> q = p \/ q \in Around(Y, p)
      <4> TAKE q \in Y
      <4>1. /\ q.begin \in Nat /\ q.end \in Nat /\ p.begin \in Nat /\ p.end \in Nat /\ x.begin \in Nat
        BY <1>2, <2>1, <3>2
      <4>2. q \in Around(Y, x) <=> q.begin < x.begin /\ x.begin < q.end
        BY <1>5, <2>1
      <4>3. q \in Around(Y, p) <=> q.begin < p.begin /\ p.begin < q.end
        BY <1>5, <3>2
      <4>4. q \in Around(Y, p) => p.end < q.end
        BY <1>6, <3>2
      <4>5. q.begin = p.begin => q = p
        BY <1>4, <3>2
      <4>6. q \in Around(Y, x) => q.begin <= p.begin
        BY <3>1
      <4> QED BY <3>1, <3>2, <4>1, <4>2, <4>3, <4>4, <4>5, <4>6
    <3>5. p.index \in R <=> Failing(p) \/ \E f \in Around(Y, p) : Failing(f)
      BY <2>4, <3>2, <3>3 DEF Around
    <3>6. (\E f \in Around(Y, x) : Failing(f)) <=> Failing(p) \/ \E f \in Around(Y, p) : Failing(f)
      <4>1. Around(Y, x) \subseteq Y /\ Around(Y, p) \subseteq Y
        BY DEF Around
      <4> QED BY <3>2, <3>4, <4>1
    <3> QED BY <2>2, <2>3, <2>5, <3>1, <3>3, <3>5, <3>6
  <2> QED BY <2>6, <2>7
<1>10. R \in SUBSET Nat
  BY <1>1
<1>11. StateReverted(calls) = {i \in DOMAIN calls : i \in R}
  <2> HIDE DEF R
  <2> QED BY <1>9, <1>10, RevertedUnique
<1>12. {i \in DOMAIN calls : i \in R} = R
  BY <1>1
<1> QED BY <1>11, <1>12 DEF Failing, Y

-----------------------------------------------------------------------------
(* The block                                                               *)

(* The block, seen transaction by transaction: what the invariants below   *)
(* say of a trace, and of the system calls of the block.                   *)
GoodTrx(trx) ==
    /\ \A y \in ToSet(trx.calls) : Orderly(y) /\ Attribution(y) /\ y.data.by = trx.id /\ ~y.data.sys
    /\ IsCallTree(ToSet(trx.calls))
    /\ \A i \in DOMAIN trx.calls : trx.calls[i].index = i
    /\ LET E == Emitted(ToSet(trx.calls))
       IN  \A l \in E : l.index = Cardinality({m \in E : m.ord < l.ord})
    /\ trx.stateReverted =
           {i \in DOMAIN trx.calls : \E f \in ToSet(trx.calls) :
               /\ f.outcome \in {"failed", "reverted"}
               /\ f.begin <= trx.calls[i].begin /\ trx.calls[i].end <= f.end}

GoodSystemCalls(calls) ==
    /\ \A y \in calls : Orderly(y) /\ Attribution(y) /\ y.data.sys
    /\ \A d \in {y.data.by : y \in calls} : IsCallTree({y \in calls : y.data.by = d})

GoodBlock == /\ \A trx \in ToSet(block.traces) : GoodTrx(trx)
             /\ GoodSystemCalls(ToSet(block.systemCalls))

(* What is to be shown of the block after a step.                          *)
LEMMA GoodNext ==
    ASSUME \A trx \in ToSet(block'.traces) : GoodTrx(trx), GoodSystemCalls(ToSet(block'.systemCalls))
    PROVE  GoodBlock'
<1>1. ToSet(block'.systemCalls) = ToSet(block.systemCalls)' /\ ToSet(block'.traces) = ToSet(block.traces)'
  BY DEF ToSet
<1>2. (\A trx \in ToSet(block'.traces) : GoodTrx(trx)) <=> (\A trx \in ToSet(block.traces) : GoodTrx(trx))'
  BY DEF GoodTrx, Orderly, Attribution, SameContext, IsCallTree, Emitted, ToSet
<1>3. GoodSystemCalls(ToSet(block'.systemCalls)) <=> GoodSystemCalls(ToSet(block.systemCalls))'
  BY DEF GoodSystemCalls, Orderly, Attribution, SameContext, IsCallTree, ToSet
<1> QED BY <1>2, <1>3 DEF GoodBlock

(* A block without traces and system calls.                                *)
LEMMA NothingGood == ToSet(<<>>) = {} /\ GoodSystemCalls({})
BY EmptySeq DEF ToSet, GoodSystemCalls

(* What has ended has no frame open.                                       *)
LEMMA TopEnded ==
    ASSUME LinkedOK, Linked, Traced, Running, Top.frames = <<>>
    PROVE  /\ StateOK(cur) /\ cur.callStack.stack = <<>> /\ ordinal \in Nat /\ LogsOK(cur, ordinal)
           /\ Traces(cur, Top, ordinal) /\ Named(cur, Top) /\ Top \in Contexts
<1>1. StateOK(cur) /\ ordinal \in Nat /\ LogsOK(cur, ordinal)
  BY DEF LinkedOK, TracerOK, HooksOK, LogOrdinalsOK
<1>2. Traces(cur, Top, ordinal) /\ Top \in Contexts
  BY TopTraces
<1>3. Named(cur, Top)
  BY <1>2 DEF Traces, Shape
<1>4. ~HasActiveCall(cur.callStack)
  BY <1>1, <1>2, <1>3, ActiveFrame
<1> QED BY <1>1, <1>2, <1>3, <1>4 DEF HasActiveCall

(* The trace of a transaction that ends.                                   *)
LEMMA TraceGood ==
    ASSUME LinkedOK, Linked, Traced, Running, ~Top.sys, Top.frames = <<>>, NEW receipt \in Receipts
    PROVE  GoodTrx(CompleteTransaction(receipt))
<1> DEFINE trx == CompleteTransaction(receipt)
<1>1. /\ StateOK(cur) /\ cur.callStack.stack = <<>> /\ ordinal \in Nat /\ LogsOK(cur, ordinal)
      /\ Traces(cur, Top, ordinal) /\ Named(cur, Top) /\ Top \in Contexts /\ cur.trx \in Trx
  BY TopEnded, LinkedParts
<1>2. cur.trx.id = Top.id /\ cur.trx.stateReverted = {}
  BY <1>1 DEF Named
<1>3. CASE cur.trx.calls = <<>>
  <2> DEFINE end == ordinal + 1
  <2>1. trx = [cur.trx EXCEPT !.end = end]
    BY <1>3 DEF CompleteTransaction
  <2> HIDE DEF trx, end
  <2>2. trx.calls = <<>> /\ trx.stateReverted = {}
    BY <1>1, <1>2, <1>3, <2>1 DEF Trx
  <2>3. ToSet(trx.calls) = {} /\ DOMAIN trx.calls = {}
    BY <2>2, NothingGood
  <2> QED BY <2>2, <2>3 DEF GoodTrx, IsCallTree, Emitted, trx
<1>4. CASE cur.trx.calls # <<>>
  <2> DEFINE calls    == CompleteCalls
             reverted == StateReverted(calls)
             final    == RemoveLogBlockIndex(calls, reverted)
             status   == TrxStatus(receipt, calls[1])
             assigned == [receipt EXCEPT !.logs = AssignToReceiptLogs(SurvivingLogs(final, reverted), receipt.logs)]
             end      == ordinal + 1
             Y        == ToSet(final)
  <2>1. trx = [cur.trx EXCEPT !.calls = final, !.stateReverted = reverted, !.status = status,
                              !.receipt = assigned, !.end = end]
    BY <1>4 DEF CompleteTransaction
  <2>2. /\ final \in Seq(Call) /\ Len(final) = Len(cur.trx.calls)
        /\ Finals(Y, cur, cur.deferred)
        /\ \A i \in 1..Len(final) : final[i].index = i /\ SameNode(final[i], CompleteCalls[i])
        /\ CompleteCalls \in Seq(Call) /\ Len(CompleteCalls) = Len(final)
    BY <1>1, <1>4, TrxFinals
  <2> HIDE DEF calls, final, status, assigned, end, trx, reverted
  <2>3. trx.calls = final /\ trx.stateReverted = reverted /\ trx.id = Top.id
    BY <1>1, <1>2, <2>1 DEF Trx
  <2>4. /\ Y \in SUBSET Call /\ IsCallTree(Y) /\ Forest(Y, ordinal) /\ \A y \in Y : Closed(y)
    BY <1>1, <2>2, FinalsTree
  <2>5. ASSUME NEW y \in Y
        PROVE  Orderly(y) /\ Attribution(y) /\ y.data.by = trx.id /\ ~y.data.sys
    <3>1. PICK x \in CallsOf(cur) : Final(y, x, cur.preimages, cur.deferred)
      BY <2>2 DEF Finals
    <3>2. cur.deferred \in [Lists -> Seq(Entry)] /\ cur.deferred = cur.deferred
      BY <1>1, StateParts
    <3>3. Orderly(y) /\ Attribution(y) /\ y.data.by = Top.id /\ y.data.sys = Top.sys
      BY <1>1, <3>1, <3>2, FinalGood
    <3> QED BY <2>3, <3>3
  <2>6. \A i \in DOMAIN final : final[i].index = i
    BY <2>2
  <2>7. \A l \in Emitted(Y) : l.index = Cardinality({m \in Emitted(Y) : m.ord < l.ord})
    <3>1. CallsOf(cur) = ToSet(cur.trx.calls) /\ Indexes(CallsOf(cur)) = 1..Len(cur.trx.calls)
          /\ cur.trx.calls \in Seq(Call)
      BY <1>1, EndedNumbers
    <3>2. 1 \in 1..Len(cur.trx.calls)
      BY <1>4, <3>1, EmptySeq
    <3>3. \E x \in CallsOf(cur) : x.index = 1
      BY <3>1, <3>2 DEF Indexes
    <3> QED BY <1>1, <2>2, <3>3, FinalsDense
  <2>8. reverted = {i \in DOMAIN final : \E f \in Y :
                       /\ f.outcome \in {"failed", "reverted"}
                       /\ f.begin <= final[i].begin /\ final[i].end <= f.end}
    <3>1. /\ calls \in Seq(Call) /\ Len(calls) = Len(final)
          /\ \A i \in 1..Len(final) : final[i].index = i
          /\ \A i \in 1..Len(final) : SameNode(final[i], calls[i])
      BY <2>2 DEF calls
    <3> QED BY <1>1, <2>2, <2>4, <3>1, RevertedTree DEF reverted
  <2> QED BY <2>3, <2>4, <2>5, <2>6, <2>7, <2>8 DEF GoodTrx, trx
<1> QED BY <1>3, <1>4

(* The system calls of the block after one more has ended.                 *)
LEMMA SystemCallsGood ==
    ASSUME LinkedOK, Linked, Traced, GoodBlock, Running, Top.sys, Top.frames = <<>>
    PROVE  GoodSystemCalls(ToSet(block.systemCalls \o AttachPreimages(cur.trx.calls, cur.preimages)))
<1> DEFINE own == AttachPreimages(cur.trx.calls, cur.preimages)
           Old == ToSet(block.systemCalls)
           Y   == ToSet(own)
           id  == Top.id
<1>1. /\ StateOK(cur) /\ cur.callStack.stack = <<>> /\ ordinal \in Nat
      /\ Traces(cur, Top, ordinal) /\ block \in Blocks
      /\ Top = evm.running[Len(evm.running)] /\ Len(evm.running) \in 1..Len(evm.running)
  BY TopEnded, LinkedParts, TopTraces
<1>2. Finals(Y, cur, NoEntries)
  BY <1>1, SystemCallFinals
<1>3. own \in Seq(Call)
  <2>1. cur.trx.calls \in Seq(Call) /\ cur.preimages \in Seq([call : Nat, data : Data])
    BY <1>1, EndedNumbers, StateParts
  <2> QED BY <2>1, AttachPreimagesType
<1>4. IsCallTree(Y)
  BY <1>1, <1>2, FinalsTree
<1> HIDE DEF own
<1>5. ASSUME NEW y \in Y PROVE Orderly(y) /\ Attribution(y) /\ y.data.by = id /\ y.data.sys
  <2>1. PICK x \in CallsOf(cur) : Final(y, x, cur.preimages, NoEntries)
    BY <1>2 DEF Finals
  <2>2. NoEntries \in [Lists -> Seq(Entry)]
    BY EmptySeq DEF NoEntries
  <2> DEFINE d == NoEntries
  <2>3. d \in [Lists -> Seq(Entry)] /\ d = NoEntries /\ Final(y, x, cur.preimages, d)
    BY <2>1, <2>2
  <2> HIDE DEF d
  <2> QED BY <1>1, <2>3, FinalGood
<1>6. block.systemCalls \in Seq(Call)
  BY <1>1 DEF Blocks
<1>7. ToSet(block.systemCalls \o own) = Old \cup Y
  BY <1>3, <1>6, ConcatToSet
<1>8. \A x \in Old : x.data.by # id
  BY <1>1 DEF Traced
<1>9. GoodSystemCalls(Old)
  BY DEF GoodBlock
<1> HIDE DEF Old, Y, id
<1> DEFINE All == Old \cup Y
<1>10. \A y \in All : Orderly(y) /\ Attribution(y) /\ y.data.sys
  BY <1>5, <1>9 DEF GoodSystemCalls
<1>11. ASSUME NEW d \in {y.data.by : y \in All} PROVE IsCallTree({y \in All : y.data.by = d})
  <2>1. CASE d = id
    <3>1. {y \in All : y.data.by = d} = Y
      BY <1>5, <1>8, <2>1
    <3> QED BY <1>4, <3>1
  <2>2. CASE d # id
    <3>1. {y \in All : y.data.by = d} = {y \in Old : y.data.by = d}
      BY <1>5, <2>2
    <3>2. d \in {y.data.by : y \in Old}
      BY <1>5, <2>2
    <3> QED BY <1>9, <3>1, <3>2 DEF GoodSystemCalls
  <2> QED BY <2>1, <2>2
<1>12. GoodSystemCalls(All)
  <2> HIDE DEF All
  <2> QED BY <1>10, <1>11 DEF GoodSystemCalls
<1> QED BY <1>7, <1>12 DEF own

-----------------------------------------------------------------------------
(* The steps                                                               *)

(* A hook that panics leaves the block as it was.                          *)
LEMMA PanicKeepsBlock ==
    ASSUME Next, panicked'
    PROVE  UNCHANGED block
<1>1. ~panicked
  BY DEF Next, Step, StartBlock, EndBlock, FailBlock, SkipBlock, StartTrx, EndTrx,
         EndTrxWithoutReceipt, StartSystemCall, EndSystemCall, EnterCall, ExitCall,
         SelfDestruct, EnterSelfDestruct, ExitSelfDestruct, FaultingOpcode, ClearCode,
         KeccakPreimage, Changes, Logs, Idle
<1>3. CASE StartBlock \/ EndBlock \/ FailBlock \/ SkipBlock
  BY <1>1, <1>3 DEF StartBlock, EndBlock, FailBlock, SkipBlock, OnBlockStart, OnBlockEnd,
                    OnSkippedBlock, Ensured, Panic
<1>4. CASE StartTrx \/ EndTrx \/ EndTrxWithoutReceipt
  BY <1>1, <1>4 DEF StartTrx, EndTrx, EndTrxWithoutReceipt, OnTxStart, OnTxEnd, Ensured, Panic
<1>5. CASE StartSystemCall \/ EndSystemCall
  BY <1>1, <1>5 DEF StartSystemCall, EndSystemCall, OnSystemCallStart, OnSystemCallEnd, Ensured, Panic
<1>6. CASE EnterCall
  BY <1>1, <1>6 DEF EnterCall, OnCallEnter
<1>7. CASE \E outcome \in {"ok", "failed", "reverted"} : ExitCall(outcome)
  BY <1>1, <1>7 DEF ExitCall, OnCallExit, Ensured, Panic
<1>8. CASE SelfDestruct \/ EnterSelfDestruct \/ ExitSelfDestruct \/ FaultingOpcode \/ KeccakPreimage
  BY <1>1, <1>8 DEF SelfDestruct, EnterSelfDestruct, ExitSelfDestruct, FaultingOpcode,
                    KeccakPreimage, OnOpcode, OnSelfDestructEnter, OnCallExit, OnKeccakPreimage,
                    Ensured, Panic
<1>9. CASE ClearCode \/ Changes \/ Logs
  BY <1>1, <1>9 DEF ClearCode, Changes, Logs, OnBalanceChange, OnNonceChange, OnCodeChange,
                    OnStorageChange, OnBlockOrTrxChange, OnTrxChange, OnLog, Ensured, Panic, tracerVars
<1> QED BY <1>3, <1>4, <1>5, <1>6, <1>7, <1>8, <1>9 DEF Next, Step

(* Every step keeps the trace of what is running, and the block good.      *)
LEMMA TracedSteps ==
    ASSUME LinkedOK, Linked, Traced, GoodBlock, Next, ~panicked', TracerOK'
    PROVE  Traced' /\ GoodBlock'
<1>1. \/ StartBlock \/ EndBlock \/ FailBlock \/ SkipBlock
      \/ StartTrx \/ EndTrx \/ EndTrxWithoutReceipt
      \/ StartSystemCall \/ EndSystemCall
      \/ EnterCall \/ \E outcome \in {"ok", "failed", "reverted"} : ExitCall(outcome)
      \/ SelfDestruct \/ EnterSelfDestruct \/ ExitSelfDestruct \/ FaultingOpcode
      \/ ClearCode \/ KeccakPreimage \/ Changes \/ Logs
  BY DEF Next, Step
<1>2. (\A trx \in ToSet(block.traces) : GoodTrx(trx)) /\ GoodSystemCalls(ToSet(block.systemCalls))
  BY DEF GoodBlock
<1>3. ASSUME UNCHANGED block.traces, UNCHANGED block.systemCalls PROVE GoodBlock'
  BY <1>2, <1>3, GoodNext
<1>4. CASE StartBlock \/ EndBlock \/ FailBlock \/ SkipBlock
  <2>1. Traced' /\ (block'.traces = block.traces \/ block'.traces = <<>>) /\ block'.systemCalls = <<>>
    BY <1>4, BlockTraced
  <2>2. \A trx \in ToSet(block'.traces) : GoodTrx(trx)
    BY <1>2, <2>1, NothingGood
  <2>3. GoodSystemCalls(ToSet(block'.systemCalls))
    BY <2>1, NothingGood
  <2> QED BY <2>1, <2>2, <2>3, GoodNext
<1>5. CASE StartTrx
  BY <1>3, <1>5, StartTrxTraced
<1>6. CASE StartSystemCall
  BY <1>3, <1>6, StartSystemCallTraced
<1>7. CASE EndTrx \/ EndTrxWithoutReceipt
  <2>1. /\ Traced' /\ UNCHANGED block.systemCalls
        /\ Running /\ ~Top.sys /\ Top.frames = <<>>
    BY <1>7, EndTrxTraced
  <2>2. PICK receipt \in Receipts :
           \/ UNCHANGED block.traces
           \/ block'.traces = Append(block.traces, CompleteTransaction(receipt))
    BY <1>7, EndTrxTraced
  <2> DEFINE trx == CompleteTransaction(receipt)
  <2>3. GoodTrx(trx)
    BY <2>1, TraceGood
  <2>4. block.traces \in Seq(Trx)
    BY LinkedParts DEF Blocks
  <2> HIDE DEF trx
  <2>5. \A t \in ToSet(Append(block.traces, trx)) : GoodTrx(t)
    <3>1. ToSet(Append(block.traces, trx)) = ToSet(block.traces) \cup {trx}
      BY <2>4, AppendToSet
    <3> QED BY <1>2, <2>3, <3>1
  <2>6. \A t \in ToSet(block'.traces) : GoodTrx(t)
    BY <1>2, <2>2, <2>5 DEF trx
  <2> QED BY <1>2, <2>1, <2>6, GoodNext
<1>8. CASE EndSystemCall
  <2>1. /\ Traced' /\ UNCHANGED block.traces
        /\ Running /\ Top.sys /\ Top.frames = <<>>
        /\ block'.systemCalls = block.systemCalls \o AttachPreimages(cur.trx.calls, cur.preimages)
    BY <1>8, EndSystemCallTraced
  <2>2. GoodSystemCalls(ToSet(block'.systemCalls))
    BY <2>1, SystemCallsGood
  <2> QED BY <1>2, <2>1, <2>2, GoodNext
<1>9. CASE EnterCall
  BY <1>3, <1>9, EnterTraced
<1>10. CASE \E outcome \in {"ok", "failed", "reverted"} : ExitCall(outcome)
  <2>1. PICK outcome \in {"ok", "failed", "reverted"} : ExitCall(outcome)
    BY <1>10
  <2>2. Traced' /\ UNCHANGED block
    BY <2>1, ExitTraced
  <2> QED BY <1>3, <2>2
<1>11. CASE SelfDestruct \/ EnterSelfDestruct \/ ExitSelfDestruct \/ FaultingOpcode \/ KeccakPreimage
  BY <1>3, <1>11, OpcodesTraced
<1>12. CASE ClearCode \/ Changes \/ Logs
  <2>1. Traced' /\ UNCHANGED <<block.traces, block.systemCalls>>
    BY <1>12, ChangesTraced
  <2> QED BY <1>3, <2>1
<1> QED BY <1>1, <1>4, <1>5, <1>6, <1>7, <1>8, <1>9, <1>10, <1>11, <1>12

-----------------------------------------------------------------------------
(* The inductive invariant: what is running is traced, unless a hook has   *)
(* panicked, and what the block holds is good.                             *)
BlockOK == LinkedOK /\ (~panicked => Traced) /\ GoodBlock

(* The invariant holds at first, with no block and nothing running, ...    *)
LEMMA BlockOKInit == Init => BlockOK
<1> SUFFICES ASSUME Init PROVE BlockOK
  OBVIOUS
<1>1. TracerOK /\ evm \in Clients
  BY TracerInitTyped, EmptySeq DEF Init, EvmAtRest, Clients
<1>2. /\ cur = FreshState /\ ~FreshState.trx.open /\ ~inSystemCall /\ interrupted = <<>>
      /\ block = NoBlock /\ ordinal = 0 /\ evm.running = <<>> /\ Len(evm.running) = 0
      /\ FreshState.suicided = FALSE /\ evm.destructing = FALSE
      /\ NoBlock.traces = <<>> /\ NoBlock.systemCalls = <<>>
  BY EmptySeq DEF Init, TracerInit, EvmAtRest, FreshState, NoTrx, NoBlock
<1>3. LinkedOK
  BY <1>1, <1>2 DEF LinkedOK, Linked, NothingLeftBehind, InTrx, Running
<1>4. GoodBlock
  BY <1>2, NothingGood DEF GoodBlock
<1>5. Traced
  <2>1. cur.suicided = evm.destructing
    BY <1>2
  <2>2. Len(evm.running) # 1 /\ Len(evm.running) # 2
    BY <1>2
  <2>3. \A i \in 1..Len(evm.running) : FALSE
    BY <1>2
  <2>4. \A x \in ToSet(block.systemCalls) : FALSE
    BY <1>2, NothingGood
  <2> QED BY <2>1, <2>2, <2>3, <2>4, Zenon DEF Traced
<1> QED BY <1>3, <1>4, <1>5 DEF BlockOK

(* ... and every step of the client and its hooks keeps it.                *)
LEMMA BlockOKStep == BlockOK /\ [Next]_vars => BlockOK'
<1> SUFFICES ASSUME BlockOK, [Next]_vars PROVE BlockOK'
  OBVIOUS
<1>1. LinkedOK /\ GoodBlock /\ (~panicked => Linked /\ Traced)
  BY DEF BlockOK, LinkedOK
<1>2. (\A trx \in ToSet(block.traces) : GoodTrx(trx)) /\ GoodSystemCalls(ToSet(block.systemCalls))
  BY <1>1 DEF GoodBlock
<1>3. CASE Next
  <2>1. LinkedOK'
    BY <1>1, <1>3, TracerNext, ClientNext, LinkedNext DEF LinkedOK
  <2>2. CASE panicked'
    <3>1. UNCHANGED block
      BY <1>3, <2>2, PanicKeepsBlock
    <3>2. GoodBlock'
      BY <1>2, <3>1, GoodNext
    <3> QED BY <2>1, <2>2, <3>2 DEF BlockOK
  <2>3. CASE ~panicked'
    <3>1. ~panicked
      BY <1>3 DEF Next, Step, StartBlock, EndBlock, FailBlock, SkipBlock, StartTrx, EndTrx,
         EndTrxWithoutReceipt, StartSystemCall, EndSystemCall, EnterCall, ExitCall,
         SelfDestruct, EnterSelfDestruct, ExitSelfDestruct, FaultingOpcode, ClearCode,
         KeccakPreimage, Changes, Logs, Idle
    <3>2. Traced' /\ GoodBlock'
      BY <1>1, <1>3, <2>1, <2>3, <3>1, TracedSteps DEF LinkedOK
    <3> QED BY <2>1, <3>2 DEF BlockOK
  <2> QED BY <2>2, <2>3
<1>4. CASE UNCHANGED vars
  <2>1. TracerOK' /\ evm' \in Clients
    BY <1>1, <1>4, StutterTracerOK DEF vars, tracerVars, LinkedOK
  <2>2. LinkedOK'
    BY <1>1, <1>4, <2>1 DEF vars, LinkedOK, Linked, NothingLeftBehind, InTrx, Running, Top
  <2>3. GoodBlock'
    BY <1>2, <1>4, GoodNext DEF vars
  <2>4. ASSUME ~panicked' PROVE Traced'
    <3>1. Traced
      BY <1>1, <1>4, <2>4 DEF vars
    <3> QED BY <1>4, <3>1, TracedNext DEF vars, Traced
  <2> QED BY <2>2, <2>3, <2>4 DEF BlockOK
<1> QED BY <1>3, <1>4

(* The calls of the block are good ones.                                   *)
LEMMA GoodCalls ==
    ASSUME GoodBlock
    PROVE  \A c \in ClosedCalls : Orderly(c) /\ Attribution(c)
BY DEF GoodBlock, GoodTrx, GoodSystemCalls, ClosedCalls

(* The lists of every call that ended are in the order of the ordinals,    *)
(* whatever was deferred, sorted, interrupted or completed at the end.     *)
THEOREM BlockChronology == Spec => []Chronology
<1>1. BlockOK => Chronology
  BY GoodCalls DEF BlockOK, Orderly, Chronology
<1> QED BY <1>1, BlockOKInit, BlockOKStep, PTL DEF Spec

(* Every change, log and preimage is in the call whose frame made it, or   *)
(* in a root call of its transaction or system call if made outside all.   *)
THEOREM BlockAttributed == Spec => []Attributed
<1>1. BlockOK => Attributed
  BY GoodCalls DEF BlockOK, GoodBlock, GoodTrx, GoodSystemCalls, Attribution, Attributed
<1> QED BY <1>1, BlockOKInit, BlockOKStep, PTL DEF Spec

(* Index, parent and depth of every call are those of the tree that the    *)
(* ordinals draw, and the trace lists the calls by their index.            *)
THEOREM BlockCallTrees == Spec => []CallTrees
<1>1. BlockOK => CallTrees
  BY DEF BlockOK, GoodBlock, GoodTrx, GoodSystemCalls, CallTrees
<1> QED BY <1>1, BlockOKInit, BlockOKStep, PTL DEF Spec

(* A transaction's logs are numbered from 0 in the order they were         *)
(* emitted, reverted ones included and across any interruption.            *)
THEOREM BlockLogIndexes == Spec => []LogIndexesDense
<1>1. BlockOK => LogIndexesDense
  BY DEF BlockOK, GoodBlock, GoodTrx, Emitted, LogIndexesDense
<1> QED BY <1>1, BlockOKInit, BlockOKStep, PTL DEF Spec

(* The state of a call is reverted exactly when it or a call around it     *)
(* failed.                                                                 *)
THEOREM BlockReverted == Spec => []RevertedExactly
<1>1. BlockOK => RevertedExactly
  BY DEF BlockOK, GoodBlock, GoodTrx, RevertedExactly
<1> QED BY <1>1, BlockOKInit, BlockOKStep, PTL DEF Spec

-----------------------------------------------------------------------------
(***************************************************************************)
(* The receipt.  A log is live as long as neither the call it is in nor    *)
(* one around it has failed, or if it was emitted outside of all calls:    *)
(* such are the logs that the client still has in its journal, each at its *)
(* block index, and the marks of the open frames part them by frame.       *)
(***************************************************************************)
Doomed(X, x) == Failing(x) \/ \E y \in Around(X, x) : Failing(y)

Live(s) ==
    {l \in AllLogs(s) : \/ l.data.frame = 0
                        \/ \E x \in CallsOf(s) : l \in ToSet(x.lists["log"]) /\ ~Doomed(CallsOf(s), x)}

(* The live logs of the call y and of those it has made.                   *)
Inside(s, y) ==
    {l \in Live(s) : /\ l.data.frame # 0
                     /\ \E x \in CallsOf(s) : l \in ToSet(x.lists["log"]) /\ y.index <= x.index}

(* The call v recorded anew as u, or ended: if it fails it dooms the calls *)
(* from it on.                                                             *)
LEMMA DoomedReplace ==
    ASSUME NEW X \in SUBSET Call, NEW n \in Nat, Timed(X, n), Numbering(X),
           \A x, y \in X : x.index = y.index => x = y,
           NEW v \in X, NEW u \in Call, u.index = v.index, u.begin = v.begin,
           \/ u.outcome = v.outcome /\ u.end = v.end
           \/ ~Closed(v) /\ Closed(u) /\ u.end = n + 1,
           NEW Y, Y = (X \ {v}) \cup {u}
    PROVE  /\ Doomed(Y, u) <=> Doomed(X, v) \/ Failing(u)
           /\ \A x \in X \ {v} :
                Doomed(Y, x) <=> \/ Doomed(X, x)
                                 \/ Failing(u) /\ ~Failing(v) /\ v.index <= x.index
<1>1. \A x \in X : x.begin \in Nat /\ x.begin <= n /\ x.index \in Nat /\ x.end \in Nat
  BY DEF Call, Timed
<1>2. u.begin \in Nat /\ u.end \in Nat
  BY DEF Call
<1>3. Failing(v) => Failing(u) /\ Closed(v)
  BY DEF Failing, Closed
<1>4. ASSUME NEW x \in X
      PROVE  Covers(u, x.begin) <=> Covers(v, x.begin)
  BY <1>1, <1>2 DEF Covers, Closed
<1>5. ~Covers(u, u.begin) /\ ~Covers(v, v.begin)
  BY <1>1, <1>2 DEF Covers
<1>6. ASSUME NEW x \in X \ {v}
      PROVE  Doomed(Y, x) <=> Doomed(X, x) \/ (Failing(u) /\ Covers(v, x.begin))
  BY <1>3, <1>4 DEF Doomed, Around
<1>7. ASSUME NEW x \in X \ {v}, Failing(u), ~Failing(v)
      PROVE  Covers(v, x.begin) <=> v.index <= x.index
  <2>1. ~Closed(v)
    BY <1>7 DEF Failing, Closed
  <2>2. Covers(v, x.begin) <=> v.begin < x.begin
    BY <2>1 DEF Covers
  <2>3. v.begin < x.begin <=> v.index < x.index
    BY DEF Numbering
  <2>4. x.index # v.index
    OBVIOUS
  <2> QED BY <1>1, <2>2, <2>3, <2>4
<1>8. ASSUME NEW x \in X \ {v}
      PROVE  Doomed(Y, x) <=> \/ Doomed(X, x)
                              \/ Failing(u) /\ ~Failing(v) /\ v.index <= x.index
  <2>1. CASE Failing(v)
    <3>1. Covers(v, x.begin) => Doomed(X, x)
      BY <2>1 DEF Doomed, Around
    <3> QED BY <1>6, <2>1, <3>1
  <2>2. CASE ~Failing(v)
    BY <1>6, <1>7, <2>2
  <2> QED BY <2>1, <2>2
<1>9. Doomed(Y, u) <=> Doomed(X, v) \/ Failing(u)
  <2>1. \A y \in X \ {v} : Covers(y, u.begin) <=> Covers(y, v.begin)
    OBVIOUS
  <2> QED BY <1>3, <1>5, <2>1 DEF Doomed, Around
<1> QED BY <1>8, <1>9

(* The state t is s with the call v recorded anew as u, which may end it   *)
(* by ordinal n + 1, and with the logs new added to it.                    *)
Anew(s, n, t, v, u, new) ==
    /\ StateOK(s) /\ StateOK(t) /\ n \in Nat /\ Forest(CallsOf(s), n)
    /\ v \in CallsOf(s) /\ u \in Call /\ u.index = v.index /\ u.begin = v.begin
    /\ \/ u.outcome = v.outcome /\ u.end = v.end
       \/ ~Closed(v) /\ Closed(u) /\ u.end = n + 1
    /\ ~Failing(v)
    /\ CallsOf(t) = (CallsOf(s) \ {v}) \cup {u} /\ t.deferred = s.deferred
    /\ ToSet(u.lists["log"]) = ToSet(v.lists["log"]) \cup new

(* What that does to calls and logs.                                       *)
LEMMA LiveReplace ==
    ASSUME NEW s, NEW n, NEW t, NEW v, NEW u, NEW new, Anew(s, n, t, v, u, new)
    PROVE  /\ \A x \in CallsOf(s) \ {v} : x \in CallsOf(t) /\ x.index # u.index
           /\ Doomed(CallsOf(t), u) <=> Doomed(CallsOf(s), v) \/ Failing(u)
           /\ \A x \in CallsOf(s) \ {v} :
                Doomed(CallsOf(t), x) <=> Doomed(CallsOf(s), x) \/ (Failing(u) /\ v.index <= x.index)
           /\ \A l : l \in AllLogs(t) <=> l \in AllLogs(s) \/ l \in new
<1> USE DEF Anew
<1>1. /\ CallsOf(s) \in SUBSET Call /\ \A x, y \in CallsOf(s) : x.index = y.index => x = y
      /\ Timed(CallsOf(s), n) /\ Numbering(CallsOf(s))
  BY CallsOfNumbers DEF Forest
<1>2. /\ Doomed(CallsOf(t), u) <=> Doomed(CallsOf(s), v) \/ Failing(u)
      /\ \A x \in CallsOf(s) \ {v} :
           Doomed(CallsOf(t), x) <=> Doomed(CallsOf(s), x) \/ (Failing(u) /\ v.index <= x.index)
  BY <1>1, DoomedReplace
<1>3. \A x \in CallsOf(s) \ {v} : x \in CallsOf(t) /\ x.index # u.index
  BY <1>1
<1>4. \A l : l \in AllLogs(t) <=> l \in AllLogs(s) \/ l \in new
  <2>1. /\ \A l : l \in AllLogs(t) <=>
             (\E x \in CallsOf(t) : l \in ToSet(x.lists["log"])) \/ l \in ToSet(t.deferred["log"])
        /\ \A l : l \in AllLogs(s) <=>
             (\E x \in CallsOf(s) : l \in ToSet(x.lists["log"])) \/ l \in ToSet(s.deferred["log"])
    BY LogsOf
  <2> QED BY <2>1
<1> QED BY <1>2, <1>3, <1>4

(* It does not fail: the logs are as live as before, and those added are.  *)
LEMMA LiveAdded ==
    ASSUME NEW s, NEW n, NEW t, NEW v, NEW u, NEW new, Anew(s, n, t, v, u, new), ~Failing(u),
           \A l \in new : l.data.frame # 0 /\ l \notin AllLogs(s), new = {} \/ ~Doomed(CallsOf(s), v)
    PROVE  /\ Live(t) = Live(s) \cup new
           /\ \A y : Inside(t, y) = Inside(s, y) \cup (IF y.index <= v.index THEN new ELSE {})
<1>1. /\ \A x \in CallsOf(s) \ {v} : x \in CallsOf(t) /\ x.index # u.index
      /\ Doomed(CallsOf(t), u) <=> Doomed(CallsOf(s), v)
      /\ \A x \in CallsOf(s) \ {v} : Doomed(CallsOf(t), x) <=> Doomed(CallsOf(s), x)
      /\ \A l : l \in AllLogs(t) <=> l \in AllLogs(s) \/ l \in new
  BY LiveReplace
<1> DEFINE X == CallsOf(s)
           Y == CallsOf(t)
<1>2. \A l : l \in Live(t) <=> l \in AllLogs(t) /\ (l.data.frame = 0 \/ \E y \in Y : l \in ToSet(y.lists["log"]) /\ ~Doomed(Y, y))
  BY DEF Live
<1>3. \A l : l \in Live(s) <=> l \in AllLogs(s) /\ (l.data.frame = 0 \/ \E x \in X : l \in ToSet(x.lists["log"]) /\ ~Doomed(X, x))
  BY DEF Live
<1>4. /\ Y = (X \ {v}) \cup {u} /\ v \in X /\ u.index = v.index
      /\ ToSet(u.lists["log"]) = ToSet(v.lists["log"]) \cup new
  BY DEF Anew
<1> HIDE DEF X, Y
<1>5. ASSUME NEW l, l \in Live(t), l \notin new PROVE l \in Live(s)
  <2>1. l \in AllLogs(s) /\ l \in AllLogs(t)
    BY <1>1, <1>2, <1>5
  <2>2. ASSUME NEW y \in Y, l \in ToSet(y.lists["log"]), ~Doomed(Y, y)
        PROVE  \E x \in X : l \in ToSet(x.lists["log"]) /\ ~Doomed(X, x)
    <3>1. CASE y = u
      BY <1>1, <1>4, <1>5, <2>2, <3>1 DEF X, Y
    <3>2. CASE y \in X \ {v}
      BY <1>1, <2>2, <3>2 DEF X, Y
    <3> QED BY <1>4, <3>1, <3>2
  <2> QED BY <1>2, <1>3, <1>5, <2>1, <2>2
<1>6. ASSUME NEW l, l \in Live(s) \cup new PROVE l \in Live(t)
  BY <1>1, <1>2, <1>3, <1>4, <1>6 DEF X, Y
<1>7. Live(t) = Live(s) \cup new
  BY <1>5, <1>6
<1>8. ASSUME NEW y, NEW l
      PROVE  l \in Inside(t, y) <=> l \in Inside(s, y) \cup (IF y.index <= v.index THEN new ELSE {})
  <2>1. l \in Inside(t, y) <=> l \in Live(t) /\ l.data.frame # 0 /\ \E x \in Y : l \in ToSet(x.lists["log"]) /\ y.index <= x.index
    BY DEF Inside, Y
  <2>2. l \in Inside(s, y) <=> l \in Live(s) /\ l.data.frame # 0 /\ \E x \in X : l \in ToSet(x.lists["log"]) /\ y.index <= x.index
    BY DEF Inside, X
  <2>3. CASE l \in new
    <3>1. l \in Live(t) /\ l.data.frame # 0 /\ l \in ToSet(u.lists["log"])
      BY <1>4, <1>7, <2>3
    <3>2. \A x \in X : l \notin ToSet(x.lists["log"])
      BY <2>3, LogsOf DEF X, Anew
    <3>3. \A x \in Y : l \in ToSet(x.lists["log"]) <=> x = u
      BY <1>4, <3>1, <3>2
    <3>4. l \in Inside(t, y) <=> y.index <= v.index
      BY <1>4, <2>1, <3>1, <3>3
    <3>5. l \notin Inside(s, y)
      BY <2>2, <3>2
    <3> QED BY <2>3, <3>4, <3>5
  <2>4. CASE l \notin new
    BY <1>4, <1>7, <2>1, <2>2, <2>4
  <2> QED BY <2>3, <2>4
<1> QED BY <1>7, <1>8

(* It fails: the logs inside of it are dead.                               *)
LEMMA LiveFailed ==
    ASSUME NEW s, NEW n, NEW t, NEW v, NEW u, Anew(s, n, t, v, u, {}), Failing(u), Apart(CallsOf(s))
    PROVE  /\ Live(t) = Live(s) \ Inside(s, v)
           /\ \A y : Inside(t, y) = Inside(s, y) \ Inside(s, v)
<1>1. /\ \A x \in CallsOf(s) \ {v} : x \in CallsOf(t) /\ x.index # u.index
      /\ Doomed(CallsOf(t), u)
      /\ \A x \in CallsOf(s) \ {v} :
           Doomed(CallsOf(t), x) <=> Doomed(CallsOf(s), x) \/ v.index <= x.index
      /\ \A l : l \in AllLogs(t) <=> l \in AllLogs(s)
  <2>1. /\ \A x \in CallsOf(s) \ {v} : x \in CallsOf(t) /\ x.index # u.index
        /\ Doomed(CallsOf(t), u) <=> Doomed(CallsOf(s), v) \/ Failing(u)
        /\ \A x \in CallsOf(s) \ {v} :
             Doomed(CallsOf(t), x) <=> Doomed(CallsOf(s), x) \/ (Failing(u) /\ v.index <= x.index)
        /\ \A l : l \in AllLogs(t) <=> l \in AllLogs(s) \/ l \in {}
    BY LiveReplace
  <2> QED BY <2>1
<1> DEFINE X == CallsOf(s)
           Y == CallsOf(t)
<1>2. /\ \A l : l \in Live(t) <=> l \in AllLogs(t) /\ (l.data.frame = 0 \/ \E y \in Y : l \in ToSet(y.lists["log"]) /\ ~Doomed(Y, y))
      /\ \A l : l \in Live(s) <=> l \in AllLogs(s) /\ (l.data.frame = 0 \/ \E x \in X : l \in ToSet(x.lists["log"]) /\ ~Doomed(X, x))
      /\ \A l, y : l \in Inside(t, y) <=> l \in Live(t) /\ l.data.frame # 0 /\ \E x \in Y : l \in ToSet(x.lists["log"]) /\ y.index <= x.index
      /\ \A l, y : l \in Inside(s, y) <=> l \in Live(s) /\ l.data.frame # 0 /\ \E x \in X : l \in ToSet(x.lists["log"]) /\ y.index <= x.index
  BY DEF Live, Inside
<1>3. /\ Y = (X \ {v}) \cup {u} /\ v \in X /\ u.index = v.index /\ v.index <= v.index
      /\ ToSet(u.lists["log"]) = ToSet(v.lists["log"])
  BY CallsOfNumbers DEF Anew
<1>4. \A l : \A x, y \in X : l \in ToSet(x.lists["log"]) /\ l \in ToSet(y.lists["log"]) => x.index = y.index
  BY DEF Apart, Lists
<1> HIDE DEF X, Y
<1>5. \A l : (\E x \in Y : l \in ToSet(x.lists["log"])) <=> (\E x \in X : l \in ToSet(x.lists["log"]))
  BY <1>3
<1>6. ASSUME NEW l, l.data.frame # 0
      PROVE  (\E y \in Y : l \in ToSet(y.lists["log"]) /\ ~Doomed(Y, y)) <=>
               /\ \E x \in X : l \in ToSet(x.lists["log"]) /\ ~Doomed(X, x)
               /\ ~ \E x \in X : l \in ToSet(x.lists["log"]) /\ v.index <= x.index
  <2>1. ASSUME NEW y \in Y, l \in ToSet(y.lists["log"]), ~Doomed(Y, y)
        PROVE  /\ \E x \in X : l \in ToSet(x.lists["log"]) /\ ~Doomed(X, x)
               /\ ~ \E x \in X : l \in ToSet(x.lists["log"]) /\ v.index <= x.index
    <3>1. y \in X \ {v}
      BY <1>1, <1>3, <2>1 DEF X, Y
    <3>2. ~Doomed(X, y) /\ ~(v.index <= y.index)
      BY <1>1, <2>1, <3>1 DEF X, Y
    <3> QED BY <1>4, <2>1, <3>1, <3>2
  <2>2. ASSUME NEW x \in X, l \in ToSet(x.lists["log"]), ~Doomed(X, x), ~(v.index <= x.index)
        PROVE  \E y \in Y : l \in ToSet(y.lists["log"]) /\ ~Doomed(Y, y)
    <3>1. x \in X \ {v}
      BY <1>3, <2>2
    <3>2. x \in Y /\ ~Doomed(Y, x)
      BY <1>1, <2>2, <3>1 DEF X, Y
    <3> QED BY <2>2, <3>2
  <2> QED BY <2>1, <2>2
<1>7. \A l : l \in Live(t) <=> l \in Live(s) /\ l \notin Inside(s, v)
  BY <1>1, <1>2, <1>6
<1>8. \A l, y : (\E x \in Y : l \in ToSet(x.lists["log"]) /\ y.index <= x.index)
               <=> (\E x \in X : l \in ToSet(x.lists["log"]) /\ y.index <= x.index)
  BY <1>3
<1>9. \A l, y : l \in Inside(t, y) <=> l \in Inside(s, y) /\ l \notin Inside(s, v)
  BY <1>2, <1>7, <1>8
<1> QED BY <1>7, <1>9

(* A call begins with the logs that waited for it.                         *)
LEMMA LivePush ==
    ASSUME NEW s, StateOK(s), NEW t, StateOK(t), NEW n \in Nat, Forest(CallsOf(s), n),
           NEW u \in Call, CallsOf(t) = CallsOf(s) \cup {u},
           ~Closed(u), u.index = s.callStack.index + 1, u.lists = s.deferred,
           \A l \in ToSet(s.deferred["log"]) : l.data.frame = 0, t.deferred = NoEntries
    PROVE  /\ Live(t) = Live(s) /\ AllLogs(t) = AllLogs(s)
           /\ \A y \in CallsOf(s) : Inside(t, y) = Inside(s, y)
           /\ Inside(t, u) = {}
<1> DEFINE X == CallsOf(s)
           Y == CallsOf(t)
<1>1. /\ \A l : l \in Live(t) <=> l \in AllLogs(t) /\ (l.data.frame = 0 \/ \E y \in Y : l \in ToSet(y.lists["log"]) /\ ~Doomed(Y, y))
      /\ \A l : l \in Live(s) <=> l \in AllLogs(s) /\ (l.data.frame = 0 \/ \E x \in X : l \in ToSet(x.lists["log"]) /\ ~Doomed(X, x))
      /\ \A l, y : l \in Inside(t, y) <=> l \in Live(t) /\ l.data.frame # 0 /\ \E x \in Y : l \in ToSet(x.lists["log"]) /\ y.index <= x.index
      /\ \A l, y : l \in Inside(s, y) <=> l \in Live(s) /\ l.data.frame # 0 /\ \E x \in X : l \in ToSet(x.lists["log"]) /\ y.index <= x.index
  BY DEF Live, Inside
<1>2. Y = X \cup {u} /\ ToSet(u.lists["log"]) = ToSet(s.deferred["log"]) /\ ToSet(t.deferred["log"]) = {}
  BY NoneRising DEF Lists
<1>3. \A x \in X : ~(u.index <= x.index)
  BY CallsOfNumbers
<1>4. ~Failing(u)
  BY DEF Failing, Closed
<1>5. \A x \in X : Doomed(Y, x) <=> Doomed(X, x)
  BY <1>2, <1>4 DEF Doomed, Around
<1>6. \A l : l \in AllLogs(t) <=> l \in AllLogs(s)
  <2>1. /\ \A l : l \in AllLogs(t) <=>
             (\E x \in Y : l \in ToSet(x.lists["log"])) \/ l \in ToSet(t.deferred["log"])
        /\ \A l : l \in AllLogs(s) <=>
             (\E x \in X : l \in ToSet(x.lists["log"])) \/ l \in ToSet(s.deferred["log"])
    BY LogsOf
  <2> QED BY <1>2, <2>1
<1>7. \A l \in ToSet(u.lists["log"]) : l.data.frame = 0
  BY <1>2
<1> HIDE DEF X, Y
<1>8. \A l : l \in Live(t) <=> l \in Live(s)
  BY <1>1, <1>2, <1>5, <1>6, <1>7
<1>9. \A l : \A y \in X : l \in Inside(t, y) <=> l \in Inside(s, y)
  BY <1>1, <1>2, <1>7, <1>8
<1>10. \A l : l \notin Inside(t, u)
  BY <1>1, <1>2, <1>3, <1>7
<1> QED BY <1>6, <1>8, <1>9, <1>10 DEF X

(* The state t is s with the logs new left waiting.                        *)
Waits(s, t, new) ==
    /\ StateOK(s) /\ StateOK(t) /\ CallsOf(t) = CallsOf(s)
    /\ ToSet(t.deferred["log"]) = ToSet(s.deferred["log"]) \cup new
    /\ \A l \in new : l.data.frame = 0

LEMMA LiveDeferred ==
    ASSUME NEW s, NEW t, NEW new, Waits(s, t, new)
    PROVE  /\ Live(t) = Live(s) \cup new /\ AllLogs(t) = AllLogs(s) \cup new
           /\ \A y : Inside(t, y) = Inside(s, y)
<1> USE DEF Waits
<1> DEFINE X == CallsOf(s)
<1>1. /\ \A l : l \in Live(t) <=> l \in AllLogs(t) /\ (l.data.frame = 0 \/ \E y \in X : l \in ToSet(y.lists["log"]) /\ ~Doomed(X, y))
      /\ \A l : l \in Live(s) <=> l \in AllLogs(s) /\ (l.data.frame = 0 \/ \E x \in X : l \in ToSet(x.lists["log"]) /\ ~Doomed(X, x))
      /\ \A l, y : l \in Inside(t, y) <=> l \in Live(t) /\ l.data.frame # 0 /\ \E x \in X : l \in ToSet(x.lists["log"]) /\ y.index <= x.index
      /\ \A l, y : l \in Inside(s, y) <=> l \in Live(s) /\ l.data.frame # 0 /\ \E x \in X : l \in ToSet(x.lists["log"]) /\ y.index <= x.index
  BY DEF Live, Inside
<1>2. \A l : l \in AllLogs(t) <=> l \in AllLogs(s) \/ l \in new
  <2>1. /\ \A l : l \in AllLogs(t) <=>
             (\E x \in X : l \in ToSet(x.lists["log"])) \/ l \in ToSet(t.deferred["log"])
        /\ \A l : l \in AllLogs(s) <=>
             (\E x \in X : l \in ToSet(x.lists["log"])) \/ l \in ToSet(s.deferred["log"])
    BY LogsOf
  <2> QED BY <2>1
<1> HIDE DEF X
<1>3. \A l : l \in Live(t) <=> l \in Live(s) \/ l \in new
  <2>1. \A l : l \in new => l.data.frame = 0
    OBVIOUS
  <2>2. ASSUME NEW l, l \in new PROVE l \in Live(t)
    BY <1>1, <1>2, <2>1, <2>2
  <2>3. ASSUME NEW l, l \notin new PROVE l \in Live(t) <=> l \in Live(s)
    BY <1>1, <1>2, <2>3
  <2> QED BY <2>2, <2>3
<1>4. \A l, y : l \in Inside(t, y) <=> l \in Inside(s, y)
  <2>1. \A l : l \in new => l.data.frame = 0
    OBVIOUS
  <2>2. \A l : l.data.frame # 0 => (l \in Live(t) <=> l \in Live(s))
    BY <1>3, <2>1
  <2> QED BY <1>1, <2>2
<1> QED BY <1>2, <1>3, <1>4

(* An open call is not doomed.                                             *)
LEMMA OpenLives ==
    ASSUME NEW X, NEW n, Forest(X, n), NEW v \in X, ~Closed(v)
    PROVE  ~Doomed(X, v) /\ ~Failing(v)
BY DEF Forest, Nested, Doomed, Around, Failing, Closed

(***************************************************************************)
(* The journal of logs that the client keeps, against the live logs L of   *)
(* one of its contexts, of which In[j] are inside of its j-th open frame.  *)
(* Each live log is in the journal at its block index, all of the          *)
(* context's entries of the journal are live, and the mark of a frame      *)
(* parts the logs inside of it from those before.                          *)
(***************************************************************************)
Fits(L, In, c, logs) ==
    /\ \A l \in L : l.blockIndex < Len(logs) /\ logs[l.blockIndex + 1].data = l.data
    /\ \A i \in 1..Len(logs) : logs[i].data.by = c.id => \E l \in L : l.blockIndex = i - 1
    /\ \A l, m \in L : l.ord < m.ord => l.blockIndex < m.blockIndex
    /\ c.mark <= Len(logs)
    /\ \A j \in 1..Len(c.frames) :
         /\ c.mark <= c.frames[j].mark /\ c.frames[j].mark <= Len(logs)
         /\ \A i \in 1..j : c.frames[i].mark <= c.frames[j].mark
         /\ \A l \in L : l \in In[j] <=> c.frames[j].mark <= l.blockIndex

LogRecords == [data : Data, blockIndex : Nat]

(* The marks are numbers.                                                  *)
LEMMA MarksType ==
    ASSUME NEW c \in Contexts
    PROVE  /\ c.mark \in Nat /\ Len(c.frames) \in Nat /\ c.frames \in Seq([number : 1..MaxFrames, mark : Nat])
           /\ \A j \in 1..Len(c.frames) : c.frames[j].mark \in Nat
<1>1. c.mark \in Nat /\ c.frames \in Seq([number : 1..MaxFrames, mark : Nat])
  BY DEF Contexts
<1>2. \A j \in 1..Len(c.frames) : c.frames[j] \in [number : 1..MaxFrames, mark : Nat]
  BY <1>1, ElementType
<1> QED BY <1>1, <1>2

(* A frame is entered: no log is inside of it yet.                         *)
LEMMA FitsEnter ==
    ASSUME NEW L \in SUBSET Entry, NEW In, NEW c \in Contexts, NEW logs \in Seq(LogRecords), Fits(L, In, c, logs),
           NEW e, NEW f, f.mark = Len(logs), e.id = c.id, e.mark = c.mark, e.frames = Append(c.frames, f),
           NEW In2, \A j \in 1..Len(c.frames) : In2[j] = In[j], In2[Len(c.frames) + 1] = {}
    PROVE  Fits(L, In2, e, logs)
<1> DEFINE n == Len(c.frames)
<1>1. /\ n \in Nat /\ Len(e.frames) = n + 1 /\ e.frames[n + 1] = f
      /\ \A j \in 1..n : e.frames[j] = c.frames[j]
  BY MarksType
<1>2. Len(logs) \in Nat /\ \A l \in L : l.blockIndex \in Nat
  BY DEF Entry
<1>3. c.mark \in Nat /\ \A j \in 1..n : c.frames[j].mark \in Nat
  BY MarksType
<1>4. ASSUME NEW j \in 1..(n + 1)
      PROVE  /\ e.mark <= e.frames[j].mark /\ e.frames[j].mark <= Len(logs)
             /\ \A i \in 1..j : e.frames[i].mark <= e.frames[j].mark
             /\ \A l \in L : l \in In2[j] <=> e.frames[j].mark <= l.blockIndex
  <2>1. CASE j \in 1..n
    BY <1>1, <1>2, <1>3, <2>1 DEF Fits
  <2>2. CASE j = n + 1
    <3>1. \A i \in 1..n : e.frames[i].mark <= Len(logs)
      BY <1>1 DEF Fits
    <3>2. \A l \in L : ~(Len(logs) <= l.blockIndex)
      BY <1>2 DEF Fits
    <3>3. c.mark <= Len(logs) /\ e.frames[j].mark = Len(logs) /\ In2[j] = {}
      BY <1>1, <2>2 DEF Fits
    <3> QED BY <1>1, <1>2, <2>2, <3>1, <3>2, <3>3
  <2> QED BY <1>1, <2>1, <2>2
<1>5. e.mark <= Len(logs)
  BY DEF Fits
<1> QED BY <1>1, <1>4, <1>5 DEF Fits

(* A frame is left, and its logs with it if it failed.                     *)
LEMMA FitsExit ==
    ASSUME NEW L \in SUBSET Entry, NEW In, NEW c \in Contexts, NEW logs \in Seq(LogRecords), Fits(L, In, c, logs),
           c.frames # <<>>, NEW e, e.id = c.id, e.mark = c.mark, e.frames = Front(c.frames),
           NEW M, NEW In2, NEW logs2,
           \/ M = L /\ logs2 = logs /\ \A j \in 1..(Len(c.frames) - 1) : In2[j] = In[j]
           \/ /\ M = L \ In[Len(c.frames)] /\ logs2 = Truncate(logs, c.frames[Len(c.frames)].mark)
              /\ \A j \in 1..(Len(c.frames) - 1) : In2[j] = In[j] \ In[Len(c.frames)]
    PROVE  Fits(M, In2, e, logs2)
<1> DEFINE n == Len(c.frames)
<1>1. /\ n \in Nat /\ n >= 1 /\ Len(e.frames) = n - 1
      /\ \A j \in 1..(n - 1) : e.frames[j] = c.frames[j]
  BY MarksType, DropLast DEF Front
<1>2. Len(logs) \in Nat /\ \A l \in L : l.blockIndex \in Nat
  BY DEF Entry
<1>3. c.mark \in Nat /\ \A j \in 1..n : c.frames[j].mark \in Nat
  BY MarksType
<1>4. CASE M = L /\ logs2 = logs /\ \A j \in 1..(n - 1) : In2[j] = In[j]
  <2>1. \A j \in 1..(n - 1) : j \in 1..n /\ e.frames[j] = c.frames[j] /\ In2[j] = In[j] /\ \A i \in 1..j : i \in 1..(n - 1)
    BY <1>1, <1>4
  <2>2. \A j \in 1..(n - 1) :
         /\ e.mark <= e.frames[j].mark /\ e.frames[j].mark <= Len(logs)
         /\ \A i \in 1..j : e.frames[i].mark <= e.frames[j].mark
         /\ \A l \in L : l \in In2[j] <=> e.frames[j].mark <= l.blockIndex
    BY <2>1 DEF Fits
  <2> QED BY <1>1, <1>4, <2>2 DEF Fits
<1>5. CASE /\ M = L \ In[n] /\ logs2 = Truncate(logs, c.frames[n].mark)
           /\ \A j \in 1..(n - 1) : In2[j] = In[j] \ In[n]
  <2> DEFINE k == c.frames[n].mark
  <2>1. k \in Nat /\ k <= Len(logs) /\ c.mark <= k /\ n \in 1..n
    BY <1>1, <1>3 DEF Fits
  <2>2. Len(logs2) = k /\ \A i \in 1..k : logs2[i] = logs[i]
    BY <1>2, <1>5, <2>1 DEF Truncate
  <2>3. \A l \in L : l \in In[n] <=> k <= l.blockIndex
    BY <2>1 DEF Fits
  <2> HIDE DEF k
  <2>4. \A l \in M : l \in L /\ l.blockIndex < k /\ l.blockIndex \in Nat
    BY <1>2, <1>5, <2>1, <2>3
  <2>5. \A l \in M : logs2[l.blockIndex + 1].data = l.data
    <3>1. \A l \in M : l.blockIndex + 1 \in 1..k /\ logs[l.blockIndex + 1].data = l.data
      BY <2>1, <2>4 DEF Fits
    <3> QED BY <2>2, <3>1
  <2>6. \A i \in 1..k : logs2[i].data.by = c.id => \E l \in M : l.blockIndex = i - 1
    <3> SUFFICES ASSUME NEW i \in 1..k, logs2[i].data.by = c.id
                 PROVE  \E l \in M : l.blockIndex = i - 1
      OBVIOUS
    <3>1. PICK l \in L : l.blockIndex = i - 1
      BY <1>2, <2>1, <2>2 DEF Fits
    <3>2. l \in M
      BY <1>5, <2>1, <2>3, <3>1
    <3> QED BY <3>1, <3>2
  <2>7. ASSUME NEW j \in 1..(n - 1)
        PROVE  /\ c.mark <= c.frames[j].mark /\ c.frames[j].mark <= k
               /\ \A i \in 1..j : c.frames[i].mark <= c.frames[j].mark
               /\ \A l \in M : l \in In2[j] <=> c.frames[j].mark <= l.blockIndex
    <3>1. j \in 1..n /\ n \in 1..n
      BY <1>1
    <3>2. c.frames[j].mark <= k
      BY <1>1, <3>1 DEF Fits, k
    <3>3. \A l \in L : l \in In[j] <=> c.frames[j].mark <= l.blockIndex
      BY <3>1 DEF Fits
    <3>4. \A l \in M : l \in In2[j] <=> l \in In[j]
      BY <1>5
    <3> QED BY <2>4, <3>1, <3>2, <3>3, <3>4 DEF Fits
  <2>8. \A l, m \in M : l.ord < m.ord => l.blockIndex < m.blockIndex
    BY <2>4 DEF Fits
  <2>9. \A j \in 1..(n - 1) : \A i \in 1..j : i \in 1..(n - 1)
    BY <1>1
  <2> QED BY <1>1, <2>1, <2>2, <2>4, <2>5, <2>6, <2>7, <2>8, <2>9 DEF Fits
<1> QED BY <1>4, <1>5

(* A log of the context, of whatever frame is innermost or of none.        *)
LEMMA FitsLog ==
    ASSUME NEW L \in SUBSET Entry, NEW In, NEW c \in Contexts, NEW logs \in Seq(LogRecords), Fits(L, In, c, logs),
           NEW e \in Entry, e.blockIndex = Len(logs), \A l \in L : l.ord < e.ord,
           NEW r \in LogRecords, r.data = e.data,
           NEW In2, \A j \in 1..Len(c.frames) : In2[j] = In[j] \cup {e}
    PROVE  Fits(L \cup {e}, In2, c, Append(logs, r))
<1> DEFINE n == Len(logs)
           logs2 == Append(logs, r)
<1>1. n \in Nat /\ Len(logs2) = n + 1 /\ logs2[n + 1] = r /\ \A i \in 1..n : logs2[i] = logs[i]
  OBVIOUS
<1>2. \A l \in L : l.blockIndex \in Nat /\ l.ord \in Nat /\ l.blockIndex < n
  BY DEF Entry, Fits
<1>3. e.ord \in Nat /\ e.blockIndex = n
  BY DEF Entry
<1>4. c.mark \in Nat /\ \A j \in 1..Len(c.frames) : c.frames[j].mark \in Nat
  BY MarksType
<1> HIDE DEF n, logs2
<1>5. \A l \in L \cup {e} : l.blockIndex < n + 1 /\ logs2[l.blockIndex + 1].data = l.data
  <2>1. \A l \in L : l.blockIndex + 1 \in 1..n /\ logs[l.blockIndex + 1].data = l.data
    BY <1>1, <1>2 DEF Fits
  <2> QED BY <1>1, <1>2, <1>3, <2>1
<1>6. \A i \in 1..(n + 1) : logs2[i].data.by = c.id => \E l \in L \cup {e} : l.blockIndex = i - 1
  <2> SUFFICES ASSUME NEW i \in 1..(n + 1), logs2[i].data.by = c.id
               PROVE  \E l \in L \cup {e} : l.blockIndex = i - 1
    OBVIOUS
  <2>1. CASE i = n + 1
    BY <1>1, <1>3, <2>1
  <2>2. CASE i \in 1..n
    BY <1>1, <2>2 DEF Fits, n
  <2> QED BY <1>1, <2>1, <2>2
<1>7. \A l, m \in L \cup {e} : l.ord < m.ord => l.blockIndex < m.blockIndex
  <2>1. \A l, m \in L : l.ord < m.ord => l.blockIndex < m.blockIndex
    BY DEF Fits
  <2>2. \A l \in L : ~(e.ord < l.ord)
    BY <1>2, <1>3
  <2> QED BY <1>2, <1>3, <2>1, <2>2
<1>8. ASSUME NEW j \in 1..Len(c.frames)
      PROVE  /\ c.mark <= c.frames[j].mark /\ c.frames[j].mark <= n + 1
             /\ \A i \in 1..j : c.frames[i].mark <= c.frames[j].mark
             /\ \A l \in L \cup {e} : l \in In2[j] <=> c.frames[j].mark <= l.blockIndex
  <2>1. /\ c.mark <= c.frames[j].mark /\ c.frames[j].mark <= n
        /\ \A i \in 1..j : c.frames[i].mark <= c.frames[j].mark
        /\ \A l \in L : l \in In[j] <=> c.frames[j].mark <= l.blockIndex
    BY DEF Fits, n
  <2>2. In2[j] = In[j] \cup {e} /\ c.frames[j].mark \in Nat
    BY <1>4
  <2> QED BY <1>1, <1>3, <2>1, <2>2
<1>9. c.mark <= n + 1
  BY <1>1, <1>4 DEF Fits, n
<1> QED BY <1>1, <1>5, <1>6, <1>7, <1>8, <1>9 DEF Fits, logs2

(* What happens in a system call while the context is set aside: logs of   *)
(* another context come and go after all that is its own.                  *)
LEMMA FitsAside ==
    ASSUME NEW L \in SUBSET Entry, NEW In, NEW c \in Contexts, NEW logs \in Seq(LogRecords), Fits(L, In, c, logs),
           NEW logs2,
           \/ \E r \in LogRecords : r.data.by # c.id /\ logs2 = Append(logs, r)
           \/ \E n \in Nat : /\ logs2 = Truncate(logs, n) /\ c.mark <= n
                             /\ \A l \in L : l.blockIndex < n
                             /\ \A j \in 1..Len(c.frames) : c.frames[j].mark <= n
    PROVE  Fits(L, In, c, logs2)
<1>1. Len(logs) \in Nat /\ \A l \in L : l.blockIndex \in Nat
  BY DEF Entry
<1>2. c.mark \in Nat /\ \A j \in 1..Len(c.frames) : c.frames[j].mark \in Nat
  BY MarksType
<1>3. \A l \in L : l.blockIndex + 1 \in 1..Len(logs) /\ logs[l.blockIndex + 1].data = l.data
  BY <1>1 DEF Fits
<1>4. ASSUME NEW r \in LogRecords, r.data.by # c.id, logs2 = Append(logs, r)
      PROVE  Fits(L, In, c, logs2)
  <2>1. Len(logs2) = Len(logs) + 1 /\ logs2[Len(logs) + 1] = r /\ \A i \in 1..Len(logs) : logs2[i] = logs[i]
    BY <1>4
  <2>2. \A i \in 1..Len(logs2) : logs2[i].data.by = c.id => i \in 1..Len(logs)
    BY <1>1, <1>4, <2>1
  <2>3. \A l \in L : l.blockIndex < Len(logs2) /\ logs2[l.blockIndex + 1].data = l.data
    BY <1>1, <1>3, <2>1
  <2>4. \A i \in 1..Len(logs2) : logs2[i].data.by = c.id => \E l \in L : l.blockIndex = i - 1
    BY <2>1, <2>2 DEF Fits
  <2>5. c.mark <= Len(logs2) /\ \A j \in 1..Len(c.frames) : c.frames[j].mark <= Len(logs2)
    BY <1>1, <1>2, <2>1 DEF Fits
  <2> QED BY <2>3, <2>4, <2>5 DEF Fits
<1>5. ASSUME NEW n \in Nat, logs2 = Truncate(logs, n), c.mark <= n, \A l \in L : l.blockIndex < n,
             \A j \in 1..Len(c.frames) : c.frames[j].mark <= n
      PROVE  Fits(L, In, c, logs2)
  <2>1. Len(logs2) = (IF n < Len(logs) THEN n ELSE Len(logs)) /\ \A i \in 1..Len(logs2) : logs2[i] = logs[i] /\ i \in 1..Len(logs)
    BY <1>1, <1>5 DEF Truncate
  <2>2. \A l \in L : l.blockIndex < Len(logs2) /\ l.blockIndex + 1 \in 1..Len(logs2)
    BY <1>1, <1>3, <1>5, <2>1
  <2>3. \A l \in L : l.blockIndex < Len(logs2) /\ logs2[l.blockIndex + 1].data = l.data
    BY <1>3, <2>1, <2>2
  <2>4. \A i \in 1..Len(logs2) : logs2[i].data.by = c.id => \E l \in L : l.blockIndex = i - 1
    BY <2>1 DEF Fits
  <2>5. c.mark <= Len(logs2) /\ \A j \in 1..Len(c.frames) : c.frames[j].mark <= Len(logs2)
    BY <1>1, <1>2, <1>5, <2>1 DEF Fits
  <2> QED BY <2>3, <2>4, <2>5 DEF Fits
<1> QED BY <1>4, <1>5

(* What a hook that neither enters nor leaves a call does to the logs: it  *)
(* adds the logs new, inside of all open calls if there are any.           *)
Effect(s, t, new) ==
    /\ Live(t) = Live(s) \cup new /\ AllLogs(t) = AllLogs(s) \cup new
    /\ Len(t.callStack.stack) = Len(s.callStack.stack)
    /\ \A j \in 1..Len(s.callStack.stack) :
         Inside(t, t.callStack.stack[j]) = Inside(s, s.callStack.stack[j]) \cup new

(* None, when calls and deferred logs are as they were.                    *)
LEMMA EffectNone ==
    ASSUME NEW s, NEW t, t.trx = s.trx, t.callStack = s.callStack, t.deferred = s.deferred
    PROVE  Effect(s, t, {})
<1>1. AllLogs(t) = AllLogs(s) /\ CallsOf(t) = CallsOf(s)
  BY DEF AllLogs, CallsOf
<1>2. Live(t) = Live(s)
  BY <1>1 DEF Live
<1>3. \A y : Inside(t, y) = Inside(s, y)
  BY <1>1, <1>2 DEF Inside
<1> QED BY <1>1, <1>2, <1>3 DEF Effect

(* On the call on top.                                                     *)
LEMMA EffectOnTop ==
    ASSUME NEW s, StateOK(s), NEW c, NEW n \in Nat, Shape(s, c, n), HasActiveCall(s.callStack),
           NEW v, v = Peek(s.callStack),
           NEW u \in Call, u.index = v.index, u.begin = v.begin, u.depth = v.depth, u.parent = v.parent,
           u.outcome = v.outcome, u.end = v.end, u.data = v.data,
           NEW t, StateOK(t), t.trx = s.trx, t.callStack = OnTop(s.callStack, u), t.deferred = s.deferred,
           NEW new, ToSet(u.lists["log"]) = ToSet(v.lists["log"]) \cup new,
           \A l \in new : l.data.frame # 0 /\ l \notin AllLogs(s)
    PROVE  Effect(s, t, new)
<1> DEFINE cs == s.callStack
           N  == Len(cs.stack)
<1>1. BranchOK(cs) /\ cs \in CallStack /\ n <= n
  BY StateParts
<1>2. CallsOf(t) = (CallsOf(s) \ {v}) \cup {u} /\ v \in CallsOf(s)
  BY <1>1, ShapeOnTop
<1>3. Forest(CallsOf(s), n) /\ Named(s, c)
  BY DEF Shape
<1>4. v \in ToSet(cs.stack) /\ v = cs.stack[N] /\ N \in Nat /\ N >= 1 /\ N \in 1..N
  BY <1>1, OpenNumbers, PeekType
<1>5. ~Closed(v) /\ ~Closed(u)
  BY <1>3, <1>4, OpenCalls DEF Closed
<1>6. ~Doomed(CallsOf(s), v) /\ ~Failing(v) /\ ~Failing(u)
  BY <1>2, <1>3, <1>5, OpenLives DEF Failing, Closed
<1>7. Anew(s, n, t, v, u, new)
  BY <1>2, <1>3, <1>6 DEF Anew
<1>8. /\ Live(t) = Live(s) \cup new
      /\ \A y : Inside(t, y) = Inside(s, y) \cup (IF y.index <= v.index THEN new ELSE {})
  BY <1>6, <1>7, LiveAdded
<1>9. AllLogs(t) = AllLogs(s) \cup new
  BY <1>7, LiveReplace
<1>10. /\ Len(t.callStack.stack) = N
       /\ \A j \in 1..N : t.callStack.stack[j].index = cs.stack[j].index
  BY <1>1, OnTopBranch
<1>11. \A j \in 1..N : cs.stack[j].index <= v.index
  <2>1. \A j \in 1..N : cs.stack[j] \in ToSet(cs.stack)
    BY <1>1, SeqElements DEF CallStack
  <2> QED BY <1>1, <2>1, OpenNumbers
<1>12. \A j \in 1..N : Inside(t, t.callStack.stack[j]) = Inside(t, cs.stack[j])
  BY <1>10 DEF Inside
<1> QED BY <1>8, <1>9, <1>10, <1>11, <1>12 DEF Effect

(* OnOpcode has none.                                                      *)
LEMMA OpcodeEffect ==
    ASSUME StateOK(cur), StateOK(cur'), NEW c, NEW n \in Nat, Shape(cur, c, n),
           NEW selfdestruct \in BOOLEAN, NEW failed \in BOOLEAN, OnOpcode(selfdestruct, failed)
    PROVE  Effect(cur, cur', {})
<1> DEFINE cs      == cur.callStack
           top     == Peek(cs)
           suicide == top.suicide \/ (selfdestruct /\ ~failed)
           call    == [top EXCEPT !.executed = TRUE, !.suicide = suicide]
           after   == OnTop(cs, call)
<1>1. cur \in TrxState /\ cs \in CallStack
  BY StateParts
<1>2. cur' = IF HasActiveCall(cs) THEN [cur EXCEPT !.callStack = after] ELSE cur
  BY DEF OnOpcode
<1>3. CASE ~HasActiveCall(cs)
  BY <1>2, <1>3, EffectNone
<1>4. CASE HasActiveCall(cs)
  <2>1. top \in Call
    BY <1>1, <1>4, PeekType
  <2>2. suicide \in BOOLEAN
    <3> HIDE DEF top
    <3> QED BY <2>1 DEF Call
  <2>3. cur'.trx = cur.trx /\ cur'.callStack = after /\ cur'.deferred = cur.deferred
    <3> HIDE DEF after
    <3> QED BY <1>1, <1>2, <1>4 DEF TrxState
  <2> HIDE DEF suicide, top
  <2>4. /\ call \in Call /\ call.index = top.index /\ call.begin = top.begin /\ call.depth = top.depth
        /\ call.parent = top.parent /\ call.outcome = top.outcome /\ call.end = top.end
        /\ call.data = top.data /\ call.lists = top.lists
    BY <2>1, <2>2 DEF Call
  <2> HIDE DEF call
  <2>5. top = Peek(cur.callStack) /\ cur'.callStack = OnTop(cur.callStack, call) /\ HasActiveCall(cur.callStack)
    BY <1>4, <2>3 DEF top
  <2>6. ToSet(call.lists["log"]) = ToSet(top.lists["log"]) \cup {}
    BY <2>4
  <2> HIDE DEF cs, after
  <2> QED BY <2>3, <2>4, <2>5, <2>6, EffectOnTop
<1> QED BY <1>3, <1>4

(* A log, or another change, of the frame that is active or of none.       *)
LEMMA AttachedEffect ==
    ASSUME StateOK(cur), NEW c \in Contexts, NEW n \in Nat, Shape(cur, c, n), LogsOK(cur, n),
           NEW k \in Lists, NEW e \in Entry, e.ord = n + 1,
           c.frames = <<>> <=> e.data.frame = 0,
           NEW t, StateOK(t), t.trx = cur.trx,
           t.callStack = Attached(k, e).callStack, t.deferred = Attached(k, e).deferred
    PROVE  Effect(cur, t, IF k = "log" THEN {e} ELSE {})
<1> DEFINE cs    == cur.callStack
           top   == Peek(cs)
           lists == Add(top.lists, k, e)
           call  == [top EXCEPT !.lists = lists]
           added == IF k = "log" THEN {e} ELSE {}
<1>1. /\ cur \in TrxState /\ BranchOK(cs) /\ cs \in CallStack
      /\ cur.deferred \in [Lists -> Seq(Entry)] /\ "log" \in Lists
  BY StateParts DEF Lists
<1>2. HasActiveCall(cs) <=> c.frames # <<>>
  BY ActiveFrame DEF Shape
<1>3. \A own \in [Lists -> Seq(Entry)] : ToSet(Add(own, k, e)["log"]) = ToSet(own["log"]) \cup added
  <2> SUFFICES ASSUME NEW own \in [Lists -> Seq(Entry)]
               PROVE  ToSet(Add(own, k, e)["log"]) = ToSet(own["log"]) \cup added
    OBVIOUS
  <2> DEFINE list == own["log"]
  <2>1. list \in Seq(Entry) /\ Add(own, k, e)["log"] = IF k = "log" THEN Append(list, e) ELSE list
    BY <1>1 DEF Add
  <2> HIDE DEF list
  <2>2. CASE k = "log"
    BY <2>1, <2>2, AppendToSet DEF list
  <2>3. CASE k # "log"
    BY <2>1, <2>3 DEF list
  <2> QED BY <2>2, <2>3
<1>4. \A l \in added : l \notin AllLogs(cur)
  <2>1. \A l \in AllLogs(cur) : l.ord <= n
    BY DEF LogsOK
  <2>2. ~(e.ord <= n)
    OBVIOUS
  <2> QED BY <2>1, <2>2
<1>5. CASE HasActiveCall(cs)
  <2>1. top \in Call /\ top.lists \in [Lists -> Seq(Entry)]
    <3>1. top \in Call
      BY <1>1, <1>5, PeekType
    <3> HIDE DEF top
    <3> QED BY <3>1 DEF Call
  <2>2. t.callStack = OnTop(cs, call) /\ t.deferred = cur.deferred
    <3> DEFINE after == OnTop(cs, call)
    <3>1. Attached(k, e) = [cur EXCEPT !.callStack = after]
      BY <1>5 DEF Attached
    <3> HIDE DEF after
    <3> QED BY <1>1, <3>1 DEF TrxState, after
  <2>3. lists \in [Lists -> Seq(Entry)] /\ ToSet(lists["log"]) = ToSet(top.lists["log"]) \cup added
    BY <1>3, <2>1, ListsType
  <2> HIDE DEF lists, top
  <2>4. /\ call \in Call /\ call.index = top.index /\ call.begin = top.begin /\ call.depth = top.depth
        /\ call.parent = top.parent /\ call.outcome = top.outcome /\ call.end = top.end
        /\ call.data = top.data /\ call.lists = lists
    BY <2>1, <2>3 DEF Call
  <2> HIDE DEF call, added
  <2>5. /\ top = Peek(cur.callStack) /\ t.callStack = OnTop(cur.callStack, call) /\ HasActiveCall(cur.callStack)
        /\ ToSet(call.lists["log"]) = ToSet(top.lists["log"]) \cup added
    BY <1>5, <2>2, <2>3, <2>4 DEF top
  <2>6. \A l \in added : l.data.frame # 0 /\ l \notin AllLogs(cur)
    BY <1>2, <1>4, <1>5 DEF added
  <2> HIDE DEF cs
  <2>7. Effect(cur, t, added)
    BY <2>2, <2>4, <2>5, <2>6, EffectOnTop
  <2> QED BY <2>7 DEF added
<1>6. CASE ~HasActiveCall(cs)
  <2>1. t.callStack = cs /\ t.deferred = Add(cur.deferred, k, e)
    <3> DEFINE d == Add(cur.deferred, k, e)
    <3>1. Attached(k, e) = [cur EXCEPT !.deferred = d]
      BY <1>6 DEF Attached
    <3> HIDE DEF d
    <3> QED BY <1>1, <3>1 DEF TrxState, d
  <2>2. ToSet(t.deferred["log"]) = ToSet(cur.deferred["log"]) \cup added
    BY <1>1, <1>3, <2>1
  <2>3. CallsOf(t) = CallsOf(cur)
    BY <2>1 DEF CallsOf
  <2>4. \A l \in added : l.data.frame = 0
    BY <1>2, <1>6
  <2>5. Len(cs.stack) = 0 /\ t.callStack = cur.callStack
    BY <1>6, <2>1 DEF HasActiveCall
  <2> HIDE DEF added, cs
  <2>6. Live(t) = Live(cur) \cup added /\ AllLogs(t) = AllLogs(cur) \cup added
    <3>1. Waits(cur, t, added)
      BY <2>2, <2>3, <2>4 DEF Waits
    <3> QED BY <3>1, LiveDeferred
  <2>7. Effect(cur, t, added)
    BY <2>5, <2>6 DEF Effect, cs
  <2> QED BY <2>7 DEF added
<1> QED BY <1>5, <1>6

-----------------------------------------------------------------------------
(* The client's journal of logs                                            *)

(* Live logs by the open call they are inside of.                          *)
Parts(s) == [j \in 1..Len(s.callStack.stack) |-> Inside(s, s.callStack.stack[j])]

(* The live logs of the state s are those of context c in the journal.     *)
Reported(s, c, logs) ==
    /\ \A l \in AllLogs(s) : l.data.frame = 0 => HasNeverRevertedLog
    /\ Fits(Live(s), Parts(s), c, logs)

(* So are those of a context that is set aside, below the mark m.          *)
Aside(s, c, logs, m) ==
    /\ Reported(s, c, logs)
    /\ c.mark <= m /\ \A j \in 1..Len(c.frames) : c.frames[j].mark <= m
    /\ \A l \in Live(s) : l.blockIndex < m

(* The journal is dense, and of contexts that have begun.                  *)
Indexed(logs, started) ==
    \A i \in 1..Len(logs) : logs[i].blockIndex = i - 1 /\ logs[i].data.by \in 0..started

(* A client that may give up on a transaction without it being dropped.    *)
Muted == Behaves("no receipt") /\ ~DropTransactionsWithoutReceipt

Journalled ==
    /\ Len(evm.running) = 1 => Reported(cur, evm.running[1], evm.logs)
    /\ Len(evm.running) = 2 => /\ Aside(interrupted[1], evm.running[1], evm.logs, evm.running[2].mark)
                               /\ Reported(cur, evm.running[2], evm.logs)
    /\ Indexed(evm.logs, evm.started)
    /\ Muted => evm.logs = <<>>

(* Clients that keep the tracer from what it panics at: they emit logs     *)
(* outside of calls only on a chain that never reverts those, and none if  *)
(* they may give up on a transaction without it being dropped.             *)
Careful ==
    /\ Disciplined
    /\ \A p \in Profiles :
         /\ "log" \in p.outsideTrx => HasNeverRevertedLog
         /\ "no receipt" \in p.behaviours /\ ~DropTransactionsWithoutReceipt => "log" \notin p.inFrame

(* Live logs are entries.                                                  *)
LEMMA LiveType ==
    ASSUME NEW s, StateOK(s)
    PROVE  Live(s) \in SUBSET Entry /\ Live(s) \subseteq AllLogs(s) /\ IsFiniteSet(Live(s))
<1>1. AllLogs(s) \subseteq Entry /\ IsFiniteSet(AllLogs(s))
  BY LogsOf
<1>2. Live(s) \subseteq AllLogs(s)
  BY DEF Live
<1> QED BY <1>1, <1>2, FS_Subset

(* A hook that adds no log ...                                             *)
LEMMA ReportedEffect ==
    ASSUME NEW s, NEW c, NEW logs, Reported(s, c, logs), NEW t, Effect(s, t, {})
    PROVE  Reported(t, c, logs)
<1>1. Live(t) = Live(s) /\ AllLogs(t) = AllLogs(s)
  BY DEF Effect
<1>2. Parts(t) = Parts(s)
  BY DEF Effect, Parts
<1> QED BY <1>1, <1>2 DEF Reported

(* ... and one that adds one.                                              *)
LEMMA ReportedLog ==
    ASSUME NEW s, StateOK(s), NEW c \in Contexts, Len(s.callStack.stack) = Len(c.frames),
           NEW logs \in Seq(LogRecords), Reported(s, c, logs),
           NEW e \in Entry, e.blockIndex = Len(logs), \A l \in AllLogs(s) : l.ord < e.ord,
           e.data.frame = 0 => HasNeverRevertedLog,
           NEW t, Effect(s, t, {e}), NEW r \in LogRecords, r.data = e.data
    PROVE  Reported(t, c, Append(logs, r))
<1> DEFINE n  == Len(c.frames)
           In == Parts(s)
           In2 == Parts(t)
           L == Live(s)
<1>1. L \in SUBSET Entry /\ L \subseteq AllLogs(s)
  BY LiveType
<1>2. Live(t) = L \cup {e} /\ AllLogs(t) = AllLogs(s) \cup {e} /\ \A j \in 1..n : In2[j] = In[j] \cup {e}
  BY DEF Effect, Parts
<1>3. Fits(L, In, c, logs)
  BY DEF Reported
<1>4. \A l \in L : l.ord < e.ord
  BY <1>1
<1>5. \A l \in AllLogs(t) : l.data.frame = 0 => HasNeverRevertedLog
  BY <1>2 DEF Reported
<1> HIDE DEF n, In, In2, L
<1>6. Fits(L \cup {e}, In2, c, Append(logs, r))
  BY <1>1, <1>2, <1>3, <1>4, FitsLog DEF n
<1> QED BY <1>2, <1>5, <1>6 DEF Reported, In2

(* A context is aside while another goes on above its mark.                *)
LEMMA AsideStays ==
    ASSUME NEW s, StateOK(s), NEW c \in Contexts, NEW logs \in Seq(LogRecords), NEW m \in Nat,
           Aside(s, c, logs, m), NEW logs2,
           \/ logs2 = logs
           \/ \E r \in LogRecords : r.data.by # c.id /\ logs2 = Append(logs, r)
           \/ \E n \in Nat : m <= n /\ logs2 = Truncate(logs, n)
    PROVE  Aside(s, c, logs2, m)
<1> DEFINE L == Live(s)
           In == Parts(s)
<1>1. L \in SUBSET Entry /\ \A l \in L : l.blockIndex \in Nat
  BY LiveType DEF Entry
<1>2. Fits(L, In, c, logs)
  BY DEF Aside, Reported
<1>3. /\ c.mark \in Nat /\ \A j \in 1..Len(c.frames) : c.frames[j].mark \in Nat
      /\ c.mark <= m /\ \A j \in 1..Len(c.frames) : c.frames[j].mark <= m
      /\ \A l \in L : l.blockIndex < m
  BY MarksType DEF Aside
<1> HIDE DEF L, In
<1>4. Fits(L, In, c, logs2)
  <2>1. CASE logs2 = logs
    BY <1>2, <2>1
  <2>2. CASE \E r \in LogRecords : r.data.by # c.id /\ logs2 = Append(logs, r)
    BY <1>1, <1>2, <2>2, FitsAside
  <2>3. CASE \E n \in Nat : m <= n /\ logs2 = Truncate(logs, n)
    <3>1. PICK n \in Nat : m <= n /\ logs2 = Truncate(logs, n)
      BY <2>3
    <3>2. c.mark <= n /\ (\A j \in 1..Len(c.frames) : c.frames[j].mark <= n) /\ \A l \in L : l.blockIndex < n
      BY <1>1, <1>3, <3>1
    <3> QED BY <1>1, <1>2, <3>1, <3>2, FitsAside
  <2> QED BY <2>1, <2>2, <2>3
<1> QED BY <1>4 DEF Aside, Reported, L, In

(* What is to be shown of the state after a step.                          *)
LEMMA JournalledNext ==
    ASSUME UNCHANGED profile, Len(evm'.running) = 1 => Reported(cur', evm'.running[1], evm'.logs),
           Len(evm'.running) = 2 => /\ Aside(interrupted'[1], evm'.running[1], evm'.logs, evm'.running[2].mark)
                                    /\ Reported(cur', evm'.running[2], evm'.logs),
           Indexed(evm'.logs, evm'.started), Muted => evm'.logs = <<>>
    PROVE  Journalled'
<1>1. Muted' <=> Muted
  BY DEF Muted, Behaves
<1>2. Journalled' <=>
        /\ Len(evm'.running) = 1 => Reported(cur', evm'.running[1], evm'.logs)
        /\ Len(evm'.running) = 2 => /\ Aside(interrupted'[1], evm'.running[1], evm'.logs, evm'.running[2].mark)
                                    /\ Reported(cur', evm'.running[2], evm'.logs)
        /\ Indexed(evm'.logs, evm'.started)
        /\ (Muted' => evm'.logs = <<>>)
  BY DEF Journalled
<1> QED BY <1>1, <1>2

(* The client's side of the invariant.                                     *)
LEMMA TopReported ==
    ASSUME LinkedOK, Linked, Traced, Journalled, Running
    PROVE  /\ Reported(cur, Top, evm.logs) /\ Traces(cur, Top, ordinal) /\ Top \in Contexts
           /\ Len(cur.callStack.stack) = Len(Top.frames) /\ StateOK(cur) /\ LogsOK(cur, ordinal) /\ ordinal \in Nat
           /\ evm.logs \in Seq(LogRecords) /\ Len(evm.logs) \in Nat /\ evm.running \in Seq(Contexts)
           /\ Len(evm.running) = 1 \/ Len(evm.running) = 2
<1>1. /\ StateOK(cur) /\ LogsOK(cur, ordinal) /\ ordinal \in Nat /\ evm.logs \in Seq(LogRecords)
  BY DEF LinkedOK, TracerOK, HooksOK, LogOrdinalsOK, Clients, LogRecords
<1>2. Traces(cur, Top, ordinal) /\ Top \in Contexts /\ Top = evm.running[Len(evm.running)] /\ evm.running \in Seq(Contexts)
  BY TopTraces
<1>3. Len(cur.callStack.stack) = Len(Top.frames)
  BY <1>2 DEF Traces, Shape, Named, Frames
<1>4. Len(evm.running) = 1 \/ Len(evm.running) = 2
  BY LinkedShape
<1>5. Reported(cur, Top, evm.logs)
  BY <1>2, <1>4 DEF Journalled
<1> QED BY <1>1, <1>2, <1>3, <1>4, <1>5

(* What an append or a truncation leaves of the journal's order.           *)
LEMMA IndexedKeeps ==
    ASSUME NEW logs \in Seq(LogRecords), NEW n \in Nat, Indexed(logs, n), NEW m \in Nat, n <= m, NEW logs2,
           \/ logs2 = logs
           \/ \E r \in LogRecords : r.data.by \in 0..m /\ r.blockIndex = Len(logs) /\ logs2 = Append(logs, r)
           \/ \E k \in Nat : logs2 = Truncate(logs, k)
    PROVE  Indexed(logs2, m)
<1>1. Len(logs) \in Nat /\ \A i \in 1..Len(logs) : logs[i].blockIndex = i - 1 /\ logs[i].data.by \in 0..m
  BY DEF Indexed
<1>2. CASE logs2 = logs
  BY <1>1, <1>2 DEF Indexed
<1>3. ASSUME NEW r \in LogRecords, r.data.by \in 0..m, r.blockIndex = Len(logs), logs2 = Append(logs, r)
      PROVE  Indexed(logs2, m)
  <2>1. Len(logs2) = Len(logs) + 1 /\ logs2[Len(logs) + 1] = r /\ \A i \in 1..Len(logs) : logs2[i] = logs[i]
    BY <1>3
  <2> QED BY <1>1, <1>3, <2>1 DEF Indexed
<1>4. ASSUME NEW k \in Nat, logs2 = Truncate(logs, k)
      PROVE  Indexed(logs2, m)
  <2>1. \A i \in 1..Len(logs2) : logs2[i] = logs[i] /\ i \in 1..Len(logs)
    BY <1>1, <1>4 DEF Truncate
  <2> QED BY <1>1, <2>1 DEF Indexed
<1> QED BY <1>2, <1>3, <1>4

(* A step of the context on top, which becomes c.                          *)
LEMMA InsideJournalled ==
    ASSUME LinkedOK, Linked, Traced, Journalled, Running, UNCHANGED profile,
           NEW c, c.id = Top.id, c.mark = Top.mark,
           Len(evm'.running) = Len(evm.running),
           \A i \in 1..Len(evm.running) :
               evm'.running[i] = IF i = Len(evm.running) THEN c ELSE evm.running[i],
           evm'.started = evm.started, UNCHANGED interrupted,
           \/ evm'.logs = evm.logs
           \/ /\ ~Muted
              /\ \E r \in LogRecords : r.data.by = Top.id /\ r.blockIndex = Len(evm.logs) /\ evm'.logs = Append(evm.logs, r)
           \/ \E k \in Nat : Top.mark <= k /\ evm'.logs = Truncate(evm.logs, k),
           Reported(cur', c, evm'.logs)
    PROVE  Journalled'
<1>1. /\ evm.logs \in Seq(LogRecords) /\ evm.running \in Seq(Contexts)
      /\ Len(evm.running) = 1 \/ Len(evm.running) = 2
  BY TopReported
<1>2. /\ Top.id \in Nat /\ Top.id <= evm.started /\ evm.started \in Nat /\ evm.started <= evm.started
      /\ Top = evm.running[Len(evm.running)]
      /\ Len(evm.running) = 2 => StateOK(interrupted[1])
  BY TopTraces
<1>3. Indexed(evm'.logs, evm'.started)
  <2> DEFINE logs  == evm.logs
             logs2 == evm'.logs
             n     == evm.started
  <2>1. /\ \/ logs2 = logs
           \/ \E r \in LogRecords : r.data.by \in 0..n /\ r.blockIndex = Len(logs) /\ logs2 = Append(logs, r)
           \/ \E k \in Nat : logs2 = Truncate(logs, k)
        /\ Indexed(logs, n) /\ logs \in Seq(LogRecords) /\ n \in Nat /\ n <= n
    BY <1>1, <1>2 DEF Journalled
  <2> HIDE DEF logs, logs2, n
  <2>2. Indexed(logs2, n)
    BY <2>1, IndexedKeeps
  <2> QED BY <2>2 DEF logs2, n
<1>4. Muted => evm'.logs = <<>>
  <2> SUFFICES ASSUME Muted PROVE evm'.logs = <<>>
    OBVIOUS
  <2>1. evm.logs = <<>>
    BY DEF Journalled
  <2>2. \A k \in Nat : Truncate(<<>>, k) = <<>>
    BY DEF Truncate
  <2> QED BY <2>1, <2>2
<1>5. Len(evm'.running) = 1 => Reported(cur', evm'.running[1], evm'.logs)
  BY <1>1
<1>6. ASSUME Len(evm'.running) = 2
      PROVE  /\ Aside(interrupted'[1], evm'.running[1], evm'.logs, evm'.running[2].mark)
             /\ Reported(cur', evm'.running[2], evm'.logs)
  <2> DEFINE s == interrupted[1]
             d == evm.running[1]
             m == Top.mark
             logs  == evm.logs
             logs2 == evm'.logs
  <2>1. Len(evm.running) = 2 /\ Top = evm.running[2] /\ evm'.running[1] = d /\ evm'.running[2] = c
    BY <1>1, <1>2, <1>6
  <2>2. d \in Contexts /\ Top \in Contexts
    BY <1>1, <2>1, ElementType
  <2>3. d.id # Top.id
    BY <2>1 DEF Traced
  <2>4. /\ StateOK(s) /\ logs \in Seq(LogRecords) /\ m \in Nat /\ Aside(s, d, logs, m)
    BY <1>1, <1>2, <2>1, <2>2, MarksType DEF Journalled
  <2>5. \/ logs2 = logs
        \/ \E r \in LogRecords : r.data.by # d.id /\ logs2 = Append(logs, r)
        \/ \E k \in Nat : m <= k /\ logs2 = Truncate(logs, k)
    BY <2>3
  <2> HIDE DEF s, d, m, logs, logs2
  <2>6. Aside(s, d, logs2, m)
    BY <2>2, <2>4, <2>5, AsideStays
  <2> QED BY <2>1, <2>6 DEF s, d, m, logs2
<1> QED BY <1>3, <1>4, <1>5, <1>6, JournalledNext

(* What is running stays where it is, and no log is emitted.               *)
LEMMA StillJournalled ==
    ASSUME LinkedOK, Linked, Traced, Journalled, Running, UNCHANGED profile,
           evm'.running = evm.running, evm'.started = evm.started, evm'.logs = evm.logs,
           UNCHANGED interrupted, Effect(cur, cur', {})
    PROVE  Journalled'
<1>1. Reported(cur, Top, evm.logs)
  BY TopReported
<1> DEFINE c == Top
<1>2. \A i \in 1..Len(evm.running) : evm'.running[i] = IF i = Len(evm.running) THEN c ELSE evm.running[i]
  BY DEF Top, Last
<1>3. c.id = Top.id /\ c.mark = Top.mark /\ Len(evm'.running) = Len(evm.running)
  OBVIOUS
<1>4. Reported(cur', c, evm'.logs)
  <2> DEFINE s == cur
             t == cur'
             logs == evm.logs
  <2>1. Reported(s, c, logs) /\ Effect(s, t, {})
    BY <1>1
  <2> HIDE DEF s, t, c, logs
  <2>2. Reported(t, c, logs)
    BY <2>1, ReportedEffect
  <2> QED BY <2>2 DEF t, logs
<1>5. /\ LinkedOK /\ Linked /\ Traced /\ Journalled /\ Running /\ UNCHANGED profile
      /\ evm'.started = evm.started /\ UNCHANGED interrupted /\ evm'.logs = evm.logs
  OBVIOUS
<1> HIDE DEF c
<1> QED BY ONLY <1>2, <1>3, <1>4, <1>5, InsideJournalled

(* OnCallEnter, for a frame that is entered.                               *)
LEMMA EnterReported ==
    ASSUME TracerOK, StateOK(cur'), NEW c \in Contexts, Traces(cur, c, ordinal),
           NEW f \in Nat, Voice(c, f) \in Data, NEW logs \in Seq(LogRecords), NEW mark, mark = Len(logs),
           NEW e, e.id = c.id, e.sys = c.sys, e.mark = c.mark,
           e.frames = Append(c.frames, [number |-> f, mark |-> mark]),
           OnCallEnter(Len(c.frames), Voice(c, f)), Reported(cur, c, logs)
    PROVE  Reported(cur', e, logs)
<1>1. /\ StateOK(cur) /\ ordinal \in Nat /\ Shape(cur, c, ordinal) /\ Waiting(cur, c, ordinal)
      /\ Forest(CallsOf(cur), ordinal) /\ Len(cur.callStack.stack) = Len(c.frames) /\ Len(c.frames) \in Nat
  BY MarksType DEF TracerOK, HooksOK, Traces, Content, Shape, Named, Frames
<1>2. PICK u \in Call :
             /\ CallsOf(cur') = CallsOf(cur) \cup {u}
             /\ u.index = cur.callStack.index + 1 /\ u.outcome = "open"
             /\ u.lists = cur.deferred /\ cur'.deferred = NoEntries
             /\ Len(cur'.callStack.stack) = Len(cur.callStack.stack) + 1
             /\ \A i \in 1..Len(cur.callStack.stack) : cur'.callStack.stack[i] = cur.callStack.stack[i]
             /\ cur'.callStack.stack[Len(cur.callStack.stack) + 1].index = u.index
  BY EnterPushes
<1> DEFINE s == cur
           t == cur'
           n == Len(c.frames)
           In == Parts(s)
           In2 == Parts(t)
           L == Live(s)
<1>3. \A l \in ToSet(s.deferred["log"]) : l.data.frame = 0
  BY <1>1 DEF Waiting, Voice, Lists
<1>4. /\ Live(t) = Live(s) /\ AllLogs(t) = AllLogs(s)
      /\ \A y \in CallsOf(s) : Inside(t, y) = Inside(s, y)
      /\ Inside(t, u) = {}
  <2>1. ~Closed(u)
    BY <1>2 DEF Closed
  <2> QED BY <1>1, <1>2, <1>3, <2>1, LivePush
<1>5. \A j \in 1..n : In2[j] = In[j]
  <2>1. \A j \in 1..n : s.callStack.stack[j] \in CallsOf(s)
    <3>1. s.callStack.stack \in Seq(Call)
      BY <1>1, StateParts DEF CallStack
    <3> QED BY <1>1, <3>1, SeqElements DEF CallsOf
  <2>2. \A j \in 1..n : j \in 1..Len(t.callStack.stack) /\ j \in 1..Len(s.callStack.stack)
    BY <1>1, <1>2
  <2> QED BY <1>1, <1>2, <1>4, <2>1, <2>2 DEF Parts
<1>6. In2[n + 1] = {}
  <2>1. n + 1 \in 1..Len(t.callStack.stack) /\ t.callStack.stack[n + 1].index = u.index
    BY <1>1, <1>2
  <2>2. Inside(t, t.callStack.stack[n + 1]) = Inside(t, u)
    BY <2>1 DEF Inside
  <2> QED BY <1>4, <2>1, <2>2 DEF Parts
<1>7. L \in SUBSET Entry /\ Fits(L, In, c, logs)
  BY <1>1, LiveType DEF Reported
<1> DEFINE x == [number |-> f, mark |-> mark]
<1>8. x.mark = Len(logs) /\ e.frames = Append(c.frames, x)
  OBVIOUS
<1> HIDE DEF In, In2, L, x
<1>9. Fits(L, In2, e, logs)
  BY <1>5, <1>6, <1>7, <1>8, FitsEnter DEF n
<1> QED BY <1>4, <1>9 DEF Reported, In2, L

(* OnCallExit, for the frame that is left.                                 *)
LEMMA ExitReported ==
    ASSUME TracerOK, StateOK(cur'), NEW c \in Contexts, Traces(cur, c, ordinal), c.frames # <<>>,
           NEW e, e.id = c.id, e.sys = c.sys, e.mark = c.mark, e.frames = Front(c.frames),
           NEW outcome \in {"ok", "failed", "reverted"}, ~cur.suicided, OnCallExit(outcome), ~Panic,
           NEW logs \in Seq(LogRecords), Reported(cur, c, logs),
           NEW logs2, logs2 = IF outcome = "ok" THEN logs ELSE Truncate(logs, Last(c.frames).mark)
    PROVE  Reported(cur', e, logs2)
<1>1. /\ StateOK(cur) /\ ordinal \in Nat /\ Shape(cur, c, ordinal) /\ Apart(CallsOf(cur))
      /\ Forest(CallsOf(cur), ordinal) /\ Len(cur.callStack.stack) = Len(c.frames) /\ Len(c.frames) \in Nat
      /\ Named(cur, c)
  BY MarksType DEF TracerOK, HooksOK, Traces, Content, Shape, Named, Frames
<1>2. outcome \in Outcomes \ {"open"}
  BY DEF Outcomes
<1>3. PICK u \in Call :
             /\ CallsOf(cur') = (CallsOf(cur) \ {Peek(cur.callStack)}) \cup {u}
             /\ Peek(cur.callStack) \in CallsOf(cur) /\ HasActiveCall(cur.callStack)
             /\ u.index = Peek(cur.callStack).index /\ u.begin = Peek(cur.callStack).begin
             /\ u.outcome = outcome /\ u.end = ordinal + 1
             /\ u.lists = Peek(cur.callStack).lists /\ cur'.deferred = cur.deferred
             /\ Len(cur'.callStack.stack) = Len(cur.callStack.stack) - 1
             /\ \A i \in 1..(Len(cur.callStack.stack) - 1) :
                   cur'.callStack.stack[i] = cur.callStack.stack[i]
  BY <1>2, ExitPops
<1> DEFINE s == cur
           t == cur'
           v == Peek(s.callStack)
           n == Len(c.frames)
           In == Parts(s)
           In2 == Parts(t)
           L == Live(s)
<1>4. v = s.callStack.stack[n] /\ n >= 1 /\ n \in 1..n /\ v \in ToSet(s.callStack.stack)
  BY <1>1, <1>3, StateParts, PeekType, OpenNumbers
<1>5. ~Closed(v)
  BY <1>1, <1>4, OpenCalls
<1>6. ~Failing(v) /\ ~Doomed(CallsOf(s), v)
  BY <1>1, <1>3, <1>5, OpenLives
<1>7. Anew(s, ordinal, t, v, u, {})
  <2>1. Closed(u) /\ ToSet(u.lists["log"]) = ToSet(v.lists["log"]) \cup {}
    BY <1>3 DEF Closed
  <2> QED BY <1>1, <1>3, <1>5, <1>6, <2>1 DEF Anew
<1>8. AllLogs(t) = AllLogs(s)
  <2> DEFINE none == {}
  <2>1. Anew(s, ordinal, t, v, u, none)
    BY <1>7
  <2> HIDE DEF none, s, t, v
  <2>2. \A l : l \in AllLogs(t) <=> l \in AllLogs(s) \/ l \in none
    BY <2>1, LiveReplace
  <2> QED BY <2>2 DEF none
<1>9. /\ \A j \in 1..(n - 1) : In2[j] = Inside(t, s.callStack.stack[j]) /\ In[j] = Inside(s, s.callStack.stack[j])
      /\ In[n] = Inside(s, v)
  <2>1. \A j \in 1..(n - 1) : j \in 1..Len(t.callStack.stack) /\ j \in 1..Len(s.callStack.stack)
    BY <1>1, <1>3, <1>4
  <2>2. n \in 1..Len(s.callStack.stack)
    BY <1>1, <1>4
  <2> QED BY <1>1, <1>3, <1>4, <2>1, <2>2 DEF Parts
<1>10. L \in SUBSET Entry /\ Fits(L, In, c, logs)
  BY <1>1, LiveType DEF Reported
<1>11. CASE outcome = "ok"
  <2>1. ~Failing(u)
    BY <1>3, <1>11 DEF Failing
  <2>2. Live(t) = Live(s) /\ \A y : Inside(t, y) = Inside(s, y)
    <3> DEFINE none == {}
    <3>1. /\ Anew(s, ordinal, t, v, u, none) /\ (none = {} \/ ~Doomed(CallsOf(s), v))
          /\ \A l \in none : l.data.frame # 0 /\ l \notin AllLogs(s)
      BY <1>7
    <3> HIDE DEF none, s, t, v
    <3>2. /\ Live(t) = Live(s) \cup none
          /\ \A y : Inside(t, y) = Inside(s, y) \cup (IF y.index <= v.index THEN none ELSE {})
      BY <2>1, <3>1, LiveAdded
    <3> QED BY <3>2 DEF none
  <2>3. Live(t) = L /\ logs2 = logs /\ \A j \in 1..(n - 1) : In2[j] = In[j]
    <3>1. \A y : Inside(t, y) = Inside(s, y)
      BY <2>2
    <3> HIDE DEF In, In2
    <3> QED BY <1>9, <1>11, <2>2, <3>1
  <2> HIDE DEF In, In2, L
  <2>4. Fits(L, In2, e, logs)
    BY <1>10, <2>3, FitsExit DEF n
  <2> QED BY <1>8, <2>3, <2>4 DEF Reported, In2
<1>12. CASE outcome # "ok"
  <2>1. Failing(u)
    BY <1>3, <1>12 DEF Failing
  <2>2. /\ Live(t) = Live(s) \ Inside(s, v)
        /\ \A y : Inside(t, y) = Inside(s, y) \ Inside(s, v)
    BY <1>1, <1>7, <2>1, LiveFailed
  <2>3. Live(t) = L \ In[n] /\ \A j \in 1..(n - 1) : In2[j] = In[j] \ In[n]
    <3> HIDE DEF In, In2
    <3> QED BY <1>9, <2>2
  <2>4. logs2 = Truncate(logs, c.frames[n].mark)
    BY <1>12 DEF Last
  <2> DEFINE M == L \ In[n]
  <2> HIDE DEF In, In2, L
  <2>5. Fits(M, In2, e, logs2)
    BY <1>10, <2>3, <2>4, FitsExit DEF n
  <2> QED BY <1>8, <2>3, <2>5 DEF Reported, In2
<1> QED BY <1>11, <1>12

(* The state of the tracer after a step.                                   *)
LEMMA NextState ==
    ASSUME TracerOK'
    PROVE  StateOK(cur') /\ ordinal' \in Nat
<1>1. StateOK(cur)' <=> StateOK(cur')
  BY DEF StateOK
<1> QED BY <1>1 DEF TracerOK, HooksOK

(* Entering a frame.                                                       *)
LEMMA EnterJournalled ==
    ASSUME LinkedOK, Linked, Traced, Journalled, TracerOK', UNCHANGED profile, EnterCall
    PROVE  Journalled'
<1> DEFINE c      == Top
           n      == Top.entered + 1
           mark   == Len(evm.logs)
           frames == Append(Top.frames, [number |-> n, mark |-> mark])
           roots  == IF InFrameNow THEN Top.roots ELSE Top.roots + 1
           e      == [Top EXCEPT !.entered = n, !.roots = roots, !.frames = frames]
           d      == [Now EXCEPT !.frame = n]
           depth  == Len(Top.frames)
           logs   == evm.logs
<1>1. TracerOK /\ evm \in Clients /\ MaxFrames \in Nat
  BY ClientAssumption DEF LinkedOK
<1>2. Running /\ Top.entered < MaxFrames /\ evm' = WithTop(e) /\ OnCallEnter(depth, d)
  BY DEF EnterCall
<1>3. Traces(cur, c, ordinal) /\ c \in Contexts /\ Reported(cur, c, logs) /\ logs \in Seq(LogRecords)
  BY <1>2, TopReported
<1>4. n \in Nat /\ n \in 1..MaxFrames
  <2>1. c.entered \in 0..MaxFrames
    BY <1>3 DEF Contexts
  <2> HIDE DEF c
  <2>2. c.entered < MaxFrames
    BY <1>2 DEF c
  <2> QED BY <1>1, <2>1, <2>2 DEF c
<1> HIDE DEF n, mark, roots
<1>5. e.id = c.id /\ e.sys = c.sys /\ e.frames = frames /\ e.mark = c.mark
  <2> HIDE DEF frames
  <2> QED BY <1>3 DEF Contexts
<1>6. d = Voice(c, n) /\ d \in Data
  <2>1. d \in Data
    BY <1>1, <1>4, NowType
  <2>2. Now = [by |-> c.id, sys |-> c.sys, frame |-> Now.frame]
    BY <1>2 DEF Now
  <2> QED BY <2>1, <2>2 DEF Voice
<1> HIDE DEF d, e
<1>7. Reported(cur', e, logs)
  <2> HIDE DEF c, logs
  <2>1. e.frames = Append(c.frames, [number |-> n, mark |-> mark]) /\ mark = Len(logs)
    BY <1>5 DEF c, mark, logs
  <2>2. OnCallEnter(Len(c.frames), Voice(c, n)) /\ Voice(c, n) \in Data
    BY <1>2, <1>6 DEF c
  <2> QED BY <1>1, <1>3, <1>4, <1>5, <2>1, <2>2, NextState, EnterReported
<1>8. UNCHANGED interrupted
  BY <1>2 DEF OnCallEnter
<1>9. /\ Len(evm'.running) = Len(evm.running) /\ evm'.started = evm.started /\ evm'.logs = evm.logs
      /\ \A i \in 1..Len(evm.running) :
           evm'.running[i] = IF i = Len(evm.running) THEN e ELSE evm.running[i]
  <2>1. WithTop(e).logs = evm.logs
    <3> DEFINE r == [evm.running EXCEPT ![Len(evm.running)] = e]
    <3>1. WithTop(e) = [evm EXCEPT !.running = r]
      BY DEF WithTop
    <3> HIDE DEF r
    <3> QED BY <1>1, <3>1 DEF Clients
  <2> QED BY <1>2, <2>1, WithTopRunning
<1> HIDE DEF logs
<1>10. e.id = Top.id /\ e.mark = Top.mark /\ Reported(cur', e, evm'.logs)
  BY <1>5, <1>7, <1>9 DEF logs
<1> QED BY <1>2, <1>8, <1>9, <1>10, InsideJournalled

(* Leaving a frame.                                                        *)
LEMMA ExitJournalled ==
    ASSUME LinkedOK, Linked, Traced, Journalled, TracerOK', UNCHANGED profile, ~panicked',
           NEW outcome \in {"ok", "failed", "reverted"}, ExitCall(outcome)
    PROVE  Journalled'
<1> DEFINE c      == Top
           frames == Front(Top.frames)
           e      == [Top EXCEPT !.frames = frames]
           logs   == evm.logs
           logs2  == IF outcome = "ok" THEN evm.logs ELSE Truncate(evm.logs, Frame.mark)
<1>1. TracerOK /\ evm \in Clients /\ cur.suicided = evm.destructing
  BY DEF LinkedOK, Traced
<1>2. /\ Running /\ Top.frames # <<>> /\ ~evm.destructing
      /\ evm' = [WithTop(e) EXCEPT !.logs = logs2] /\ OnCallExit(outcome)
  BY DEF ExitCall, Idle, InFrameNow, WithTop
<1>3. Traces(cur, c, ordinal) /\ c \in Contexts /\ Reported(cur, c, logs) /\ logs \in Seq(LogRecords)
  BY <1>2, TopReported
<1>4. frames \in Seq([number : 1..MaxFrames, mark : Nat])
  <2> DEFINE S == [number : 1..MaxFrames, mark : Nat]
             s == Top.frames
  <2>1. s \in Seq(S) /\ s # <<>>
    BY <1>2, <1>3 DEF Contexts
  <2> HIDE DEF s, S
  <2>2. Front(s) \in Seq(S)
    BY <2>1, DropLast DEF Front
  <2> QED BY <2>2 DEF s, S
<1>5. e \in Contexts /\ e.id = c.id /\ e.sys = c.sys /\ e.frames = frames /\ e.mark = c.mark
  <2> HIDE DEF frames
  <2> QED BY <1>3, <1>4 DEF Contexts
<1> HIDE DEF e
<1>6. ~Panic /\ ~cur.suicided
  BY <1>1, <1>2 DEF Panic
<1>7. Reported(cur', e, logs2)
  <2>1. c.frames # <<>> /\ e.frames = Front(c.frames)
        /\ logs2 = IF outcome = "ok" THEN logs ELSE Truncate(logs, Last(c.frames).mark)
    BY <1>2, <1>5 DEF Frame
  <2> HIDE DEF c, logs, logs2
  <2> QED BY <1>1, <1>2, <1>3, <1>5, <1>6, <2>1, NextState, ExitReported
<1>8. UNCHANGED interrupted
  BY <1>2, <1>6 DEF OnCallExit, Ensured
<1> HIDE DEF logs2
<1>9. /\ Len(evm'.running) = Len(evm.running) /\ evm'.started = evm.started /\ evm'.logs = logs2
      /\ \A i \in 1..Len(evm.running) :
           evm'.running[i] = IF i = Len(evm.running) THEN e ELSE evm.running[i]
  <2>1. WithTop(e) \in Clients
    BY <1>1, <1>2, <1>5, WithTopType
  <2>2. evm'.running = WithTop(e).running /\ evm'.started = WithTop(e).started /\ evm'.logs = logs2
    BY <1>2, <2>1 DEF Clients
  <2>3. /\ Len(WithTop(e).running) = Len(evm.running) /\ WithTop(e).started = evm.started
        /\ \A i \in 1..Len(evm.running) :
             WithTop(e).running[i] = IF i = Len(evm.running) THEN e ELSE evm.running[i]
    BY <1>2, WithTopRunning
  <2> QED BY ONLY <2>2, <2>3
<1>10. evm'.logs = evm.logs \/ \E k \in Nat : Top.mark <= k /\ evm'.logs = Truncate(evm.logs, k)
  <2>1. CASE outcome = "ok"
    BY <1>9, <2>1 DEF logs2
  <2>2. CASE outcome # "ok"
    <3>1. evm'.logs = Truncate(evm.logs, c.frames[Len(c.frames)].mark)
      BY <1>9, <2>2 DEF logs2, Frame, Last
    <3> HIDE DEF c
    <3>2. Len(c.frames) \in 1..Len(c.frames) /\ c.frames[Len(c.frames)].mark \in Nat
      <4>1. Len(c.frames) \in Nat /\ c.frames # <<>> /\ c.frames \in Seq([number : 1..MaxFrames, mark : Nat])
        BY <1>2, <1>3, MarksType DEF c
      <4>2. Len(c.frames) \in 1..Len(c.frames)
        BY <4>1
      <4> QED BY <1>3, <4>2, MarksType
    <3>3. c.mark <= c.frames[Len(c.frames)].mark
      BY <1>3, <3>2 DEF Reported, Fits
    <3> QED BY <3>1, <3>2, <3>3 DEF c
  <2> QED BY <2>1, <2>2
<1>11. e.id = Top.id /\ e.mark = Top.mark /\ Reported(cur', e, evm'.logs)
  BY <1>5, <1>7, <1>9
<1> QED BY <1>2, <1>8, <1>9, <1>10, <1>11, InsideJournalled

(* Opcodes, self-destructions and preimages.                               *)
LEMMA OpcodesJournalled ==
    ASSUME LinkedOK, Linked, Traced, Journalled, TracerOK', UNCHANGED profile, ~panicked',
           \/ SelfDestruct \/ EnterSelfDestruct \/ ExitSelfDestruct
           \/ FaultingOpcode \/ KeccakPreimage
    PROVE  Journalled'
<1>1. /\ TracerOK /\ cur \in TrxState /\ evm \in Clients /\ ordinal \in Nat
      /\ cur.suicided = evm.destructing
  BY LinkedParts DEF LinkedOK, TracerOK, HooksOK, Traced
<1>2. Running
  <2>1. CASE ~ExitSelfDestruct
    BY <2>1 DEF SelfDestruct, EnterSelfDestruct, FaultingOpcode, KeccakPreimage, InFrameNow
  <2>2. CASE ExitSelfDestruct
    <3>1. cur.suicided
      BY <1>1, <2>2 DEF ExitSelfDestruct
    <3>2. ~FreshState.suicided
      BY DEF FreshState
    <3>3. InTrx
      BY <3>1, <3>2 DEF LinkedOK, NothingLeftBehind
    <3> QED BY <3>3 DEF Linked
  <2> QED BY <2>1, <2>2
<1>3. Traces(cur, Top, ordinal) /\ Top \in Contexts /\ StateOK(cur) /\ StateOK(cur')
  BY <1>2, TopReported, NextState
<1>4. ~Panic
  BY DEF Panic
<1>5. CASE SelfDestruct \/ FaultingOpcode
  <2>1. PICK failed \in BOOLEAN : OnOpcode(TRUE, failed) /\ UNCHANGED evm
    BY <1>5 DEF SelfDestruct, FaultingOpcode
  <2>2. UNCHANGED interrupted
    BY <2>1 DEF OnOpcode
  <2>3. Effect(cur, cur', {})
    <3> DEFINE c == Top
    <3>1. Shape(cur, c, ordinal) /\ TRUE \in BOOLEAN
      BY <1>3 DEF Traces
    <3> HIDE DEF c
    <3> QED BY <1>1, <1>3, <2>1, <3>1, OpcodeEffect
  <2> QED BY <1>2, <2>1, <2>2, <2>3, StillJournalled
<1>6. CASE EnterSelfDestruct \/ ExitSelfDestruct
  <2>1. PICK b \in BOOLEAN : /\ cur' = [cur EXCEPT !.suicided = b]
                             /\ evm' = [evm EXCEPT !.destructing = b]
                             /\ UNCHANGED <<block, ordinal, interrupted>>
    BY <1>1, <1>6 DEF EnterSelfDestruct, ExitSelfDestruct, OnSelfDestructEnter, OnCallExit
  <2>2. cur'.trx = cur.trx /\ cur'.callStack = cur.callStack /\ cur'.deferred = cur.deferred
    BY <1>1, <2>1 DEF TrxState
  <2>3. evm'.running = evm.running /\ evm'.started = evm.started /\ evm'.logs = evm.logs
    BY <1>1, <2>1 DEF Clients
  <2>4. Effect(cur, cur', {})
    BY <2>2, EffectNone
  <2> QED BY <1>2, <2>1, <2>3, <2>4, StillJournalled
<1>7. CASE KeccakPreimage
  <2>1. OnKeccakPreimage(Now) /\ UNCHANGED evm
    BY <1>7 DEF KeccakPreimage
  <2> DEFINE after == Append(cur.preimages, [call |-> Peek(cur.callStack).index, data |-> Now])
  <2>2. cur' = [cur EXCEPT !.preimages = after] /\ UNCHANGED interrupted
    BY <1>4, <2>1 DEF OnKeccakPreimage, Ensured
  <2> HIDE DEF after
  <2>3. cur'.trx = cur.trx /\ cur'.callStack = cur.callStack /\ cur'.deferred = cur.deferred
    BY <1>1, <2>2 DEF TrxState
  <2>4. Effect(cur, cur', {})
    BY <2>3, EffectNone
  <2> QED BY <1>2, <2>1, <2>2, <2>4, StillJournalled
<1> QED BY <1>5, <1>6, <1>7

(* A change or a log, in a context.                                        *)
LEMMA EmittedEffect ==
    ASSUME LinkedOK, Linked, Traced, Running, TracerOK',
           NEW k \in Lists, NEW e \in Entry, e.data = Now, e.ord = ordinal + 1,
           NEW n, cur' = Attached(k, e) \/ cur' = [Attached(k, e) EXCEPT !.logIndex = n]
    PROVE  Effect(cur, cur', IF k = "log" THEN {e} ELSE {})
<1>1. /\ StateOK(cur) /\ ordinal \in Nat /\ LogsOK(cur, ordinal) /\ cur \in TrxState /\ StateOK(cur')
  BY NextState, LinkedParts DEF LinkedOK, TracerOK, HooksOK, LogOrdinalsOK
<1>2. Traces(cur, Top, ordinal) /\ Top \in Contexts
  BY TopTraces
<1> DEFINE s == Attached(k, e)
<1>3. s \in TrxState
  BY <1>1, AttachedOK DEF StateOK
<1>4. s.trx = cur.trx
  <2> DEFINE after == OnTop(cur.callStack, [Peek(cur.callStack) EXCEPT !.lists = Add(Peek(cur.callStack).lists, k, e)])
             d == Add(cur.deferred, k, e)
  <2>1. s = [cur EXCEPT !.callStack = after] \/ s = [cur EXCEPT !.deferred = d]
    BY DEF Attached
  <2> HIDE DEF after, d, s
  <2> QED BY <1>1, <2>1 DEF TrxState
<1> HIDE DEF s
<1>5. cur'.trx = s.trx /\ cur'.callStack = s.callStack /\ cur'.deferred = s.deferred
  BY <1>3 DEF TrxState, s
<1>6. Top.frames = <<>> <=> e.data.frame = 0
  <2>1. CASE Top.frames = <<>>
    BY <2>1 DEF Now, InFrameNow
  <2>2. CASE Top.frames # <<>>
    <3>1. Len(Top.frames) \in 1..Len(Top.frames)
      BY <1>2, <2>2, MarksType
    <3>2. Top.frames[Len(Top.frames)] \in [number : 1..MaxFrames, mark : Nat]
      BY <1>2, <3>1, MarksType, ElementType
    <3>3. e.data.frame = Top.frames[Len(Top.frames)].number
      BY <2>2 DEF Now, InFrameNow, Frame, Last
    <3> QED BY <2>2, <3>2, <3>3
  <2> QED BY <2>1, <2>2
<1> DEFINE c == Top
<1>7. c \in Contexts /\ Shape(cur, c, ordinal) /\ (c.frames = <<>> <=> e.data.frame = 0)
  BY <1>2, <1>6 DEF Traces
<1> HIDE DEF c
<1>8. cur'.trx = cur.trx /\ cur'.callStack = Attached(k, e).callStack /\ cur'.deferred = Attached(k, e).deferred
  BY <1>4, <1>5 DEF s
<1> QED BY <1>1, <1>7, <1>8, AttachedEffect

(* What the client does outside of all contexts touches none of it.        *)
LEMMA OutsideJournalled ==
    ASSUME LinkedOK, Journalled, ~Running, UNCHANGED <<profile, evm>>
    PROVE  Journalled'
<1>1. Len(evm'.running) = 0
  BY LinkedParts DEF Running
<1> QED BY <1>1, JournalledNext DEF Journalled

(* A change hook.                                                          *)
LEMMA ChangeJournalled ==
    ASSUME LinkedOK, Linked, Traced, Journalled, UNCHANGED <<profile, evm>>, TracerOK', NEW k \in Lists, k # "log",
           OnBlockOrTrxChange(k, Now) \/ OnTrxChange(k, Now), ~Panic
    PROVE  Journalled'
<1> DEFINE change == Change(ordinal + 1, Now)
<1>1. evm \in Clients /\ TracerOK /\ ordinal \in Nat
  BY DEF LinkedOK, TracerOK, HooksOK
<1>2. Now \in Data /\ ordinal + 1 \in Nat
  BY <1>1, NowType
<1>3. change \in Entry /\ change.ord = ordinal + 1 /\ change.data = Now
  BY <1>2, ChangeType DEF Change
<1>4. UNCHANGED interrupted /\ (InTrx => cur' = Attached(k, change))
  BY DEF OnBlockOrTrxChange, OnTrxChange, Ensured
<1> HIDE DEF change
<1>5. CASE InTrx
  <2>1. Running /\ cur' = Attached(k, change)
    BY <1>4, <1>5 DEF Linked
  <2>2. Effect(cur, cur', {})
    BY <1>3, <2>1, EmittedEffect
  <2> QED BY <1>4, <2>1, <2>2, StillJournalled
<1>6. CASE ~InTrx
  BY <1>6, OutsideJournalled DEF Linked
<1> QED BY <1>5, <1>6

(* A careful client emits a log only where it is never dropped behind the  *)
(* client's back.                                                          *)
LEMMA LogEmitted ==
    ASSUME Careful, LinkedOK, profile \in Profiles, MayEmit("log")
    PROVE  Running /\ ~Muted /\ (Top.frames = <<>> => HasNeverRevertedLog)
<1>1. /\ profile.inBlock \subseteq {"balance", "code"} /\ profile.outsideSys = {}
      /\ "log" \in profile.outsideTrx => HasNeverRevertedLog
      /\ Muted => "log" \notin profile.inFrame /\ profile.outsideTrx = {}
  BY ClientAssumption DEF Profile, Careful, Disciplined, Muted, Behaves
<1>2. CASE InFrameNow
  BY <1>1, <1>2 DEF MayEmit, InFrameNow
<1>3. CASE ~InFrameNow /\ ~Running
  BY <1>1, <1>3 DEF MayEmit
<1>4. CASE ~InFrameNow /\ Running /\ Top.sys
  BY <1>1, <1>4 DEF MayEmit
<1>5. CASE ~InFrameNow /\ Running /\ ~Top.sys
  BY <1>1, <1>5 DEF MayEmit
<1> QED BY <1>2, <1>3, <1>4, <1>5

(* A log, in the tracer and in the journal.                                *)
LEMMA LogsJournalled ==
    ASSUME Careful, LinkedOK, Linked, Traced, Journalled, profile \in Profiles, UNCHANGED profile,
           TracerOK', ~panicked', Logs
    PROVE  Journalled'
<1> DEFINE logs == evm.logs
           n    == Len(evm.logs)
           r    == [data |-> Now, blockIndex |-> n]
           log  == [ord |-> ordinal + 1, data |-> Now, index |-> cur.logIndex, blockIndex |-> n]
           c    == Top
<1>1. evm \in Clients /\ ~Panic /\ ordinal \in Nat /\ cur \in TrxState
  BY LinkedParts DEF LinkedOK, TracerOK, HooksOK, Panic
<1>2. OnLog(Now, n) /\ MayEmit("log") /\ evm' = [evm EXCEPT !.logs = Append(@, r)]
  BY DEF Logs
<1>3. Running /\ ~Muted /\ (Top.frames = <<>> => HasNeverRevertedLog)
  BY <1>2, LogEmitted
<1>4. evm'.running = evm.running /\ evm'.started = evm.started /\ evm'.logs = Append(logs, r)
  <2> HIDE DEF r
  <2> QED BY <1>1, <1>2 DEF Clients
<1>5. /\ UNCHANGED interrupted /\ ordinal' = ordinal + 1
      /\ cur' = [Attached("log", log) EXCEPT !.logIndex = Attached("log", log).logIndex + 1]
  BY <1>1, <1>2 DEF OnLog, Ensured
<1>6. /\ Reported(cur, c, logs) /\ c \in Contexts /\ Traces(cur, c, ordinal)
      /\ Len(cur.callStack.stack) = Len(c.frames) /\ StateOK(cur) /\ LogsOK(cur, ordinal)
      /\ logs \in Seq(LogRecords) /\ n \in Nat
  BY <1>3, TopReported
<1>7. Now \in Data /\ cur.logIndex \in Nat /\ "log" \in Lists
  BY <1>1, <1>6, NowType, StateParts DEF Lists
<1>8. /\ log \in Entry /\ log.data = Now /\ log.ord = ordinal + 1 /\ log.blockIndex = n
      /\ r \in LogRecords /\ r.data = Now /\ r.blockIndex = n
  BY <1>1, <1>6, <1>7 DEF Entry, LogRecords
<1> HIDE DEF log, r
<1>9. Effect(cur, cur', {log})
  BY <1>3, <1>5, <1>7, <1>8, EmittedEffect
<1>10. \A l \in AllLogs(cur) : l.ord < log.ord
  <2>1. \A l \in AllLogs(cur) : l.ord \in Nat /\ l.ord <= ordinal
    BY <1>6, LogsOf DEF LogsOK, Entry
  <2> QED BY <1>1, <1>8, <2>1
<1>11. log.data.frame = 0 => HasNeverRevertedLog
  <2>1. CASE Top.frames = <<>>
    BY <1>3, <2>1
  <2>2. CASE Top.frames # <<>>
    <3>1. Len(Top.frames) \in 1..Len(Top.frames)
      BY <1>6, <2>2, MarksType
    <3>2. Top.frames[Len(Top.frames)] \in [number : 1..MaxFrames, mark : Nat]
      BY <1>6, <3>1, MarksType, ElementType
    <3>3. log.data.frame = Top.frames[Len(Top.frames)].number
      BY <1>3, <1>8, <2>2 DEF Now, InFrameNow, Frame, Last
    <3>4. log.data.frame # 0
      BY ONLY <3>2, <3>3
    <3> QED BY <3>4
  <2> QED BY <2>1, <2>2
<1>12. Reported(cur', c, evm'.logs)
  <2> HIDE DEF c, logs
  <2>1. log.blockIndex = Len(logs) /\ r.data = log.data
    BY <1>8 DEF logs
  <2>2. Reported(cur', c, Append(logs, r))
    BY <1>6, <1>8, <1>9, <1>10, <1>11, <2>1, ReportedLog
  <2> QED BY <1>4, <2>2
<1>13. r.data.by = Top.id
  BY <1>3, <1>8 DEF Now
<1>14. \E x \in LogRecords : x.data.by = Top.id /\ x.blockIndex = Len(evm.logs) /\ evm'.logs = Append(evm.logs, x)
  BY <1>4, <1>8, <1>13
<1>15. /\ c.id = Top.id /\ c.mark = Top.mark /\ Len(evm'.running) = Len(evm.running)
       /\ \A i \in 1..Len(evm.running) : evm'.running[i] = IF i = Len(evm.running) THEN c ELSE evm.running[i]
  BY <1>4 DEF Top, Last
<1> HIDE DEF c, logs, n
<1> QED BY <1>3, <1>4, <1>5, <1>12, <1>14, <1>15, InsideJournalled

(* Changes and logs.                                                       *)
LEMMA ChangesJournalled ==
    ASSUME Careful, LinkedOK, Linked, Traced, Journalled, profile \in Profiles, UNCHANGED profile,
           TracerOK', ~panicked', ClearCode \/ Changes \/ Logs
    PROVE  Journalled'
<1>1. ~Panic /\ {"balance", "nonce", "code", "storage", "log"} \subseteq Lists
  BY DEF Panic, Lists
<1>2. CASE ClearCode
  <2>1. Running /\ UNCHANGED evm /\ OnCodeChange(Now, TRUE)
    BY <1>2 DEF ClearCode, InFrameNow
  <2>2. CASE OnBlockOrTrxChange("code", Now)
    BY <1>1, <2>1, <2>2, ChangeJournalled
  <2>3. CASE UNCHANGED tracerVars
    <3>1. UNCHANGED <<cur, interrupted>>
      BY <2>3 DEF tracerVars
    <3>2. Effect(cur, cur', {})
      BY <3>1, EffectNone
    <3> QED BY <2>1, <3>1, <3>2, StillJournalled
  <2> QED BY <2>1, <2>2, <2>3 DEF OnCodeChange
<1>3. CASE Changes
  <2>1. PICK k \in Lists : k # "log" /\ (OnBlockOrTrxChange(k, Now) \/ OnTrxChange(k, Now))
    BY <1>1, <1>3 DEF Changes, OnBalanceChange, OnNonceChange, OnCodeChange, OnStorageChange
  <2>2. UNCHANGED evm
    BY <1>3 DEF Changes
  <2> QED BY <1>1, <2>1, <2>2, ChangeJournalled
<1>4. CASE Logs
  BY <1>4, LogsJournalled
<1> QED BY <1>2, <1>3, <1>4

(* A context begins with no log, above all that are in the journal.        *)
LEMMA BeginReported ==
    ASSUME evm \in Clients, Indexed(evm.logs, evm.started),
           NEW trx, trx.calls = <<>>, NEW t, t = [FreshState EXCEPT !.trx = trx],
           NEW sys \in BOOLEAN, Begin(sys), NEW c, c = NewContext(NextId, sys, Len(evm.logs))
    PROVE  /\ Reported(t, c, evm.logs)
           /\ evm'.logs = evm.logs /\ evm'.started = evm.started + 1 /\ evm'.running = Append(evm.running, c)
           /\ Indexed(evm'.logs, evm'.started) /\ c.mark = Len(evm.logs)
<1>1. /\ evm.logs \in Seq(LogRecords) /\ evm.started \in Nat /\ Len(evm.logs) \in Nat
      /\ evm.running \in Seq(Contexts)
  BY DEF Clients, LogRecords
<1>2. c.frames = <<>> /\ c.mark = Len(evm.logs) /\ c.id = evm.started + 1
  BY DEF NewContext, NextId
<1>3. t.trx = trx /\ t.callStack = NewCallStack /\ t.deferred = NoEntries /\ NewCallStack.stack = <<>>
  BY DEF FreshState, NewCallStack
<1>4. AllLogs(t) = {}
  <2>1. LogsIn(<<>>) = {} /\ "log" \in Lists
    BY EmptySeq DEF LogsIn, Lists
  <2> QED BY <1>3, <2>1, NoneRising DEF AllLogs
<1>5. Live(t) = {}
  BY <1>4 DEF Live
<1>6. \A i \in 1..Len(evm.logs) : evm.logs[i].data.by # c.id
  BY <1>1, <1>2 DEF Indexed
<1>7. Reported(t, c, evm.logs)
  <2>1. Len(c.frames) = 0
    BY <1>2
  <2> QED BY <1>1, <1>2, <1>4, <1>5, <1>6, <2>1 DEF Reported, Fits
<1>8. evm'.logs = evm.logs /\ evm'.started = evm.started + 1 /\ evm'.running = Append(evm.running, c)
  BY <1>1 DEF Begin, NextId, Clients
<1>9. Indexed(evm.logs, evm.started + 1)
  <2> DEFINE logs == evm.logs
             n == evm.started
  <2>1. logs \in Seq(LogRecords) /\ n \in Nat /\ n + 1 \in Nat /\ n <= n + 1 /\ Indexed(logs, n)
    BY <1>1
  <2> HIDE DEF logs, n
  <2>2. Indexed(logs, n + 1)
    BY <2>1, IndexedKeeps
  <2> QED BY <2>2 DEF logs, n
<1> QED BY <1>2, <1>7, <1>8, <1>9

(* Starting a transaction.                                                 *)
LEMMA StartTrxJournalled ==
    ASSUME LinkedOK, Linked, Traced, Journalled, UNCHANGED profile, ~panicked', StartTrx
    PROVE  Journalled'
<1> DEFINE c   == NewContext(NextId, FALSE, Len(evm.logs))
           trx == [NoTrx EXCEPT !.open = TRUE, !.id = NextId, !.begin = ordinal + 1]
<1>1. ~Panic /\ evm \in Clients /\ Indexed(evm.logs, evm.started) /\ (Muted => evm.logs = <<>>)
  BY DEF Panic, LinkedOK, Journalled
<1>2. ~Running /\ Begin(FALSE) /\ OnTxStart(NextId)
  BY DEF StartTrx
<1>3. cur = FreshState /\ evm.running = <<>>
  BY <1>2, NothingRuns
<1>4. cur' = [FreshState EXCEPT !.trx = trx]
  BY <1>1, <1>2, <1>3 DEF OnTxStart, Ensured
<1>5. trx.calls = <<>>
  BY DEF NoTrx
<1> HIDE DEF c, trx
<1>6. /\ Reported(cur', c, evm.logs)
      /\ evm'.logs = evm.logs /\ evm'.running = Append(evm.running, c) /\ Indexed(evm'.logs, evm'.started)
  BY <1>1, <1>2, <1>4, <1>5, BeginReported DEF c
<1>7. Len(evm'.running) = 1 /\ evm'.running[1] = c
  BY <1>3, <1>6, FirstElement
<1> QED BY <1>1, <1>6, <1>7, JournalledNext

(* Starting a system call: what it interrupts is set aside.                *)
LEMMA StartSystemCallJournalled ==
    ASSUME LinkedOK, Linked, Traced, Journalled, UNCHANGED profile, ~panicked', StartSystemCall
    PROVE  Journalled'
<1> DEFINE c    == NewContext(NextId, TRUE, Len(evm.logs))
           trx  == [NoTrx EXCEPT !.open = TRUE]
           base == IF InTrx THEN FreshState ELSE cur
<1>1. ~Panic /\ evm \in Clients /\ Indexed(evm.logs, evm.started) /\ (Muted => evm.logs = <<>>)
  BY DEF Panic, LinkedOK, Journalled
<1>2. (Running => ~Top.sys) /\ Begin(TRUE) /\ OnSystemCallStart
  BY DEF StartSystemCall
<1>3. /\ interrupted' = IF InTrx THEN <<cur>> ELSE interrupted
      /\ cur' = [base EXCEPT !.trx = trx]
  BY <1>1, <1>2 DEF OnSystemCallStart, Ensured
<1>4. base = FreshState
  BY DEF LinkedOK, NothingLeftBehind
<1>5. trx.calls = <<>>
  BY DEF NoTrx
<1> HIDE DEF c, trx, base
<1>6. /\ Reported(cur', c, evm.logs) /\ c.mark = Len(evm.logs)
      /\ evm'.logs = evm.logs /\ evm'.running = Append(evm.running, c) /\ Indexed(evm'.logs, evm'.started)
  BY <1>1, <1>2, <1>3, <1>4, <1>5, BeginReported DEF c
<1>7. CASE InTrx
  <2>1. Len(evm.running) = 1 /\ evm.running[1] = Top /\ Running /\ evm.running \in Seq(Contexts)
    BY <1>2, <1>7, LinkedShape, LinkedParts DEF Linked
  <2>2. Len(evm'.running) = 2 /\ evm'.running[1] = Top /\ evm'.running[2] = c
    BY <1>6, <2>1
  <2>3. interrupted'[1] = cur
    BY <1>3, <1>7
  <2> DEFINE d == Top
             logs == evm.logs
  <2>4. Reported(cur, d, logs) /\ StateOK(cur) /\ d \in Contexts /\ Len(logs) \in Nat
    BY <2>1, TopReported
  <2> HIDE DEF d, logs
  <2>5. Aside(cur, d, logs, Len(logs))
    BY <2>4 DEF Aside, Reported, Fits
  <2>6. Aside(interrupted'[1], evm'.running[1], evm'.logs, evm'.running[2].mark)
    BY <1>6, <2>2, <2>3, <2>5 DEF d, logs
  <2> QED BY <1>1, <1>6, <2>2, <2>6, JournalledNext
<1>8. CASE ~InTrx
  <2>1. evm.running = <<>>
    BY <1>8, NothingRuns DEF Linked
  <2>2. Len(evm'.running) = 1 /\ evm'.running[1] = c
    BY <1>6, <2>1, FirstElement
  <2> QED BY <1>1, <1>6, <2>2, JournalledNext
<1> QED BY <1>7, <1>8

(* Ending a system call: what it interrupted goes on.                      *)
LEMMA EndSystemCallJournalled ==
    ASSUME LinkedOK, Linked, Traced, Journalled, UNCHANGED profile, ~panicked', EndSystemCall
    PROVE  Journalled'
<1>1. /\ evm \in Clients /\ ~Panic /\ evm.running \in Seq(Contexts)
      /\ Indexed(evm.logs, evm.started) /\ (Muted => evm.logs = <<>>)
  BY LinkedParts DEF Panic, LinkedOK, Journalled
<1>2. /\ Running /\ evm' = [evm EXCEPT !.running = Front(@)] /\ OnSystemCallEnd
  BY DEF EndSystemCall
<1>3. cur' = IF interrupted = <<>> THEN FreshState ELSE interrupted[1]
  BY <1>1, <1>2 DEF OnSystemCallEnd, Ensured
<1>4. /\ evm'.running = Front(evm.running) /\ evm'.started = evm.started /\ evm'.logs = evm.logs
  BY <1>1, <1>2 DEF Clients
<1>5. evm'.running = SubSeq(evm.running, 1, Len(evm.running) - 1) /\ evm.running # <<>>
  BY <1>2, <1>4 DEF Front, Running
<1>6. ASSUME Len(evm.running) = 1 PROVE Journalled'
  <2>1. Len(evm'.running) = 0
    BY <1>1, <1>5, <1>6, DropLast
  <2> QED BY <1>1, <1>4, <2>1, JournalledNext
<1>7. ASSUME Len(evm.running) = 2, interrupted # <<>> PROVE Journalled'
  <2>1. Len(evm'.running) = 1 /\ evm'.running[1] = evm.running[1]
    BY <1>1, <1>5, <1>7, DropLast
  <2>2. Reported(cur', evm'.running[1], evm'.logs)
    BY <1>3, <1>4, <1>7, <2>1 DEF Journalled, Aside
  <2> QED BY <1>1, <1>4, <2>1, <2>2, JournalledNext
<1> QED BY <1>2, <1>6, <1>7, LinkedShape

(* Ending a transaction leaves its logs in the journal, or takes them out  *)
(* of it when the client gives up on it.                                   *)
LEMMA EndTrxJournalled ==
    ASSUME LinkedOK, Linked, Traced, Journalled, UNCHANGED profile, EndTrx \/ EndTrxWithoutReceipt
    PROVE  Journalled'
<1> DEFINE logs  == evm.logs
           n     == evm.started
           logs2 == evm'.logs
<1>1. /\ evm \in Clients /\ Running /\ logs \in Seq(LogRecords) /\ n \in Nat /\ n <= n
      /\ Indexed(logs, n) /\ (Muted => logs = <<>>) /\ Top.mark \in Nat
  <2>1. evm \in Clients /\ Running /\ logs \in Seq(LogRecords) /\ n \in Nat
        /\ Indexed(logs, n) /\ (Muted => logs = <<>>)
    BY DEF LinkedOK, Journalled, Clients, LogRecords, EndTrx, EndTrxWithoutReceipt
  <2> QED BY <2>1, TopReported, MarksType
<1>2. /\ evm'.running = <<>> /\ evm'.started = n
      /\ logs2 = logs \/ logs2 = Truncate(logs, Top.mark)
  BY <1>1 DEF EndTrx, EndTrxWithoutReceipt, Clients
<1>3. Len(evm'.running) = 0
  BY <1>2
<1>4. Muted => logs2 = <<>>
  <2>1. Truncate(<<>>, Top.mark) = <<>>
    BY <1>1 DEF Truncate
  <2> QED BY <1>1, <1>2, <2>1
<1> HIDE DEF logs, n, logs2
<1>5. Indexed(logs2, n)
  BY <1>1, <1>2, IndexedKeeps
<1> QED BY <1>2, <1>3, <1>4, <1>5, JournalledNext DEF logs, n, logs2

(* Blocks begin and end with nothing running.                              *)
LEMMA BlockJournalledSteps ==
    ASSUME LinkedOK, Linked, Journalled, UNCHANGED profile, StartBlock \/ EndBlock \/ FailBlock \/ SkipBlock
    PROVE  Journalled'
<1>1. CASE UNCHANGED evm /\ ~Running
  BY <1>1, OutsideJournalled
<1>2. CASE evm' = EvmAtRest
  <2>1. /\ Len(evm'.running) = 0 /\ evm'.logs = <<>> /\ Len(evm'.logs) = 0
    BY <1>2 DEF EvmAtRest
  <2>2. Indexed(evm'.logs, evm'.started)
    BY <2>1 DEF Indexed
  <2> QED BY <2>1, <2>2, JournalledNext
<1>3. StartBlock \/ SkipBlock => UNCHANGED evm /\ ~Running
  BY DEF StartBlock, SkipBlock, Linked
<1>4. EndBlock \/ FailBlock => evm' = EvmAtRest
  BY DEF EndBlock, FailBlock
<1> QED BY <1>1, <1>2, <1>3, <1>4

(* Every step.                                                             *)
LEMMA JournalledSteps ==
    ASSUME Careful, LinkedOK, Linked, Traced, Journalled, profile \in Profiles, Next, TracerOK', ~panicked'
    PROVE  Journalled'
<1>1. Step /\ UNCHANGED profile
  BY DEF Next
<1>2. CASE StartBlock \/ EndBlock \/ FailBlock \/ SkipBlock
  BY <1>1, <1>2, BlockJournalledSteps
<1>3. CASE StartTrx
  BY <1>1, <1>3, StartTrxJournalled
<1>4. CASE EndTrx \/ EndTrxWithoutReceipt
  BY <1>1, <1>4, EndTrxJournalled
<1>5. CASE StartSystemCall
  BY <1>1, <1>5, StartSystemCallJournalled
<1>6. CASE EndSystemCall
  BY <1>1, <1>6, EndSystemCallJournalled
<1>7. CASE EnterCall
  BY <1>1, <1>7, EnterJournalled
<1>8. ASSUME NEW outcome \in {"ok", "failed", "reverted"}, ExitCall(outcome) PROVE Journalled'
  BY <1>1, <1>8, ExitJournalled
<1>9. CASE SelfDestruct \/ EnterSelfDestruct \/ ExitSelfDestruct \/ FaultingOpcode \/ KeccakPreimage
  BY <1>1, <1>9, OpcodesJournalled
<1>10. CASE ClearCode \/ Changes \/ Logs
  BY <1>1, <1>10, ChangesJournalled
<1> QED BY <1>1, <1>2, <1>3, <1>4, <1>5, <1>6, <1>7, <1>8, <1>9, <1>10 DEF Step

-----------------------------------------------------------------------------
(***************************************************************************)
(* The receipt is matched with the logs of the trace by their order: live  *)
(* logs and surviving ones are the same, and their ranks and block indexes *)
(* rise together.                                                          *)
(***************************************************************************)
(* The map b goes from the elements of A to those of B, by their order.    *)
Ordered(A, p, B, q, b) ==
    /\ IsFiniteSet(A) /\ p \in [A -> Nat] /\ \A x, y \in A : p[x] = p[y] => x = y
    /\ IsFiniteSet(B) /\ q \in [B -> Nat] /\ \A x, y \in B : q[x] = q[y] => x = y
    /\ b \in [A -> B] /\ \A y \in B : \E x \in A : b[x] = y
    /\ \A x, y \in A : p[x] <= p[y] <=> q[b[x]] <= q[b[y]]

(* Then it takes the i-th of one to the i-th of the other.                 *)
LEMMA InOrderMap ==
    ASSUME NEW A, NEW p, NEW B, NEW q, NEW b, Ordered(A, p, B, q, b)
    PROVE  /\ Cardinality(A) \in Nat /\ Cardinality(B) = Cardinality(A)
           /\ InOrder(A, p) \in [1..Cardinality(A) -> A] /\ InOrder(B, q) \in [1..Cardinality(A) -> B]
           /\ \A i \in 1..Cardinality(A) : InOrder(B, q)[i] = b[InOrder(A, p)[i]]
           /\ \A i, j \in 1..Cardinality(A) : i < j => p[InOrder(A, p)[i]] < p[InOrder(A, p)[j]]
<1> USE DEF Ordered
<1> DEFINE n == Cardinality(A)
           S == InOrder(A, p)
           T == InOrder(B, q)
<1>1. /\ n \in Nat /\ S \in [1..n -> A]
      /\ \A i \in 1..n : Cardinality({d \in A : p[d] <= p[S[i]]}) = i
  BY InOrderLists
<1>2. /\ T \in [1..Cardinality(B) -> B]
      /\ \A e \in B : \E i \in 1..Cardinality(B) : T[i] = e
      /\ \A i \in 1..Cardinality(B) : Cardinality({d \in B : q[d] <= q[T[i]]}) = i
  <2>1. IsFiniteSet(B) /\ q \in [B -> Nat] /\ \A x, y \in B : q[x] = q[y] => x = y
    OBVIOUS
  <2>2. T \in [1..Cardinality(B) -> B]
    BY <2>1, InOrderLists
  <2>3. \A e \in B : \E i \in 1..Cardinality(B) : T[i] = e
    BY <2>1, InOrderLists
  <2>4. \A i \in 1..Cardinality(B) : Cardinality({d \in B : q[d] <= q[T[i]]}) = i
    BY <2>1, InOrderLists
  <2> QED BY <2>2, <2>3, <2>4
<1>3. \A x, y \in A : b[x] = b[y] => x = y
  <2> TAKE x \in A, y \in A
  <2> HAVE b[x] = b[y]
  <2>1. q[b[x]] \in Nat /\ p[x] \in Nat /\ p[y] \in Nat
    OBVIOUS
  <2>2. p[x] <= p[y] /\ p[y] <= p[x]
    BY <2>1
  <2> QED BY <2>1, <2>2
<1>4. ASSUME NEW D, D \subseteq A PROVE Cardinality({b[x] : x \in D}) = Cardinality(D)
  <2>1. IsFiniteSet(D) /\ \A x, y \in D : b[x] = b[y] => x = y
    BY <1>3, <1>4, FS_Subset
  <2> QED BY <2>1, CountedByKey
<1>5. Cardinality(B) = n
  <2>1. {b[x] : x \in A} = B
    OBVIOUS
  <2>2. Cardinality({b[x] : x \in A}) = n
    BY <1>4
  <2> QED BY <2>1, <2>2
<1>6. ASSUME NEW i \in 1..n PROVE T[i] = b[S[i]]
  <2> DEFINE x == S[i]
             D == {d \in A : p[d] <= p[x]}
             E == {e \in B : q[e] <= q[b[x]]}
  <2>1. x \in A /\ Cardinality(D) = i
    BY <1>1
  <2> HIDE DEF x
  <2>2. {b[d] : d \in D} = E
    <3>1. ASSUME NEW d \in D PROVE b[d] \in E
      BY <2>1
    <3>2. ASSUME NEW e \in E PROVE \E d \in D : b[d] = e
      <4>1. PICK d \in A : b[d] = e
        OBVIOUS
      <4>2. p[d] <= p[x]
        BY <2>1, <4>1
      <4> QED BY <4>1, <4>2
    <3> HIDE DEF D, E
    <3> QED BY <3>1, <3>2
  <2>3. Cardinality({b[d] : d \in D}) = Cardinality(D)
    <3>1. D \subseteq A
      OBVIOUS
    <3> HIDE DEF D
    <3> QED BY <1>4, <3>1
  <2>4. PICK j \in 1..Cardinality(B) : T[j] = b[x]
    BY <1>2, <2>1
  <2>5. Cardinality(E) = j
    BY <1>2, <2>4
  <2>6. i = j
    BY <2>1, <2>2, <2>3, <2>5
  <2> QED BY <2>4, <2>6 DEF x
<1>7. ASSUME NEW i \in 1..n, NEW j \in 1..n, i < j PROVE p[S[i]] < p[S[j]]
  <2> DEFINE D == {d \in A : p[d] <= p[S[i]]}
             E == {d \in A : p[d] <= p[S[j]]}
  <2>1. S[i] \in A /\ S[j] \in A /\ p[S[i]] \in Nat /\ p[S[j]] \in Nat
    BY <1>1
  <2>2. Cardinality(D) = i /\ Cardinality(E) = j
    BY <1>1
  <2>3. CASE p[S[j]] <= p[S[i]]
    <3> HIDE DEF S
    <3>1. E \subseteq D
      BY <2>1, <2>3
    <3>2. IsFiniteSet(D)
      BY FS_Subset
    <3>3. Cardinality(E) <= Cardinality(D)
      <4> HIDE DEF E, D
      <4> QED BY <3>1, <3>2, FS_Subset
    <3> QED BY <1>7, <2>2, <3>3
  <2> QED BY <2>1, <2>3
<1> QED BY <1>1, <1>2, <1>5, <1>6, <1>7

(* Of the logs of a reverted call those that are never reverted go into    *)
(* the trace as they are.                                                  *)
LEMMA RemoveSurvives ==
    ASSUME NEW calls \in Seq(Call), NEW R, NEW i \in 1..Len(calls), NEW l
    PROVE  l \in ToSet(RemoveLogBlockIndex(calls, R)[i].lists["log"]) /\ (i \in R => IsNeverRevertedLog(l))
           <=> l \in ToSet(calls[i].lists["log"]) /\ (i \in R => IsNeverRevertedLog(l))
<1> DEFINE c     == calls[i]
           logs  == c.lists["log"]
           all   == RemoveLogBlockIndex(calls, R)
           after == all[i]
           g     == [j \in DOMAIN logs |-> IF IsNeverRevertedLog(logs[j]) THEN logs[j]
                                           ELSE [logs[j] EXCEPT !.blockIndex = 0]]
           lists == [c.lists EXCEPT !["log"] = g]
<1>1. /\ c \in Call /\ c.lists \in [Lists -> Seq(Entry)] /\ "log" \in Lists /\ logs \in Seq(Entry)
      /\ DOMAIN calls = 1..Len(calls) /\ i \in DOMAIN calls
  <2>1. c \in Call /\ c.lists \in [Lists -> Seq(Entry)] /\ DOMAIN calls = 1..Len(calls) /\ i \in DOMAIN calls
    BY CallsType
  <2> QED BY <2>1 DEF Lists
<1>2. CASE i \notin R
  <2>1. after = c
    BY <1>1, <1>2 DEF RemoveLogBlockIndex
  <2> QED BY <2>1
<1>3. CASE i \in R
  <2>1. all[i] = [c EXCEPT !.lists = lists]
    BY <1>1, <1>3 DEF RemoveLogBlockIndex
  <2>2. DOMAIN logs = 1..Len(logs) /\ DOMAIN g = 1..Len(logs)
    BY <1>1
  <2>3. ASSUME NEW j \in 1..Len(logs)
        PROVE  /\ IsNeverRevertedLog(logs[j]) => g[j] = logs[j]
               /\ IsNeverRevertedLog(g[j]) => IsNeverRevertedLog(logs[j])
    <3>1. logs[j] \in Entry
      BY <1>1, ElementType
    <3>2. g[j] = IF IsNeverRevertedLog(logs[j]) THEN logs[j] ELSE [logs[j] EXCEPT !.blockIndex = 0]
      BY <2>2
    <3> HIDE DEF g
    <3>3. g[j].data = logs[j].data
      BY <3>1, <3>2 DEF Entry
    <3> QED BY <3>2, <3>3 DEF IsNeverRevertedLog
  <2> HIDE DEF g
  <2>4. after.lists["log"] = g
    <3>1. lists["log"] = g
      BY <1>1
    <3> HIDE DEF c, lists, all
    <3>2. after.lists = lists
      BY <1>1, <2>1 DEF Call
    <3> QED BY <3>1, <3>2
  <2>5. ToSet(g) = {g[j] : j \in 1..Len(logs)} /\ ToSet(logs) = {logs[j] : j \in 1..Len(logs)}
    BY <2>2 DEF ToSet
  <2> HIDE DEF logs, after, lists, all
  <2>6. ASSUME l \in ToSet(g), IsNeverRevertedLog(l) PROVE l \in ToSet(logs)
    <3>1. PICK j \in 1..Len(logs) : l = g[j]
      BY <2>5, <2>6
    <3> QED BY <2>3, <2>5, <2>6, <3>1
  <2>7. ASSUME l \in ToSet(logs), IsNeverRevertedLog(l) PROVE l \in ToSet(g)
    <3>1. PICK j \in 1..Len(logs) : l = logs[j]
      BY <2>5, <2>7
    <3> QED BY <2>3, <2>5, <2>7, <3>1
  <2> QED BY <1>3, <2>4, <2>6, <2>7 DEF logs, after, all
<1> QED BY <1>2, <1>3

(* A call that ended is doomed when one that covers it, itself included,   *)
(* failed.                                                                 *)
LEMMA EndedDoomed ==
    ASSUME NEW X \in SUBSET Call, NEW n \in Nat, Forest(X, n), \A y \in X : Closed(y),
           \A x, y \in X : x.index = y.index => x = y, NEW x \in X
    PROVE  Doomed(X, x) <=> \E f \in X : Failing(f) /\ f.begin <= x.begin /\ x.end <= f.end
<1>1. \A y \in X : y.begin \in Nat /\ y.end \in Nat /\ y.index \in Nat
  BY DEF Call
<1>2. x.begin < x.end
  BY DEF Forest, Timed
<1>3. ASSUME NEW y \in Around(X, x) PROVE y \in X /\ y.begin <= x.begin /\ x.end <= y.end
  <2>1. y \in X /\ y.begin < x.begin
    BY DEF Around, Covers
  <2>2. x.end < y.end
    BY <2>1 DEF Forest, Nested
  <2> QED BY <1>1, <2>1, <2>2
<1>4. ASSUME NEW f \in X, f.begin <= x.begin, x.end <= f.end PROVE f = x \/ f \in Around(X, x)
  <2>1. CASE f.begin < x.begin
    <3>1. x.begin < f.end
      BY <1>1, <1>2, <1>4
    <3> QED BY <2>1, <3>1 DEF Around, Covers
  <2>2. CASE f.begin = x.begin
    <3>1. ~(f.index < x.index) /\ ~(x.index < f.index)
      BY <1>1, <2>2 DEF Forest, Numbering
    <3> QED BY <1>1, <3>1
  <2> QED BY <1>1, <1>4, <2>1, <2>2
<1>5. x.begin <= x.begin /\ x.end <= x.end
  BY <1>1
<1> QED BY <1>3, <1>4, <1>5 DEF Doomed

(* The logs of a transaction that ends survive as long as they are live.   *)
LEMMA EndedSurvivors ==
    ASSUME StateOK(cur), cur.callStack.stack = <<>>, cur.trx.calls # <<>>,
           NEW c, NEW n \in Nat, Traces(cur, c, n),
           \A l \in AllLogs(cur) : l.data.frame = 0 => HasNeverRevertedLog,
           NEW R, R = StateReverted(CompleteCalls)
    PROVE  /\ SurvivingLogs(RemoveLogBlockIndex(CompleteCalls, R), R)
                = InOrder(Live(cur), [l \in Live(cur) |-> l.ord])
           /\ Live(cur) \subseteq Emitted(ToSet(RemoveLogBlockIndex(CompleteCalls, R)))
           /\ ParentsInRange(CompleteCalls)
<1> DEFINE calls == CompleteCalls
           F     == RemoveLogBlockIndex(calls, R)
           m     == Len(F)
           X     == CallsOf(cur)
           Y     == ToSet(F)
           d     == cur.deferred
<1>1. /\ F \in Seq(Call) /\ m = Len(cur.trx.calls)
      /\ Finals(Y, cur, d)
      /\ \A i \in 1..m : F[i].index = i /\ SameNode(F[i], calls[i])
      /\ calls \in Seq(Call) /\ Len(calls) = m
      /\ \A i \in 1..m : \E x \in X :
           /\ x.index = i /\ SameNode(F[i], x)
           /\ \A k \in Lists : calls[i].lists[k] = Joined(x, d, k)
  BY TrxFinals
<1>2. /\ X = ToSet(cur.trx.calls) /\ X \subseteq Call /\ Indexes(X) = 1..m /\ m \in Nat
      /\ \A x, y \in X : x.index = y.index => x = y
  BY <1>1, EndedNumbers, CallsOfNumbers
<1> HIDE DEF F, m, d
<1>3. /\ Forest(X, n) /\ \A x \in X : Closed(x)
  BY <1>2 DEF Traces, Shape, Named
<1>4. /\ Forest(Y, n) /\ Y \in SUBSET Call /\ \A y \in Y : Closed(y)
      /\ Indexes(Y) = 1..m
  BY <1>1, FinalsTree
<1> HIDE DEF calls, X
<1>5. R = {i \in DOMAIN F : \E f \in Y : /\ f.outcome \in {"failed", "reverted"}
                                         /\ f.begin <= F[i].begin /\ F[i].end <= f.end}
  BY <1>1, <1>4, RevertedTree DEF calls, m
<1>6. \A i \in 1..m : \E x \in X :
        /\ i \in R <=> Doomed(X, x)
        /\ x.index = i
        /\ calls[i].lists["log"] = Joined(x, d, "log")
  <2> TAKE i \in 1..m
  <2>1. PICK x \in X : /\ x.index = i /\ SameNode(F[i], x)
                       /\ \A k \in Lists : calls[i].lists[k] = Joined(x, d, k)
    BY <1>1
  <2>2. i \in DOMAIN F
    BY <1>1 DEF m
  <2>3. Doomed(X, x) <=> \E f \in X : Failing(f) /\ f.begin <= x.begin /\ x.end <= f.end
    BY <1>2, <1>3, EndedDoomed
  <2>4. i \in R <=> \E f \in Y : Failing(f) /\ f.begin <= x.begin /\ x.end <= f.end
    BY <1>5, <2>1, <2>2 DEF SameNode, Failing
  <2>5. /\ \A f \in Y : \E g \in X : SameNode(f, g)
        /\ \A g \in X : \E f \in Y : SameNode(f, g)
    BY <1>1 DEF Finals, Final, X
  <2>6. (\E f \in Y : Failing(f) /\ f.begin <= x.begin /\ x.end <= f.end)
          <=> \E f \in X : Failing(f) /\ f.begin <= x.begin /\ x.end <= f.end
    <3> HIDE DEF Y
    <3> QED BY <2>5 DEF SameNode, Failing
  <2>7. "log" \in Lists
    BY DEF Lists
  <2> QED BY <2>1, <2>3, <2>4, <2>6, <2>7
<1> DEFINE part(i) == {l \in ToSet(F[i].lists["log"]) : i \in R => IsNeverRevertedLog(l)}
           logs    == UNION {part(i) : i \in DOMAIN F}
           L       == Live(cur)
<1>7. \A l : l \in logs <=> \E i \in 1..m : l \in ToSet(calls[i].lists["log"]) /\ (i \in R => IsNeverRevertedLog(l))
  <2>1. DOMAIN F = 1..m
    BY <1>1 DEF m
  <2>2. \A i \in 1..m : \A l :
          l \in ToSet(F[i].lists["log"]) /\ (i \in R => IsNeverRevertedLog(l))
          <=> l \in ToSet(calls[i].lists["log"]) /\ (i \in R => IsNeverRevertedLog(l))
    BY <1>1, RemoveSurvives DEF F
  <2>3. \A i, l : l \in part(i) <=> l \in ToSet(F[i].lists["log"]) /\ (i \in R => IsNeverRevertedLog(l))
    OBVIOUS
  <2>4. \A l : l \in logs <=> \E i \in DOMAIN F : l \in part(i)
    <3> HIDE DEF part
    <3> QED OBVIOUS
  <2> HIDE DEF logs, part
  <2> QED BY <2>1, <2>2, <2>3, <2>4
<1>8. \A l : l \in logs <=> \E x \in X : l \in ToSet(Joined(x, d, "log")) /\ (Doomed(X, x) => IsNeverRevertedLog(l))
  <2> HIDE DEF logs
  <2>1. \A x \in X : x.index \in 1..m
    BY <1>2 DEF Indexes
  <2> QED BY <1>2, <1>6, <1>7, <2>1
<1> HIDE DEF logs
<1>9. \A x \in X : \A l : l \in ToSet(Joined(x, d, "log")) <=>
        l \in ToSet(x.lists["log"]) \/ (x.index = 1 /\ l \in ToSet(d["log"]))
  BY JoinedLogs DEF X, d
<1>10. /\ \A l : l \in AllLogs(cur) <=> (\E x \in X : l \in ToSet(x.lists["log"])) \/ l \in ToSet(d["log"])
       /\ \A l : l \in L <=> l \in AllLogs(cur) /\ (l.data.frame = 0 \/ \E x \in X : l \in ToSet(x.lists["log"]) /\ ~Doomed(X, x))
  BY LogsOf DEF Live, X, d
<1>11. \A l \in ToSet(d["log"]) : l.data.frame = 0
  BY DEF Traces, Content, Waiting, Voice, Lists, d
<1>12. \E x \in X : x.index = 1
  <2>1. cur.trx.calls \in Seq(Call) /\ 1 \in 1..m
    BY <1>1, EndedNumbers, EmptySeq
  <2> QED BY <1>2, <2>1 DEF Indexes
<1>13. \A l \in AllLogs(cur) : l.data.frame = 0 <=> IsNeverRevertedLog(l)
  BY DEF IsNeverRevertedLog
<1> HIDE DEF L
<1>14. logs = L
  <2>1. ASSUME NEW l, l \in logs PROVE l \in L
    <3>1. PICK x \in X : l \in ToSet(Joined(x, d, "log")) /\ (Doomed(X, x) => IsNeverRevertedLog(l))
      BY <1>8, <2>1
    <3> QED BY <1>9, <1>10, <1>11, <1>13, <3>1
  <2>2. ASSUME NEW l, l \in L PROVE l \in logs
    BY <1>8, <1>9, <1>10, <1>12, <1>13, <2>2
  <2> QED BY <2>1, <2>2
<1>15. SurvivingLogs(F, R) = InOrder(logs, [l \in logs |-> l.ord])
  BY DEF SurvivingLogs, logs
<1>16. ParentsInRange(calls)
  <2>1. ASSUME NEW i \in 1..m PROVE calls[i].parent <= m
    <3> DEFINE y == F[i]
    <3>1. y \in Y
      BY <1>1, SeqElements DEF m
    <3> HIDE DEF y
    <3>2. Placing(Y, y) /\ \A p \in Around(Y, y) : p \in Y
      BY <1>4, <3>1 DEF Forest, Around
    <3>3. \A p \in Y : p.index \in 1..m
      BY <1>4 DEF Indexes
    <3>4. y.parent <= m
      BY <1>2, <3>2, <3>3 DEF Placing
    <3> QED BY <1>1, <3>4 DEF y, SameNode
  <2>2. DOMAIN calls = 1..m
    BY <1>1
  <2> QED BY <1>1, <2>1, <2>2 DEF ParentsInRange
<1>17. logs \subseteq Emitted(Y)
  <2>1. \A i \in DOMAIN F : F[i] \in Y
    BY <1>1, SeqElements
  <2>2. \A i \in DOMAIN F : part(i) \subseteq ToSet(F[i].lists["log"])
    OBVIOUS
  <2> HIDE DEF part, Y
  <2> QED BY <2>1, <2>2 DEF logs, Emitted
<1> QED BY <1>14, <1>15, <1>16, <1>17 DEF F, calls, L

(* Logs by their ordinals, and the places they and the context's own       *)
(* entries have in the journal.                                            *)
OrdOf(L) == [l \in L |-> l.ord]
PlaceOf(L) == [l \in L |-> l.blockIndex + 1]
OwnPlaces(logs, c) == {i \in DOMAIN logs : logs[i].data.by = c.id}
InPlace(own) == [i \in own |-> i]

(* The block indexes of live logs are the places of the context's own      *)
(* entries in the journal, in the same order.                              *)
LEMMA FitsOrdered ==
    ASSUME NEW L, IsFiniteSet(L), L \subseteq Entry, \A l, m \in L : l.ord = m.ord => l = m,
           NEW c, \A l \in L : l.data.by = c.id,
           NEW In, NEW logs \in Seq(LogRecords), Fits(L, In, c, logs)
    PROVE  Ordered(L, OrdOf(L), OwnPlaces(logs, c), InPlace(OwnPlaces(logs, c)), PlaceOf(L))
<1> DEFINE own == {i \in DOMAIN logs : logs[i].data.by = c.id}
           p   == [l \in L |-> l.ord]
           q   == [i \in own |-> i]
           b   == [l \in L |-> l.blockIndex + 1]
           n   == Len(logs)
<1>1. n \in Nat /\ DOMAIN logs = 1..n /\ own \subseteq 1..n
  OBVIOUS
<1>2. IsFiniteSet(own)
  <2>1. IsFiniteSet(1..n)
    BY <1>1, FS_Interval
  <2> HIDE DEF n
  <2> QED BY <1>1, <2>1, FS_Subset
<1>3. \A l \in L : l.ord \in Nat /\ l.blockIndex \in Nat
  BY DEF Entry
<1>4. p \in [L -> Nat] /\ \A x, y \in L : p[x] = p[y] => x = y
  BY <1>3
<1>5. q \in [own -> Nat] /\ \A x, y \in own : q[x] = q[y] => x = y
  BY <1>1
<1>6. /\ \A l \in L : l.blockIndex < n /\ logs[l.blockIndex + 1].data = l.data
      /\ \A i \in 1..n : logs[i].data.by = c.id => \E l \in L : l.blockIndex = i - 1
      /\ \A l, m \in L : l.ord < m.ord => l.blockIndex < m.blockIndex
  BY DEF Fits
<1>7. \A l \in L : b[l] = l.blockIndex + 1 /\ b[l] \in own
  <2> TAKE l \in L
  <2>1. l.blockIndex + 1 \in 1..n
    BY <1>1, <1>3, <1>6
  <2>2. logs[l.blockIndex + 1].data.by = c.id
    BY <1>6
  <2> QED BY <1>1, <2>1, <2>2
<1>8. b \in [L -> own]
  BY <1>7
<1>9. \A y \in own : \E x \in L : b[x] = y
  <2> TAKE y \in own
  <2>1. y \in 1..n /\ logs[y].data.by = c.id
    BY <1>1
  <2>2. PICK l \in L : l.blockIndex = y - 1
    BY <1>6, <2>1
  <2>3. b[l] = y
    BY <1>7, <2>1, <2>2
  <2> QED BY <2>3
<1>10. ASSUME NEW x \in L, NEW y \in L PROVE p[x] <= p[y] <=> q[b[x]] <= q[b[y]]
  <2>1. p[x] = x.ord /\ p[y] = y.ord /\ q[b[x]] = x.blockIndex + 1 /\ q[b[y]] = y.blockIndex + 1
    BY <1>7
  <2>2. \/ x = y
        \/ x.ord < y.ord /\ x.blockIndex < y.blockIndex
        \/ y.ord < x.ord /\ y.blockIndex < x.blockIndex
    BY <1>3, <1>6
  <2> QED BY <1>3, <2>1, <2>2
<1>11. Ordered(L, p, own, q, b)
  <2> HIDE DEF p, own, q, b
  <2> QED BY <1>2, <1>4, <1>5, <1>8, <1>9, <1>10 DEF Ordered
<1> QED BY <1>11 DEF OrdOf, OwnPlaces, InPlace, PlaceOf

(* What the live logs of the context on top are in the journal.            *)
LEMMA LiveOrdered ==
    ASSUME LinkedOK, Linked, Traced, Journalled, Running
    PROVE  /\ Ordered(Live(cur), OrdOf(Live(cur)), OwnPlaces(evm.logs, Top),
                      InPlace(OwnPlaces(evm.logs, Top)), PlaceOf(Live(cur)))
           /\ \A l \in Live(cur) : l \in Entry /\ evm.logs[l.blockIndex + 1].data = l.data
           /\ \A l \in AllLogs(cur) : l.data.frame = 0 => HasNeverRevertedLog
           /\ evm.logs \in Seq(LogRecords) /\ Indexed(evm.logs, evm.started)
<1> DEFINE L    == Live(cur)
           c    == Top
           logs == evm.logs
<1>1. /\ Reported(cur, c, logs) /\ Traces(cur, c, ordinal) /\ c \in Contexts
      /\ StateOK(cur) /\ LogsOK(cur, ordinal) /\ ordinal \in Nat
      /\ logs \in Seq(LogRecords)
  BY TopReported
<1> HIDE DEF c, logs
<1>2. L \subseteq Entry /\ L \subseteq AllLogs(cur) /\ IsFiniteSet(L)
  BY <1>1, LiveType
<1>3. \A l, m \in L : l.ord = m.ord => l = m
  BY <1>1, <1>2 DEF LogsOK
<1>4. \A l \in L : l.data.by = c.id
  <2> TAKE l \in L
  <2>1. (\E x \in CallsOf(cur) : l \in ToSet(x.lists["log"])) \/ l \in ToSet(cur.deferred["log"])
    BY <1>1, <1>2, LogsOf
  <2>2. "log" \in Lists
    BY DEF Lists
  <2>3. CASE \E x \in CallsOf(cur) : l \in ToSet(x.lists["log"])
    <3>1. PICK x \in CallsOf(cur) : l \in ToSet(x.lists["log"])
      BY <2>3
    <3>2. Belongs(l, x, c) /\ x.data.by = c.id
      BY <1>1, <2>2, <3>1 DEF Traces, Content, Filled, Shape, Named
    <3> QED BY <3>2 DEF Belongs, Voice
  <2>4. CASE l \in ToSet(cur.deferred["log"])
    BY <1>1, <2>2, <2>4 DEF Traces, Content, Waiting, Voice
  <2> QED BY <2>1, <2>3, <2>4
<1>5. Fits(L, Parts(cur), c, logs)
  BY <1>1 DEF Reported
<1>6. Ordered(L, OrdOf(L), OwnPlaces(logs, c), InPlace(OwnPlaces(logs, c)), PlaceOf(L))
  <2> HIDE DEF L
  <2> QED BY <1>1, <1>2, <1>3, <1>4, <1>5, FitsOrdered
<1>7. /\ \A l \in L : l \in Entry /\ logs[l.blockIndex + 1].data = l.data
      /\ \A l \in AllLogs(cur) : l.data.frame = 0 => HasNeverRevertedLog
  BY <1>1, <1>2, <1>5 DEF Fits, Reported
<1> QED BY <1>1, <1>6, <1>7 DEF logs, c, Journalled

(* The receipt has, place by place, the log that survived.                 *)
LEMMA ReceiptMatches ==
    ASSUME LinkedOK, Linked, Traced, Journalled, Running, NEW status \in {"ok", "failed"},
           NEW S, S = InOrder(Live(cur), OrdOf(Live(cur)))
    PROVE  /\ LogsMatch(S, Receipt(status).logs)
           /\ LET assigned == AssignToReceiptLogs(S, Receipt(status).logs)
              IN  /\ \A i \in DOMAIN assigned : assigned[i] \in Live(cur)
                  /\ \A i, j \in DOMAIN assigned : i < j => assigned[i].ord < assigned[j].ord
<1> DEFINE L      == Live(cur)
           p      == OrdOf(L)
           own    == OwnPlaces(evm.logs, Top)
           T      == InOrder(own, InPlace(own))
           b      == PlaceOf(L)
           n      == Cardinality(L)
           place(j) == evm.logs[T[j]]
           logs   == [j \in DOMAIN T |-> [ord |-> 0, index |-> 0, data |-> place(j).data,
                                          blockIndex |-> place(j).blockIndex]]
           assigned == AssignToReceiptLogs(S, logs)
<1>1. /\ Ordered(L, p, own, InPlace(own), b)
      /\ \A l \in L : l \in Entry /\ evm.logs[l.blockIndex + 1].data = l.data
      /\ evm.logs \in Seq(LogRecords) /\ Indexed(evm.logs, evm.started)
  BY LiveOrdered
<1>2. Receipt(status).logs = logs
  BY DEF Receipt, OwnPlaces, InPlace
<1> HIDE DEF L, p, own, b
<1>3. /\ n \in Nat /\ S \in [1..n -> L] /\ T \in [1..n -> own]
      /\ \A i \in 1..n : T[i] = b[S[i]]
      /\ \A i, j \in 1..n : i < j => p[S[i]] < p[S[j]]
  BY <1>1, InOrderMap DEF L, p
<1> HIDE DEF n, T
<1>4. ASSUME NEW j \in 1..n
      PROVE  /\ S[j] \in L /\ S[j] \in Entry /\ p[S[j]] = S[j].ord
             /\ place(j).data = S[j].data /\ place(j).blockIndex = S[j].blockIndex
  <2>1. S[j] \in L /\ S[j] \in Entry /\ T[j] \in own
    BY <1>1, <1>3
  <2>2. T[j] = S[j].blockIndex + 1 /\ p[S[j]] = S[j].ord
    BY <1>3, <2>1 DEF b, p, PlaceOf, OrdOf
  <2>3. T[j] \in 1..Len(evm.logs) /\ S[j].blockIndex \in Nat
    BY <1>1, <2>1 DEF own, OwnPlaces, Entry
  <2>4. evm.logs[T[j]].blockIndex = T[j] - 1
    BY <2>3, <1>1 DEF Indexed
  <2> QED BY <1>1, <2>1, <2>2, <2>3, <2>4
<1>5. DOMAIN logs = 1..n /\ \A j \in 1..n : logs[j] = [ord |-> 0, index |-> 0, data |-> S[j].data, blockIndex |-> S[j].blockIndex]
  BY <1>3, <1>4
<1> HIDE DEF logs, place
<1>6. DOMAIN S = 1..n /\ Len(S) = n /\ Len(logs) = n
  <2>1. S \in Seq(L) /\ Len(S) = n
    BY <1>3, FunctionIsSeq
  <2>2. logs = [j \in 1..n |-> logs[j]]
    BY <1>2, <1>5 DEF logs
  <2>3. logs \in [1..n -> Entry]
    <3>1. \A j \in 1..n : logs[j] \in Entry
      BY <1>4, <1>5 DEF Entry
    <3> QED BY <2>2, <3>1
  <2> QED BY <1>3, <2>1, <2>3, FunctionIsSeq
<1>7. LogsMatch(S, logs)
  BY <1>5, <1>6 DEF LogsMatch
<1>8. DOMAIN assigned = 1..n /\ \A j \in 1..n : assigned[j] = S[j]
  <2>1. DOMAIN assigned = 1..n
    BY <1>5 DEF AssignToReceiptLogs
  <2>2. ASSUME NEW j \in 1..n PROVE assigned[j] = S[j]
    <3> DEFINE e == S[j]
    <3>1. assigned[j] = [logs[j] EXCEPT !.ord = e.ord, !.index = e.index]
      BY <1>5 DEF AssignToReceiptLogs
    <3>2. e \in Entry /\ logs[j] = [ord |-> 0, index |-> 0, data |-> e.data, blockIndex |-> e.blockIndex]
      BY <1>4, <1>5
    <3> HIDE DEF e, assigned
    <3>3. logs[j] \in Entry /\ logs[j].data = e.data /\ logs[j].blockIndex = e.blockIndex
      BY <3>2 DEF Entry
    <3>4. assigned[j] = e
      BY ONLY <3>1, <3>2, <3>3 DEF Entry
    <3> QED BY <3>4 DEF e
  <2> QED BY <2>1, <2>2
<1> HIDE DEF assigned
<1>9. /\ \A i \in DOMAIN assigned : assigned[i] \in L
      /\ \A i, j \in DOMAIN assigned : i < j => assigned[i].ord < assigned[j].ord
  BY <1>3, <1>4, <1>8
<1> QED BY <1>2, <1>7, <1>9 DEF L, assigned

(* The receipt of a trace names logs of its calls, in order.               *)
FaithfulTrx(trx) ==
    trx.calls # <<>> =>
        \A i \in DOMAIN trx.receipt.logs :
            /\ trx.receipt.logs[i] \in Emitted(ToSet(trx.calls))
            /\ \A j \in DOMAIN trx.receipt.logs : i < j => trx.receipt.logs[i].ord < trx.receipt.logs[j].ord

(* What a transaction without any call still waits with: nothing.          *)
LEMMA NoCallNoChange ==
    ASSUME Disciplined, LinkedOK, Linked, Kept, Traced, profile \in Profiles, Running, ~Top.sys, Top.frames = <<>>,
           cur.trx.calls = <<>>, Muted \/ (Top.roots = 0 => Behaves("no call"))
    PROVE  cur.deferred = NoEntries
<1>1. Holds(cur, Top, profile.outsideTrx) /\ Top \in Contexts
  BY TopHolds
<1>2. ~HasActiveCall(cur.callStack)
  BY TopEnded DEF HasActiveCall
<1>3. Top.roots = 0
  <2>1. ~(Top.roots > 0)
    BY <1>1, <1>2 DEF Holds
  <2>2. Top.roots \in Nat
    BY <1>1 DEF Contexts
  <2> QED BY ONLY <2>1, <2>2
<1>4. profile.outsideTrx = {}
  BY <1>3 DEF Disciplined, Muted, Behaves
<1> QED BY <1>1, <1>4 DEF Holds

(* A transaction that ends as careful clients end it can be completed, and *)
(* its receipt is faithful.                                                *)
LEMMA TrxCompletable ==
    ASSUME Careful, LinkedOK, Linked, Kept, Traced, Journalled, profile \in Profiles,
           Running, ~Top.sys, Top.frames = <<>>, NEW receipt \in Receipts,
           \/ /\ \E status \in {"ok", "failed"} : receipt = Receipt(status)
              /\ Top.roots = 0 => Behaves("no call")
           \/ receipt = NoReceipt /\ Muted
    PROVE  Completable(receipt) /\ FaithfulTrx(CompleteTransaction(receipt))
<1>1. /\ StateOK(cur) /\ cur.callStack.stack = <<>> /\ ordinal \in Nat
      /\ Traces(cur, Top, ordinal) /\ cur.trx \in Trx
  BY TopEnded, LinkedParts
<1>2. CASE cur.trx.calls = <<>>
  <2>1. cur.deferred = NoEntries
    BY <1>2, NoCallNoChange DEF Careful
  <2>2. ~HasCallOnlyChanges(cur.deferred)
    BY <2>1 DEF HasCallOnlyChanges, NoEntries, Lists
  <2>3. CompleteTransaction(receipt).calls = <<>>
    <3> DEFINE end == ordinal + 1
    <3>1. CompleteTransaction(receipt) = [cur.trx EXCEPT !.end = end]
      BY <1>2 DEF CompleteTransaction
    <3> HIDE DEF end
    <3> QED BY <1>1, <1>2, <3>1 DEF Trx
  <2> QED BY <1>2, <2>2, <2>3 DEF Completable, FaithfulTrx
<1>3. CASE cur.trx.calls # <<>>
  <2> DEFINE calls    == CompleteCalls
             R        == StateReverted(calls)
             final    == RemoveLogBlockIndex(calls, R)
             S        == SurvivingLogs(final, R)
             status   == TrxStatus(receipt, calls[1])
             logs     == AssignToReceiptLogs(S, receipt.logs)
             assigned == [receipt EXCEPT !.logs = logs]
             end      == ordinal + 1
             trx      == CompleteTransaction(receipt)
  <2>1. trx = [cur.trx EXCEPT !.calls = final, !.stateReverted = R, !.status = status,
                              !.receipt = assigned, !.end = end]
    BY <1>3 DEF CompleteTransaction
  <2>2. /\ Ordered(Live(cur), OrdOf(Live(cur)), OwnPlaces(evm.logs, Top),
                   InPlace(OwnPlaces(evm.logs, Top)), PlaceOf(Live(cur)))
        /\ \A l \in AllLogs(cur) : l.data.frame = 0 => HasNeverRevertedLog
    BY LiveOrdered
  <2>3. /\ S = InOrder(Live(cur), [l \in Live(cur) |-> l.ord])
        /\ Live(cur) \subseteq Emitted(ToSet(final))
        /\ ParentsInRange(calls)
    <3> HIDE DEF R
    <3>1. R = StateReverted(CompleteCalls)
      BY DEF R
    <3> QED BY <1>1, <1>3, <2>2, <3>1, EndedSurvivors
  <2>4. S = InOrder(Live(cur), OrdOf(Live(cur)))
    BY <2>3 DEF OrdOf
  <2>5. Completable(receipt) <=> LogsMatch(S, receipt.logs)
    BY <1>3, <2>3 DEF Completable
  <2> HIDE DEF calls, R, final, S, status, assigned, end, trx
  <2>6. /\ LogsMatch(S, receipt.logs)
        /\ \A i \in DOMAIN logs : logs[i] \in Live(cur)
        /\ \A i, j \in DOMAIN logs : i < j => logs[i].ord < logs[j].ord
    <3>1. CASE \E x \in {"ok", "failed"} : receipt = Receipt(x)
      <4>1. PICK x \in {"ok", "failed"} : receipt = Receipt(x)
        BY <3>1
      <4> QED BY <2>4, <4>1, ReceiptMatches
    <3>2. CASE receipt = NoReceipt /\ Muted
      <4>1. /\ evm.logs = <<>> /\ Live(cur) \in SUBSET Entry
            /\ \A l \in Live(cur) : l.blockIndex < Len(evm.logs)
        BY <1>1, <3>2, TopReported, LiveType DEF Journalled, Reported, Fits
      <4>2. \A l \in Live(cur) : l.blockIndex \in Nat /\ l.blockIndex < 0
        BY <4>1 DEF Entry
      <4>9. Live(cur) = {}
        BY ONLY <4>2
      <4>3. Cardinality(Live(cur)) = 0
        BY <4>9, FS_EmptySet
      <4>4. S \in [1..0 -> Live(cur)]
        BY <2>2, <2>4, <4>3, InOrderMap
      <4>5. Len(S) = 0
        BY <4>4, FunctionIsSeq
      <4>6. receipt.logs = <<>> /\ Len(receipt.logs) = 0 /\ DOMAIN receipt.logs = {}
        BY <3>2 DEF NoReceipt
      <4>7. DOMAIN logs = {}
        BY <4>6 DEF AssignToReceiptLogs
      <4>8. LogsMatch(S, receipt.logs)
        <5>1. DOMAIN S = {}
          BY ONLY <4>4
        <5> QED BY <4>5, <4>6, <5>1 DEF LogsMatch
      <4> HIDE DEF logs
      <4> QED BY <4>7, <4>8
    <3> QED BY <3>1, <3>2
  <2> HIDE DEF logs
  <2>7. trx.calls = final /\ trx.receipt = assigned
    BY <1>1, <2>1 DEF Trx
  <2>8. assigned.logs = logs
    BY DEF assigned, Receipts, NoReceipt
  <2>9. FaithfulTrx(trx)
    BY <2>3, <2>6, <2>7, <2>8 DEF FaithfulTrx
  <2> QED BY <2>5, <2>6, <2>9 DEF trx
<1> QED BY <1>2, <1>3

(* No hook of a careful client panics: between contexts, ...               *)
LEMMA BoundsSafe ==
    ASSUME JournalOK, ~panicked, Traced,
           StartBlock \/ EndBlock \/ FailBlock \/ SkipBlock \/ StartTrx \/ StartSystemCall \/ EndSystemCall
    PROVE  ~panicked'
<1>1. LinkedOK /\ Linked /\ Kept /\ profile \in Profiles /\ cur \in TrxState /\ StateOK(cur)
  BY JournalParts
<1>2. CASE StartBlock
  BY <1>2 DEF StartBlock, OnBlockStart
<1>3. CASE EndBlock \/ FailBlock
  BY <1>1, <1>3 DEF EndBlock, FailBlock, OnBlockEnd, Ensured, Linked
<1>4. CASE SkipBlock
  <2>1. ~block.open /\ OnSkippedBlock
    BY <1>4 DEF SkipBlock
  <2>2. ~InTrx
    BY <1>1, <2>1 DEF LinkedOK, NothingLeftBehind
  <2> QED BY <2>1, <2>2 DEF OnSkippedBlock, Ensured
<1>5. CASE StartTrx
  <2>1. block.open /\ ~Running /\ OnTxStart(NextId)
    BY <1>5 DEF StartTrx
  <2>2. ~InTrx /\ cur = FreshState
    BY <1>1, <2>1, NothingRuns
  <2>3. ~HasActiveCall(cur.callStack)
    BY <2>2 DEF FreshState, NewCallStack, HasActiveCall
  <2> QED BY <2>1, <2>2, <2>3 DEF OnTxStart, Ensured
<1>6. CASE StartSystemCall
  <2>1. block.open /\ (Running => ~Top.sys) /\ OnSystemCallStart
    BY <1>6 DEF StartSystemCall
  <2>2. ~(InTrx /\ inSystemCall)
    BY <1>1, <2>1 DEF Linked
  <2> QED BY <2>1, <2>2 DEF OnSystemCallStart, Ensured
<1>7. CASE EndSystemCall
  <2>1. Running /\ Top.sys /\ OnSystemCallEnd
    BY <1>7 DEF EndSystemCall
  <2>2. block.open /\ InTrx /\ inSystemCall
    BY <1>1, <2>1 DEF Linked
  <2>3. cur.deferred = NoEntries
    BY <1>1, <2>1, TopHolds DEF Holds
  <2>4. ~HasCallOnlyChanges(cur.deferred)
    BY <2>3 DEF HasCallOnlyChanges, NoEntries, Lists
  <2> QED BY <2>1, <2>2, <2>4 DEF OnSystemCallEnd, Ensured
<1> QED BY <1>2, <1>3, <1>4, <1>5, <1>6, <1>7

(* ... in a frame, ...                                                     *)
LEMMA FrameSafe ==
    ASSUME JournalOK, ~panicked, Traced,
           \/ EnterCall \/ SelfDestruct \/ EnterSelfDestruct \/ ExitSelfDestruct
           \/ FaultingOpcode \/ KeccakPreimage \/ \E outcome \in {"ok", "failed", "reverted"} : ExitCall(outcome)
    PROVE  ~panicked'
<1>1. LinkedOK /\ Linked /\ Kept /\ profile \in Profiles /\ cur \in TrxState /\ StateOK(cur)
  BY JournalParts
<1>2. ASSUME InFrameNow PROVE block.open /\ InTrx /\ HasActiveCall(cur.callStack)
  <2>1. Running /\ Top.frames # <<>>
    BY <1>2 DEF InFrameNow
  <2>2. Traces(cur, Top, ordinal) /\ Top \in Contexts
    BY <1>1, <2>1, TopTraces
  <2>3. HasActiveCall(cur.callStack)
    BY <1>1, <2>1, <2>2, ActiveFrame DEF Traces, Shape
  <2> QED BY <1>1, <2>1, <2>3 DEF Linked
<1>3. CASE EnterCall
  BY <1>3 DEF EnterCall, OnCallEnter
<1>4. CASE SelfDestruct \/ EnterSelfDestruct \/ FaultingOpcode
  BY <1>4 DEF SelfDestruct, EnterSelfDestruct, FaultingOpcode, OnOpcode, OnSelfDestructEnter
<1>5. CASE ExitSelfDestruct
  <2>1. cur.suicided /\ OnCallExit("ok")
    BY <1>1, <1>5 DEF ExitSelfDestruct, Kept
  <2> QED BY <2>1 DEF OnCallExit
<1>6. CASE KeccakPreimage
  BY <1>2, <1>6 DEF KeccakPreimage, OnKeccakPreimage, Ensured
<1>7. ASSUME NEW outcome \in {"ok", "failed", "reverted"}, ExitCall(outcome) PROVE ~panicked'
  <2>1. InFrameNow /\ ~evm.destructing /\ OnCallExit(outcome)
    BY <1>7 DEF ExitCall, Idle
  <2>2. ~cur.suicided
    BY <1>1, <2>1 DEF Kept
  <2> QED BY <1>2, <2>1, <2>2 DEF OnCallExit, Ensured
<1> QED BY <1>3, <1>4, <1>5, <1>6, <1>7

(* ... where something changes, ...                                        *)
LEMMA ChangesSafe ==
    ASSUME Careful, JournalOK, ~panicked, Traced, ClearCode \/ Changes \/ Logs
    PROVE  ~panicked'
<1>1. LinkedOK /\ Linked /\ profile \in Profiles
  BY JournalParts
<1>2. ASSUME NEW k, NEW d, block.open, OnBlockOrTrxChange(k, d) PROVE ~panicked'
  BY <1>2 DEF OnBlockOrTrxChange, Ensured
<1>3. ASSUME NEW k, NEW d, block.open, Running, OnTrxChange(k, d) PROVE ~panicked'
  BY <1>1, <1>3 DEF OnTrxChange, Ensured, Linked
<1>4. CASE ClearCode
  <2>1. block.open /\ OnCodeChange(Now, TRUE)
    BY <1>1, <1>4 DEF ClearCode, InFrameNow, Linked
  <2> QED BY <1>2, <2>1 DEF OnCodeChange, tracerVars
<1>5. CASE Changes
  <2>1. block.open
    BY <1>5 DEF Changes
  <2>2. CASE OnBalanceChange(Now) \/ OnCodeChange(Now, FALSE)
    BY <1>2, <2>1, <2>2 DEF OnBalanceChange, OnCodeChange
  <2>3. CASE (MayEmit("nonce") /\ OnNonceChange(Now)) \/ (MayEmit("storage") /\ OnStorageChange(Now))
    <3>1. profile.inBlock \subseteq {"balance", "code"} /\ profile.outsideSys = {}
      BY <1>1, ClientAssumption DEF Profile, Careful, Disciplined
    <3>2. CASE ~Running
      <4>1. ~InFrameNow
        BY <3>2 DEF InFrameNow
      <4>2. ~MayEmit("nonce") /\ ~MayEmit("storage")
        BY <3>1, <3>2, <4>1 DEF MayEmit
      <4> QED BY <2>3, <4>2
    <3>3. CASE Running
      BY <1>3, <2>1, <2>3, <3>3 DEF OnNonceChange, OnStorageChange
    <3> QED BY <3>2, <3>3
  <2> QED BY <1>5, <2>2, <2>3 DEF Changes
<1>6. CASE Logs
  <2>1. block.open /\ MayEmit("log") /\ OnLog(Now, Len(evm.logs))
    BY <1>6 DEF Logs
  <2>2. InTrx
    BY <1>1, <2>1, LogEmitted DEF Linked
  <2> QED BY <2>1, <2>2 DEF OnLog, Ensured
<1> QED BY <1>4, <1>5, <1>6

(* ... and at the end of a transaction, whose trace is faithful.           *)
LEMMA EndTrxSafe ==
    ASSUME Careful, JournalOK, ~panicked, Traced, Journalled, EndTrx \/ EndTrxWithoutReceipt
    PROVE  /\ ~panicked'
           /\ \/ UNCHANGED block.traces
              \/ \E trx : FaithfulTrx(trx) /\ block'.traces = Append(block.traces, trx)
<1>1. LinkedOK /\ Linked /\ Kept /\ profile \in Profiles /\ evm \in Clients /\ block \in Blocks
  BY JournalParts
<1>2. /\ Running /\ ~Top.sys /\ Top.frames = <<>> /\ block.open /\ InTrx
  BY <1>1 DEF EndTrx, EndTrxWithoutReceipt, InFrameNow, Linked
<1>3. ASSUME NEW receipt \in Receipts, OnTxEnd(receipt), Dropped(receipt)
      PROVE  ~panicked' /\ UNCHANGED block.traces
  BY <1>2, <1>3 DEF OnTxEnd, Ensured
<1>4. ASSUME NEW receipt \in Receipts, OnTxEnd(receipt), ~Dropped(receipt),
             Completable(receipt), FaithfulTrx(CompleteTransaction(receipt))
      PROVE  ~panicked' /\ \E trx : FaithfulTrx(trx) /\ block'.traces = Append(block.traces, trx)
  <2> DEFINE trx == CompleteTransaction(receipt)
             traces == Append(block.traces, trx)
  <2>1. ~panicked' /\ block' = [block EXCEPT !.traces = traces]
    BY <1>2, <1>4 DEF OnTxEnd, Ensured
  <2>2. FaithfulTrx(trx)
    BY <1>4
  <2> HIDE DEF trx
  <2>3. block'.traces = traces
    <3> HIDE DEF traces
    <3> QED BY <1>1, <2>1 DEF Blocks
  <2> QED BY <2>1, <2>2, <2>3
<1>5. CASE EndTrx
  <2>1. PICK status \in {"ok", "failed"} : OnTxEnd(Receipt(status))
    BY <1>5 DEF EndTrx
  <2>2. Receipt(status) \in Receipts /\ (Top.roots = 0 => Behaves("no call"))
    BY <1>1, <1>5, ReceiptType DEF EndTrx
  <2>3. Completable(Receipt(status)) /\ FaithfulTrx(CompleteTransaction(Receipt(status)))
    BY <1>1, <1>2, <2>2, TrxCompletable
  <2> QED BY <1>3, <1>4, <2>1, <2>2, <2>3
<1>6. CASE EndTrxWithoutReceipt
  <2>1. OnTxEnd(NoReceipt) /\ Behaves("no receipt") /\ NoReceipt \in Receipts
    BY <1>6 DEF EndTrxWithoutReceipt, Receipts
  <2>2. CASE Dropped(NoReceipt)
    BY <1>3, <2>1, <2>2
  <2>3. CASE ~Dropped(NoReceipt)
    <3>1. Muted
      BY <2>1, <2>3 DEF Muted, Dropped
    <3>2. Completable(NoReceipt) /\ FaithfulTrx(CompleteTransaction(NoReceipt))
      BY <1>1, <1>2, <2>1, <3>1, TrxCompletable
    <3> QED BY <1>4, <2>1, <2>3, <3>2
  <2> QED BY <2>2, <2>3
<1> QED BY <1>5, <1>6

-----------------------------------------------------------------------------
(* The inductive invariant of a careful client: no hook has panicked, what *)
(* is running is traced and journalled, and what the block holds is good   *)
(* and faithful.                                                           *)
FaithfulBlock == \A trx \in ToSet(block.traces) : FaithfulTrx(trx)

CarefulOK == JournalOK /\ ~panicked /\ Traced /\ GoodBlock /\ Journalled /\ FaithfulBlock

(* The traces of a block stay faithful when they are kept, forgotten, or   *)
(* joined by a faithful one.                                               *)
LEMMA FaithfulNext ==
    ASSUME FaithfulBlock, block \in Blocks,
           \/ UNCHANGED block.traces
           \/ block'.traces = <<>>
           \/ \E trx : FaithfulTrx(trx) /\ block'.traces = Append(block.traces, trx)
    PROVE  FaithfulBlock'
<1>1. FaithfulBlock' <=> \A trx \in ToSet(block'.traces) : FaithfulTrx(trx)
  BY DEF FaithfulBlock
<1>2. CASE UNCHANGED block.traces
  BY <1>1, <1>2 DEF FaithfulBlock
<1>3. CASE block'.traces = <<>>
  BY <1>1, <1>3, NothingGood
<1>4. ASSUME NEW trx, FaithfulTrx(trx), block'.traces = Append(block.traces, trx)
      PROVE  FaithfulBlock'
  <2>1. block.traces \in Seq(Trx)
    BY DEF Blocks
  <2>2. ToSet(Append(block.traces, trx)) = ToSet(block.traces) \cup {trx}
    BY <2>1, AppendToSet
  <2>3. \A t \in ToSet(block.traces) : FaithfulTrx(t)
    BY DEF FaithfulBlock
  <2>4. \A t \in ToSet(block'.traces) : FaithfulTrx(t)
    BY <1>4, <2>2, <2>3
  <2> QED BY <1>1, <2>4, Zenon
<1> QED BY <1>2, <1>3, <1>4

(* The invariant holds at first, with nothing running, ...                 *)
LEMMA CarefulInit == Init => CarefulOK
<1> SUFFICES ASSUME Init PROVE CarefulOK
  OBVIOUS
<1>1. ~panicked /\ profile \in Profiles
  BY DEF Init, TracerInit
<1>2. LinkedOK /\ Traced /\ GoodBlock
  BY <1>1, BlockOKInit DEF BlockOK
<1>3. JournalOK
  BY JournalOKInit
<1>4. FaithfulBlock
  <2>1. block.traces = <<>>
    BY DEF Init, TracerInit, NoBlock
  <2> QED BY <2>1, NothingGood DEF FaithfulBlock
<1>5. Journalled
  <2>1. evm.running = <<>> /\ Len(evm.running) = 0 /\ evm.logs = <<>>
    BY EmptySeq DEF Init, EvmAtRest
  <2> QED BY <2>1 DEF Journalled, Indexed
<1> QED BY <1>1, <1>2, <1>3, <1>4, <1>5 DEF CarefulOK

(* ... and no step of a careful client disturbs it.                        *)
LEMMA CarefulStep ==
    ASSUME Careful
    PROVE  CarefulOK /\ [Next]_vars => CarefulOK'
<1> SUFFICES ASSUME CarefulOK, [Next]_vars PROVE CarefulOK'
  OBVIOUS
<1>1. JournalOK /\ ~panicked /\ Traced /\ GoodBlock /\ Journalled /\ FaithfulBlock
  BY DEF CarefulOK
<1>2. LinkedOK /\ Linked /\ Kept /\ TracerOK /\ evm \in Clients /\ profile \in Profiles /\ block \in Blocks
  BY <1>1, JournalParts
<1>3. Disciplined
  BY DEF Careful
<1>4. CASE Next
  <2>1. ~panicked'
    BY <1>1, <1>4, BoundsSafe, FrameSafe, ChangesSafe, EndTrxSafe DEF Next, Step
  <2>2. TracerOK' /\ evm' \in Clients /\ LinkedOK'
    BY <1>2, <1>4, TracerNext, ClientNext, LinkedNext DEF LinkedOK
  <2>3. JournalOK'
    BY <1>1, <1>3, <2>1, JournalOKStep DEF NoPanic
  <2>4. Traced' /\ GoodBlock'
    BY <1>1, <1>2, <1>4, <2>1, <2>2, TracedSteps
  <2>5. Journalled'
    BY <1>1, <1>2, <1>4, <2>1, <2>2, JournalledSteps
  <2>6. \/ UNCHANGED block.traces
        \/ block'.traces = <<>>
        \/ \E trx : FaithfulTrx(trx) /\ block'.traces = Append(block.traces, trx)
    <3>1. CASE StartBlock \/ EndBlock \/ FailBlock \/ SkipBlock
      BY <1>1, <1>2, <2>1, <3>1, BlockTraced
    <3>2. CASE StartTrx
      BY <1>1, <1>2, <2>1, <3>2, StartTrxTraced
    <3>3. CASE EndTrx \/ EndTrxWithoutReceipt
      BY <1>1, <3>3, EndTrxSafe
    <3>4. CASE StartSystemCall
      BY <1>1, <1>2, <2>1, <3>4, StartSystemCallTraced
    <3>5. CASE EndSystemCall
      BY <1>1, <1>2, <2>1, <3>5, EndSystemCallTraced
    <3>6. CASE EnterCall
      BY <1>1, <1>2, <3>6, EnterTraced
    <3>7. CASE \E outcome \in {"ok", "failed", "reverted"} : ExitCall(outcome)
      BY <1>1, <1>2, <2>1, <3>7, ExitTraced
    <3>8. CASE SelfDestruct \/ EnterSelfDestruct \/ ExitSelfDestruct \/ FaultingOpcode \/ KeccakPreimage
      BY <1>1, <1>2, <2>1, <3>8, OpcodesTraced
    <3>9. CASE ClearCode \/ Changes \/ Logs
      BY <1>1, <1>2, <2>1, <2>2, <3>9, ChangesTraced
    <3> QED BY <1>4, <3>1, <3>2, <3>3, <3>4, <3>5, <3>6, <3>7, <3>8, <3>9 DEF Next, Step
  <2>7. FaithfulBlock'
    BY <1>1, <1>2, <2>6, FaithfulNext
  <2> QED BY <2>1, <2>3, <2>4, <2>5, <2>7 DEF CarefulOK
<1>5. CASE UNCHANGED vars
  <2>1. ~panicked' /\ UNCHANGED block.traces
    BY <1>1, <1>5 DEF vars
  <2>2. JournalOK'
    BY <1>1, <1>3, <2>1, JournalOKStep DEF NoPanic
  <2>3. Traced' /\ GoodBlock'
    BY <1>1, <1>2, <1>5, <2>1, BlockOKStep DEF BlockOK
  <2>4. Journalled'
    BY <1>1, <1>5 DEF vars, Journalled, Muted, Behaves
  <2>5. FaithfulBlock'
    BY <1>1, <1>2, <2>1, FaithfulNext
  <2> QED BY <2>1, <2>2, <2>3, <2>4, <2>5 DEF CarefulOK
<1> QED BY <1>4, <1>5

(* No order of hooks that a careful client is free to choose makes the     *)
(* tracer panic: whatever it interrupts, defers, drops or gives up, every  *)
(* log of a receipt finds its block index and every deferred change a call.*)
THEOREM BlockNeverPanics ==
    ASSUME Careful
    PROVE  Spec => []NoPanic
<1>1. CarefulOK => NoPanic
  BY DEF CarefulOK, NoPanic
<1>2. CarefulOK /\ [Next]_vars => CarefulOK'
  BY CarefulStep
<1> QED BY <1>1, <1>2, CarefulInit, PTL DEF Spec

(* The logs of a receipt are, one for one and in order, logs that the      *)
(* calls of its transaction emitted, each under its own ordinal.           *)
THEOREM BlockReceipts ==
    ASSUME Careful
    PROVE  Spec => []ReceiptLogsFaithful
<1>1. CarefulOK => ReceiptLogsFaithful
  BY DEF CarefulOK, FaithfulBlock, FaithfulTrx, Emitted, ReceiptLogsFaithful
<1>2. CarefulOK /\ [Next]_vars => CarefulOK'
  BY CarefulStep
<1> QED BY <1>1, <1>2, CarefulInit, PTL DEF Spec

(* The tracer keeps the journal of what a careful client does: no panic    *)
(* has to be supposed away, as in BlockJournalled.                         *)
THEOREM CarefulJournalled ==
    ASSUME Careful
    PROVE  Spec => ImplementsJournal
<1>1. Disciplined
  BY DEF Careful
<1>2. Spec /\ []NoPanic => ImplementsJournal
  BY <1>1, BlockJournalled
<1> QED BY <1>2, BlockNeverPanics, PTL
=============================================================================
