----------------------------- MODULE TracerProofs -----------------------------
(***************************************************************************)
(* What the operators of CallTrace return (their types, and that sorting   *)
(* calls by their number and logs by their ordinal neither loses nor       *)
(* repeats one), and what every hook of the tracer preserves, whoever      *)
(* calls it and when: the types of its state, the numbering of the calls,  *)
(* open and closed, of the transaction in progress and of the one set      *)
(* aside, the ordinals of its logs, and the types of the block.            *)
(***************************************************************************)
EXTENDS Tracer, FiniteSetTheorems, FunctionTheorems, SequenceTheorems, TLAPS

-----------------------------------------------------------------------------
(* Sequences                                                               *)

(* A function on 1..n is a sequence of length n.                           *)
LEMMA FunctionIsSeq ==
    ASSUME NEW S, NEW n \in Nat, NEW f \in [1..n -> S]
    PROVE  f \in Seq(S) /\ Len(f) = n /\ DOMAIN f = 1..n
OBVIOUS

(* Dropping the last element.                                              *)
LEMMA DropLast ==
    ASSUME NEW S, NEW s \in Seq(S), s # <<>>
    PROVE  /\ SubSeq(s, 1, Len(s) - 1) \in Seq(S)
           /\ Len(SubSeq(s, 1, Len(s) - 1)) = Len(s) - 1
           /\ Len(s) >= 1
           /\ \A i \in 1..(Len(s) - 1) : SubSeq(s, 1, Len(s) - 1)[i] = s[i]
<1>1. Len(s) \in Nat /\ Len(s) >= 1
  BY EmptySeq
<1>2. \A i \in 1..(Len(s) - 1) : s[i] \in S
  BY <1>1
<1> DEFINE n == Len(s) - 1
<1>3. n \in Nat /\ \A i \in 1..n : s[i] \in S
  BY <1>1, <1>2
<1> HIDE DEF n
<1>4. /\ SubSeq(s, 1, n) \in Seq(S)
      /\ Len(SubSeq(s, 1, n)) = IF 1 <= n THEN n - 1 + 1 ELSE 0
      /\ \A i \in 1..(n - 1 + 1) : SubSeq(s, 1, n)[i] = s[1 + i - 1]
  BY <1>3, SubSeqProperties
<1>5. Len(SubSeq(s, 1, n)) = n
  BY <1>3, <1>4
<1>6. \A i \in 1..n : i \in 1..(n - 1 + 1) /\ 1 + i - 1 = i
  BY <1>3
<1>7. SubSeq(s, 1, n) \in Seq(S) /\ Len(SubSeq(s, 1, n)) = n /\ \A i \in 1..n : SubSeq(s, 1, n)[i] = s[i]
  BY <1>4, <1>5, <1>6
<1> QED BY <1>1, <1>7 DEF n

(* The first n numbers are n.                                              *)
LEMMA UptoFinite ==
    ASSUME NEW n \in Nat
    PROVE  IsFiniteSet(1..n) /\ Cardinality(1..n) = n
BY FS_Interval

(* The elements of a sequence are finitely many, and no more than its      *)
(* length; as many as that when none is repeated.                          *)
LEMMA ToSetFinite ==
    ASSUME NEW S, NEW s \in Seq(S)
    PROVE  /\ ToSet(s) \subseteq S
           /\ IsFiniteSet(ToSet(s))
           /\ Cardinality(ToSet(s)) <= Len(s)
           /\ (\A i, j \in 1..Len(s) : s[i] = s[j] => i = j) => Cardinality(ToSet(s)) = Len(s)
<1>1. ToSet(s) \subseteq S /\ s \in [1..Len(s) -> ToSet(s)] /\ Len(s) \in Nat
  BY DEF ToSet
<1>2. s \in Surjection(1..Len(s), ToSet(s))
  <2>1. \A t \in ToSet(s) : \E i \in 1..Len(s) : s[i] = t
    BY DEF ToSet
  <2> QED BY <1>1, <2>1, Fun_IsSurj
<1>3. IsFiniteSet(1..Len(s)) /\ Cardinality(1..Len(s)) = Len(s)
  BY <1>1, UptoFinite
<1>4. ASSUME \A i, j \in 1..Len(s) : s[i] = s[j] => i = j
      PROVE  s \in Injection(1..Len(s), ToSet(s))
  BY <1>1, <1>4, Fun_IsInj
<1>5. /\ IsFiniteSet(ToSet(s))
      /\ Cardinality(ToSet(s)) <= Cardinality(1..Len(s))
      /\ Cardinality(ToSet(s)) = Cardinality(1..Len(s)) <=> s \in Injection(1..Len(s), ToSet(s))
  BY <1>2, <1>3, FS_Surjection
<1> QED BY <1>1, <1>3, <1>4, <1>5
-----------------------------------------------------------------------------
(* Sorting                                                                 *)

(* InOrder lists the elements of a finite set, each exactly once, when no  *)
(* two of them have the same key: the i-th is the one with i elements up   *)
(* to it.                                                                  *)
LEMMA InOrderLists ==
    ASSUME NEW S, IsFiniteSet(S), NEW key \in [S -> Nat],
           \A d, e \in S : key[d] = key[e] => d = e
    PROVE  /\ Cardinality(S) \in Nat
           /\ InOrder(S, key) \in [1..Cardinality(S) -> S]
           /\ \A i, j \in 1..Cardinality(S) : InOrder(S, key)[i] = InOrder(S, key)[j] => i = j
           /\ \A e \in S : \E i \in 1..Cardinality(S) : InOrder(S, key)[i] = e
           /\ \A i \in 1..Cardinality(S) :
                Cardinality({d \in S : key[d] <= key[InOrder(S, key)[i]]}) = i
<1> DEFINE Upto(e) == {d \in S : key[d] <= key[e]}
           N       == Cardinality(S)
           rank    == [e \in S |-> Cardinality(Upto(e))]
<1>1. N \in Nat
  BY FS_CardinalityType
<1>2. ASSUME NEW e \in S
      PROVE  IsFiniteSet(Upto(e)) /\ Cardinality(Upto(e)) \in 1..N
  <2>1. Upto(e) \in SUBSET S /\ e \in Upto(e)
    OBVIOUS
  <2>2. IsFiniteSet(Upto(e)) /\ Cardinality(Upto(e)) <= N
    BY <2>1, FS_Subset
  <2>3. Cardinality(Upto(e)) \in Nat /\ Cardinality(Upto(e)) # 0
    BY <2>1, <2>2, FS_CardinalityType, FS_EmptySet
  <2> QED BY <1>1, <2>2, <2>3
<1>3. rank \in [S -> 1..N]
  BY <1>2
<1>4. ASSUME NEW d \in S, NEW e \in S, rank[d] = rank[e]
      PROVE  d = e
  <2>1. CASE key[d] <= key[e]
    <3>1. Upto(d) \in SUBSET Upto(e)
      BY <2>1
    <3>2. Upto(d) = Upto(e)
      BY <3>1, <1>2, <1>4, FS_Subset
    <3>3. key[e] <= key[d]
      BY <3>2
    <3> QED BY <2>1, <3>3
  <2>2. CASE key[e] <= key[d]
    <3>1. Upto(e) \in SUBSET Upto(d)
      BY <2>2
    <3>2. Upto(d) = Upto(e)
      BY <3>1, <1>2, <1>4, FS_Subset
    <3>3. key[d] <= key[e]
      BY <3>2
    <3> QED BY <2>2, <3>3
  <2> QED BY <2>1, <2>2
<1>5. rank \in Injection(S, 1..N)
  BY <1>3, <1>4, Fun_IsInj
<1>6. IsFiniteSet(1..N) /\ Cardinality(1..N) = N
  BY <1>1, UptoFinite
<1>7. rank \in Surjection(S, 1..N)
  BY <1>5, <1>6, FS_Injection
<1>8. \A i \in 1..N : \E e \in S : rank[e] = i
  <2> HIDE DEF rank
  <2> QED BY <1>7 DEF Surjection
<1> DEFINE f == InOrder(S, key)
<1>9. f = [i \in 1..N |-> CHOOSE e \in S : Cardinality(Upto(e)) = i]
  BY DEF InOrder
<1>10. ASSUME NEW i \in 1..N
       PROVE  f[i] \in S /\ Cardinality(Upto(f[i])) = i
  <2>1. \E e \in S : Cardinality(Upto(e)) = i
    BY <1>8
  <2> HIDE DEF Upto
  <2> QED BY <1>9, <2>1
<1>11. f \in [1..N -> S]
  BY <1>9, <1>10
<1>12. \A i, j \in 1..N : f[i] = f[j] => i = j
  BY <1>10
<1>13. ASSUME NEW e \in S PROVE \E i \in 1..N : f[i] = e
  <2>1. rank[e] \in 1..N
    BY <1>3
  <2>2. rank[f[rank[e]]] = rank[e] /\ f[rank[e]] \in S
    BY <2>1, <1>10
  <2> QED BY <1>4, <2>1, <2>2
<1> QED BY <1>1, <1>10, <1>11, <1>12, <1>13
-----------------------------------------------------------------------------
(* Calls and their lists                                                   *)

(* Nothing is listed yet; adding an entry makes typed lists of typed lists. *)
LEMMA ListsType ==
    /\ NoEntries \in [Lists -> Seq(Entry)]
    /\ \A lists \in [Lists -> Seq(Entry)], k \in Lists, e \in Entry :
          Add(lists, k, e) \in [Lists -> Seq(Entry)]
    /\ \A m, n \in [Lists -> Seq(Entry)] : [k \in Lists |-> m[k] \o n[k]] \in [Lists -> Seq(Entry)]
BY DEF NoEntries, Add

(* A change is an entry.                                                   *)
LEMMA ChangeType ==
    ASSUME NEW ord \in Nat, NEW d \in Data
    PROVE  Change(ord, d) \in Entry
BY DEF Change, Entry

(* A call as OnCallEnter makes it.                                         *)
LEMMA NewCallType ==
    ASSUME NEW begin \in Nat, NEW d \in Data
    PROVE  NewCall(begin, d) \in Call
BY ListsType DEF NewCall, Call, Outcomes

(* What a sequence of calls holds.                                         *)
LEMMA CallsType ==
    ASSUME NEW calls \in Seq(Call), NEW i \in 1..Len(calls)
    PROVE  /\ calls[i] \in Call
           /\ calls[i].index \in Nat /\ calls[i].parent \in Nat /\ calls[i].depth \in Nat
           /\ calls[i].lists \in [Lists -> Seq(Entry)]
<1>1. calls[i] \in Call
  OBVIOUS
<1> QED BY <1>1 DEF Call

(* Deferred changes leave everything of a call but its lists alone.        *)
LEMMA PopulateType ==
    ASSUME NEW deferred \in [Lists -> Seq(Entry)], NEW call \in Call
    PROVE  /\ PopulateOnEnter(deferred, call) \in Call
           /\ PopulateOnEnter(deferred, call).index = call.index
           /\ PopulateOnRoot(deferred, call) \in Call
           /\ PopulateOnRoot(deferred, call).index = call.index
           /\ PopulateOnRoot(deferred, call).parent = call.parent
<1>1. ASSUME NEW lists \in [Lists -> Seq(Entry)]
      PROVE  LET c == [call EXCEPT !.lists = lists]
             IN  c \in Call /\ c.index = call.index /\ c.parent = call.parent
  BY DEF Call
<1>2. call.lists \in [Lists -> Seq(Entry)]
  BY DEF Call
<1>3. /\ [k \in Lists |-> deferred[k] \o call.lists[k]] \in [Lists -> Seq(Entry)]
      /\ [k \in Lists |-> call.lists[k] \o deferred[k]] \in [Lists -> Seq(Entry)]
  BY <1>2, ListsType
<1> QED BY <1>1, <1>2, <1>3 DEF PopulateOnEnter, PopulateOnRoot
-----------------------------------------------------------------------------
(* The call stack                                                          *)

(* The numbers of the open calls grow from the root up.                    *)
Ascending(stack) ==
    \A i, j \in 1..Len(stack) : i < j => stack[i].index < stack[j].index

(* A call stack whose calls form one branch.                               *)
BranchOK(cs) == cs \in CallStack /\ IsBranch(cs) /\ Ascending(cs.stack)

(* The empty stack is a branch.                                            *)
LEMMA NewBranch == BranchOK(NewCallStack)
BY DEF BranchOK, IsBranch, Ascending, NewCallStack, CallStack

(* The top of a stack.                                                     *)
LEMMA PeekType ==
    ASSUME NEW cs \in CallStack, HasActiveCall(cs)
    PROVE  /\ Len(cs.stack) \in Nat /\ Len(cs.stack) >= 1
           /\ Peek(cs) \in Call
           /\ Peek(cs) = cs.stack[Len(cs.stack)]
BY EmptySeq DEF HasActiveCall, Peek, CallStack

(* Pushing a call makes the branch one longer; what is there before stays. *)
LEMMA PushBranch ==
    ASSUME NEW cs, BranchOK(cs), NEW call \in Call
    PROVE  /\ BranchOK(Push(cs, call))
           /\ Push(cs, call).index = cs.index + 1
           /\ Len(Push(cs, call).stack) = Len(cs.stack) + 1
           /\ \A i \in 1..Len(cs.stack) : Push(cs, call).stack[i] = cs.stack[i]
           /\ Push(cs, call).stack[Len(cs.stack) + 1].index = cs.index + 1
           /\ Push(cs, call).stack[Len(cs.stack) + 1].lists = call.lists
<1> DEFINE parent == IF HasActiveCall(cs) THEN Peek(cs).index ELSE 0
           pushed == [call EXCEPT !.index = cs.index + 1, !.depth = cs.depth, !.parent = parent]
           n      == Len(cs.stack)
           after  == Append(cs.stack, pushed)
<1>1. cs.stack \in Seq(Call) /\ cs.index \in Nat /\ cs.depth \in Nat /\ n \in Nat
  BY DEF BranchOK, CallStack
<1>2. parent \in Nat
  <2>1. CASE HasActiveCall(cs)
    BY <2>1, PeekType DEF BranchOK, Call
  <2>2. CASE ~HasActiveCall(cs)
    BY <2>2
  <2> QED BY <2>1, <2>2
<1>3. parent = IF n = 0 THEN 0 ELSE cs.stack[n].index
  BY <1>1, EmptySeq DEF HasActiveCall, Peek
<1> HIDE DEF parent
<1>4. /\ pushed \in Call
      /\ pushed.index = cs.index + 1 /\ pushed.depth = cs.depth /\ pushed.parent = parent
      /\ pushed.lists = call.lists
  <2>1. cs.index + 1 \in Nat /\ cs.depth \in Nat
    BY <1>1
  <2> HIDE DEF n, after
  <2> QED BY <1>2, <2>1 DEF Call
<1> HIDE DEF pushed
<1>5. /\ after \in Seq(Call) /\ Len(after) = n + 1 /\ DOMAIN after = 1..(n + 1)
      /\ \A i \in 1..n : after[i] = cs.stack[i]
      /\ after[n + 1] = pushed
  BY <1>1, <1>4, AppendProperties, LenProperties
<1> HIDE DEF after
<1>6. Push(cs, call) = [stack |-> after, index |-> cs.index + 1, depth |-> cs.depth + 1]
  BY DEF Push, after, pushed, parent
<1>7. Push(cs, call) \in CallStack
  BY <1>1, <1>5, <1>6 DEF CallStack
<1>8. \A i \in 1..n : cs.stack[i].index \in Nat /\ cs.stack[i].index <= cs.index
  <2>1. \A i \in 1..n : cs.stack[i] \in Call
    BY <1>1
  <2>2. \A i \in 1..n : cs.stack[i].index <= cs.index
    BY <1>1 DEF BranchOK, IsBranch
  <2> QED BY <2>1, <2>2 DEF Call
<1>9. cs.depth = n
  BY DEF BranchOK, IsBranch
<1>10. ASSUME NEW i \in 1..(n + 1)
       PROVE  /\ after[i].depth = i - 1
              /\ after[i].index <= cs.index + 1
              /\ after[i].parent = IF i = 1 THEN 0 ELSE after[i - 1].index
              /\ i > 1 => after[i - 1].index < after[i].index
  <2>1. CASE i = n + 1
    <3>1. after[i] = pushed /\ i - 1 = n
      BY <1>1, <1>5, <2>1
    <3>2. n # 0 => after[n] = cs.stack[n] /\ n \in 1..n
      BY <1>1, <1>5
    <3> QED BY <1>1, <1>3, <1>4, <1>8, <1>9, <2>1, <3>1, <3>2
  <2>2. CASE i \in 1..n
    <3>1. after[i] = cs.stack[i] /\ (i > 1 => after[i - 1] = cs.stack[i - 1])
      <4>1. i > 1 => i - 1 \in 1..n
        <5>1. n \in Nat
          BY <1>1
        <5> HIDE DEF n
        <5> QED BY ONLY <5>1, <2>2
      <4>2. \A j \in 1..n : after[j] = cs.stack[j]
        BY <1>5
      <4> QED BY ONLY <2>2, <4>1, <4>2
    <3>2. /\ cs.stack[i].depth = i - 1
          /\ cs.stack[i].index <= cs.index
          /\ cs.stack[i].parent = IF i = 1 THEN 0 ELSE cs.stack[i - 1].index
          /\ i > 1 => cs.stack[i - 1].index < cs.stack[i].index
      BY <1>1, <2>2 DEF BranchOK, IsBranch
    <3> QED BY <1>1, <1>8, <2>2, <3>1, <3>2
  <2> QED BY <1>1, <2>1, <2>2
<1>11. IsBranch(Push(cs, call))
  BY <1>1, <1>5, <1>6, <1>9, <1>10 DEF IsBranch
<1>12. Ascending(after)
  <2> SUFFICES ASSUME NEW i \in 1..(n + 1), NEW j \in 1..(n + 1), i < j
               PROVE  after[i].index < after[j].index
    BY <1>5 DEF Ascending
  <2>1. i \in 1..n /\ after[i] = cs.stack[i]
    BY <1>1, <1>5
  <2>2. CASE j = n + 1
    BY <1>1, <1>4, <1>5, <1>8, <2>1, <2>2
  <2>3. CASE j \in 1..n
    BY <1>1, <1>5, <2>1, <2>3 DEF BranchOK, Ascending
  <2> QED BY <1>1, <2>2, <2>3
<1> QED BY <1>4, <1>5, <1>6, <1>7, <1>11, <1>12 DEF BranchOK

(* Popping takes the top off and leaves the rest as it is.                 *)
LEMMA PopBranch ==
    ASSUME NEW cs, BranchOK(cs), HasActiveCall(cs)
    PROVE  /\ BranchOK(Pop(cs))
           /\ Pop(cs).index = cs.index
           /\ Len(Pop(cs).stack) = Len(cs.stack) - 1
           /\ \A i \in 1..(Len(cs.stack) - 1) : Pop(cs).stack[i] = cs.stack[i]
<1> DEFINE n     == Len(cs.stack)
           after == SubSeq(cs.stack, 1, n - 1)
<1>1. cs.stack \in Seq(Call) /\ cs.index \in Nat /\ cs.depth = n /\ n \in Nat /\ n >= 1
  BY PeekType DEF BranchOK, CallStack, IsBranch
<1>2. /\ after \in Seq(Call) /\ Len(after) = n - 1
      /\ \A i \in 1..(n - 1) : after[i] = cs.stack[i]
  BY <1>1, DropLast DEF HasActiveCall
<1>3. Pop(cs) = [stack |-> after, index |-> cs.index, depth |-> n - 1]
  BY <1>1 DEF Pop, Front
<1>8. DOMAIN cs.stack = 1..n
  BY <1>1
<1> HIDE DEF after, n
<1>4. Pop(cs) \in CallStack
  BY <1>1, <1>2, <1>3 DEF CallStack
<1>5. ASSUME NEW i \in 1..(n - 1)
      PROVE  /\ after[i].depth = i - 1
             /\ after[i].index <= cs.index
             /\ after[i].parent = IF i = 1 THEN 0 ELSE after[i - 1].index
             /\ i > 1 => after[i - 1].index < after[i].index
  <2>1. i \in 1..n /\ (i > 1 => i - 1 \in 1..(n - 1))
    BY <1>1
  <2>2. i \in DOMAIN cs.stack /\ after[i] = cs.stack[i] /\ (i > 1 => after[i - 1] = cs.stack[i - 1])
    BY <1>2, <1>8, <2>1
  <2> QED BY <2>2, <1>1, <2>1 DEF BranchOK, IsBranch
<1>6. IsBranch(Pop(cs))
  <2>1. DOMAIN after = 1..(n - 1)
    BY <1>2
  <2> QED BY <1>2, <1>3, <1>5, <2>1 DEF IsBranch
<1>7. Ascending(after)
  <2> SUFFICES ASSUME NEW i \in 1..(n - 1), NEW j \in 1..(n - 1), i < j
               PROVE  after[i].index < after[j].index
    BY <1>2 DEF Ascending
  <2>1. i \in 1..n /\ j \in 1..n
    BY <1>1
  <2> QED BY <1>2, <2>1 DEF n, BranchOK, Ascending
<1> QED BY <1>2, <1>3, <1>4, <1>6, <1>7 DEF BranchOK, n

(* Changing the call on top, but not its place, leaves the branch.         *)
LEMMA OnTopBranch ==
    ASSUME NEW cs, BranchOK(cs), HasActiveCall(cs), NEW call \in Call,
           call.index = Peek(cs).index, call.depth = Peek(cs).depth, call.parent = Peek(cs).parent
    PROVE  /\ BranchOK(OnTop(cs, call))
           /\ OnTop(cs, call).index = cs.index
           /\ Len(OnTop(cs, call).stack) = Len(cs.stack)
           /\ \A i \in 1..Len(cs.stack) : OnTop(cs, call).stack[i].index = cs.stack[i].index
           /\ \A i \in 1..Len(cs.stack) :
                OnTop(cs, call).stack[i] = IF i = Len(cs.stack) THEN call ELSE cs.stack[i]
<1> DEFINE n     == Len(cs.stack)
           after == [cs.stack EXCEPT ![n] = call]
<1>1. cs.stack \in Seq(Call) /\ cs.index \in Nat /\ cs.depth = n /\ n \in Nat /\ n >= 1
  BY PeekType DEF BranchOK, CallStack, IsBranch
<1>2. /\ after \in Seq(Call) /\ Len(after) = n /\ DOMAIN after = 1..n
      /\ \A i \in 1..n : after[i] = IF i = n THEN call ELSE cs.stack[i]
  BY <1>1
<1>3. \A i \in 1..n : /\ after[i].index = cs.stack[i].index
                      /\ after[i].depth = cs.stack[i].depth
                      /\ after[i].parent = cs.stack[i].parent
  BY <1>1, <1>2, PeekType DEF BranchOK
<1>4. OnTop(cs, call) = [stack |-> after, index |-> cs.index, depth |-> cs.depth]
  <2>1. cs \in CallStack
    BY DEF BranchOK
  <2>2. cs = [stack |-> cs.stack, index |-> cs.index, depth |-> cs.depth]
    BY <2>1 DEF CallStack
  <2> QED BY <2>2 DEF OnTop
<1> HIDE DEF after
<1>5. OnTop(cs, call) \in CallStack
  BY <1>1, <1>2, <1>4 DEF CallStack
<1>6. \A i \in 1..n : i > 1 => i - 1 \in 1..n
  BY <1>1
<1>7. IsBranch(OnTop(cs, call))
  <2>1. \A i \in 1..n :
          /\ cs.stack[i].depth = i - 1
          /\ cs.stack[i].index <= cs.index
          /\ cs.stack[i].parent = IF i = 1 THEN 0 ELSE cs.stack[i - 1].index
          /\ i > 1 => cs.stack[i - 1].index < cs.stack[i].index
    BY <1>1 DEF BranchOK, IsBranch
  <2>2. \A i \in 1..n :
          /\ after[i].depth = i - 1
          /\ after[i].index <= cs.index
          /\ after[i].parent = IF i = 1 THEN 0 ELSE after[i - 1].index
          /\ i > 1 => after[i - 1].index < after[i].index
    <3> TAKE i \in 1..n
    <3>1. CASE i = 1
      BY <1>3, <2>1, <3>1
    <3>2. CASE i > 1
      <4>1. i - 1 \in 1..n /\ i # 1
        BY <1>1, <3>2
      <4>2. after[i].index = cs.stack[i].index /\ after[i - 1].index = cs.stack[i - 1].index
        BY <1>3, <4>1
      <4> QED BY <1>3, <2>1, <3>2, <4>1, <4>2
    <3> QED BY <1>1, <3>1, <3>2
  <2> QED BY <1>1, <1>2, <1>4, <2>2 DEF IsBranch
<1>8. Ascending(after)
  BY <1>1, <1>2, <1>3 DEF BranchOK, Ascending
<1> QED BY <1>2, <1>3, <1>4, <1>5, <1>7, <1>8 DEF BranchOK
-----------------------------------------------------------------------------
(* Completing a transaction                                                *)

(* The logs in the calls of a sequence.                                    *)
LogsIn(calls) == UNION {ToSet(calls[i].lists["log"]) : i \in 1..Len(calls)}

(* Where a log of a sequence of calls sits.                                *)
LEMMA LogsInMember ==
    ASSUME NEW calls \in Seq(Call), NEW l
    PROVE  l \in LogsIn(calls) <=>
             \E i \in 1..Len(calls) : \E j \in 1..Len(calls[i].lists["log"]) :
                l = calls[i].lists["log"][j]
<1>1. ASSUME NEW i \in 1..Len(calls)
      PROVE  /\ calls[i].lists["log"] \in Seq(Entry)
             /\ DOMAIN calls[i].lists["log"] = 1..Len(calls[i].lists["log"])
  <2>1. calls[i].lists \in [Lists -> Seq(Entry)]
    BY CallsType
  <2> DEFINE lists == calls[i].lists
  <2>2. "log" \in Lists
    BY DEF Lists
  <2>3. lists["log"] \in Seq(Entry)
    <3> HIDE DEF lists
    <3>1. lists \in [Lists -> Seq(Entry)]
      BY <2>1 DEF lists
    <3> QED BY <3>1, <2>2
  <2> QED BY <2>3
<1>2. l \in LogsIn(calls) <=> \E i \in DOMAIN calls : l \in ToSet(calls[i].lists["log"])
  BY DEF LogsIn
<1>3. ASSUME NEW i \in 1..Len(calls)
      PROVE  l \in ToSet(calls[i].lists["log"]) <=>
               \E j \in 1..Len(calls[i].lists["log"]) : l = calls[i].lists["log"][j]
  <2> DEFINE logs == calls[i].lists["log"]
  <2>1. DOMAIN logs = 1..Len(logs)
    BY <1>1
  <2> HIDE DEF logs
  <2>2. l \in ToSet(logs) <=> \E j \in 1..Len(logs) : l = logs[j]
    BY <2>1 DEF ToSet
  <2> QED BY <2>2 DEF logs
<1>4. DOMAIN calls = 1..Len(calls)
  OBVIOUS
<1> QED BY <1>2, <1>3, <1>4

(* They are finitely many entries.                                         *)
LEMMA LogsInFinite ==
    ASSUME NEW calls \in Seq(Call)
    PROVE  LogsIn(calls) \subseteq Entry /\ IsFiniteSet(LogsIn(calls))
<1> DEFINE n    == Len(calls)
           logs == [i \in 1..n |-> ToSet(calls[i].lists["log"])]
           sets == {logs[i] : i \in 1..n}
<1>1. n \in Nat
  OBVIOUS
<1>2. ASSUME NEW i \in 1..n
      PROVE  logs[i] \subseteq Entry /\ IsFiniteSet(logs[i])
  <2>1. calls[i].lists["log"] \in Seq(Entry)
    BY CallsType DEF Lists
  <2> QED BY <2>1, ToSetFinite
<1>3. LogsIn(calls) = UNION sets
  BY DEF LogsIn
<1> HIDE DEF n
<1>4. logs \in Surjection(1..n, sets)
  <2>1. logs \in [1..n -> sets] /\ \A s \in sets : \E i \in 1..n : logs[i] = s
    OBVIOUS
  <2> HIDE DEF logs, sets
  <2> QED BY <2>1, Fun_IsSurj
<1>5. IsFiniteSet(sets)
  <2> HIDE DEF logs, sets
  <2> QED BY <1>1, <1>4, UptoFinite, FS_Surjection
<1>6. \A s \in sets : s \subseteq Entry /\ IsFiniteSet(s)
  BY <1>2
<1> HIDE DEF logs, sets
<1>7. IsFiniteSet(UNION sets)
  BY <1>5, <1>6, FS_UNION
<1> QED BY <1>3, <1>6, <1>7

(* Logs are in a sequence of calls through its calls.                      *)
LEMMA LogsInSubset ==
    ASSUME NEW calls, NEW T, \A i \in 1..Len(calls) : ToSet(calls[i].lists["log"]) \subseteq T
    PROVE  LogsIn(calls) \subseteq T
BY DEF LogsIn

LEMMA LogsInHas ==
    ASSUME NEW calls, NEW i \in 1..Len(calls)
    PROVE  ToSet(calls[i].lists["log"]) \subseteq LogsIn(calls)
BY DEF LogsIn

(* The logs of two sequences joined are theirs.                            *)
LEMMA ConcatToSet ==
    ASSUME NEW S, NEW s \in Seq(S), NEW t \in Seq(S)
    PROVE  ToSet(s \o t) = ToSet(s) \cup ToSet(t)
<1>1. /\ Len(s) \in Nat /\ Len(t) \in Nat
      /\ DOMAIN s = 1..Len(s) /\ DOMAIN t = 1..Len(t)
      /\ DOMAIN (s \o t) = 1..(Len(s) + Len(t))
      /\ \A i \in 1..(Len(s) + Len(t)) : (s \o t)[i] = IF i <= Len(s) THEN s[i] ELSE t[i - Len(s)]
  BY ConcatProperties, LenProperties
<1>2. ASSUME NEW i \in 1..(Len(s) + Len(t))
      PROVE  (s \o t)[i] \in ToSet(s) \cup ToSet(t)
  <2>1. CASE i <= Len(s)
    BY <1>1, <2>1 DEF ToSet
  <2>2. CASE i > Len(s)
    <3>1. i - Len(s) \in DOMAIN t /\ (s \o t)[i] = t[i - Len(s)]
      BY <1>1, <2>2
    <3> QED BY <3>1 DEF ToSet
  <2> QED BY <1>1, <2>1, <2>2
<1>3. ASSUME NEW i \in 1..Len(s) PROVE s[i] \in ToSet(s \o t)
  <2>1. i \in 1..(Len(s) + Len(t)) /\ (s \o t)[i] = s[i]
    BY <1>1
  <2> QED BY <1>1, <2>1 DEF ToSet
<1>4. ASSUME NEW i \in 1..Len(t) PROVE t[i] \in ToSet(s \o t)
  <2>1. Len(s) + i \in 1..(Len(s) + Len(t)) /\ (s \o t)[Len(s) + i] = t[i]
    BY <1>1
  <2> QED BY <1>1, <2>1 DEF ToSet
<1>5. ToSet(s \o t) \subseteq ToSet(s) \cup ToSet(t)
  BY <1>1, <1>2 DEF ToSet
<1>6. ToSet(s) \subseteq ToSet(s \o t)
  BY <1>1, <1>3 DEF ToSet
<1>7. ToSet(t) \subseteq ToSet(s \o t)
  BY <1>1, <1>4 DEF ToSet
<1> QED BY <1>5, <1>6, <1>7

(* An entry added to one list of logs adds itself.                         *)
LEMMA AddToSet ==
    ASSUME NEW lists \in [Lists -> Seq(Entry)], NEW k \in Lists, NEW e \in Entry
    PROVE  ToSet(Add(lists, k, e)["log"])
             \subseteq ToSet(lists["log"]) \cup (IF k = "log" THEN {e} ELSE {})
<1>1. lists["log"] \in Seq(Entry) /\ "log" \in DOMAIN lists
  BY DEF Lists
<1>2. CASE k = "log"
  <2>1. Add(lists, k, e)["log"] = Append(lists["log"], e)
    BY <1>1, <1>2 DEF Add
  <2>2. Append(lists["log"], e) = lists["log"] \o <<e>>
    BY <1>1, AppendIsConcat
  <2>3. <<e>> \in Seq(Entry) /\ ToSet(<<e>>) = {e}
    BY DEF ToSet
  <2>4. ToSet(lists["log"] \o <<e>>) = ToSet(lists["log"]) \cup ToSet(<<e>>)
    <3> DEFINE before == lists["log"]
               added  == <<e>>
    <3>1. before \in Seq(Entry) /\ added \in Seq(Entry)
      BY <1>1
    <3> HIDE DEF before, added
    <3>2. ToSet(before \o added) = ToSet(before) \cup ToSet(added)
      BY <3>1, ConcatToSet
    <3> QED BY <3>2 DEF before, added
  <2> QED BY <1>2, <2>1, <2>2, <2>3, <2>4
<1>3. CASE k # "log"
  BY <1>1, <1>3 DEF Add
<1> QED BY <1>2, <1>3

(* Sorting calls that all differ in their number loses and repeats none.   *)
LEMMA SortedByIndexType ==
    ASSUME NEW calls \in Seq(Call),
           \A i, j \in 1..Len(calls) : calls[i].index = calls[j].index => i = j
    PROVE  /\ SortedByIndex(calls) \in Seq(Call)
           /\ Len(SortedByIndex(calls)) = Len(calls)
           /\ \A i \in 1..Len(calls) : \E j \in 1..Len(calls) : SortedByIndex(calls)[i] = calls[j]
           /\ \A j \in 1..Len(calls) : \E i \in 1..Len(calls) : SortedByIndex(calls)[i] = calls[j]
<1> DEFINE S      == ToSet(calls)
           key    == [c \in S |-> c.index]
           sorted == InOrder(S, key)
           n      == Len(calls)
<1>1. /\ n \in Nat
      /\ \A c \in S : \E i \in 1..n : c = calls[i]
      /\ \A i \in 1..n : calls[i] \in S
  BY DEF ToSet
<1>2. S \subseteq Call /\ IsFiniteSet(S) /\ Cardinality(S) = n
  BY ToSetFinite
<1>3. key \in [S -> Nat]
  BY <1>2 DEF Call
<1>4. \A c, d \in S : key[c] = key[d] => c = d
  BY <1>1
<1> HIDE DEF S, key, n, sorted
<1>5. sorted \in [1..n -> S] /\ \A c \in S : \E i \in 1..n : sorted[i] = c
  BY <1>2, <1>3, <1>4, InOrderLists DEF sorted
<1>6. sorted \in Seq(Call) /\ Len(sorted) = n
  <2>1. sorted \in [1..n -> Call]
    BY <1>2, <1>5
  <2> QED BY <1>1, <2>1, FunctionIsSeq
<1>7. SortedByIndex(calls) = sorted
  BY DEF SortedByIndex, sorted, S, key
<1> QED BY <1>1, <1>5, <1>6, <1>7 DEF n

(* A pass that changes calls in place.                                     *)
LEMMA MapCalls ==
    ASSUME NEW calls \in Seq(Call), NEW f,
           f = [i \in DOMAIN calls |-> f[i]],
           \A i \in 1..Len(calls) : f[i] \in Call
    PROVE  f \in Seq(Call) /\ Len(f) = Len(calls) /\ DOMAIN f = 1..Len(calls)
<1>1. DOMAIN calls = 1..Len(calls) /\ Len(calls) \in Nat
  OBVIOUS
<1>2. f \in [1..Len(calls) -> Call]
  BY <1>1
<1> QED BY <1>1, <1>2, FunctionIsSeq

(* Attached preimages change nothing else of the calls.                    *)
LEMMA AttachPreimagesType ==
    ASSUME NEW calls \in Seq(Call), NEW recorded \in Seq([call : Nat, data : Data])
    PROVE  /\ AttachPreimages(calls, recorded) \in Seq(Call)
           /\ Len(AttachPreimages(calls, recorded)) = Len(calls)
           /\ \A i \in 1..Len(calls) :
                /\ AttachPreimages(calls, recorded)[i].lists = calls[i].lists
                /\ AttachPreimages(calls, recorded)[i].index = calls[i].index
                /\ AttachPreimages(calls, recorded)[i].outcome = calls[i].outcome
<1>1. CASE \A i \in DOMAIN calls : calls[i].lists["storage"] = <<>>
  BY <1>1 DEF AttachPreimages
<1>2. CASE ~\A i \in DOMAIN calls : calls[i].lists["storage"] = <<>>
  <2> DEFINE own(i) == {r.data : r \in {s \in ToSet(recorded) : s.call = calls[i].index}}
             f      == [i \in DOMAIN calls |-> [calls[i] EXCEPT !.preimages = @ \cup own(i)]]
  <2>1. AttachPreimages(calls, recorded) = f
    BY <1>2 DEF AttachPreimages
  <2>2. ASSUME NEW i \in 1..Len(calls)
        PROVE  /\ f[i] \in Call
               /\ f[i].lists = calls[i].lists
               /\ f[i].index = calls[i].index
               /\ f[i].outcome = calls[i].outcome
    <3>1. own(i) \subseteq Data
      <4>1. ToSet(recorded) \subseteq [call : Nat, data : Data]
        BY ToSetFinite
      <4> QED BY <4>1
    <3>2. calls[i] \in Call /\ i \in DOMAIN calls
      OBVIOUS
    <3> DEFINE all == calls[i].preimages \cup own(i)
    <3>3. all \subseteq Data /\ f[i] = [calls[i] EXCEPT !.preimages = all]
      BY <3>1, <3>2 DEF Call
    <3> HIDE DEF f, own, all
    <3> QED BY <3>2, <3>3 DEF Call
  <2>3. f = [i \in DOMAIN calls |-> f[i]]
    OBVIOUS
  <2> HIDE DEF f
  <2>4. f \in Seq(Call) /\ Len(f) = Len(calls)
    BY <2>2, <2>3, MapCalls
  <2> QED BY <2>1, <2>2, <2>4
<1> QED BY <1>1, <1>2

(* Removing block indexes, and taking the surviving logs of what results,  *)
(* yields logs as they were.                                               *)
LEMMA RemoveLogBlockIndexType ==
    ASSUME NEW calls \in Seq(Call), NEW reverted
    PROVE  /\ RemoveLogBlockIndex(calls, reverted) \in Seq(Call)
           /\ Len(RemoveLogBlockIndex(calls, reverted)) = Len(calls)
           /\ \A i \in 1..Len(calls) :
                LET logs  == calls[i].lists["log"]
                    after == RemoveLogBlockIndex(calls, reverted)[i].lists["log"]
                IN  /\ Len(after) = Len(logs)
                    /\ \A j \in 1..Len(logs) :
                         (i \in reverted => IsNeverRevertedLog(after[j])) => after[j] = logs[j]
<1> DEFINE cleared(l) == IF IsNeverRevertedLog(l) THEN l ELSE [l EXCEPT !.blockIndex = 0]
           logs(i)    == calls[i].lists["log"]
           new(i)     == [j \in DOMAIN logs(i) |-> cleared(logs(i)[j])]
           f          == RemoveLogBlockIndex(calls, reverted)
<1>1. ASSUME NEW l \in Entry
      PROVE  /\ cleared(l) \in Entry
             /\ IsNeverRevertedLog(cleared(l)) => cleared(l) = l
  BY DEF Entry, IsNeverRevertedLog
<1>2. f = [i \in DOMAIN calls |->
             IF i \notin reverted THEN calls[i] ELSE [calls[i] EXCEPT !.lists["log"] = new(i)]]
  BY DEF RemoveLogBlockIndex
<1> HIDE DEF cleared, f
<1>3. ASSUME NEW i \in 1..Len(calls)
      PROVE  /\ logs(i) \in Seq(Entry) /\ new(i) \in Seq(Entry)
             /\ Len(new(i)) = Len(logs(i))
             /\ \A j \in 1..Len(logs(i)) : new(i)[j] = cleared(logs(i)[j])
  <2>1. logs(i) \in Seq(Entry)
    BY CallsType DEF Lists
  <2>2. new(i) \in [1..Len(logs(i)) -> Entry]
    BY <1>1, <2>1
  <2> HIDE DEF logs
  <2>3. \A j \in 1..Len(logs(i)) : new(i)[j] = cleared(logs(i)[j])
    BY <2>1
  <2>4. Len(logs(i)) \in Nat
    BY <2>1
  <2> HIDE DEF new
  <2> QED BY <2>1, <2>2, <2>3, <2>4, FunctionIsSeq
<1>4. ASSUME NEW i \in 1..Len(calls)
      PROVE  /\ f[i] \in Call
             /\ f[i].lists["log"] = IF i \in reverted THEN new(i) ELSE logs(i)
  <2>1. calls[i] \in Call /\ i \in DOMAIN calls
    OBVIOUS
  <2>2. new(i) \in Seq(Entry) /\ logs(i) \in Seq(Entry)
    BY <1>3
  <2>3. CASE i \notin reverted
    BY <1>2, <2>1, <2>3
  <2>4. CASE i \in reverted
    <3>1. f[i] = [calls[i] EXCEPT !.lists["log"] = new(i)]
      BY <1>2, <2>1, <2>4
    <3> DEFINE lists == [calls[i].lists EXCEPT !["log"] = new(i)]
    <3>2. f[i] = [calls[i] EXCEPT !.lists = lists]
      BY <3>1
    <3> HIDE DEF new
    <3>3. lists \in [Lists -> Seq(Entry)] /\ lists["log"] = new(i)
      BY <2>1, <2>2 DEF Call, Lists
    <3> HIDE DEF lists
    <3> QED BY <2>1, <2>4, <3>2, <3>3 DEF Call
  <2> QED BY <2>3, <2>4
<1>5. f = [i \in DOMAIN calls |-> f[i]]
  BY <1>2
<1>6. f \in Seq(Call) /\ Len(f) = Len(calls)
  BY <1>4, <1>5, MapCalls
<1>7. ASSUME NEW i \in 1..Len(calls)
      PROVE  /\ Len(f[i].lists["log"]) = Len(logs(i))
             /\ \A j \in 1..Len(logs(i)) :
                  (i \in reverted => IsNeverRevertedLog(f[i].lists["log"][j]))
                     => f[i].lists["log"][j] = logs(i)[j]
  <2> HIDE DEF logs, new
  <2>1. \A j \in 1..Len(logs(i)) : logs(i)[j] \in Entry
    BY <1>3, ElementOfSeq
  <2> QED BY <1>1, <1>3, <1>4, <2>1
<1> QED BY <1>6, <1>7 DEF f

(* The surviving logs are logs as they were emitted, so when no two of     *)
(* those have one ordinal the survivors can be put in order.               *)
LEMMA SurvivingLogsType ==
    ASSUME NEW calls \in Seq(Call), NEW reverted,
           \A l, m \in LogsIn(calls) : l.ord = m.ord => l = m
    PROVE  SurvivingLogs(RemoveLogBlockIndex(calls, reverted), reverted) \in Seq(Entry)
<1> DEFINE final       == RemoveLogBlockIndex(calls, reverted)
           survives(i) == {l \in ToSet(final[i].lists["log"]) : i \in reverted => IsNeverRevertedLog(l)}
           logs        == UNION {survives(i) : i \in DOMAIN final}
           key         == [l \in logs |-> l.ord]
<1>1. final \in Seq(Call) /\ DOMAIN final = 1..Len(calls)
  BY RemoveLogBlockIndexType
<1>2. ASSUME NEW i \in 1..Len(calls), NEW l \in survives(i)
      PROVE  l \in LogsIn(calls)
  <2> DEFINE after  == final[i].lists["log"]
             before == calls[i].lists["log"]
  <2>1. after \in Seq(Entry) /\ before \in Seq(Entry)
    <3>1. final[i] \in Call /\ calls[i] \in Call
      BY <1>1
    <3> HIDE DEF final
    <3> QED BY <3>1 DEF Call, Lists
  <2>2. /\ Len(after) = Len(before)
        /\ \A j \in 1..Len(before) :
             (i \in reverted => IsNeverRevertedLog(after[j])) => after[j] = before[j]
    BY RemoveLogBlockIndexType
  <2> HIDE DEF final
  <2>3. PICK j \in DOMAIN after : l = after[j]
    BY DEF ToSet
  <2>4. DOMAIN after = 1..Len(after)
    BY <2>1
  <2> HIDE DEF after, before
  <2>5. j \in 1..Len(before) /\ l = before[j]
    BY <2>2, <2>3, <2>4
  <2> QED BY <2>5, LogsInMember DEF before
<1>3. logs \subseteq LogsIn(calls)
  <2> HIDE DEF final, survives
  <2> QED BY <1>1, <1>2
<1> HIDE DEF survives
<1> HIDE DEF logs
<1>4. logs \subseteq Entry /\ IsFiniteSet(logs)
  BY <1>3, LogsInFinite, FS_Subset
<1>5. key \in [logs -> Nat] /\ \A l, m \in logs : key[l] = key[m] => l = m
  BY <1>3, <1>4 DEF Entry
<1> HIDE DEF key
<1>6. /\ Cardinality(logs) \in Nat
      /\ InOrder(logs, key) \in [1..Cardinality(logs) -> logs]
  BY <1>4, <1>5, InOrderLists
<1>7. InOrder(logs, key) \in [1..Cardinality(logs) -> Entry]
  BY <1>4, <1>6
<1>8. InOrder(logs, key) \in Seq(Entry)
  BY <1>6, <1>7, FunctionIsSeq
<1>9. SurvivingLogs(final, reverted) = InOrder(logs, key)
  BY DEF SurvivingLogs, logs, key, survives
<1> QED BY <1>8, <1>9

(* Receipt logs keep their type when they take over ordinals and indexes.  *)
LEMMA AssignType ==
    ASSUME NEW callLogs \in Seq(Entry), NEW receiptLogs \in Seq(Entry),
           LogsMatch(callLogs, receiptLogs)
    PROVE  /\ AssignToReceiptLogs(callLogs, receiptLogs) \in Seq(Entry)
           /\ Len(AssignToReceiptLogs(callLogs, receiptLogs)) = Len(receiptLogs)
<1> DEFINE f == AssignToReceiptLogs(callLogs, receiptLogs)
           n == Len(receiptLogs)
<1>1. n \in Nat /\ DOMAIN receiptLogs = 1..n /\ Len(callLogs) = n
  BY DEF LogsMatch
<1>2. f = [i \in 1..n |-> [receiptLogs[i] EXCEPT !.ord = callLogs[i].ord, !.index = callLogs[i].index]]
  BY <1>1 DEF AssignToReceiptLogs
<1>3. ASSUME NEW i \in 1..n
      PROVE  [receiptLogs[i] EXCEPT !.ord = callLogs[i].ord, !.index = callLogs[i].index] \in Entry
  <2>1. receiptLogs[i] \in Entry /\ callLogs[i] \in Entry
    BY <1>1, ElementOfSeq
  <2> QED BY <2>1 DEF Entry
<1>4. f \in [1..n -> Entry]
  BY <1>2, <1>3
<1> QED BY <1>1, <1>4, FunctionIsSeq

(* The first call takes the deferred changes.                              *)
LEMMA RootedType ==
    ASSUME NEW calls \in Seq(Call), calls # <<>>, NEW deferred \in [Lists -> Seq(Entry)]
    PROVE  LET root   == PopulateOnRoot(deferred, calls[1])
               rooted == [calls EXCEPT ![1] = root]
           IN  /\ rooted \in Seq(Call)
               /\ Len(rooted) = Len(calls)
               /\ \A i \in 1..Len(calls) : rooted[i].index = calls[i].index
               /\ LogsIn(rooted) \subseteq LogsIn(calls) \cup ToSet(deferred["log"])
<1> DEFINE root   == PopulateOnRoot(deferred, calls[1])
           rooted == [calls EXCEPT ![1] = root]
<1>1. Len(calls) \in Nat /\ DOMAIN calls = 1..Len(calls) /\ 1 \in 1..Len(calls)
  BY EmptySeq
<1>2. calls[1] \in Call
  BY <1>1
<1>3. root \in Call /\ root.index = calls[1].index
  BY <1>2, PopulateType
<1>4. /\ calls[1].lists["log"] \in Seq(Entry) /\ deferred["log"] \in Seq(Entry)
      /\ root.lists["log"] = calls[1].lists["log"] \o deferred["log"]
  BY <1>2 DEF PopulateOnRoot, Call, Lists
<1> HIDE DEF root
<1>5. /\ rooted \in Seq(Call) /\ Len(rooted) = Len(calls)
      /\ \A i \in 1..Len(calls) : rooted[i] = IF i = 1 THEN root ELSE calls[i]
  BY <1>1, <1>3
<1> HIDE DEF rooted
<1>6. \A i \in 1..Len(calls) : rooted[i].index = calls[i].index
  BY <1>3, <1>5
<1>7. ASSUME NEW i \in 1..Len(calls)
      PROVE  ToSet(rooted[i].lists["log"]) \subseteq LogsIn(calls) \cup ToSet(deferred["log"])
  <2>1. ToSet(calls[i].lists["log"]) \subseteq LogsIn(calls)
    BY LogsInHas
  <2>2. ToSet(root.lists["log"]) = ToSet(calls[1].lists["log"]) \cup ToSet(deferred["log"])
    BY <1>4, ConcatToSet
  <2> QED BY <1>5, <2>1, <2>2
<1>8. LogsIn(rooted) \subseteq LogsIn(calls) \cup ToSet(deferred["log"])
  BY <1>5, <1>7, LogsInSubset
<1> QED BY <1>5, <1>6, <1>8 DEF root, rooted
-----------------------------------------------------------------------------
(* The hooks                                                               *)

(* The calls given out so far are those that are open and those that have  *)
(* ended, and no two of them have one number.                              *)
Numbered(trx, cs) ==
    /\ BranchOK(cs)
    /\ Len(trx.calls) + Len(cs.stack) = cs.index
    /\ \A i \in 1..Len(cs.stack) : cs.stack[i].index >= 1
    /\ \A i \in 1..Len(trx.calls) : trx.calls[i].index \in 1..cs.index
    /\ \A i, j \in 1..Len(trx.calls) : trx.calls[i].index = trx.calls[j].index => i = j
    /\ \A i \in 1..Len(trx.calls), j \in 1..Len(cs.stack) : trx.calls[i].index # cs.stack[j].index
    /\ ~trx.open => trx.calls = <<>>

StateOK(s) == s \in TrxState /\ Numbered(s.trx, s.callStack)

(* The invariant of the hooks, but for what goes into the block.           *)
HooksOK ==
    /\ ordinal \in Nat
    /\ StateOK(cur)
    /\ inSystemCall \in BOOLEAN
    /\ interrupted \in Seq(TrxState) /\ Len(interrupted) <= 1
    /\ \A i \in 1..Len(interrupted) : StateOK(interrupted[i])
    /\ panicked \in BOOLEAN
-----------------------------------------------------------------------------
(* Numbering                                                               *)

(* No call yet: nothing is numbered.                                       *)
LEMMA NumberedFresh ==
    ASSUME NEW trx \in Trx, trx.calls = <<>>
    PROVE  Numbered(trx, NewCallStack)
BY NewBranch DEF Numbered, NewCallStack

(* A transaction without calls can be put in place of another.             *)
LEMMA NumberedOther ==
    ASSUME NEW trx, NEW cs, Numbered(trx, cs), trx.calls = <<>>,
           NEW other \in Trx, other.calls = <<>>
    PROVE  Numbered(other, cs)
BY DEF Numbered

(* The call pushed gets a number nobody has.                               *)
LEMMA NumberedPush ==
    ASSUME NEW trx \in Trx, NEW cs, Numbered(trx, cs), NEW call \in Call
    PROVE  Numbered(trx, Push(cs, call))
<1> DEFINE after == Push(cs, call)
           n     == Len(cs.stack)
           c     == Len(trx.calls)
<1>1. n \in Nat /\ cs.index \in Nat /\ cs.stack \in Seq(Call)
  BY DEF Numbered, BranchOK, CallStack
<1>2. c \in Nat /\ trx.calls \in Seq(Call) /\ \A i \in 1..c : trx.calls[i].index \in Nat
  <2>1. trx.calls \in Seq(Call)
    BY DEF Trx
  <2> QED BY <2>1, CallsType
<1>3. BranchOK(cs)
  BY DEF Numbered
<1>4. /\ BranchOK(after)
      /\ after.index = cs.index + 1
      /\ Len(after.stack) = n + 1
      /\ \A i \in 1..n : after.stack[i] = cs.stack[i]
      /\ after.stack[n + 1].index = cs.index + 1
  BY <1>3, PushBranch
<1>5. /\ c + n = cs.index
      /\ \A i \in 1..n : cs.stack[i].index >= 1
      /\ \A i \in 1..c : trx.calls[i].index \in 1..cs.index
      /\ \A i, j \in 1..c : trx.calls[i].index = trx.calls[j].index => i = j
      /\ \A i \in 1..c, j \in 1..n : trx.calls[i].index # cs.stack[j].index
      /\ ~trx.open => trx.calls = <<>>
  BY DEF Numbered
<1> HIDE DEF after, n, c
<1>6. \A i \in 1..(n + 1) : after.stack[i].index >= 1
  BY <1>1, <1>4, <1>5
<1>7. \A i \in 1..c : trx.calls[i].index \in 1..after.index
  BY <1>1, <1>2, <1>4, <1>5
<1>8. \A i \in 1..c, j \in 1..(n + 1) : trx.calls[i].index # after.stack[j].index
  <2> TAKE i \in 1..c, j \in 1..(n + 1)
  <2>1. j \in 1..n \/ j = n + 1
    BY <1>1
  <2>2. CASE j \in 1..n
    BY <1>4, <1>5, <2>2
  <2>3. CASE j = n + 1
    BY <1>1, <1>4, <1>5, <2>3
  <2> QED BY <2>1, <2>2, <2>3
<1>9. c + (n + 1) = after.index
  BY <1>1, <1>2, <1>4, <1>5
<1> QED BY <1>4, <1>5, <1>6, <1>7, <1>8, <1>9 DEF Numbered, after, c

(* The call popped takes its number to the calls that have ended.          *)
LEMMA NumberedPop ==
    ASSUME NEW trx \in Trx, NEW cs, Numbered(trx, cs), HasActiveCall(cs), trx.open,
           NEW call \in Call, call.index = Peek(cs).index,
           NEW other \in Trx, other.open, other.calls = Append(trx.calls, call)
    PROVE  Numbered(other, Pop(cs))
<1> DEFINE after == Pop(cs)
           n     == Len(cs.stack)
           c     == Len(trx.calls)
<1>1. n \in Nat /\ n >= 1 /\ cs.index \in Nat /\ cs.stack \in Seq(Call) /\ cs \in CallStack
  BY PeekType DEF Numbered, BranchOK, CallStack
<1>2. c \in Nat /\ trx.calls \in Seq(Call)
  BY DEF Trx
<1>3. BranchOK(cs)
  BY DEF Numbered
<1>4. /\ BranchOK(after)
      /\ after.index = cs.index
      /\ Len(after.stack) = n - 1
      /\ \A i \in 1..(n - 1) : after.stack[i] = cs.stack[i]
  BY <1>3, PopBranch
<1>5. /\ c + n = cs.index
      /\ \A i \in 1..n : cs.stack[i].index >= 1
      /\ \A i \in 1..c : trx.calls[i].index \in 1..cs.index
      /\ \A i, j \in 1..c : trx.calls[i].index = trx.calls[j].index => i = j
      /\ \A i \in 1..c, j \in 1..n : trx.calls[i].index # cs.stack[j].index
  BY DEF Numbered
<1>6. /\ Len(other.calls) = c + 1
      /\ \A i \in 1..c : other.calls[i] = trx.calls[i]
      /\ other.calls[c + 1].index = cs.stack[n].index
  BY <1>1, <1>2, PeekType, AppendProperties
<1>7. cs.stack[n].index \in 1..cs.index
  <2>1. n \in DOMAIN cs.stack /\ cs.stack[n] \in Call /\ n \in 1..n
    BY <1>1
  <2>2. cs.stack[n].index <= cs.index
    BY <1>3, <2>1 DEF BranchOK, IsBranch
  <2> QED BY <1>5, <1>1, <2>1, <2>2 DEF Call
<1>8. \A j \in 1..(n - 1) : cs.stack[j].index < cs.stack[n].index /\ cs.stack[j].index \in Nat
  <2>1. \A j \in 1..(n - 1) : j \in 1..n /\ n \in 1..n /\ j < n
    BY <1>1
  <2>2. \A j \in 1..(n - 1) : cs.stack[j] \in Call
    BY <1>1, <2>1
  <2> QED BY <1>3, <2>1, <2>2 DEF BranchOK, Ascending, Call
<1> HIDE DEF after, n, c
<1>9. /\ c + 1 + (n - 1) = after.index
      /\ \A i \in 1..(n - 1) : after.stack[i].index >= 1
      /\ \A i \in 1..(c + 1) : other.calls[i].index \in 1..after.index
  <2>1. c + 1 + (n - 1) = after.index
    BY <1>1, <1>2, <1>4, <1>5
  <2>2. \A i \in 1..(n - 1) : i \in 1..n
    BY <1>1
  <2>3. \A i \in 1..(c + 1) : i \in 1..c \/ i = c + 1
    BY <1>2
  <2> QED BY <1>4, <1>5, <1>6, <1>7, <2>1, <2>2, <2>3
<1>10. \A i, j \in 1..(c + 1) : other.calls[i].index = other.calls[j].index => i = j
  <2>1. n \in 1..n
    BY <1>1
  <2>2. \A i \in 1..c : trx.calls[i].index # cs.stack[n].index
    BY <1>5, <2>1
  <2> QED BY <1>2, <1>5, <1>6, <2>2
<1>11. \A i \in 1..(c + 1), j \in 1..(n - 1) : other.calls[i].index # after.stack[j].index
  <2> TAKE i \in 1..(c + 1), j \in 1..(n - 1)
  <2>1. j \in 1..n /\ after.stack[j] = cs.stack[j]
    BY <1>1, <1>4
  <2>2. CASE i \in 1..c
    BY <1>5, <1>6, <2>1, <2>2
  <2>3. CASE i = c + 1
    BY <1>6, <1>7, <1>8, <2>1, <2>3
  <2>4. i \in 1..c \/ i = c + 1
    BY <1>2
  <2> QED BY <2>2, <2>3, <2>4
<1> QED BY <1>4, <1>6, <1>9, <1>10, <1>11 DEF Numbered, after

(* The call on top is changed, not its place.                              *)
LEMMA NumberedOnTop ==
    ASSUME NEW trx, NEW cs, Numbered(trx, cs), HasActiveCall(cs), NEW call \in Call,
           call.index = Peek(cs).index, call.depth = Peek(cs).depth, call.parent = Peek(cs).parent
    PROVE  Numbered(trx, OnTop(cs, call))
<1>1. BranchOK(cs)
  BY DEF Numbered
<1>2. /\ BranchOK(OnTop(cs, call))
      /\ OnTop(cs, call).index = cs.index
      /\ Len(OnTop(cs, call).stack) = Len(cs.stack)
      /\ \A i \in 1..Len(cs.stack) : OnTop(cs, call).stack[i].index = cs.stack[i].index
  BY <1>1, OnTopBranch
<1> DEFINE after == OnTop(cs, call)
           n     == Len(cs.stack)
           calls == trx.calls
<1>3. /\ Len(calls) + n = cs.index
      /\ \A i \in 1..n : cs.stack[i].index >= 1
      /\ \A i \in 1..Len(calls) : calls[i].index \in 1..cs.index
      /\ \A i, j \in 1..Len(calls) : calls[i].index = calls[j].index => i = j
      /\ \A i \in 1..Len(calls), j \in 1..n : calls[i].index # cs.stack[j].index
      /\ ~trx.open => calls = <<>>
  BY DEF Numbered
<1> HIDE DEF after, n, calls
<1>4. /\ Len(calls) + Len(after.stack) = after.index
      /\ \A i \in 1..Len(after.stack) : after.stack[i].index >= 1
      /\ \A i \in 1..Len(calls) : calls[i].index \in 1..after.index
      /\ \A i \in 1..Len(calls), j \in 1..Len(after.stack) : calls[i].index # after.stack[j].index
  BY <1>2, <1>3 DEF after, n
<1> QED BY <1>2, <1>3, <1>4 DEF Numbered, after, calls
-----------------------------------------------------------------------------
(* Transaction states                                                      *)

(* The nil transaction, and a new one.                                     *)
LEMMA NoTrxType ==
    /\ NoTrx \in Trx /\ NoTrx.calls = <<>>
    /\ [NoTrx EXCEPT !.open = TRUE] \in Trx /\ [NoTrx EXCEPT !.open = TRUE].calls = <<>>
<1>1. NoTrx \in Trx /\ NoTrx.calls = <<>>
  BY DEF NoTrx, Trx, NoReceipt, Receipts
<1> QED BY <1>1 DEF Trx

(* Between transactions.                                                   *)
LEMMA FreshOK == StateOK(FreshState)
<1>1. NoTrx \in Trx /\ NoTrx.calls = <<>>
  BY NoTrxType
<1>2. NewCallStack \in CallStack
  BY NewBranch DEF BranchOK
<1>3. FreshState \in TrxState
  BY <1>1, <1>2, ListsType DEF FreshState, TrxState
<1>4. FreshState.trx = NoTrx /\ FreshState.callStack = NewCallStack
  BY DEF FreshState
<1> QED BY <1>1, <1>3, <1>4, NumberedFresh DEF StateOK

(* The parts of a transaction state.                                       *)
LEMMA StateParts ==
    ASSUME NEW s, StateOK(s)
    PROVE  /\ s \in TrxState /\ Numbered(s.trx, s.callStack)
           /\ s.trx \in Trx /\ s.callStack \in CallStack /\ BranchOK(s.callStack)
           /\ s.deferred \in [Lists -> Seq(Entry)] /\ s.logIndex \in Nat
           /\ s.preimages \in Seq([call : Nat, data : Data])
BY DEF StateOK, Numbered, BranchOK, TrxState

(* A new transaction or system call, where the calls of none are kept.     *)
LEMMA NewTrxOK ==
    ASSUME NEW s, StateOK(s), s.trx.calls = <<>>, NEW trx \in Trx, trx.calls = <<>>
    PROVE  StateOK([s EXCEPT !.trx = trx])
<1>1. s \in TrxState /\ Numbered(s.trx, s.callStack)
  BY StateParts
<1>2. [s EXCEPT !.trx = trx] \in TrxState
  BY <1>1 DEF TrxState
<1>3. /\ [s EXCEPT !.trx = trx].trx = trx
      /\ [s EXCEPT !.trx = trx].callStack = s.callStack
  BY <1>1 DEF TrxState
<1> QED BY <1>1, <1>2, <1>3, NumberedOther DEF StateOK

(* Another call stack that goes with the calls that have ended.            *)
LEMMA NewStackOK ==
    ASSUME NEW s, StateOK(s), NEW cs, Numbered(s.trx, cs)
    PROVE  StateOK([s EXCEPT !.callStack = cs])
<1>1. s \in TrxState /\ cs \in CallStack
  BY StateParts DEF Numbered, BranchOK
<1>2. [s EXCEPT !.callStack = cs] \in TrxState
  BY <1>1 DEF TrxState
<1>3. /\ [s EXCEPT !.callStack = cs].trx = s.trx
      /\ [s EXCEPT !.callStack = cs].callStack = cs
  BY <1>1 DEF TrxState
<1> QED BY <1>2, <1>3 DEF StateOK

(* The fields that have no part in the numbering.                          *)
LEMMA OtherFieldsOK ==
    ASSUME NEW s, StateOK(s)
    PROVE  /\ \A b \in BOOLEAN : StateOK([s EXCEPT !.suicided = b])
           /\ \A n \in Nat : StateOK([s EXCEPT !.logIndex = n])
           /\ \A d \in [Lists -> Seq(Entry)] : StateOK([s EXCEPT !.deferred = d])
           /\ \A p \in Seq([call : Nat, data : Data]) : StateOK([s EXCEPT !.preimages = p])
<1>1. s \in TrxState /\ Numbered(s.trx, s.callStack)
  BY StateParts
<1>2. ASSUME NEW b \in BOOLEAN PROVE StateOK([s EXCEPT !.suicided = b])
  <2>1. [s EXCEPT !.suicided = b] \in TrxState
    BY <1>1 DEF TrxState
  <2>2. /\ [s EXCEPT !.suicided = b].trx = s.trx
        /\ [s EXCEPT !.suicided = b].callStack = s.callStack
    BY <1>1 DEF TrxState
  <2> QED BY <1>1, <2>1, <2>2 DEF StateOK
<1>3. ASSUME NEW n \in Nat PROVE StateOK([s EXCEPT !.logIndex = n])
  <2>1. [s EXCEPT !.logIndex = n] \in TrxState
    BY <1>1 DEF TrxState
  <2>2. /\ [s EXCEPT !.logIndex = n].trx = s.trx
        /\ [s EXCEPT !.logIndex = n].callStack = s.callStack
    BY <1>1 DEF TrxState
  <2> QED BY <1>1, <2>1, <2>2 DEF StateOK
<1>4. ASSUME NEW d \in [Lists -> Seq(Entry)] PROVE StateOK([s EXCEPT !.deferred = d])
  <2>1. [s EXCEPT !.deferred = d] \in TrxState
    BY <1>1 DEF TrxState
  <2>2. /\ [s EXCEPT !.deferred = d].trx = s.trx
        /\ [s EXCEPT !.deferred = d].callStack = s.callStack
    BY <1>1 DEF TrxState
  <2> QED BY <1>1, <2>1, <2>2 DEF StateOK
<1>5. ASSUME NEW p \in Seq([call : Nat, data : Data]) PROVE StateOK([s EXCEPT !.preimages = p])
  <2>1. [s EXCEPT !.preimages = p] \in TrxState
    BY <1>1 DEF TrxState
  <2>2. /\ [s EXCEPT !.preimages = p].trx = s.trx
        /\ [s EXCEPT !.preimages = p].callStack = s.callStack
    BY <1>1 DEF TrxState
  <2> QED BY <1>1, <2>1, <2>2 DEF StateOK
<1> QED BY <1>2, <1>3, <1>4, <1>5

(* An entry attached to the active call, or deferred.                      *)
LEMMA AttachedOK ==
    ASSUME StateOK(cur), NEW k \in Lists, NEW e \in Entry
    PROVE  StateOK(Attached(k, e))
<1>1. CASE HasActiveCall(cur.callStack)
  <2> DEFINE cs    == cur.callStack
             lists == Add(Peek(cs).lists, k, e)
             call  == [Peek(cs) EXCEPT !.lists = lists]
  <2>1. Numbered(cur.trx, cs) /\ cs \in CallStack
    BY StateParts
  <2>2. Peek(cs) \in Call
    BY <1>1, <2>1, PeekType
  <2>3. lists \in [Lists -> Seq(Entry)]
    <3>1. Peek(cs).lists \in [Lists -> Seq(Entry)]
      BY <2>2 DEF Call
    <3> QED BY <3>1, ListsType
  <2> HIDE DEF lists
  <2>4. /\ call \in Call
        /\ call.index = Peek(cs).index /\ call.depth = Peek(cs).depth
        /\ call.parent = Peek(cs).parent
    BY <2>2, <2>3 DEF Call
  <2>5. Attached(k, e) = [cur EXCEPT !.callStack = OnTop(cs, call)]
    BY <1>1 DEF Attached, lists
  <2> HIDE DEF call, cs
  <2>6. Numbered(cur.trx, OnTop(cs, call))
    BY <1>1, <2>1, <2>4, NumberedOnTop DEF cs
  <2> QED BY <2>5, <2>6, NewStackOK
<1>2. CASE ~HasActiveCall(cur.callStack)
  <2> DEFINE d == Add(cur.deferred, k, e)
  <2>1. d \in [Lists -> Seq(Entry)]
    BY StateParts, ListsType
  <2>2. Attached(k, e) = [cur EXCEPT !.deferred = d]
    BY <1>2 DEF Attached
  <2> HIDE DEF d
  <2> QED BY <2>1, <2>2, OtherFieldsOK
<1> QED BY <1>1, <1>2
-----------------------------------------------------------------------------
(* The hooks                                                               *)

(* A panic changes nothing else.                                           *)
LEMMA PanicOK ==
    ASSUME HooksOK, Panic
    PROVE  HooksOK'
BY DEF HooksOK, Panic, StateOK

(* A hook that leaves the transaction set aside where it is.               *)
LEMMA CurOK ==
    ASSUME HooksOK, ordinal' \in Nat, StateOK(cur'), inSystemCall' \in BOOLEAN,
           UNCHANGED interrupted, panicked' \in BOOLEAN
    PROVE  HooksOK'
BY DEF HooksOK, StateOK

(* A hook that leaves none set aside.                                      *)
LEMMA NoneSetAsideOK ==
    ASSUME ordinal' \in Nat, StateOK(cur'), inSystemCall' \in BOOLEAN,
           interrupted' = <<>>, panicked' \in BOOLEAN
    PROVE  HooksOK'
BY EmptySeq DEF HooksOK, StateOK

(* OnBlockStart, OnBlockEnd, OnSkippedBlock: transaction states are reset  *)
(* or left alone.                                                          *)
LEMMA BlockHookOK ==
    ASSUME HooksOK, OnBlockStart \/ (\E err \in BOOLEAN : OnBlockEnd(err)) \/ OnSkippedBlock
    PROVE  HooksOK'
<1>1. CASE OnBlockStart
  BY <1>1, CurOK DEF OnBlockStart, HooksOK
<1>2. CASE Panic
  BY <1>2, PanicOK
<1>3. CASE ResetBlock /\ ResetTransaction /\ UNCHANGED panicked
  BY <1>3, FreshOK, NoneSetAsideOK DEF ResetBlock, ResetTransaction, HooksOK
<1> QED BY <1>1, <1>2, <1>3 DEF OnBlockEnd, OnSkippedBlock, Ensured

(* OnTxStart numbers the calls of the transaction from where the call      *)
(* stack stands.                                                           *)
LEMMA OnTxStartOK ==
    ASSUME HooksOK, NEW id \in Nat, OnTxStart(id)
    PROVE  HooksOK'
<1>1. CASE Panic
  BY <1>1, PanicOK
<1> DEFINE trx == [NoTrx EXCEPT !.open = TRUE, !.id = id, !.begin = ordinal + 1]
<1>2. CASE /\ ~InTrx /\ ordinal' = ordinal + 1
           /\ cur' = [cur EXCEPT !.trx = trx]
           /\ UNCHANGED <<inSystemCall, interrupted, panicked>>
  <2>1. StateOK(cur) /\ ordinal \in Nat
    BY DEF HooksOK
  <2>2. cur.trx.calls = <<>>
    BY <1>2, <2>1 DEF InTrx, StateOK, Numbered
  <2>3. trx \in Trx /\ trx.calls = <<>>
    <3>1. ordinal + 1 \in Nat /\ NoTrx \in Trx /\ NoTrx.calls = <<>>
      BY <2>1, NoTrxType
    <3> QED BY <3>1 DEF Trx
  <2> HIDE DEF trx
  <2>4. StateOK(cur')
    BY <1>2, <2>1, <2>2, <2>3, NewTrxOK
  <2> QED BY <1>2, <2>1, <2>4, CurOK DEF HooksOK
<1> QED BY <1>1, <1>2 DEF OnTxStart, Ensured

(* OnTxEnd forgets the transaction, completed or dropped.                  *)
LEMMA OnTxEndOK ==
    ASSUME HooksOK, NEW receipt, OnTxEnd(receipt)
    PROVE  HooksOK'
<1>1. CASE Panic
  BY <1>1, PanicOK
<1>2. CASE /\ ordinal' \in {ordinal, ordinal + 1}
           /\ ResetTransaction /\ UNCHANGED <<interrupted, panicked>>
  <2>1. ordinal' \in Nat
    BY <1>2 DEF HooksOK
  <2>2. StateOK(cur') /\ inSystemCall' \in BOOLEAN
    BY <1>2, FreshOK DEF ResetTransaction
  <2> QED BY <1>2, <2>1, <2>2, CurOK DEF HooksOK
<1> QED BY <1>1, <1>2 DEF OnTxEnd, Ensured

(* OnSystemCallStart sets the transaction in progress aside, or starts     *)
(* without one.                                                            *)
LEMMA OnSystemCallStartOK ==
    ASSUME HooksOK, OnSystemCallStart
    PROVE  HooksOK'
<1>1. CASE Panic
  BY <1>1, PanicOK
<1> DEFINE trx  == [NoTrx EXCEPT !.open = TRUE]
           base == IF InTrx THEN FreshState ELSE cur
<1>2. CASE /\ interrupted' = IF InTrx THEN <<cur>> ELSE interrupted
           /\ cur' = [base EXCEPT !.trx = trx]
           /\ inSystemCall' = TRUE /\ UNCHANGED <<ordinal, panicked>>
  <2>1. StateOK(cur) /\ cur \in TrxState
    BY DEF HooksOK, StateOK
  <2>2. StateOK(base) /\ base.trx.calls = <<>>
    <3>1. CASE InTrx
      BY <3>1, FreshOK DEF FreshState, NoTrx
    <3>2. CASE ~InTrx
      <4>1. base = cur
        BY <3>2
      <4>2. Numbered(cur.trx, cur.callStack)
        BY <2>1, StateParts
      <4>3. cur.trx.calls = <<>>
        BY <3>2, <4>2 DEF InTrx, Numbered
      <4> QED BY <2>1, <4>1, <4>3
    <3> QED BY <3>1, <3>2
  <2>3. trx \in Trx /\ trx.calls = <<>>
    BY NoTrxType
  <2> HIDE DEF trx, base
  <2>4. StateOK(cur')
    BY <1>2, <2>2, <2>3, NewTrxOK
  <2>5. interrupted' \in Seq(TrxState) /\ Len(interrupted') <= 1
        /\ \A i \in 1..Len(interrupted') : StateOK(interrupted'[i])
    BY <1>2, <2>1 DEF HooksOK
  <2> QED BY <1>2, <2>4, <2>5 DEF HooksOK, StateOK
<1> QED BY <1>1, <1>2 DEF OnSystemCallStart, Ensured

(* OnSystemCallEnd takes the transaction set aside up again.               *)
LEMMA OnSystemCallEndOK ==
    ASSUME HooksOK, OnSystemCallEnd
    PROVE  HooksOK'
<1>1. CASE Panic
  BY <1>1, PanicOK
<1>2. CASE /\ cur' = IF interrupted = <<>> THEN FreshState ELSE interrupted[1]
           /\ interrupted' = <<>> /\ inSystemCall' = FALSE
           /\ UNCHANGED <<ordinal, panicked>>
  <2>1. interrupted # <<>> => StateOK(interrupted[1])
    <3>1. interrupted # <<>> => 1 \in 1..Len(interrupted)
      BY EmptySeq DEF HooksOK
    <3> QED BY <3>1 DEF HooksOK
  <2>2. StateOK(cur')
    BY <1>2, <2>1, FreshOK
  <2> QED BY <1>2, <2>2, NoneSetAsideOK DEF HooksOK
<1> QED BY <1>1, <1>2 DEF OnSystemCallEnd, Ensured

(* OnCallEnter numbers the call and pushes it.                             *)
LEMMA OnCallEnterOK ==
    ASSUME HooksOK, NEW depth, NEW d \in Data, OnCallEnter(depth, d)
    PROVE  HooksOK'
<1> DEFINE call == NewCall(ordinal + 1, d)
           root == PopulateOnEnter(cur.deferred, call)
           cs   == cur.callStack
<1>1. StateOK(cur) /\ ordinal \in Nat /\ ordinal + 1 \in Nat
  BY DEF HooksOK
<1>2. /\ ordinal' = ordinal + 1
      /\ cur' = IF depth = 0
                THEN [cur EXCEPT !.callStack = Push(cs, root), !.deferred = NoEntries]
                ELSE [cur EXCEPT !.callStack = Push(cs, call)]
      /\ UNCHANGED <<inSystemCall, interrupted, panicked>>
  BY DEF OnCallEnter
<1>3. call \in Call
  BY <1>1, NewCallType
<1>4. root \in Call
  BY <1>1, <1>3, StateParts, PopulateType
<1> HIDE DEF call, root
<1>5. Numbered(cur.trx, Push(cs, call)) /\ Numbered(cur.trx, Push(cs, root))
  BY <1>1, <1>3, <1>4, StateParts, NumberedPush
<1>6. StateOK([cur EXCEPT !.callStack = Push(cs, call)])
  BY <1>1, <1>5, NewStackOK
<1>7. StateOK([cur EXCEPT !.callStack = Push(cs, root), !.deferred = NoEntries])
  <2> DEFINE s == [cur EXCEPT !.callStack = Push(cs, root)]
  <2>1. StateOK(s) /\ cur \in TrxState
    BY <1>1, <1>5, NewStackOK DEF StateOK
  <2>2. StateOK([s EXCEPT !.deferred = NoEntries])
    <3> HIDE DEF s
    <3> QED BY <2>1, OtherFieldsOK, ListsType
  <2>3. [s EXCEPT !.deferred = NoEntries]
          = [cur EXCEPT !.callStack = Push(cs, root), !.deferred = NoEntries]
    BY <2>1 DEF TrxState
  <2> QED BY <2>2, <2>3
<1>8. StateOK(cur')
  BY <1>2, <1>6, <1>7
<1> QED BY <1>1, <1>2, <1>8, CurOK DEF HooksOK

(* OnCallExit takes the call on top of the stack to those that have ended. *)
LEMMA OnCallExitOK ==
    ASSUME HooksOK, NEW outcome \in Outcomes, OnCallExit(outcome)
    PROVE  HooksOK'
<1>1. StateOK(cur) /\ ordinal \in Nat
  BY DEF HooksOK
<1>2. CASE cur.suicided
  BY <1>1, <1>2, OtherFieldsOK, CurOK DEF OnCallExit, HooksOK
<1>3. CASE ~cur.suicided /\ Panic
  BY <1>3, PanicOK
<1> DEFINE cs    == cur.callStack
           call  == [Peek(cs) EXCEPT !.outcome = outcome, !.end = ordinal + 1]
           calls == Append(cur.trx.calls, call)
           after == [cur EXCEPT !.callStack = Pop(cs), !.trx.calls = calls]
<1>4. CASE /\ ~cur.suicided /\ InTrx /\ HasActiveCall(cs)
           /\ ordinal' = ordinal + 1 /\ cur' = after
           /\ UNCHANGED <<inSystemCall, interrupted, panicked>>
  <2>1. /\ cur \in TrxState /\ cur.trx \in Trx /\ cs \in CallStack /\ Numbered(cur.trx, cs)
        /\ cur.trx.calls \in Seq(Call)
    BY <1>1, StateParts DEF Trx
  <2>2. Peek(cs) \in Call /\ ordinal + 1 \in Nat
    BY <1>1, <1>4, <2>1, PeekType
  <2>3. call \in Call /\ call.index = Peek(cs).index
    BY <2>2 DEF Call
  <2> HIDE DEF call
  <2>4. calls \in Seq(Call)
    BY <2>1, <2>3
  <2> HIDE DEF cs
  <2>5. after.trx \in Trx /\ after.trx.open /\ after.trx.calls = calls
    <3> HIDE DEF calls
    <3> QED BY <1>4, <2>1, <2>4 DEF Trx, TrxState, InTrx
  <2>6. after.callStack = Pop(cs)
    BY <2>1 DEF TrxState
  <2>7. Numbered(after.trx, Pop(cs))
    <3> HIDE DEF after
    <3> QED BY <1>4, <2>1, <2>3, <2>5, NumberedPop DEF InTrx, calls
  <2>8. after \in TrxState
    <3>1. Pop(cs) \in CallStack
      BY <2>7 DEF Numbered, BranchOK
    <3> HIDE DEF calls
    <3> QED BY <2>1, <2>4, <3>1 DEF Trx, TrxState
  <2>9. StateOK(cur')
    <3> HIDE DEF after
    <3> QED BY <1>4, <2>6, <2>7, <2>8 DEF StateOK
  <2> QED BY <1>4, <2>2, <2>9, CurOK DEF HooksOK
<1> QED BY <1>2, <1>3, <1>4 DEF OnCallExit, Ensured

(* OnSelfDestructEnter raises a flag.                                      *)
LEMMA OnSelfDestructEnterOK ==
    ASSUME HooksOK, OnSelfDestructEnter
    PROVE  HooksOK'
BY OtherFieldsOK, CurOK DEF OnSelfDestructEnter, HooksOK

(* OnOpcode marks the active call.                                         *)
LEMMA OnOpcodeOK ==
    ASSUME HooksOK, NEW selfdestruct \in BOOLEAN, NEW failed \in BOOLEAN,
           OnOpcode(selfdestruct, failed)
    PROVE  HooksOK'
<1>1. StateOK(cur) /\ ordinal \in Nat
  BY DEF HooksOK
<1> DEFINE cs      == cur.callStack
           suicide == Peek(cs).suicide \/ (selfdestruct /\ ~failed)
           call    == [Peek(cs) EXCEPT !.executed = TRUE, !.suicide = suicide]
<1>2. /\ cur' = IF HasActiveCall(cs)
                THEN [cur EXCEPT !.callStack = OnTop(cs, call)] ELSE cur
      /\ UNCHANGED <<ordinal, inSystemCall, interrupted, panicked>>
  BY DEF OnOpcode
<1>3. ASSUME HasActiveCall(cs) PROVE StateOK([cur EXCEPT !.callStack = OnTop(cs, call)])
  <2>1. Numbered(cur.trx, cs) /\ cs \in CallStack
    BY <1>1, StateParts
  <2>2. Peek(cs) \in Call
    BY <1>3, <2>1, PeekType
  <2>3. suicide \in BOOLEAN
    BY <2>2 DEF Call
  <2> HIDE DEF suicide
  <2>4. /\ call \in Call
        /\ call.index = Peek(cs).index /\ call.depth = Peek(cs).depth
        /\ call.parent = Peek(cs).parent
    BY <2>2, <2>3 DEF Call
  <2> HIDE DEF call
  <2>5. Numbered(cur.trx, OnTop(cs, call))
    BY <1>3, <2>1, <2>4, NumberedOnTop
  <2> QED BY <1>1, <2>5, NewStackOK
<1>4. StateOK(cur')
  BY <1>1, <1>2, <1>3
<1> QED BY <1>1, <1>2, <1>4, CurOK DEF HooksOK

(* Balance, nonce, code and storage changes, in a transaction.             *)
LEMMA ChangeAttachedOK ==
    ASSUME HooksOK, NEW k \in Lists, NEW d \in Data,
           ordinal' = ordinal + 1, cur' = Attached(k, Change(ordinal + 1, d)),
           UNCHANGED <<inSystemCall, interrupted, panicked>>
    PROVE  HooksOK'
<1>1. StateOK(cur) /\ ordinal + 1 \in Nat
  BY DEF HooksOK
<1>2. StateOK(cur')
  BY <1>1, ChangeType, AttachedOK
<1> QED BY <1>1, <1>2, CurOK DEF HooksOK

(* OnBalanceChange and OnCodeChange.                                       *)
LEMMA OnBlockOrTrxChangeOK ==
    ASSUME HooksOK, NEW k \in Lists, NEW d \in Data, OnBlockOrTrxChange(k, d)
    PROVE  HooksOK'
<1>1. CASE Panic
  BY <1>1, PanicOK
<1>2. CASE /\ ordinal' = ordinal + 1 /\ cur' = Attached(k, Change(ordinal + 1, d))
           /\ UNCHANGED <<inSystemCall, interrupted, panicked>>
  BY <1>2, ChangeAttachedOK
<1>3. CASE /\ ordinal' = ordinal + 1
           /\ UNCHANGED <<cur, inSystemCall, interrupted, panicked>>
  BY <1>3, CurOK DEF HooksOK
<1> QED BY <1>1, <1>2, <1>3 DEF OnBlockOrTrxChange, Ensured

(* OnNonceChange and OnStorageChange.                                      *)
LEMMA OnTrxChangeOK ==
    ASSUME HooksOK, NEW k \in Lists, NEW d \in Data, OnTrxChange(k, d)
    PROVE  HooksOK'
<1>1. CASE Panic
  BY <1>1, PanicOK
<1>2. CASE /\ ordinal' = ordinal + 1 /\ cur' = Attached(k, Change(ordinal + 1, d))
           /\ UNCHANGED <<inSystemCall, interrupted, panicked>>
  BY <1>2, ChangeAttachedOK
<1> QED BY <1>1, <1>2 DEF OnTrxChange, Ensured

(* OnLog.                                                                  *)
LEMMA OnLogOK ==
    ASSUME HooksOK, NEW d \in Data, NEW blockIndex \in Nat, OnLog(d, blockIndex)
    PROVE  HooksOK'
<1>1. CASE Panic
  BY <1>1, PanicOK
<1> DEFINE log   == [ord |-> ordinal + 1, data |-> d, index |-> cur.logIndex, blockIndex |-> blockIndex]
           after == Attached("log", log)
<1>2. CASE /\ ordinal' = ordinal + 1
           /\ cur' = [after EXCEPT !.logIndex = @ + 1]
           /\ UNCHANGED <<inSystemCall, interrupted, panicked>>
  <2>1. StateOK(cur) /\ ordinal + 1 \in Nat /\ cur.logIndex \in Nat
    BY StateParts DEF HooksOK
  <2>2. log \in Entry /\ "log" \in Lists
    BY <2>1 DEF Entry, Lists
  <2> HIDE DEF log
  <2>3. StateOK(after)
    BY <2>1, <2>2, AttachedOK
  <2> HIDE DEF after
  <2>4. after.logIndex + 1 \in Nat
    BY <2>3, StateParts
  <2>5. StateOK(cur')
    BY <1>2, <2>3, <2>4, OtherFieldsOK
  <2> QED BY <1>2, <2>1, <2>5, CurOK DEF HooksOK
<1> QED BY <1>1, <1>2 DEF OnLog, Ensured

(* OnKeccakPreimage.                                                       *)
LEMMA OnKeccakPreimageOK ==
    ASSUME HooksOK, NEW d \in Data, OnKeccakPreimage(d)
    PROVE  HooksOK'
<1>1. CASE Panic
  BY <1>1, PanicOK
<1> DEFINE record == [call |-> Peek(cur.callStack).index, data |-> d]
           after  == Append(cur.preimages, record)
<1>2. CASE /\ HasActiveCall(cur.callStack) /\ cur' = [cur EXCEPT !.preimages = after]
           /\ UNCHANGED <<ordinal, inSystemCall, interrupted, panicked>>
  <2>1. StateOK(cur) /\ cur.preimages \in Seq([call : Nat, data : Data])
    BY StateParts DEF HooksOK
  <2>2. record \in [call : Nat, data : Data]
    <3>1. Peek(cur.callStack) \in Call
      BY <1>2, <2>1, StateParts, PeekType
    <3> QED BY <3>1 DEF Call
  <2> HIDE DEF record
  <2>3. after \in Seq([call : Nat, data : Data])
    BY <2>1, <2>2
  <2> HIDE DEF after
  <2>4. StateOK(cur')
    BY <1>2, <2>1, <2>3, OtherFieldsOK
  <2> QED BY <1>2, <2>4, CurOK DEF HooksOK
<1> QED BY <1>1, <1>2 DEF OnKeccakPreimage, Ensured
-----------------------------------------------------------------------------
(* The tracer starts in the invariant.                                     *)
LEMMA TracerInitOK ==
    ASSUME TracerInit
    PROVE  HooksOK
<1>1. interrupted \in Seq(TrxState) /\ Len(interrupted) = 0
  BY EmptySeq DEF TracerInit
<1>2. 1..Len(interrupted) = {}
  BY <1>1
<1>3. ordinal = 0 /\ cur = FreshState /\ inSystemCall = FALSE /\ panicked = FALSE
  BY DEF TracerInit
<1>4. StateOK(cur) /\ ordinal \in Nat
  BY <1>3, FreshOK
<1>5. inSystemCall \in BOOLEAN /\ panicked \in BOOLEAN
  BY <1>3
<1>6. Len(interrupted) <= 1
  BY <1>1
<1>7. \A i \in 1..Len(interrupted) : StateOK(interrupted[i])
  BY <1>2
<1> QED BY <1>1, <1>4, <1>5, <1>6, <1>7 DEF HooksOK

(* What the invariant says of the open calls.                              *)
LEMMA HooksOKBranches ==
    ASSUME HooksOK
    PROVE  IsBranch(cur.callStack) /\ \A i \in DOMAIN interrupted : IsBranch(interrupted[i].callStack)
<1>1. \A s : StateOK(s) => IsBranch(s.callStack)
  BY DEF StateOK, Numbered, BranchOK
<1>2. DOMAIN interrupted = 1..Len(interrupted)
  BY DEF HooksOK
<1> QED BY <1>1, <1>2 DEF HooksOK
-----------------------------------------------------------------------------
(***************************************************************************)
(* What the tracer puts into the block is well-formed.  That hangs on the  *)
(* ordinals: the receipt of a transaction takes the ordinal of each of its *)
(* logs from a list of the calls' logs sorted by ordinal, so no two logs   *)
(* of one transaction may have one ordinal, wherever they are kept.        *)
(***************************************************************************)

(* The logs of a transaction in progress: of the calls that have ended, of *)
(* those that are open, and those that wait for a call.                    *)
AllLogs(s) ==
    LogsIn(s.trx.calls) \cup LogsIn(s.callStack.stack) \cup ToSet(s.deferred["log"])

LogsOK(s, n) ==
    \A l \in AllLogs(s) : l.ord <= n /\ \A m \in AllLogs(s) : l.ord = m.ord => l = m

(* The invariant of the hooks, with what they say of logs and the block.   *)
LogOrdinalsOK ==
    LogsOK(cur, ordinal) /\ \A i \in 1..Len(interrupted) : LogsOK(interrupted[i], ordinal)

TracerOK == HooksOK /\ LogOrdinalsOK /\ block \in Blocks
-----------------------------------------------------------------------------
(* Logs                                                                    *)

(* Logs are entries.                                                       *)
LEMMA AllLogsType ==
    ASSUME NEW s, StateOK(s)
    PROVE  /\ AllLogs(s) \subseteq Entry
           /\ s.trx.calls \in Seq(Call) /\ s.callStack.stack \in Seq(Call)
           /\ s.deferred["log"] \in Seq(Entry)
<1>1. s.trx.calls \in Seq(Call) /\ s.callStack.stack \in Seq(Call) /\ s.deferred["log"] \in Seq(Entry)
  BY StateParts DEF Trx, CallStack, Lists
<1>2. /\ LogsIn(s.trx.calls) \subseteq Entry /\ LogsIn(s.callStack.stack) \subseteq Entry
      /\ ToSet(s.deferred["log"]) \subseteq Entry
  BY <1>1, LogsInFinite, ToSetFinite
<1> QED BY <1>1, <1>2 DEF AllLogs

(* Moving logs about, or losing some, as time goes on ...                  *)
LEMMA LogsKeep ==
    ASSUME NEW s, NEW t, StateOK(s), NEW n \in Nat, NEW m \in Nat, n <= m, LogsOK(s, n),
           AllLogs(t) \subseteq AllLogs(s)
    PROVE  LogsOK(t, m)
<1>1. \A l \in AllLogs(s) : l.ord \in Nat
  BY AllLogsType DEF Entry
<1> QED BY <1>1 DEF LogsOK

(* ... or adding the one of the next ordinal.                              *)
LEMMA LogsGrow ==
    ASSUME NEW s, NEW t, StateOK(s), NEW n \in Nat, LogsOK(s, n), NEW e, e.ord = n + 1,
           AllLogs(t) \subseteq AllLogs(s) \cup {e}
    PROVE  LogsOK(t, n + 1)
<1>1. \A l \in AllLogs(s) : l.ord \in Nat /\ l.ord <= n
  BY AllLogsType DEF Entry, LogsOK
<1>2. \A l \in AllLogs(s) \cup {e} : l.ord <= n + 1
  BY <1>1
<1>3. \A l, m \in AllLogs(s) \cup {e} : l.ord = m.ord => l = m
  BY <1>1 DEF LogsOK
<1> QED BY <1>2, <1>3 DEF LogsOK

(* A state without calls or deferred changes has none.                     *)
LEMMA FreshLogs ==
    /\ \A n : LogsOK(FreshState, n)
    /\ \A trx, n : trx.calls = <<>> => LogsOK([FreshState EXCEPT !.trx = trx], n)
<1>1. LogsIn(<<>>) = {} /\ ToSet(<<>>) = {}
  BY EmptySeq DEF LogsIn, ToSet
<1>2. NoEntries["log"] = <<>>
  BY DEF NoEntries, Lists
<1>3. /\ FreshState.trx.calls = <<>> /\ FreshState.callStack.stack = <<>>
      /\ FreshState.deferred = NoEntries
  BY DEF FreshState, NoTrx, NewCallStack
<1>4. AllLogs(FreshState) = {}
  BY <1>1, <1>2, <1>3 DEF AllLogs
<1>5. ASSUME NEW trx, trx.calls = <<>> PROVE AllLogs([FreshState EXCEPT !.trx = trx]) = {}
  <2> DEFINE s == [FreshState EXCEPT !.trx = trx]
  <2>1. s.trx = trx /\ s.callStack = NewCallStack /\ s.deferred = NoEntries
    BY DEF FreshState
  <2>2. NewCallStack.stack = <<>>
    BY DEF NewCallStack
  <2> HIDE DEF s
  <2>3. AllLogs(s) = {}
    BY <1>1, <1>2, <1>5, <2>1, <2>2 DEF AllLogs
  <2> QED BY <2>3 DEF s
<1> QED BY <1>4, <1>5 DEF LogsOK

(* An entry attached to the active call, or deferred, adds itself to the   *)
(* logs if it is one.                                                      *)
LEMMA AttachedLogs ==
    ASSUME StateOK(cur), NEW k \in Lists, NEW e \in Entry
    PROVE  AllLogs(Attached(k, e)) \subseteq AllLogs(cur) \cup (IF k = "log" THEN {e} ELSE {})
<1> DEFINE cs  == cur.callStack
           own == IF k = "log" THEN {e} ELSE {}
<1>1. /\ cur \in TrxState /\ cs \in CallStack /\ BranchOK(cs)
      /\ cur.deferred \in [Lists -> Seq(Entry)]
  BY StateParts
<1>2. CASE HasActiveCall(cs)
  <2> DEFINE lists == Add(Peek(cs).lists, k, e)
             call  == [Peek(cs) EXCEPT !.lists = lists]
             after == OnTop(cs, call)
  <2>1. Peek(cs) \in Call /\ Len(cs.stack) \in 1..Len(cs.stack) /\ Peek(cs) = cs.stack[Len(cs.stack)]
    BY <1>1, <1>2, PeekType
  <2>2. Peek(cs).lists \in [Lists -> Seq(Entry)]
    BY <2>1 DEF Call
  <2>3. /\ lists \in [Lists -> Seq(Entry)]
        /\ ToSet(lists["log"]) \subseteq ToSet(Peek(cs).lists["log"]) \cup own
    BY <2>2, ListsType, AddToSet
  <2>4. Attached(k, e) = [cur EXCEPT !.callStack = after]
    BY <1>2 DEF Attached
  <2> HIDE DEF lists
  <2>5. /\ call \in Call /\ call.lists = lists
        /\ call.index = Peek(cs).index /\ call.depth = Peek(cs).depth
        /\ call.parent = Peek(cs).parent
    BY <2>1, <2>3 DEF Call
  <2> HIDE DEF call, cs, own
  <2>6. /\ Len(after.stack) = Len(cs.stack)
        /\ \A i \in 1..Len(cs.stack) :
             after.stack[i] = IF i = Len(cs.stack) THEN call ELSE cs.stack[i]
    BY <1>1, <1>2, <2>5, OnTopBranch
  <2> HIDE DEF after
  <2>7. ASSUME NEW i \in 1..Len(after.stack)
        PROVE  ToSet(after.stack[i].lists["log"]) \subseteq LogsIn(cs.stack) \cup own
    <3>1. i \in 1..Len(cs.stack)
      BY <2>6
    <3>2. ToSet(cs.stack[i].lists["log"]) \subseteq LogsIn(cs.stack)
      BY <3>1, LogsInHas
    <3>3. CASE i # Len(cs.stack)
      BY <2>6, <3>1, <3>2, <3>3
    <3>4. CASE i = Len(cs.stack)
      BY <2>1, <2>3, <2>5, <2>6, <3>1, <3>2, <3>4
    <3> QED BY <3>3, <3>4
  <2>8. LogsIn(after.stack) \subseteq LogsIn(cs.stack) \cup own
    BY <2>7, LogsInSubset
  <2>9. /\ Attached(k, e).trx = cur.trx /\ Attached(k, e).callStack = after
        /\ Attached(k, e).deferred = cur.deferred
    BY <1>1, <2>4 DEF TrxState
  <2> QED BY <2>8, <2>9 DEF AllLogs, cs, own
<1>3. CASE ~HasActiveCall(cs)
  <2> DEFINE d == Add(cur.deferred, k, e)
  <2>1. ToSet(d["log"]) \subseteq ToSet(cur.deferred["log"]) \cup own
    BY <1>1, AddToSet
  <2>2. Attached(k, e) = [cur EXCEPT !.deferred = d]
    BY <1>3 DEF Attached
  <2> HIDE DEF d
  <2>3. /\ Attached(k, e).trx = cur.trx /\ Attached(k, e).callStack = cs
        /\ Attached(k, e).deferred = d
    BY <1>1, <2>2 DEF TrxState
  <2> QED BY <2>1, <2>3 DEF AllLogs
<1> QED BY <1>2, <1>3
-----------------------------------------------------------------------------
(* The hooks                                                               *)

(* A hook that leaves the transaction set aside where it is, as time goes. *)
LEMMA CurLogsOK ==
    ASSUME HooksOK, LogOrdinalsOK, ordinal' \in Nat, ordinal <= ordinal',
           LogsOK(cur', ordinal'), UNCHANGED interrupted
    PROVE  LogOrdinalsOK'
<1>1. ordinal \in Nat
  BY DEF HooksOK
<1>2. ASSUME NEW i \in 1..Len(interrupted) PROVE LogsOK(interrupted[i], ordinal')
  <2>1. StateOK(interrupted[i]) /\ LogsOK(interrupted[i], ordinal)
    BY DEF HooksOK, LogOrdinalsOK
  <2> QED BY <1>1, <2>1, LogsKeep
<1>3. LogsOK(cur, ordinal)'
  BY DEF LogsOK, AllLogs
<1>4. (\A i \in 1..Len(interrupted) : LogsOK(interrupted[i], ordinal))'
  BY <1>2 DEF LogsOK, AllLogs
<1> QED BY <1>3, <1>4 DEF LogOrdinalsOK

(* A hook that leaves none set aside.                                      *)
LEMMA NoneSetAsideLogsOK ==
    ASSUME LogsOK(cur', ordinal'), interrupted' = <<>>
    PROVE  LogOrdinalsOK'
<1>1. (1..Len(interrupted))' = {}
  BY EmptySeq
<1>2. LogsOK(cur, ordinal)'
  BY DEF LogsOK, AllLogs
<1> QED BY <1>1, <1>2 DEF LogOrdinalsOK

(* A panic.                                                                *)
LEMMA PanicTracerOK ==
    ASSUME TracerOK, Panic
    PROVE  LogOrdinalsOK' /\ block' \in Blocks
BY DEF TracerOK, Panic, LogOrdinalsOK, LogsOK, AllLogs

(* An open block, and one with nothing in it.                              *)
LEMMA NoBlockType ==
    NoBlock \in Blocks /\ [NoBlock EXCEPT !.open = TRUE] \in Blocks
<1>1. NoBlock \in Blocks
  BY ListsType DEF NoBlock, Blocks
<1> QED BY <1>1 DEF Blocks

(* OnBlockStart, OnBlockEnd, OnSkippedBlock.                               *)
LEMMA BlockHookTracerOK ==
    ASSUME TracerOK, OnBlockStart \/ (\E err \in BOOLEAN : OnBlockEnd(err)) \/ OnSkippedBlock
    PROVE  LogOrdinalsOK' /\ block' \in Blocks
<1>1. CASE OnBlockStart
  BY <1>1, NoBlockType DEF OnBlockStart, TracerOK, LogOrdinalsOK, LogsOK, AllLogs
<1>2. CASE Panic
  BY <1>2, PanicTracerOK
<1>3. CASE ResetBlock /\ ResetTransaction
  BY <1>3, FreshLogs, NoneSetAsideLogsOK, NoBlockType DEF ResetBlock, ResetTransaction
<1> QED BY <1>1, <1>2, <1>3 DEF OnBlockEnd, OnSkippedBlock, Ensured

(* OnTxStart: the logs stay as they are.                                   *)
LEMMA OnTxStartTracerOK ==
    ASSUME TracerOK, NEW id \in Nat, OnTxStart(id)
    PROVE  LogOrdinalsOK' /\ block' \in Blocks
<1>1. CASE Panic
  BY <1>1, PanicTracerOK
<1> DEFINE trx == [NoTrx EXCEPT !.open = TRUE, !.id = id, !.begin = ordinal + 1]
<1>2. CASE /\ ~InTrx /\ ordinal' = ordinal + 1
           /\ cur' = [cur EXCEPT !.trx = trx]
           /\ UNCHANGED <<block, interrupted>>
  <2>1. StateOK(cur) /\ ordinal \in Nat /\ cur \in TrxState /\ LogsOK(cur, ordinal)
    BY DEF TracerOK, HooksOK, StateOK, LogOrdinalsOK
  <2>2. cur.trx.calls = <<>> /\ trx.calls = <<>>
    BY <1>2, <2>1 DEF InTrx, StateOK, Numbered, NoTrx
  <2> HIDE DEF trx
  <2>3. cur'.trx = trx /\ cur'.callStack = cur.callStack /\ cur'.deferred = cur.deferred
    BY <1>2, <2>1 DEF TrxState
  <2>4. AllLogs(cur') \subseteq AllLogs(cur)
    BY <2>2, <2>3 DEF AllLogs
  <2>5. LogsOK(cur', ordinal') /\ ordinal' \in Nat /\ ordinal <= ordinal'
    BY <1>2, <2>1, <2>4, LogsKeep
  <2> QED BY <1>2, <2>5, CurLogsOK DEF TracerOK
<1> QED BY <1>1, <1>2 DEF OnTxStart, Ensured

(* The calls of a transaction that ends are calls, with logs it had.       *)
LEMMA CompleteCallsType ==
    ASSUME StateOK(cur), cur.trx.calls # <<>>
    PROVE  /\ CompleteCalls \in Seq(Call)
           /\ Len(CompleteCalls) = Len(cur.trx.calls)
           /\ LogsIn(CompleteCalls) \subseteq AllLogs(cur)
<1> DEFINE calls  == cur.trx.calls
           n      == Len(calls)
           sorted == SortedByIndex(calls)
           root   == PopulateOnRoot(cur.deferred, sorted[1])
           rooted == [sorted EXCEPT ![1] = root]
           final  == AttachPreimages(rooted, cur.preimages)
<1>1. /\ calls \in Seq(Call) /\ n \in Nat
      /\ \A i, j \in 1..n : calls[i].index = calls[j].index => i = j
      /\ cur.deferred \in [Lists -> Seq(Entry)]
      /\ cur.preimages \in Seq([call : Nat, data : Data])
  <2>1. calls \in Seq(Call) /\ n \in Nat
    BY AllLogsType
  <2>2. Numbered(cur.trx, cur.callStack)
    BY StateParts
  <2> QED BY <2>1, <2>2, StateParts DEF Numbered
<1>2. /\ sorted \in Seq(Call) /\ Len(sorted) = n
      /\ \A i \in 1..n : \E j \in 1..n : sorted[i] = calls[j]
  BY <1>1, SortedByIndexType
<1>3. sorted # <<>>
  BY <1>1, <1>2, EmptySeq
<1> HIDE DEF sorted
<1>4. /\ rooted \in Seq(Call) /\ Len(rooted) = n
      /\ LogsIn(rooted) \subseteq LogsIn(sorted) \cup ToSet(cur.deferred["log"])
  BY <1>1, <1>2, <1>3, RootedType
<1> HIDE DEF root, rooted
<1>5. /\ final \in Seq(Call) /\ Len(final) = n
      /\ \A i \in 1..n : final[i].lists = rooted[i].lists
  <2> HIDE DEF calls, n
  <2>1. /\ AttachPreimages(rooted, cur.preimages) \in Seq(Call)
        /\ Len(AttachPreimages(rooted, cur.preimages)) = Len(rooted)
        /\ \A i \in 1..Len(rooted) :
             AttachPreimages(rooted, cur.preimages)[i].lists = rooted[i].lists
    BY <1>1, <1>4, AttachPreimagesType
  <2> QED BY <1>4, <2>1
<1>6. CompleteCalls = final
  BY DEF CompleteCalls, rooted, root, sorted
<1> HIDE DEF final
<1>7. LogsIn(sorted) \subseteq LogsIn(calls)
  <2> SUFFICES ASSUME NEW i \in 1..n
               PROVE  ToSet(sorted[i].lists["log"]) \subseteq LogsIn(calls)
    BY <1>2, LogsInSubset
  <2>1. PICK j \in 1..n : sorted[i] = calls[j]
    BY <1>2
  <2> QED BY <2>1, LogsInHas
<1>8. LogsIn(final) \subseteq LogsIn(rooted)
  <2> SUFFICES ASSUME NEW i \in 1..n
               PROVE  ToSet(final[i].lists["log"]) \subseteq LogsIn(rooted)
    BY <1>5, LogsInSubset
  <2>1. ToSet(rooted[i].lists["log"]) \subseteq LogsIn(rooted)
    BY <1>4, LogsInHas
  <2> QED BY <1>5, <2>1
<1> QED BY <1>4, <1>5, <1>6, <1>7, <1>8 DEF AllLogs

(* So the transaction that goes to the block is one.                       *)
LEMMA CompleteTransactionType ==
    ASSUME StateOK(cur), ordinal \in Nat, LogsOK(cur, ordinal),
           NEW receipt \in Receipts, Completable(receipt)
    PROVE  CompleteTransaction(receipt) \in Trx
<1> DEFINE end == ordinal + 1
<1>1. cur.trx \in Trx /\ end \in Nat
  BY StateParts
<1>2. CASE cur.trx.calls = <<>>
  <2>1. CompleteTransaction(receipt) = [cur.trx EXCEPT !.end = end]
    BY <1>2 DEF CompleteTransaction
  <2> HIDE DEF end
  <2> QED BY <1>1, <2>1 DEF Trx
<1>3. CASE cur.trx.calls # <<>>
  <2> DEFINE calls    == CompleteCalls
             reverted == StateReverted(calls)
             final    == RemoveLogBlockIndex(calls, reverted)
             logs     == SurvivingLogs(final, reverted)
             receipts == AssignToReceiptLogs(logs, receipt.logs)
             assigned == [receipt EXCEPT !.logs = receipts]
             status   == TrxStatus(receipt, calls[1])
  <2>1. calls \in Seq(Call) /\ LogsIn(calls) \subseteq AllLogs(cur)
    BY <1>3, CompleteCallsType
  <2>2. \A l, m \in LogsIn(calls) : l.ord = m.ord => l = m
    BY <2>1 DEF LogsOK
  <2>3. CompleteTransaction(receipt) =
          [cur.trx EXCEPT !.calls = final, !.stateReverted = reverted, !.status = status,
                          !.receipt = assigned, !.end = end]
    BY <1>3 DEF CompleteTransaction
  <2>4. LogsMatch(logs, receipt.logs)
    BY <1>3 DEF Completable
  <2> HIDE DEF calls
  <2>5. reverted \subseteq Nat
    <3>1. DOMAIN calls = 1..Len(calls) /\ Len(calls) \in Nat
      BY <2>1
    <3>2. reverted \subseteq DOMAIN calls
      BY DEF StateReverted
    <3> QED BY <3>1, <3>2
  <2> HIDE DEF reverted
  <2>6. final \in Seq(Call)
    BY <2>1, RemoveLogBlockIndexType
  <2>7. logs \in Seq(Entry)
    BY <2>1, <2>2, SurvivingLogsType
  <2> HIDE DEF final, logs
  <2>8. receipt.logs \in Seq(Entry)
    <3>1. CASE receipt = NoReceipt
      BY <3>1, EmptySeq DEF NoReceipt
    <3>2. CASE receipt \in [status : {"ok", "failed"}, logs : Seq(Entry)]
      BY <3>2
    <3> QED BY <3>1, <3>2 DEF Receipts
  <2>9. receipts \in Seq(Entry) /\ Len(receipts) = Len(receipt.logs)
    BY <2>4, <2>7, <2>8, AssignType
  <2> HIDE DEF receipts
  <2>10. assigned \in Receipts
    <3>1. CASE receipt = NoReceipt
      <4>1. receipts = <<>>
        BY <2>9, <3>1, EmptySeq DEF NoReceipt
      <4> QED BY <3>1, <4>1 DEF Receipts, NoReceipt
    <3>2. CASE receipt \in [status : {"ok", "failed"}, logs : Seq(Entry)]
      BY <2>9, <3>2 DEF Receipts
    <3> QED BY <3>1, <3>2 DEF Receipts
  <2>11. status \in {"unknown", "ok", "failed", "reverted"}
    BY DEF TrxStatus, Receipts
  <2> HIDE DEF assigned, status, end
  <2> QED BY <1>1, <2>3, <2>5, <2>6, <2>10, <2>11 DEF Trx
<1> QED BY <1>2, <1>3

(* OnTxEnd.                                                                *)
LEMMA OnTxEndTracerOK ==
    ASSUME TracerOK, NEW receipt \in Receipts, OnTxEnd(receipt)
    PROVE  LogOrdinalsOK' /\ block' \in Blocks
<1>1. StateOK(cur) /\ ordinal \in Nat /\ LogsOK(cur, ordinal) /\ block \in Blocks
  BY DEF TracerOK, HooksOK, LogOrdinalsOK
<1>2. CASE Panic
  BY <1>2, PanicTracerOK
<1>3. CASE /\ Dropped(receipt)
           /\ ResetTransaction /\ UNCHANGED <<block, ordinal, interrupted>>
  <2>1. LogsOK(cur', ordinal') /\ ordinal' \in Nat /\ ordinal <= ordinal'
    BY <1>1, <1>3, FreshLogs DEF ResetTransaction
  <2> QED BY <1>1, <1>3, <2>1, CurLogsOK DEF TracerOK
<1> DEFINE trx == CompleteTransaction(receipt)
<1>4. CASE /\ Completable(receipt)
           /\ block' = [block EXCEPT !.traces = Append(@, trx)]
           /\ ordinal' = ordinal + 1
           /\ ResetTransaction /\ UNCHANGED interrupted
  <2>1. LogsOK(cur', ordinal') /\ ordinal' \in Nat /\ ordinal <= ordinal'
    BY <1>1, <1>4, FreshLogs DEF ResetTransaction
  <2>2. trx \in Trx
    BY <1>1, <1>4, CompleteTransactionType
  <2> HIDE DEF trx
  <2>3. block' \in Blocks
    <3> DEFINE traces == Append(block.traces, trx)
    <3>1. traces \in Seq(Trx)
      BY <1>1, <2>2 DEF Blocks
    <3>2. block' = [block EXCEPT !.traces = traces]
      BY <1>4
    <3> HIDE DEF traces
    <3> QED BY <1>1, <3>1, <3>2 DEF Blocks
  <2> QED BY <1>4, <2>1, <2>3, CurLogsOK DEF TracerOK
<1> QED BY <1>2, <1>3, <1>4 DEF OnTxEnd, Ensured

(* OnSystemCallStart: the logs go with the transaction set aside.          *)
LEMMA OnSystemCallStartTracerOK ==
    ASSUME TracerOK, OnSystemCallStart
    PROVE  LogOrdinalsOK' /\ block' \in Blocks
<1> DEFINE trx == [NoTrx EXCEPT !.open = TRUE]
<1>1. /\ StateOK(cur) /\ cur \in TrxState /\ ordinal \in Nat /\ LogsOK(cur, ordinal)
      /\ block \in Blocks /\ trx.calls = <<>>
  BY DEF TracerOK, HooksOK, StateOK, LogOrdinalsOK, NoTrx
<1> HIDE DEF trx
<1>2. CASE Panic
  BY <1>2, PanicTracerOK
<1>3. CASE /\ InTrx /\ interrupted' = <<cur>> /\ cur' = [FreshState EXCEPT !.trx = trx]
           /\ UNCHANGED <<block, ordinal>>
  <2>1. LogsOK(cur', ordinal')
    BY <1>1, <1>3, FreshLogs
  <2>2. LogsOK(cur, ordinal)'
    BY <2>1 DEF LogsOK, AllLogs
  <2>3. Len(<<cur>>) = 1 /\ <<cur>>[1] = cur
    OBVIOUS
  <2>4. (\A i \in 1..Len(interrupted) : LogsOK(interrupted[i], ordinal))'
    BY <1>1, <1>3, <2>3 DEF LogsOK, AllLogs
  <2> QED BY <1>1, <1>3, <2>2, <2>4 DEF LogOrdinalsOK
<1>4. CASE /\ ~InTrx /\ cur' = [cur EXCEPT !.trx = trx]
           /\ UNCHANGED <<block, ordinal, interrupted>>
  <2>1. cur.trx.calls = <<>>
    BY <1>1, <1>4 DEF InTrx, StateOK, Numbered
  <2>2. cur'.trx = trx /\ cur'.callStack = cur.callStack /\ cur'.deferred = cur.deferred
    BY <1>1, <1>4 DEF TrxState
  <2>3. AllLogs(cur') \subseteq AllLogs(cur)
    BY <1>1, <2>1, <2>2 DEF AllLogs
  <2>4. ordinal' \in Nat /\ ordinal <= ordinal'
    BY <1>1, <1>4
  <2>5. LogsOK(cur', ordinal')
    BY <1>1, <2>3, <2>4, LogsKeep
  <2> QED BY <1>1, <1>4, <2>4, <2>5, CurLogsOK DEF TracerOK
<1> QED BY <1>2, <1>3, <1>4 DEF OnSystemCallStart, Ensured, trx

(* OnSystemCallEnd: they come back with it.                                *)
LEMMA OnSystemCallEndTracerOK ==
    ASSUME TracerOK, OnSystemCallEnd
    PROVE  LogOrdinalsOK' /\ block' \in Blocks
<1> DEFINE calls == AttachPreimages(cur.trx.calls, cur.preimages)
<1>1. /\ StateOK(cur) /\ ordinal \in Nat /\ block \in Blocks
      /\ interrupted \in Seq(TrxState)
  BY DEF TracerOK, HooksOK
<1>2. CASE Panic
  BY <1>2, PanicTracerOK
<1>3. CASE /\ block' = [block EXCEPT !.systemCalls = @ \o calls]
           /\ cur' = IF interrupted = <<>> THEN FreshState ELSE interrupted[1]
           /\ interrupted' = <<>> /\ UNCHANGED ordinal
  <2>1. calls \in Seq(Call)
    BY <1>1, AllLogsType, StateParts, AttachPreimagesType
  <2> DEFINE all == block.systemCalls \o calls
  <2> HIDE DEF calls
  <2>2. all \in Seq(Call) /\ block' = [block EXCEPT !.systemCalls = all]
    BY <1>1, <1>3, <2>1 DEF Blocks
  <2> HIDE DEF all
  <2>3. block' \in Blocks
    BY <1>1, <2>2 DEF Blocks
  <2>4. interrupted # <<>> => LogsOK(interrupted[1], ordinal)
    <3>1. interrupted # <<>> => 1 \in 1..Len(interrupted)
      BY <1>1, EmptySeq
    <3> QED BY <3>1 DEF TracerOK, LogOrdinalsOK
  <2>5. LogsOK(cur', ordinal')
    BY <1>3, <2>4, FreshLogs
  <2> QED BY <1>3, <2>3, <2>5, NoneSetAsideLogsOK
<1> QED BY <1>2, <1>3 DEF OnSystemCallEnd, Ensured

(* OnCallEnter: the call takes what was deferred.                          *)
LEMMA OnCallEnterTracerOK ==
    ASSUME TracerOK, NEW depth, NEW d \in Data, OnCallEnter(depth, d)
    PROVE  LogOrdinalsOK' /\ block' \in Blocks
<1> DEFINE call == NewCall(ordinal + 1, d)
           root == PopulateOnEnter(cur.deferred, call)
           cs   == cur.callStack
           own  == ToSet(cur.deferred["log"])
<1>1. /\ StateOK(cur) /\ cur \in TrxState /\ ordinal \in Nat /\ LogsOK(cur, ordinal)
      /\ block \in Blocks /\ cur.deferred \in [Lists -> Seq(Entry)]
      /\ cur.deferred["log"] \in Seq(Entry) /\ BranchOK(cs) /\ cs.stack \in Seq(Call)
  BY StateParts, AllLogsType DEF TracerOK, HooksOK, StateOK, LogOrdinalsOK
<1>2. call \in Call /\ call.lists = NoEntries
  BY <1>1, NewCallType DEF NewCall
<1>3. root \in Call /\ root.lists = [k \in Lists |-> cur.deferred[k] \o call.lists[k]]
  <2> HIDE DEF call
  <2>1. root \in Call
    BY <1>1, <1>2, PopulateType
  <2>2. root.lists = [k \in Lists |-> cur.deferred[k] \o call.lists[k]]
    BY <1>2 DEF PopulateOnEnter, Call
  <2> QED BY <2>1, <2>2
<1> HIDE DEF call
<1>4. NoEntries["log"] = <<>> /\ NoEntries["log"] \in Seq(Entry) /\ ToSet(NoEntries["log"]) = {}
  BY EmptySeq DEF NoEntries, Lists, ToSet
<1>5. ToSet(call.lists["log"]) = {} /\ ToSet(root.lists["log"]) \subseteq own
  <2>1. root.lists["log"] = cur.deferred["log"] \o NoEntries["log"]
    BY <1>2, <1>3 DEF Lists
  <2>2. ToSet(root.lists["log"]) = own \cup {}
    BY <1>1, <1>4, <2>1, ConcatToSet
  <2> QED BY <1>2, <1>4, <2>2
<1> HIDE DEF root, cs, own
<1>6. ASSUME NEW c \in Call
      PROVE  LogsIn(Push(cs, c).stack) \subseteq LogsIn(cs.stack) \cup ToSet(c.lists["log"])
  <2> DEFINE after == Push(cs, c).stack
             n     == Len(cs.stack)
  <2>1. /\ Len(after) = n + 1 /\ n \in Nat
        /\ \A i \in 1..n : after[i] = cs.stack[i]
        /\ after[n + 1].lists = c.lists
    BY <1>1, PushBranch
  <2> HIDE DEF after, n
  <2>2. ASSUME NEW i \in 1..(n + 1)
        PROVE  ToSet(after[i].lists["log"]) \subseteq LogsIn(cs.stack) \cup ToSet(c.lists["log"])
    <3>1. CASE i \in 1..n
      BY <2>1, <3>1, LogsInHas DEF n
    <3>2. CASE i = n + 1
      BY <2>1, <3>2
    <3> QED BY <2>1, <3>1, <3>2
  <2>3. LogsIn(after) \subseteq LogsIn(cs.stack) \cup ToSet(c.lists["log"])
    BY <2>1, <2>2, LogsInSubset
  <2> QED BY <2>3 DEF after
<1>7. /\ ordinal' = ordinal + 1 /\ UNCHANGED <<block, interrupted>>
      /\ cur' = IF depth = 0
                THEN [cur EXCEPT !.callStack = Push(cs, root), !.deferred = NoEntries]
                ELSE [cur EXCEPT !.callStack = Push(cs, call)]
  BY DEF OnCallEnter, cs, root, call
<1>8. AllLogs(cur') \subseteq AllLogs(cur)
  <2>1. CASE depth = 0
    <3>1. /\ cur'.trx = cur.trx /\ cur'.callStack = Push(cs, root)
          /\ cur'.deferred = NoEntries
      BY <1>1, <1>7, <2>1 DEF TrxState
    <3>2. LogsIn(Push(cs, root).stack) \subseteq LogsIn(cs.stack) \cup own
      BY <1>3, <1>5, <1>6
    <3> QED BY <1>4, <3>1, <3>2 DEF AllLogs, own, cs
  <2>2. CASE depth # 0
    <3>1. /\ cur'.trx = cur.trx /\ cur'.callStack = Push(cs, call)
          /\ cur'.deferred = cur.deferred
      BY <1>1, <1>7, <2>2 DEF TrxState
    <3>2. LogsIn(Push(cs, call).stack) \subseteq LogsIn(cs.stack)
      BY <1>2, <1>5, <1>6
    <3> QED BY <3>1, <3>2 DEF AllLogs, cs
  <2> QED BY <2>1, <2>2
<1>9. LogsOK(cur', ordinal') /\ ordinal' \in Nat /\ ordinal <= ordinal'
  <2>1. ordinal' \in Nat /\ ordinal <= ordinal'
    BY <1>1, <1>7
  <2> QED BY <1>1, <1>8, <2>1, LogsKeep
<1> QED BY <1>1, <1>7, <1>9, CurLogsOK DEF TracerOK

(* OnCallExit: the logs of the call go with it.                            *)
LEMMA OnCallExitTracerOK ==
    ASSUME TracerOK, NEW outcome \in Outcomes, OnCallExit(outcome)
    PROVE  LogOrdinalsOK' /\ block' \in Blocks
<1> DEFINE cs    == cur.callStack
           call  == [Peek(cs) EXCEPT !.outcome = outcome, !.end = ordinal + 1]
           calls == Append(cur.trx.calls, call)
<1>1. /\ StateOK(cur) /\ cur \in TrxState /\ cur.trx \in Trx /\ cs \in CallStack /\ BranchOK(cs)
      /\ ordinal \in Nat /\ LogsOK(cur, ordinal) /\ block \in Blocks
      /\ cur.trx.calls \in Seq(Call) /\ cs.stack \in Seq(Call)
  BY StateParts, AllLogsType DEF TracerOK, HooksOK, StateOK, LogOrdinalsOK
<1>2. CASE Panic
  BY <1>2, PanicTracerOK
<1>3. CASE cur' = [cur EXCEPT !.suicided = FALSE] /\ UNCHANGED <<block, ordinal, interrupted>>
  <2>1. /\ cur'.trx = cur.trx /\ cur'.callStack = cur.callStack
        /\ cur'.deferred = cur.deferred
    BY <1>1, <1>3 DEF TrxState
  <2>2. AllLogs(cur') \subseteq AllLogs(cur)
    BY <2>1 DEF AllLogs
  <2>3. ordinal' \in Nat /\ ordinal <= ordinal'
    BY <1>1, <1>3
  <2>4. LogsOK(cur', ordinal')
    BY <1>1, <2>2, <2>3, LogsKeep
  <2> QED BY <1>1, <1>3, <2>3, <2>4, CurLogsOK DEF TracerOK
<1>4. CASE /\ HasActiveCall(cs) /\ ordinal' = ordinal + 1
           /\ cur' = [cur EXCEPT !.callStack = Pop(cs), !.trx.calls = calls]
           /\ UNCHANGED <<block, interrupted>>
  <2> DEFINE n == Len(cs.stack)
             c == Len(cur.trx.calls)
  <2>1. Peek(cs) \in Call /\ n \in 1..n /\ n \in Nat /\ Peek(cs) = cs.stack[n]
    BY <1>1, <1>4, PeekType
  <2>2. call \in Call /\ call.lists = Peek(cs).lists
    <3>1. ordinal + 1 \in Nat /\ Peek(cs) \in Call
      BY <1>1, <2>1
    <3> QED BY <3>1 DEF Call
  <2> HIDE DEF call
  <2>3. /\ Len(calls) = c + 1 /\ c \in Nat
        /\ \A i \in 1..c : calls[i] = cur.trx.calls[i]
        /\ calls[c + 1] = call
    BY <1>1, <2>2, AppendProperties
  <2> HIDE DEF calls
  <2>4. cur'.trx.calls = calls /\ cur'.callStack = Pop(cs) /\ cur'.deferred = cur.deferred
    BY <1>1, <1>4 DEF TrxState, Trx
  <2> HIDE DEF cs
  <2>5. /\ Len(Pop(cs).stack) = n - 1
        /\ \A i \in 1..(n - 1) : Pop(cs).stack[i] = cs.stack[i]
    BY <1>1, <1>4, PopBranch
  <2>6. LogsIn(Pop(cs).stack) \subseteq LogsIn(cs.stack)
    <3> SUFFICES ASSUME NEW i \in 1..(n - 1)
                 PROVE  ToSet(Pop(cs).stack[i].lists["log"]) \subseteq LogsIn(cs.stack)
      BY <2>5, LogsInSubset
    <3>1. i \in 1..n
      BY <2>1
    <3> QED BY <2>5, <3>1, LogsInHas
  <2>7. LogsIn(calls) \subseteq LogsIn(cur.trx.calls) \cup LogsIn(cs.stack)
    <3> SUFFICES ASSUME NEW i \in 1..(c + 1)
                 PROVE  ToSet(calls[i].lists["log"]) \subseteq LogsIn(cur.trx.calls) \cup LogsIn(cs.stack)
      BY <2>3, LogsInSubset
    <3> HIDE DEF n, c
    <3>1. CASE i \in 1..c
      BY <2>3, <3>1, LogsInHas DEF c
    <3>2. CASE i = c + 1
      BY <2>1, <2>2, <2>3, <3>2, LogsInHas DEF n
    <3> QED BY <2>3, <3>1, <3>2
  <2>8. AllLogs(cur') \subseteq AllLogs(cur)
    BY <2>4, <2>6, <2>7 DEF AllLogs, cs
  <2>9. ordinal' \in Nat /\ ordinal <= ordinal'
    BY <1>1, <1>4
  <2>10. LogsOK(cur', ordinal')
    BY <1>1, <2>8, <2>9, LogsKeep
  <2> QED BY <1>1, <1>4, <2>9, <2>10, CurLogsOK DEF TracerOK
<1> QED BY <1>2, <1>3, <1>4 DEF OnCallExit, Ensured

(* The fields of a transaction state that hold no logs.                    *)
LEMMA SameLogsTracerOK ==
    ASSUME TracerOK, UNCHANGED <<block, ordinal, interrupted>>,
           cur'.trx = cur.trx, cur'.deferred = cur.deferred,
           LogsIn(cur'.callStack.stack) \subseteq LogsIn(cur.callStack.stack)
    PROVE  LogOrdinalsOK' /\ block' \in Blocks
<1>1. StateOK(cur) /\ ordinal \in Nat /\ LogsOK(cur, ordinal) /\ block \in Blocks
  BY DEF TracerOK, HooksOK, LogOrdinalsOK
<1>2. AllLogs(cur') \subseteq AllLogs(cur)
  BY DEF AllLogs
<1>3. ordinal' \in Nat /\ ordinal <= ordinal'
  BY <1>1
<1>4. LogsOK(cur', ordinal')
  BY <1>1, <1>2, <1>3, LogsKeep
<1> QED BY <1>1, <1>3, <1>4, CurLogsOK DEF TracerOK

(* OnSelfDestructEnter.                                                    *)
LEMMA OnSelfDestructEnterTracerOK ==
    ASSUME TracerOK, OnSelfDestructEnter
    PROVE  LogOrdinalsOK' /\ block' \in Blocks
<1>1. cur \in TrxState
  BY DEF TracerOK, HooksOK, StateOK
<1>2. cur' = [cur EXCEPT !.suicided = TRUE] /\ UNCHANGED <<block, ordinal, interrupted>>
  BY DEF OnSelfDestructEnter
<1>3. cur'.trx = cur.trx /\ cur'.callStack = cur.callStack /\ cur'.deferred = cur.deferred
  BY <1>1, <1>2 DEF TrxState
<1> QED BY <1>2, <1>3, SameLogsTracerOK

(* OnOpcode.                                                               *)
LEMMA OnOpcodeTracerOK ==
    ASSUME TracerOK, NEW selfdestruct \in BOOLEAN, NEW failed \in BOOLEAN,
           OnOpcode(selfdestruct, failed)
    PROVE  LogOrdinalsOK' /\ block' \in Blocks
<1> DEFINE cs      == cur.callStack
           suicide == Peek(cs).suicide \/ (selfdestruct /\ ~failed)
           call    == [Peek(cs) EXCEPT !.executed = TRUE, !.suicide = suicide]
           after   == OnTop(cs, call)
<1>1. /\ StateOK(cur) /\ cur \in TrxState /\ cs \in CallStack /\ BranchOK(cs)
      /\ cs.stack \in Seq(Call)
  BY StateParts, AllLogsType DEF TracerOK, HooksOK, StateOK
<1>2. /\ cur' = IF HasActiveCall(cs) THEN [cur EXCEPT !.callStack = after] ELSE cur
      /\ UNCHANGED <<block, ordinal, interrupted>>
  BY DEF OnOpcode
<1>3. CASE ~HasActiveCall(cs)
  BY <1>2, <1>3, SameLogsTracerOK
<1>4. CASE HasActiveCall(cs)
  <2> DEFINE n == Len(cs.stack)
  <2>1. Peek(cs) \in Call /\ n \in 1..n /\ Peek(cs) = cs.stack[n]
    BY <1>1, <1>4, PeekType
  <2>2. suicide \in BOOLEAN
    BY <2>1 DEF Call
  <2> HIDE DEF suicide
  <2>3. /\ call \in Call /\ call.lists = Peek(cs).lists
        /\ call.index = Peek(cs).index /\ call.depth = Peek(cs).depth
        /\ call.parent = Peek(cs).parent
    BY <2>1, <2>2 DEF Call
  <2> HIDE DEF call, cs
  <2>4. /\ Len(after.stack) = n
        /\ \A i \in 1..n : after.stack[i] = IF i = n THEN call ELSE cs.stack[i]
    BY <1>1, <1>4, <2>3, OnTopBranch
  <2> HIDE DEF after
  <2>5. LogsIn(after.stack) \subseteq LogsIn(cs.stack)
    <3> SUFFICES ASSUME NEW i \in 1..n
                 PROVE  ToSet(after.stack[i].lists["log"]) \subseteq LogsIn(cs.stack)
      BY <2>4, LogsInSubset
    <3> QED BY <2>1, <2>3, <2>4, LogsInHas
  <2>6. cur'.trx = cur.trx /\ cur'.callStack = after /\ cur'.deferred = cur.deferred
    BY <1>1, <1>2, <1>4 DEF TrxState
  <2> QED BY <1>2, <2>5, <2>6, SameLogsTracerOK DEF cs
<1> QED BY <1>3, <1>4

(* A change attached: it has the next ordinal.                             *)
LEMMA AttachedTracerOK ==
    ASSUME TracerOK, NEW k \in Lists, NEW e \in Entry, e.ord = ordinal + 1,
           ordinal' = ordinal + 1, UNCHANGED <<block, interrupted>>,
           AllLogs(cur') = AllLogs(Attached(k, e))
    PROVE  LogOrdinalsOK' /\ block' \in Blocks
<1>1. StateOK(cur) /\ ordinal \in Nat /\ LogsOK(cur, ordinal) /\ block \in Blocks
  BY DEF TracerOK, HooksOK, LogOrdinalsOK
<1>2. AllLogs(cur') \subseteq AllLogs(cur) \cup {e}
  BY <1>1, AttachedLogs
<1>3. LogsOK(cur', ordinal + 1)
  BY <1>1, <1>2, LogsGrow
<1>4. ordinal' \in Nat /\ ordinal <= ordinal' /\ LogsOK(cur', ordinal')
  BY <1>1, <1>3
<1> QED BY <1>1, <1>4, CurLogsOK DEF TracerOK

(* Balance, nonce, code and storage changes.                               *)
LEMMA ChangeTracerOK ==
    ASSUME TracerOK, NEW k \in Lists, NEW d \in Data,
           OnBlockOrTrxChange(k, d) \/ OnTrxChange(k, d)
    PROVE  LogOrdinalsOK' /\ block' \in Blocks
<1> DEFINE change == Change(ordinal + 1, d)
<1>1. /\ StateOK(cur) /\ ordinal \in Nat /\ ordinal + 1 \in Nat
      /\ LogsOK(cur, ordinal) /\ block \in Blocks
  BY DEF TracerOK, HooksOK, LogOrdinalsOK
<1>2. change \in Entry /\ change.ord = ordinal + 1
  BY <1>1, ChangeType DEF Change
<1> HIDE DEF change
<1>3. CASE Panic
  BY <1>3, PanicTracerOK
<1>4. CASE /\ ordinal' = ordinal + 1 /\ cur' = Attached(k, change)
           /\ UNCHANGED <<block, interrupted>>
  BY <1>2, <1>4, AttachedTracerOK
<1>5. CASE /\ ordinal' = ordinal + 1
           /\ block' = [block EXCEPT !.changes = Add(@, k, change)]
           /\ UNCHANGED <<cur, interrupted>>
  <2> DEFINE changes == Add(block.changes, k, change)
  <2>1. changes \in [Lists -> Seq(Entry)]
    BY <1>1, <1>2, ListsType DEF Blocks
  <2>2. block' = [block EXCEPT !.changes = changes]
    BY <1>5
  <2> HIDE DEF changes
  <2>3. block' \in Blocks
    BY <1>1, <2>1, <2>2 DEF Blocks
  <2>4. ordinal' \in Nat /\ ordinal <= ordinal' /\ AllLogs(cur') \subseteq AllLogs(cur)
    BY <1>1, <1>5
  <2>5. LogsOK(cur', ordinal')
    BY <1>1, <2>4, LogsKeep
  <2> QED BY <1>5, <2>3, <2>4, <2>5, CurLogsOK DEF TracerOK
<1> QED BY <1>3, <1>4, <1>5 DEF OnBlockOrTrxChange, OnTrxChange, Ensured, change

(* OnLog.                                                                  *)
LEMMA OnLogTracerOK ==
    ASSUME TracerOK, NEW d \in Data, NEW blockIndex \in Nat, OnLog(d, blockIndex)
    PROVE  LogOrdinalsOK' /\ block' \in Blocks
<1> DEFINE log   == [ord |-> ordinal + 1, data |-> d, index |-> cur.logIndex, blockIndex |-> blockIndex]
           after == Attached("log", log)
<1>1. /\ StateOK(cur) /\ ordinal + 1 \in Nat /\ cur.logIndex \in Nat
  BY StateParts DEF TracerOK, HooksOK
<1>2. log \in Entry /\ log.ord = ordinal + 1 /\ "log" \in Lists
  BY <1>1 DEF Entry, Lists
<1> HIDE DEF log
<1>3. CASE Panic
  BY <1>3, PanicTracerOK
<1>4. CASE /\ ordinal' = ordinal + 1
           /\ cur' = [after EXCEPT !.logIndex = @ + 1]
           /\ UNCHANGED <<block, interrupted>>
  <2>1. after \in TrxState
    BY <1>1, <1>2, AttachedOK DEF StateOK
  <2>2. /\ cur'.trx = after.trx /\ cur'.callStack = after.callStack
        /\ cur'.deferred = after.deferred
    <3> HIDE DEF after
    <3> QED BY <1>4, <2>1 DEF TrxState
  <2>3. AllLogs(cur') = AllLogs(after)
    BY <2>2 DEF AllLogs
  <2> QED BY <1>2, <1>4, <2>3, AttachedTracerOK
<1> QED BY <1>3, <1>4 DEF OnLog, Ensured, log

(* OnKeccakPreimage.                                                       *)
LEMMA OnKeccakPreimageTracerOK ==
    ASSUME TracerOK, NEW d \in Data, OnKeccakPreimage(d)
    PROVE  LogOrdinalsOK' /\ block' \in Blocks
<1>1. CASE Panic
  BY <1>1, PanicTracerOK
<1> DEFINE after == Append(cur.preimages, [call |-> Peek(cur.callStack).index, data |-> d])
<1>2. CASE cur' = [cur EXCEPT !.preimages = after] /\ UNCHANGED <<block, ordinal, interrupted>>
  <2>1. cur \in TrxState
    BY DEF TracerOK, HooksOK, StateOK
  <2> HIDE DEF after
  <2>2. cur'.trx = cur.trx /\ cur'.callStack = cur.callStack /\ cur'.deferred = cur.deferred
    BY <1>2, <2>1 DEF TrxState
  <2> QED BY <1>2, <2>2, SameLogsTracerOK
<1> QED BY <1>1, <1>2 DEF OnKeccakPreimage, Ensured
-----------------------------------------------------------------------------
(* The tracer starts in the invariant, which makes it well-typed.          *)
LEMMA TracerInitTyped ==
    ASSUME TracerInit
    PROVE  TracerOK
<1>1. HooksOK
  BY TracerInitOK
<1>2. LogsOK(cur, ordinal)
  BY FreshLogs DEF TracerInit
<1>3. 1..Len(interrupted) = {}
  BY EmptySeq DEF TracerInit
<1>4. block \in Blocks
  BY NoBlockType DEF TracerInit
<1> QED BY <1>1, <1>2, <1>3, <1>4 DEF TracerOK, LogOrdinalsOK

LEMMA TracerOKTyped ==
    ASSUME TracerOK
    PROVE  TracerTypeOK
BY DEF TracerOK, HooksOK, StateOK, TracerTypeOK

(* Doing nothing.                                                          *)
LEMMA StutterTracerOK ==
    ASSUME TracerOK, UNCHANGED tracerVars
    PROVE  TracerOK'
BY DEF TracerOK, HooksOK, StateOK, LogOrdinalsOK, LogsOK, AllLogs, tracerVars
-----------------------------------------------------------------------------
(***************************************************************************)
(* The facts a tracer has recorded: each hook adds the one it reports, and *)
(* moving calls, lists and transactions about neither loses nor alters any *)
(***************************************************************************)

(* The facts of a list of entries.                                         *)
LEMMA InListFacts ==
    ASSUME NEW lists, NEW f
    PROVE  f \in ListFacts(lists)
             <=> \E k \in Lists : \E e \in ToSet(lists[k]) : f = Fact(e.ord, k, e.data)
BY DEF ListFacts

(* The facts of calls.                                                     *)
LEMMA InCallsFacts ==
    ASSUME NEW calls, NEW f
    PROVE  f \in CallsFacts(calls) <=> \E i \in DOMAIN calls : f \in CallFacts(calls[i])
BY DEF CallsFacts, ToSet

(* No entries, no facts; no calls, no facts.                               *)
LEMMA NoFacts == ListFacts(NoEntries) = {} /\ CallsFacts(<<>>) = {}
<1>1. \A k \in Lists : ToSet(NoEntries[k]) = {}
  BY DEF NoEntries, ToSet
<1>2. \A f : f \notin ListFacts(NoEntries)
  BY <1>1, InListFacts
<1>3. \A f : f \notin CallsFacts(<<>>)
  BY InCallsFacts
<1> QED BY <1>2, <1>3

(* One element more.                                                       *)
LEMMA AppendToSet ==
    ASSUME NEW S, NEW s \in Seq(S), NEW e
    PROVE  ToSet(Append(s, e)) = ToSet(s) \cup {e}
<1>1. /\ DOMAIN Append(s, e) = 1..(Len(s) + 1) /\ DOMAIN s = 1..Len(s) /\ Len(s) \in Nat
      /\ Append(s, e)[Len(s) + 1] = e /\ \A i \in 1..Len(s) : Append(s, e)[i] = s[i]
  OBVIOUS
<1>2. 1..(Len(s) + 1) = 1..Len(s) \cup {Len(s) + 1}
  BY <1>1
<1> QED BY <1>1, <1>2 DEF ToSet

(* An entry added is a fact added.                                         *)
LEMMA AddFacts ==
    ASSUME NEW lists \in [Lists -> Seq(Entry)], NEW k \in Lists, NEW e
    PROVE  ListFacts(Add(lists, k, e)) = ListFacts(lists) \cup {Fact(e.ord, k, e.data)}
<1>1. /\ Add(lists, k, e)[k] = Append(lists[k], e)
      /\ \A j \in Lists : j # k => Add(lists, k, e)[j] = lists[j]
  BY DEF Add
<1>2. ToSet(Append(lists[k], e)) = ToSet(lists[k]) \cup {e}
  <2>1. lists[k] \in Seq(Entry)
    OBVIOUS
  <2> QED BY <2>1, AppendToSet
<1>3. ASSUME NEW f
      PROVE  f \in ListFacts(Add(lists, k, e)) <=> f \in ListFacts(lists) \cup {Fact(e.ord, k, e.data)}
  <2>1. f \in ListFacts(Add(lists, k, e)) <=>
            \E j \in Lists : \E x \in ToSet(Add(lists, k, e)[j]) : f = Fact(x.ord, j, x.data)
    BY InListFacts
  <2>2. f \in ListFacts(lists) <=> \E j \in Lists : \E x \in ToSet(lists[j]) : f = Fact(x.ord, j, x.data)
    BY InListFacts
  <2>3. \A j \in Lists : ToSet(Add(lists, k, e)[j]) = IF j = k THEN ToSet(lists[k]) \cup {e} ELSE ToSet(lists[j])
    BY <1>1, <1>2
  <2> QED BY <2>1, <2>2, <2>3
<1> QED BY <1>3

(* Lists joined hold the facts of both.                                    *)
LEMMA JoinFacts ==
    ASSUME NEW a \in [Lists -> Seq(Entry)], NEW b \in [Lists -> Seq(Entry)]
    PROVE  ListFacts([k \in Lists |-> a[k] \o b[k]]) = ListFacts(a) \cup ListFacts(b)
<1> DEFINE c == [k \in Lists |-> a[k] \o b[k]]
<1>1. \A k \in Lists : ToSet(c[k]) = ToSet(a[k]) \cup ToSet(b[k])
  BY ConcatToSet
<1> HIDE DEF c
<1>2. ASSUME NEW f PROVE f \in ListFacts(c) <=> f \in ListFacts(a) \cup ListFacts(b)
  <2>1. f \in ListFacts(c) <=> \E j \in Lists : \E x \in ToSet(c[j]) : f = Fact(x.ord, j, x.data)
    BY InListFacts
  <2>2. f \in ListFacts(a) <=> \E j \in Lists : \E x \in ToSet(a[j]) : f = Fact(x.ord, j, x.data)
    BY InListFacts
  <2>3. f \in ListFacts(b) <=> \E j \in Lists : \E x \in ToSet(b[j]) : f = Fact(x.ord, j, x.data)
    BY InListFacts
  <2> QED BY <1>1, <2>1, <2>2, <2>3
<1> QED BY <1>2 DEF c

(* The facts of a call that goes by other numbers, or keeps other          *)
(* preimages, are the same.                                                *)
SameRecord(c, d) ==
    /\ c.begin = d.begin /\ c.end = d.end /\ c.outcome = d.outcome /\ c.data = d.data
    /\ ListFacts(c.lists) = ListFacts(d.lists)

(* So a call that differs in its numbers or preimages alone has the same  *)
(* facts.                                                                 *)
LEMMA SameCallFacts ==
    ASSUME NEW c, NEW d, SameRecord(c, d)
    PROVE  CallFacts(c) = CallFacts(d)
BY DEF SameRecord, CallFacts

(* Calls changed one by one without changing their facts keep them.        *)
LEMMA SameCallsFacts ==
    ASSUME NEW s \in Seq(Call), NEW t \in Seq(Call), Len(s) = Len(t),
           \A i \in 1..Len(s) : SameRecord(s[i], t[i])
    PROVE  CallsFacts(s) = CallsFacts(t)
<1>1. DOMAIN s = DOMAIN t /\ DOMAIN s = 1..Len(s)
  OBVIOUS
<1>2. \A i \in DOMAIN s : CallFacts(s[i]) = CallFacts(t[i])
  BY <1>1, SameCallFacts
<1>3. \A f : f \in CallsFacts(s) <=> f \in CallsFacts(t)
  BY <1>1, <1>2, InCallsFacts
<1> QED BY <1>3

(* Calls in another order.                                                 *)
LEMMA SortedFacts ==
    ASSUME NEW s \in Seq(Call), NEW t \in Seq(Call),
           \A i \in 1..Len(s) : \E j \in 1..Len(t) : s[i] = t[j],
           \A j \in 1..Len(t) : \E i \in 1..Len(s) : s[i] = t[j]
    PROVE  CallsFacts(s) = CallsFacts(t)
<1>1. DOMAIN s = 1..Len(s) /\ DOMAIN t = 1..Len(t)
  OBVIOUS
<1>2. ASSUME NEW f, f \in CallsFacts(s) PROVE f \in CallsFacts(t)
  <2>1. PICK i \in 1..Len(s) : f \in CallFacts(s[i])
    BY <1>1, <1>2, InCallsFacts
  <2>2. PICK j \in 1..Len(t) : s[i] = t[j]
    OBVIOUS
  <2> QED BY <1>1, <2>1, <2>2, InCallsFacts
<1>3. ASSUME NEW f, f \in CallsFacts(t) PROVE f \in CallsFacts(s)
  <2>1. PICK j \in 1..Len(t) : f \in CallFacts(t[j])
    BY <1>1, <1>3, InCallsFacts
  <2>2. PICK i \in 1..Len(s) : s[i] = t[j]
    OBVIOUS
  <2> QED BY <1>1, <2>1, <2>2, InCallsFacts
<1> QED BY <1>2, <1>3

(* Calls joined, and one more.                                             *)
LEMMA JoinCallsFacts ==
    ASSUME NEW s \in Seq(Call), NEW t \in Seq(Call)
    PROVE  CallsFacts(s \o t) = CallsFacts(s) \cup CallsFacts(t)
<1>1. ToSet(s \o t) = ToSet(s) \cup ToSet(t)
  BY ConcatToSet
<1> HIDE DEF ToSet
<1> QED BY <1>1 DEF CallsFacts

(* A call more adds its facts to those of the calls before it.            *)
LEMMA OneMoreFacts ==
    ASSUME NEW s \in Seq(Call), NEW t \in Seq(Call), Len(t) = Len(s) + 1,
           \A i \in 1..Len(s) : t[i] = s[i]
    PROVE  CallsFacts(t) = CallsFacts(s) \cup CallFacts(t[Len(t)])
<1>1. DOMAIN s = 1..Len(s) /\ DOMAIN t = 1..Len(s) \cup {Len(t)} /\ Len(t) \notin 1..Len(s)
  OBVIOUS
<1>2. \A f : f \in CallsFacts(t) <=> f \in CallsFacts(s) \cup CallFacts(t[Len(t)])
  BY <1>1, InCallsFacts
<1> QED BY <1>2

(* The last call replaced by one that has its facts and maybe others.      *)
LEMMA ReplacedFacts ==
    ASSUME NEW s \in Seq(Call), NEW t \in Seq(Call), Len(t) = Len(s), NEW n \in 1..Len(s),
           \A i \in 1..Len(s) : i # n => t[i] = s[i], CallFacts(s[n]) \subseteq CallFacts(t[n])
    PROVE  CallsFacts(t) = CallsFacts(s) \cup CallFacts(t[n])
<1>1. DOMAIN s = 1..Len(s) /\ DOMAIN t = 1..Len(s)
  OBVIOUS
<1>2. \A f : f \in CallsFacts(t) <=> f \in CallsFacts(s) \cup CallFacts(t[n])
  BY <1>1, InCallsFacts
<1> QED BY <1>2
-----------------------------------------------------------------------------
(* The calls of a transaction that ends                                    *)

(* The passes of completeTransaction that leave the facts alone ...        *)
LEMMA AttachPreimagesFacts ==
    ASSUME NEW calls \in Seq(Call), NEW recorded \in Seq([call : Nat, data : Data])
    PROVE  CallsFacts(AttachPreimages(calls, recorded)) = CallsFacts(calls)
<1> DEFINE after == AttachPreimages(calls, recorded)
<1>1. after \in Seq(Call) /\ Len(after) = Len(calls)
  BY AttachPreimagesType
<1>2. ASSUME NEW i \in 1..Len(calls) PROVE SameRecord(after[i], calls[i])
  <2>1. calls[i] \in Call /\ DOMAIN calls = 1..Len(calls)
    OBVIOUS
  <2>2. CASE after = calls
    BY <2>2 DEF SameRecord
  <2>3. CASE after # calls
    <3> DEFINE p == calls[i].preimages \cup {r.data : r \in {s \in ToSet(recorded) : s.call = calls[i].index}}
    <3>1. after[i] = [calls[i] EXCEPT !.preimages = p]
      BY <2>1, <2>3 DEF AttachPreimages
    <3> HIDE DEF p, after
    <3> QED BY <2>1, <3>1 DEF Call, SameRecord
  <2> QED BY <2>2, <2>3
<1> HIDE DEF after
<1>3. CallsFacts(after) = CallsFacts(calls)
  BY <1>1, <1>2, SameCallsFacts
<1> QED BY <1>3 DEF after

(* ... among them the one that takes the block index off reverted logs,   *)
(* which alters neither their ordinals nor their data.                    *)
LEMMA RemoveLogBlockIndexFacts ==
    ASSUME NEW calls \in Seq(Call), NEW reverted
    PROVE  CallsFacts(RemoveLogBlockIndex(calls, reverted)) = CallsFacts(calls)
<1> DEFINE after == RemoveLogBlockIndex(calls, reverted)
<1>1. after \in Seq(Call) /\ Len(after) = Len(calls)
  BY RemoveLogBlockIndexType
<1>2. ASSUME NEW i \in 1..Len(calls) PROVE SameRecord(after[i], calls[i])
  <2> DEFINE c == calls[i]
             old == c.lists["log"]
             new == [j \in DOMAIN old |-> IF IsNeverRevertedLog(old[j]) THEN old[j]
                                          ELSE [old[j] EXCEPT !.blockIndex = 0]]
             lists == [c.lists EXCEPT !["log"] = new]
  <2>1. c \in Call /\ DOMAIN calls = 1..Len(calls) /\ c.lists \in [Lists -> Seq(Entry)]
    BY CallsType
  <2>2. CASE i \notin reverted
    BY <2>1, <2>2 DEF RemoveLogBlockIndex, SameRecord
  <2>3. CASE i \in reverted
    <3>1. after[i] = [c EXCEPT !.lists = lists]
      BY <2>1, <2>3 DEF RemoveLogBlockIndex
    <3>2. old \in Seq(Entry) /\ DOMAIN old = 1..Len(old)
      BY <2>1 DEF Lists
    <3>3. \A j \in DOMAIN old : old[j] \in Entry
      BY <3>2
    <3>4. DOMAIN new = DOMAIN old /\ \A j \in DOMAIN old : new[j].ord = old[j].ord /\ new[j].data = old[j].data
      BY <3>3 DEF Entry
    <3>5. lists["log"] = new /\ \A k \in Lists : k # "log" => lists[k] = c.lists[k]
      BY <2>1 DEF Lists
    <3> HIDE DEF lists, new, after
    <3>6. \A k \in Lists : DOMAIN lists[k] = DOMAIN c.lists[k]
             /\ \A j \in DOMAIN c.lists[k] : /\ lists[k][j].ord = c.lists[k][j].ord
                                             /\ lists[k][j].data = c.lists[k][j].data
      BY <3>4, <3>5
    <3> HIDE DEF old
    <3>7. ASSUME NEW f PROVE f \in ListFacts(lists) <=> f \in ListFacts(c.lists)
      <4>1. f \in ListFacts(lists) <=> \E k \in Lists : \E j \in DOMAIN lists[k] :
                                           f = Fact(lists[k][j].ord, k, lists[k][j].data)
        BY InListFacts DEF ToSet
      <4>2. f \in ListFacts(c.lists) <=> \E k \in Lists : \E j \in DOMAIN c.lists[k] :
                                           f = Fact(c.lists[k][j].ord, k, c.lists[k][j].data)
        BY InListFacts DEF ToSet
      <4> HIDE DEF c
      <4> QED BY <3>6, <4>1, <4>2
    <3>8. ListFacts(lists) = ListFacts(c.lists)
      BY <3>7
    <3> HIDE DEF c
    <3> QED BY <2>1, <3>1, <3>8 DEF Call, SameRecord, c
  <2> QED BY <2>2, <2>3
<1> HIDE DEF after
<1>3. CallsFacts(after) = CallsFacts(calls)
  BY <1>1, <1>2, SameCallsFacts
<1> QED BY <1>3 DEF after

(* ... and the one that adds what was still deferred to the root call.     *)
LEMMA RootedFacts ==
    ASSUME NEW calls \in Seq(Call), calls # <<>>, NEW deferred \in [Lists -> Seq(Entry)]
    PROVE  CallsFacts([calls EXCEPT ![1] = PopulateOnRoot(deferred, calls[1])])
             = CallsFacts(calls) \cup ListFacts(deferred)
<1> DEFINE c      == calls[1]
           lists  == [k \in Lists |-> c.lists[k] \o deferred[k]]
           root   == PopulateOnRoot(deferred, c)
           rooted == [calls EXCEPT ![1] = root]
<1>1. /\ rooted \in Seq(Call) /\ Len(rooted) = Len(calls) /\ 1 \in 1..Len(calls)
      /\ c \in Call /\ c.lists \in [Lists -> Seq(Entry)] /\ DOMAIN calls = 1..Len(calls)
  <2>1. 1 \in 1..Len(calls) /\ DOMAIN calls = 1..Len(calls)
    BY EmptySeq
  <2>2. c \in Call /\ c.lists \in [Lists -> Seq(Entry)]
    BY <2>1, CallsType
  <2>3. rooted \in Seq(Call) /\ Len(rooted) = Len(calls)
    BY RootedType
  <2> QED BY <2>1, <2>2, <2>3
<1>2. rooted[1] = root /\ \A i \in 1..Len(calls) : i # 1 => rooted[i] = calls[i]
  BY <1>1
<1>3. ListFacts(lists) = ListFacts(c.lists) \cup ListFacts(deferred)
  BY <1>1, JoinFacts
<1>4. root = [c EXCEPT !.lists = lists]
  BY DEF PopulateOnRoot
<1> HIDE DEF lists, root, rooted, c
<1>5. /\ root.begin = c.begin /\ root.end = c.end /\ root.outcome = c.outcome /\ root.data = c.data
      /\ root.lists = lists
  BY <1>1, <1>4 DEF Call
<1>6. CallFacts(root) = CallFacts(c) \cup ListFacts(deferred)
  BY <1>3, <1>5 DEF CallFacts
<1>7. CallsFacts(rooted) = CallsFacts(calls) \cup CallFacts(root)
  <2>1. CallFacts(calls[1]) \subseteq CallFacts(rooted[1])
    BY <1>2, <1>6 DEF c
  <2>2. \A i \in 1..Len(calls) : i # 1 => rooted[i] = calls[i]
    BY <1>2
  <2>3. rooted \in Seq(Call) /\ Len(rooted) = Len(calls) /\ 1 \in 1..Len(calls)
    BY <1>1
  <2>4. CallsFacts(rooted) = CallsFacts(calls) \cup CallFacts(rooted[1])
    BY <2>1, <2>2, <2>3, ReplacedFacts, SMTT(30)
  <2> QED BY <1>2, <2>4
<1>8. CallFacts(c) \subseteq CallsFacts(calls)
  BY <1>1, InCallsFacts DEF c
<1> QED BY <1>6, <1>7, <1>8 DEF rooted, root, c

(* So a transaction that ends keeps its facts, those deferred included.    *)
LEMMA CompleteCallsFacts ==
    ASSUME StateOK(cur), cur.trx.calls # <<>>
    PROVE  CallsFacts(CompleteCalls) = CallsFacts(cur.trx.calls) \cup ListFacts(cur.deferred)
<1> DEFINE calls  == cur.trx.calls
           n      == Len(calls)
           sorted == SortedByIndex(calls)
           rooted == [sorted EXCEPT ![1] = PopulateOnRoot(cur.deferred, sorted[1])]
<1>1. /\ calls \in Seq(Call) /\ n \in Nat
      /\ \A i, j \in 1..n : calls[i].index = calls[j].index => i = j
      /\ cur.deferred \in [Lists -> Seq(Entry)]
      /\ cur.preimages \in Seq([call : Nat, data : Data])
  <2>1. calls \in Seq(Call) /\ n \in Nat
    BY AllLogsType
  <2>2. Numbered(cur.trx, cur.callStack)
    BY StateParts
  <2> QED BY <2>1, <2>2, StateParts DEF Numbered
<1>2. /\ sorted \in Seq(Call) /\ Len(sorted) = n
      /\ \A i \in 1..n : \E j \in 1..n : sorted[i] = calls[j]
      /\ \A j \in 1..n : \E i \in 1..n : sorted[i] = calls[j]
  BY <1>1, SortedByIndexType
<1>3. sorted # <<>>
  BY <1>1, <1>2, EmptySeq
<1>4. CompleteCalls = AttachPreimages(rooted, cur.preimages)
  BY DEF CompleteCalls
<1> HIDE DEF sorted
<1>5. CallsFacts(sorted) = CallsFacts(calls)
  <2>1. /\ \A i \in 1..Len(sorted) : \E j \in 1..Len(calls) : sorted[i] = calls[j]
        /\ \A j \in 1..Len(calls) : \E i \in 1..Len(sorted) : sorted[i] = calls[j]
    BY <1>2
  <2> HIDE DEF calls, n
  <2> QED BY <1>1, <1>2, <2>1, SortedFacts
<1>6. rooted \in Seq(Call) /\ CallsFacts(rooted) = CallsFacts(sorted) \cup ListFacts(cur.deferred)
  BY <1>1, <1>2, <1>3, RootedType, RootedFacts
<1> HIDE DEF rooted, calls, n
<1>7. CallsFacts(AttachPreimages(rooted, cur.preimages)) = CallsFacts(rooted)
  BY <1>1, <1>6, AttachPreimagesFacts
<1> QED BY <1>4, <1>5, <1>6, <1>7 DEF calls

(* The data of the facts that begin and end a transaction.                 *)
TrxData(id) == [by |-> id, sys |-> FALSE, frame |-> 0]

(* completeTransaction keeps the facts of the transaction and adds its    *)
(* end; what was deferred goes with it only if it has calls.              *)
LEMMA CompleteTransactionFacts ==
    ASSUME StateOK(cur), ordinal \in Nat, NEW receipt
    PROVE  LET kept  == IF cur.trx.calls = <<>> THEN {} ELSE ListFacts(cur.deferred)
               end   == Fact(ordinal + 1, "end", TrxData(cur.trx.id))
               facts == TrxFacts(CompleteTransaction(receipt))
           IN  /\ facts \subseteq TrxFacts(cur.trx) \cup kept \cup {end}
               /\ cur.trx.end = 0 => facts = TrxFacts(cur.trx) \cup kept \cup {end}
<1> DEFINE end == ordinal + 1
           trx == CompleteTransaction(receipt)
<1>1. cur.trx \in Trx /\ end \in Nat /\ end # 0
  BY StateParts
<1>2. trx.id = cur.trx.id /\ trx.begin = cur.trx.begin /\ trx.end = end
  <2>1. CASE cur.trx.calls = <<>>
    BY <1>1, <2>1 DEF CompleteTransaction, Trx
  <2>2. CASE cur.trx.calls # <<>>
    BY <1>1, <2>2 DEF CompleteTransaction, Trx
  <2> QED BY <2>1, <2>2
<1>3. CallsFacts(trx.calls) = CallsFacts(cur.trx.calls)
                              \cup (IF cur.trx.calls = <<>> THEN {} ELSE ListFacts(cur.deferred))
  <2>1. CASE cur.trx.calls = <<>>
    BY <1>1, <2>1 DEF CompleteTransaction, Trx
  <2>2. CASE cur.trx.calls # <<>>
    <3>1. trx.calls = RemoveLogBlockIndex(CompleteCalls, StateReverted(CompleteCalls))
      BY <1>1, <2>2 DEF CompleteTransaction, Trx
    <3>2. CompleteCalls \in Seq(Call)
      BY <2>2, CompleteCallsType
    <3> QED BY <2>2, <3>1, <3>2, CompleteCallsFacts, RemoveLogBlockIndexFacts
  <2> QED BY <2>1, <2>2
<1> HIDE DEF trx, end
<1>4. TrxFacts(trx) = CallsFacts(trx.calls)
          \cup (IF trx.begin = 0 THEN {} ELSE {Fact(trx.begin, "begin", TrxData(trx.id))})
          \cup (IF trx.end = 0 THEN {} ELSE {Fact(trx.end, "end", TrxData(trx.id))})
  BY DEF TrxFacts, TrxData
<1>5. TrxFacts(cur.trx) = CallsFacts(cur.trx.calls)
          \cup (IF cur.trx.begin = 0 THEN {} ELSE {Fact(cur.trx.begin, "begin", TrxData(cur.trx.id))})
          \cup (IF cur.trx.end = 0 THEN {} ELSE {Fact(cur.trx.end, "end", TrxData(cur.trx.id))})
  BY DEF TrxFacts, TrxData
<1> DEFINE kept  == IF cur.trx.calls = <<>> THEN {} ELSE ListFacts(cur.deferred)
           fact  == Fact(end, "end", TrxData(cur.trx.id))
<1>6. /\ TrxFacts(trx) \subseteq TrxFacts(cur.trx) \cup kept \cup {fact}
      /\ cur.trx.end = 0 => TrxFacts(trx) = TrxFacts(cur.trx) \cup kept \cup {fact}
  BY <1>1, <1>2, <1>3, <1>4, <1>5
<1> QED BY <1>6 DEF trx, end
-----------------------------------------------------------------------------
(* The hooks                                                               *)

(* What is in the block, and what is set aside.                            *)
BlockFacts(b) ==
    (UNION {TrxFacts(trx) : trx \in ToSet(b.traces)})
      \cup CallsFacts(b.systemCalls) \cup ListFacts(b.changes)

AsideFacts(s) == UNION {StateFacts(t) : t \in ToSet(s)}

(* So what is recorded, before and after a step, has three parts.         *)
LEMMA FactParts ==
    /\ RecordedFacts = BlockFacts(block) \cup StateFacts(cur) \cup AsideFacts(interrupted)
    /\ RecordedFacts' = BlockFacts(block') \cup StateFacts(cur') \cup AsideFacts(interrupted')
<1>1. RecordedFacts = BlockFacts(block) \cup StateFacts(cur) \cup AsideFacts(interrupted)
  BY DEF RecordedFacts, BlockFacts, AsideFacts
<1>2. RecordedFacts' = BlockFacts(block') \cup StateFacts(cur') \cup AsideFacts(interrupted')
  BY DEF RecordedFacts, BlockFacts, AsideFacts, StateFacts, TrxFacts, CallsFacts, CallFacts,
         ListFacts, Fact, ToSet
<1> QED BY <1>1, <1>2

(* A new tracer, transaction or block holds nothing.                       *)
LEMMA NothingRecorded ==
    /\ StateFacts(FreshState) = {} /\ AsideFacts(<<>>) = {}
    /\ BlockFacts(NoBlock) = {} /\ BlockFacts([NoBlock EXCEPT !.open = TRUE]) = {}
    /\ TrxFacts(NoTrx) = {} /\ TrxFacts([NoTrx EXCEPT !.open = TRUE]) = {}
<1>1. TrxFacts(NoTrx) = {} /\ TrxFacts([NoTrx EXCEPT !.open = TRUE]) = {}
  BY NoFacts DEF TrxFacts, NoTrx
<1>2. StateFacts(FreshState) = {}
  BY <1>1, NoFacts DEF StateFacts, FreshState, NewCallStack
<1>3. ToSet(<<>>) = {}
  BY DEF ToSet
<1>4. AsideFacts(<<>>) = {}
  BY <1>3 DEF AsideFacts
<1>5. BlockFacts(NoBlock) = {} /\ BlockFacts([NoBlock EXCEPT !.open = TRUE]) = {}
  BY <1>3, NoFacts DEF BlockFacts, NoBlock
<1> QED BY <1>1, <1>2, <1>4, <1>5

(* A hook that records nothing.                                            *)
LEMMA QuietFacts ==
    ASSUME UNCHANGED <<block, interrupted>>, StateFacts(cur') = StateFacts(cur)
    PROVE  RecordedFacts' = RecordedFacts
BY FactParts

(* A hook that panics records nothing.                                    *)
LEMMA PanicFacts ==
    ASSUME Panic \/ UNCHANGED tracerVars
    PROVE  RecordedFacts' = RecordedFacts
BY QuietFacts DEF Panic, tracerVars

(* The end of a block, and of its facts.                                   *)
LEMMA ResetFacts ==
    ASSUME ResetBlock, ResetTransaction
    PROVE  RecordedFacts' = {}
BY FactParts, NothingRecorded DEF ResetBlock, ResetTransaction

(* OnBlockStart: a new block holds nothing, the transaction stays.        *)
LEMMA OnBlockStartFacts ==
    ASSUME OnBlockStart
    PROVE  /\ RecordedFacts' \subseteq RecordedFacts
           /\ block = NoBlock => RecordedFacts' = RecordedFacts
BY FactParts, NothingRecorded DEF OnBlockStart

(* OnTxStart.                                                              *)
LEMMA OnTxStartFacts ==
    ASSUME TracerOK, NEW id, ~InTrx, ordinal' = ordinal + 1, UNCHANGED <<block, interrupted>>,
           cur' = [cur EXCEPT !.trx = [NoTrx EXCEPT !.open = TRUE, !.id = id, !.begin = ordinal + 1]]
    PROVE  LET begin == Fact(ordinal + 1, "begin", TrxData(id))
           IN  /\ RecordedFacts' \subseteq RecordedFacts \cup {begin}
               /\ StateFacts(cur') \subseteq StateFacts(cur) \cup {begin}
               /\ TrxFacts(cur.trx) = {} => RecordedFacts' = RecordedFacts \cup {begin}
<1> DEFINE trx   == [NoTrx EXCEPT !.open = TRUE, !.id = id, !.begin = ordinal + 1]
           begin == Fact(ordinal + 1, "begin", TrxData(id))
<1>1. cur \in TrxState /\ ordinal \in Nat
  BY StateParts DEF TracerOK, HooksOK
<1>2. TrxFacts(trx) = {begin}
  BY <1>1, NoFacts DEF TrxFacts, NoTrx, TrxData
<1> HIDE DEF trx, begin
<1>3. cur'.trx = trx /\ cur'.callStack = cur.callStack /\ cur'.deferred = cur.deferred
  BY <1>1 DEF TrxState, trx
<1>4. /\ StateFacts(cur') = {begin} \cup CallsFacts(cur.callStack.stack) \cup ListFacts(cur.deferred)
      /\ StateFacts(cur) = TrxFacts(cur.trx) \cup CallsFacts(cur.callStack.stack) \cup ListFacts(cur.deferred)
  BY <1>2, <1>3 DEF StateFacts
<1> QED BY <1>4, FactParts DEF begin

(* OnTxEnd, of a transaction that is not dropped: the facts go to the      *)
(* block.  Dropped, they go with the transaction.                          *)
LEMMA OnTxEndFacts ==
    ASSUME TracerOK, NEW receipt \in Receipts, ordinal' = ordinal + 1,
           block' = [block EXCEPT !.traces = Append(@, CompleteTransaction(receipt))],
           cur' = FreshState, interrupted' = interrupted
    PROVE  LET end == Fact(ordinal + 1, "end", TrxData(cur.trx.id))
           IN  /\ RecordedFacts' \subseteq RecordedFacts \cup {end}
               /\ BlockFacts(block') \subseteq BlockFacts(block) \cup StateFacts(cur) \cup {end}
               /\ cur.trx.end = 0 /\ ~HasActiveCall(cur.callStack)
                    /\ (cur.trx.calls # <<>> \/ ListFacts(cur.deferred) = {})
                  => RecordedFacts' = RecordedFacts \cup {end}
<1> DEFINE trx  == CompleteTransaction(receipt)
           end  == Fact(ordinal + 1, "end", TrxData(cur.trx.id))
           kept == IF cur.trx.calls = <<>> THEN {} ELSE ListFacts(cur.deferred)
<1>1. StateOK(cur) /\ ordinal \in Nat /\ block \in Blocks
  BY DEF TracerOK, HooksOK
<1>2. /\ TrxFacts(trx) \subseteq TrxFacts(cur.trx) \cup kept \cup {end}
      /\ cur.trx.end = 0 => TrxFacts(trx) = TrxFacts(cur.trx) \cup kept \cup {end}
  BY <1>1, CompleteTransactionFacts
<1> HIDE DEF trx, end
<1>3. BlockFacts(block') = BlockFacts(block) \cup TrxFacts(trx)
  <2>1. block.traces \in Seq(Trx)
    BY <1>1 DEF Blocks
  <2>2. ToSet(Append(block.traces, trx)) = ToSet(block.traces) \cup {trx}
    BY <2>1, AppendToSet
  <2>3. /\ block'.traces = Append(block.traces, trx)
        /\ block'.systemCalls = block.systemCalls /\ block'.changes = block.changes
    BY <1>1 DEF Blocks, trx
  <2> QED BY <2>2, <2>3 DEF BlockFacts
<1>4. StateFacts(cur) = TrxFacts(cur.trx) \cup CallsFacts(cur.callStack.stack) \cup ListFacts(cur.deferred)
  BY DEF StateFacts
<1>5. RecordedFacts' = BlockFacts(block) \cup TrxFacts(trx) \cup AsideFacts(interrupted)
  BY <1>3, FactParts, NothingRecorded
<1>6. ~HasActiveCall(cur.callStack) => CallsFacts(cur.callStack.stack) = {}
  BY NoFacts DEF HasActiveCall
<1> QED BY <1>2, <1>3, <1>4, <1>5, <1>6, FactParts DEF end

(* A transaction that is dropped leaves what the block and those set      *)
(* aside hold.                                                            *)
LEMMA DroppedFacts ==
    ASSUME cur' = FreshState, UNCHANGED <<block, interrupted>>
    PROVE  RecordedFacts' = BlockFacts(block) \cup AsideFacts(interrupted)
BY FactParts, NothingRecorded

(* OnSystemCallStart: what was recorded so far is set aside.               *)
LEMMA OnSystemCallStartFacts ==
    ASSUME TracerOK, UNCHANGED block,
           interrupted' = IF InTrx THEN <<cur>> ELSE interrupted,
           cur' = [(IF InTrx THEN FreshState ELSE cur) EXCEPT !.trx = [NoTrx EXCEPT !.open = TRUE]]
    PROVE  /\ RecordedFacts' \subseteq RecordedFacts
           /\ StateFacts(cur') \subseteq (IF InTrx THEN {} ELSE StateFacts(cur))
           /\ (IF InTrx THEN interrupted = <<>> ELSE TrxFacts(cur.trx) = {})
                => RecordedFacts' = RecordedFacts
<1> DEFINE trx == [NoTrx EXCEPT !.open = TRUE]
<1>1. cur \in TrxState /\ TrxFacts(trx) = {}
  BY StateParts, NothingRecorded DEF TracerOK, HooksOK
<1> HIDE DEF trx
<1>2. CASE InTrx
  <2>1. cur' = [FreshState EXCEPT !.trx = trx] /\ interrupted' = <<cur>>
    BY <1>2 DEF trx
  <2>2. /\ cur'.trx = trx /\ cur'.callStack.stack = <<>> /\ cur'.deferred = NoEntries
    BY <2>1 DEF FreshState, NewCallStack
  <2>3. StateFacts(cur') = {}
    BY <1>1, <2>2, NoFacts DEF StateFacts
  <2>4. ToSet(<<cur>>) = {cur}
    BY DEF ToSet
  <2>5. AsideFacts(interrupted') = StateFacts(cur)
    BY <2>1, <2>4 DEF AsideFacts
  <2> QED BY <1>2, <2>3, <2>5, FactParts, NothingRecorded
<1>3. CASE ~InTrx
  <2>1. cur' = [cur EXCEPT !.trx = trx] /\ interrupted' = interrupted
    BY <1>3 DEF trx
  <2>2. cur'.trx = trx /\ cur'.callStack = cur.callStack /\ cur'.deferred = cur.deferred
    BY <1>1, <2>1 DEF TrxState
  <2>3. /\ StateFacts(cur') = CallsFacts(cur.callStack.stack) \cup ListFacts(cur.deferred)
        /\ StateFacts(cur) = TrxFacts(cur.trx) \cup CallsFacts(cur.callStack.stack) \cup ListFacts(cur.deferred)
    BY <1>1, <2>2 DEF StateFacts
  <2> QED BY <1>3, <2>1, <2>3, FactParts
<1> QED BY <1>2, <1>3

(* OnSystemCallEnd: the calls go to the block, what was set aside comes    *)
(* back.                                                                   *)
LEMMA OnSystemCallEndFacts ==
    ASSUME TracerOK,
           block' = [block EXCEPT !.systemCalls = @ \o AttachPreimages(cur.trx.calls, cur.preimages)],
           cur' = IF interrupted = <<>> THEN FreshState ELSE interrupted[1],
           interrupted' = <<>>
    PROVE  /\ RecordedFacts' \subseteq RecordedFacts
           /\ BlockFacts(block') \subseteq BlockFacts(block) \cup StateFacts(cur)
           /\ cur.trx.begin = 0 /\ cur.trx.end = 0 /\ ~HasActiveCall(cur.callStack)
                /\ ListFacts(cur.deferred) = {}
              => RecordedFacts' = RecordedFacts
<1> DEFINE calls == AttachPreimages(cur.trx.calls, cur.preimages)
<1>1. /\ StateOK(cur) /\ block \in Blocks /\ interrupted \in Seq(TrxState) /\ Len(interrupted) <= 1
  BY DEF TracerOK, HooksOK
<1>2. calls \in Seq(Call) /\ CallsFacts(calls) = CallsFacts(cur.trx.calls)
  BY <1>1, AllLogsType, StateParts, AttachPreimagesType, AttachPreimagesFacts
<1> HIDE DEF calls
<1>3. BlockFacts(block') = BlockFacts(block) \cup CallsFacts(cur.trx.calls)
  <2>1. block.systemCalls \in Seq(Call)
    BY <1>1 DEF Blocks
  <2>2. CallsFacts(block.systemCalls \o calls) = CallsFacts(block.systemCalls) \cup CallsFacts(calls)
    BY <1>2, <2>1, JoinCallsFacts
  <2>3. /\ block'.systemCalls = block.systemCalls \o calls
        /\ block'.traces = block.traces /\ block'.changes = block.changes
    BY <1>1 DEF Blocks, calls
  <2> QED BY <1>2, <2>2, <2>3 DEF BlockFacts
<1>4. StateFacts(cur') = AsideFacts(interrupted)
  <2>1. CASE interrupted = <<>>
    BY <2>1, NothingRecorded
  <2>2. CASE interrupted # <<>>
    <3>1. DOMAIN interrupted = {1}
      <4>1. DOMAIN interrupted = 1..Len(interrupted) /\ Len(interrupted) = 1
        <5>1. Len(interrupted) \in Nat /\ DOMAIN interrupted = 1..Len(interrupted)
          BY <1>1
        <5>2. Len(interrupted) # 0
          BY <1>1, <2>2, EmptySeq
        <5> QED BY <1>1, <5>1, <5>2
      <4>2. 1..1 = {1}
        OBVIOUS
      <4> QED BY <4>1, <4>2
    <3>2. ToSet(interrupted) = {interrupted[1]}
      BY <3>1 DEF ToSet
    <3> QED BY <2>2, <3>2 DEF AsideFacts
  <2> QED BY <2>1, <2>2
<1>5. RecordedFacts' = BlockFacts(block) \cup CallsFacts(cur.trx.calls) \cup AsideFacts(interrupted)
  BY <1>3, <1>4, FactParts, NothingRecorded
<1>6. StateFacts(cur) = TrxFacts(cur.trx) \cup CallsFacts(cur.callStack.stack) \cup ListFacts(cur.deferred)
  BY DEF StateFacts
<1>7. /\ CallsFacts(cur.trx.calls) \subseteq TrxFacts(cur.trx)
      /\ cur.trx.begin = 0 /\ cur.trx.end = 0 => CallsFacts(cur.trx.calls) = TrxFacts(cur.trx)
  BY DEF TrxFacts
<1>8. ~HasActiveCall(cur.callStack) => CallsFacts(cur.callStack.stack) = {}
  BY NoFacts DEF HasActiveCall
<1> QED BY <1>3, <1>5, <1>6, <1>7, <1>8, FactParts

(* OnCallEnter.                                                            *)
LEMMA OnCallEnterFacts ==
    ASSUME TracerOK, NEW depth, NEW d \in Data, OnCallEnter(depth, d)
    PROVE  /\ RecordedFacts' = RecordedFacts \cup {Fact(ordinal + 1, "enter", d)}
           /\ StateFacts(cur') = StateFacts(cur) \cup {Fact(ordinal + 1, "enter", d)}
<1> DEFINE fact == Fact(ordinal + 1, "enter", d)
           call == NewCall(ordinal + 1, d)
           root == PopulateOnEnter(cur.deferred, call)
           cs   == cur.callStack
<1>1. /\ StateOK(cur) /\ cur \in TrxState /\ ordinal \in Nat /\ BranchOK(cs) /\ cs.stack \in Seq(Call)
      /\ cur.deferred \in [Lists -> Seq(Entry)]
  BY StateParts, AllLogsType DEF TracerOK, HooksOK
<1>2. call \in Call /\ root \in Call
  BY <1>1, NewCallType, PopulateType
<1>3. CallFacts(call) = {fact}
  BY NoFacts DEF CallFacts, NewCall
<1>4. CallFacts(root) = {fact} \cup ListFacts(cur.deferred)
  <2> DEFINE lists == [k \in Lists |-> cur.deferred[k] \o call.lists[k]]
  <2>1. call.lists = NoEntries /\ NoEntries \in [Lists -> Seq(Entry)]
    BY ListsType DEF NewCall
  <2>2. ListFacts(lists) = ListFacts(cur.deferred) \cup ListFacts(call.lists)
    BY <1>1, <2>1, JoinFacts
  <2>3. root = [call EXCEPT !.lists = lists]
    BY DEF PopulateOnEnter
  <2>4. call.begin = ordinal + 1 /\ call.data = d /\ call.outcome = "open"
    BY DEF NewCall
  <2> HIDE DEF lists, root, call
  <2>5. /\ root.begin = call.begin /\ root.end = call.end /\ root.outcome = call.outcome
        /\ root.data = call.data /\ root.lists = lists
    BY <1>2, <2>3 DEF Call
  <2> QED BY <2>1, <2>2, <2>4, <2>5, NoFacts DEF CallFacts
<1> HIDE DEF call, root, fact
<1>5. ASSUME NEW c \in Call
      PROVE  CallsFacts(Push(cs, c).stack) = CallsFacts(cs.stack) \cup CallFacts(c)
  <2> DEFINE after  == Push(cs, c).stack
             n      == Len(cs.stack)
             parent == IF HasActiveCall(cs) THEN Peek(cs).index ELSE 0
             pushed == [c EXCEPT !.index = cs.index + 1, !.depth = cs.depth, !.parent = parent]
  <2>1. /\ BranchOK(Push(cs, c)) /\ Len(after) = n + 1 /\ n \in Nat
        /\ \A i \in 1..n : after[i] = cs.stack[i]
    <3>1. n \in Nat
      BY <1>1
    <3> HIDE DEF cs
    <3> QED BY <1>1, <3>1, PushBranch
  <2>2. after \in Seq(Call)
    BY <2>1 DEF BranchOK, CallStack
  <2>3. after = Append(cs.stack, pushed)
    BY DEF Push
  <2> HIDE DEF pushed, after
  <2>4. after[n + 1] = pushed
    BY <1>1, <2>3
  <2>5. SameRecord(pushed, c)
    BY DEF Call, SameRecord, pushed
  <2>6. CallsFacts(after) = CallsFacts(cs.stack) \cup CallFacts(after[Len(after)])
    BY <1>1, <2>1, <2>2, OneMoreFacts
  <2> QED BY <2>1, <2>4, <2>5, <2>6, SameCallFacts DEF after
<1>6. /\ ordinal' = ordinal + 1 /\ UNCHANGED <<block, interrupted>>
      /\ cur' = IF depth = 0
                THEN [cur EXCEPT !.callStack = Push(cs, root), !.deferred = NoEntries]
                ELSE [cur EXCEPT !.callStack = Push(cs, call)]
  BY DEF OnCallEnter, root, call
<1> HIDE DEF cs
<1>7. StateFacts(cur') = StateFacts(cur) \cup {fact}
  <2>1. StateFacts(cur) = TrxFacts(cur.trx) \cup CallsFacts(cs.stack) \cup ListFacts(cur.deferred)
    BY DEF StateFacts, cs
  <2>2. CASE depth = 0
    <3>1. cur'.trx = cur.trx /\ cur'.callStack = Push(cs, root) /\ cur'.deferred = NoEntries
      BY <1>1, <1>6, <2>2 DEF TrxState
    <3>2. StateFacts(cur') = TrxFacts(cur.trx) \cup CallsFacts(Push(cs, root).stack) \cup ListFacts(NoEntries)
      BY <3>1 DEF StateFacts
    <3> QED BY <1>2, <1>4, <1>5, <2>1, <3>2, NoFacts
  <2>3. CASE depth # 0
    <3>1. cur'.trx = cur.trx /\ cur'.callStack = Push(cs, call) /\ cur'.deferred = cur.deferred
      BY <1>1, <1>6, <2>3 DEF TrxState
    <3>2. StateFacts(cur') = TrxFacts(cur.trx) \cup CallsFacts(Push(cs, call).stack) \cup ListFacts(cur.deferred)
      BY <3>1 DEF StateFacts
    <3> QED BY <1>2, <1>3, <1>5, <2>1, <3>2
  <2> QED BY <2>2, <2>3
<1> QED BY <1>6, <1>7, FactParts DEF fact

(* OnCallExit: the call goes with its facts to those that have ended.      *)
LEMMA OnCallExitFacts ==
    ASSUME TracerOK, HasActiveCall(cur.callStack), NEW outcome \in Outcomes \ {"open"},
           ordinal' = ordinal + 1, UNCHANGED <<block, interrupted>>,
           cur' = [cur EXCEPT !.callStack = Pop(@),
                              !.trx.calls = Append(@, [Peek(cur.callStack) EXCEPT !.outcome = outcome,
                                                                                 !.end = ordinal + 1])]
    PROVE  LET exit == Fact(ordinal + 1, "exit", Peek(cur.callStack).data)
           IN  /\ RecordedFacts' \subseteq RecordedFacts \cup {exit}
               /\ StateFacts(cur') \subseteq StateFacts(cur) \cup {exit}
               /\ Peek(cur.callStack).outcome = "open" => RecordedFacts' = RecordedFacts \cup {exit}
<1> DEFINE cs    == cur.callStack
           n     == Len(cs.stack)
           after == Pop(cs)
           call  == [Peek(cs) EXCEPT !.outcome = outcome, !.end = ordinal + 1]
           calls == Append(cur.trx.calls, call)
           exit  == Fact(ordinal + 1, "exit", Peek(cs).data)
<1>1. /\ StateOK(cur) /\ cur \in TrxState /\ cur.trx \in Trx /\ cs \in CallStack /\ BranchOK(cs)
      /\ ordinal \in Nat /\ cur.trx.calls \in Seq(Call) /\ cs.stack \in Seq(Call)
  BY StateParts, AllLogsType DEF TracerOK, HooksOK, StateOK
<1>2. Peek(cs) \in Call /\ n \in Nat /\ n >= 1 /\ Peek(cs) = cs.stack[n]
  BY <1>1, PeekType
<1>3. call \in Call /\ CallFacts(call) \subseteq CallFacts(Peek(cs)) \cup {exit}
      /\ (Peek(cs).outcome = "open" => CallFacts(call) = CallFacts(Peek(cs)) \cup {exit})
  <2> DEFINE c == Peek(cs)
  <2> HIDE DEF c
  <2>1. [c EXCEPT !.outcome = outcome, !.end = ordinal + 1] \in Call
    <3>1. ordinal + 1 \in Nat /\ outcome \in Outcomes /\ c \in Call
      BY <1>1, <1>2 DEF c
    <3> QED BY <3>1 DEF Call
  <2> DEFINE d == [c EXCEPT !.outcome = outcome, !.end = ordinal + 1]
  <2>2. /\ d.begin = c.begin /\ d.data = c.data /\ d.lists = c.lists
        /\ d.outcome = outcome /\ d.end = ordinal + 1 /\ outcome # "open"
    BY <1>2 DEF Call, c
  <2> HIDE DEF d
  <2>3. /\ CallFacts(d) \subseteq CallFacts(c) \cup {Fact(ordinal + 1, "exit", c.data)}
        /\ c.outcome = "open" => CallFacts(d) = CallFacts(c) \cup {Fact(ordinal + 1, "exit", c.data)}
    BY <2>2 DEF CallFacts
  <2> QED BY <2>1, <2>3 DEF c, d
<1>4. after.stack \in Seq(Call) /\ Len(after.stack) = n - 1
      /\ \A i \in 1..(n - 1) : after.stack[i] = cs.stack[i]
  BY <1>1, PopBranch DEF BranchOK, CallStack
<1> HIDE DEF after, call, exit
<1>5. CallsFacts(cs.stack) = CallsFacts(after.stack) \cup CallFacts(Peek(cs))
  <2>1. /\ Len(cs.stack) = Len(after.stack) + 1
        /\ \A i \in 1..Len(after.stack) : cs.stack[i] = after.stack[i]
    BY <1>2, <1>4
  <2> HIDE DEF cs
  <2>2. CallsFacts(cs.stack) = CallsFacts(after.stack) \cup CallFacts(cs.stack[Len(cs.stack)])
    BY <1>1, <1>4, <2>1, OneMoreFacts
  <2> QED BY <1>2, <2>2
<1>6. CallsFacts(calls) = CallsFacts(cur.trx.calls) \cup CallFacts(call)
  <2>1. ToSet(calls) = ToSet(cur.trx.calls) \cup {call}
    BY <1>1, AppendToSet
  <2> QED BY <2>1 DEF CallsFacts
<1> DEFINE trx == [cur.trx EXCEPT !.calls = calls]
<1>7. trx.calls = calls /\ trx.id = cur.trx.id /\ trx.begin = cur.trx.begin /\ trx.end = cur.trx.end
  BY <1>1 DEF Trx
<1>8. cur' = [cur EXCEPT !.callStack = after, !.trx = trx]
  BY <1>1 DEF after, call, TrxState, Trx
<1> HIDE DEF calls, trx, cs, n
<1>9. cur'.trx = trx /\ cur'.callStack = after /\ cur'.deferred = cur.deferred
  BY <1>1, <1>8 DEF TrxState
<1>10. StateFacts(cur') = TrxFacts(trx) \cup CallsFacts(after.stack) \cup ListFacts(cur.deferred)
  BY <1>9 DEF StateFacts
<1>11. TrxFacts(trx) = TrxFacts(cur.trx) \cup CallFacts(call)
  BY <1>6, <1>7 DEF TrxFacts
<1>12. StateFacts(cur) = TrxFacts(cur.trx) \cup CallsFacts(cs.stack) \cup ListFacts(cur.deferred)
  BY DEF StateFacts, cs
<1>13. /\ StateFacts(cur') \subseteq StateFacts(cur) \cup {exit}
       /\ Peek(cs).outcome = "open" => StateFacts(cur') = StateFacts(cur) \cup {exit}
  BY <1>3, <1>5, <1>10, <1>11, <1>12
<1> QED BY <1>13, FactParts DEF exit, cs

(* An entry attached to the active call, or deferred.                      *)
LEMMA AttachedFacts ==
    ASSUME StateOK(cur), NEW k \in Lists, NEW e \in Entry
    PROVE  StateFacts(Attached(k, e)) = StateFacts(cur) \cup {Fact(e.ord, k, e.data)}
<1> DEFINE cs   == cur.callStack
           fact == Fact(e.ord, k, e.data)
<1>1. /\ cur \in TrxState /\ cs \in CallStack /\ BranchOK(cs)
      /\ cur.deferred \in [Lists -> Seq(Entry)]
  BY StateParts
<1>2. StateFacts(cur) = TrxFacts(cur.trx) \cup CallsFacts(cs.stack) \cup ListFacts(cur.deferred)
  BY DEF StateFacts
<1>3. CASE HasActiveCall(cs)
  <2> DEFINE n     == Len(cs.stack)
             lists == Add(Peek(cs).lists, k, e)
             call  == [Peek(cs) EXCEPT !.lists = lists]
             after == OnTop(cs, call)
  <2>1. Peek(cs) \in Call /\ n \in 1..n /\ Peek(cs) = cs.stack[n] /\ cs.stack \in Seq(Call)
    BY <1>1, <1>3, PeekType DEF CallStack
  <2>2. Peek(cs).lists \in [Lists -> Seq(Entry)]
    BY <2>1 DEF Call
  <2>3. lists \in [Lists -> Seq(Entry)] /\ ListFacts(lists) = ListFacts(Peek(cs).lists) \cup {fact}
    BY <2>2, ListsType, AddFacts
  <2>4. Attached(k, e) = [cur EXCEPT !.callStack = after]
    BY <1>3 DEF Attached
  <2> HIDE DEF lists
  <2>5. /\ call \in Call /\ call.lists = lists /\ call.begin = Peek(cs).begin /\ call.end = Peek(cs).end
        /\ call.outcome = Peek(cs).outcome /\ call.data = Peek(cs).data
        /\ call.index = Peek(cs).index /\ call.depth = Peek(cs).depth
        /\ call.parent = Peek(cs).parent
    BY <2>1, <2>3 DEF Call
  <2> HIDE DEF call, cs, fact
  <2>6. CallFacts(call) = CallFacts(Peek(cs)) \cup {fact}
    BY <2>3, <2>5 DEF CallFacts
  <2>7. /\ Len(after.stack) = n /\ after.stack \in Seq(Call)
        /\ \A i \in 1..n : after.stack[i] = IF i = n THEN call ELSE cs.stack[i]
    BY <1>1, <1>3, <2>5, OnTopBranch DEF BranchOK, CallStack
  <2> HIDE DEF after
  <2>8. CallsFacts(after.stack) = CallsFacts(cs.stack) \cup CallFacts(call)
    BY <2>1, <2>6, <2>7, ReplacedFacts, SMTT(60)
  <2>9. CallFacts(Peek(cs)) \subseteq CallsFacts(cs.stack)
    BY <2>1, InCallsFacts
  <2>10. /\ Attached(k, e).trx = cur.trx /\ Attached(k, e).callStack = after
         /\ Attached(k, e).deferred = cur.deferred
    BY <1>1, <2>4 DEF TrxState
  <2> QED BY <1>2, <2>6, <2>8, <2>9, <2>10 DEF StateFacts, fact
<1>4. CASE ~HasActiveCall(cs)
  <2> DEFINE d == Add(cur.deferred, k, e)
  <2>1. ListFacts(d) = ListFacts(cur.deferred) \cup {fact}
    BY <1>1, AddFacts
  <2>2. Attached(k, e) = [cur EXCEPT !.deferred = d]
    BY <1>4 DEF Attached
  <2> HIDE DEF d
  <2>3. /\ Attached(k, e).trx = cur.trx /\ Attached(k, e).callStack = cs
        /\ Attached(k, e).deferred = d
    BY <1>1, <2>2 DEF TrxState
  <2> HIDE DEF cs, fact
  <2> QED BY <1>2, <2>1, <2>3 DEF StateFacts, fact
<1> QED BY <1>3, <1>4

(* Balance, nonce, code and storage changes, of a transaction or a block.  *)
LEMMA ChangeFacts ==
    ASSUME TracerOK, NEW k \in Lists, NEW d \in Data, ordinal' = ordinal + 1, UNCHANGED interrupted,
           \/ cur' = Attached(k, Change(ordinal + 1, d)) /\ UNCHANGED block
           \/ block' = [block EXCEPT !.changes = Add(@, k, Change(ordinal + 1, d))] /\ UNCHANGED cur
    PROVE  LET fact == Fact(ordinal + 1, k, d)
           IN  /\ RecordedFacts' = RecordedFacts \cup {fact}
               /\ UNCHANGED block => StateFacts(cur') \subseteq StateFacts(cur) \cup {fact}
               /\ BlockFacts(block') \subseteq BlockFacts(block) \cup {fact}
<1> DEFINE change == Change(ordinal + 1, d)
           fact   == Fact(ordinal + 1, k, d)
<1>1. StateOK(cur) /\ ordinal \in Nat /\ block \in Blocks
  BY DEF TracerOK, HooksOK
<1>2. change \in Entry /\ change.ord = ordinal + 1 /\ change.data = d
  BY <1>1, ChangeType DEF Change
<1> HIDE DEF change
<1>3. CASE cur' = Attached(k, change) /\ UNCHANGED block
  <2>1. StateFacts(cur') = StateFacts(cur) \cup {fact}
    BY <1>1, <1>2, <1>3, AttachedFacts
  <2> HIDE DEF fact
  <2> QED BY <1>3, <2>1, FactParts DEF fact
<1>4. CASE block' = [block EXCEPT !.changes = Add(@, k, change)] /\ UNCHANGED cur
  <2>1. ListFacts(Add(block.changes, k, change)) = ListFacts(block.changes) \cup {fact}
    BY <1>1, <1>2, AddFacts DEF Blocks
  <2> DEFINE changes == Add(block.changes, k, change)
  <2>2. block' = [block EXCEPT !.changes = changes]
    BY <1>4
  <2> HIDE DEF changes, fact
  <2>3. /\ block'.changes = changes
        /\ block'.traces = block.traces /\ block'.systemCalls = block.systemCalls
    BY <1>1, <2>2 DEF Blocks
  <2>4. BlockFacts(block') = BlockFacts(block) \cup {fact}
    BY <2>1, <2>3 DEF BlockFacts, changes
  <2> QED BY <1>4, <2>4, FactParts DEF fact
<1> QED BY <1>3, <1>4 DEF change

(* OnLog.                                                                  *)
LEMMA OnLogFacts ==
    ASSUME TracerOK, NEW d \in Data, NEW index \in Nat, NEW blockIndex \in Nat, UNCHANGED <<block, interrupted>>,
           cur' = [Attached("log", [ord |-> ordinal + 1, data |-> d, index |-> index,
                                    blockIndex |-> blockIndex]) EXCEPT !.logIndex = @ + 1]
    PROVE  /\ RecordedFacts' = RecordedFacts \cup {Fact(ordinal + 1, "log", d)}
           /\ StateFacts(cur') = StateFacts(cur) \cup {Fact(ordinal + 1, "log", d)}
<1> DEFINE log   == [ord |-> ordinal + 1, data |-> d, index |-> index, blockIndex |-> blockIndex]
           after == Attached("log", log)
<1>1. StateOK(cur) /\ ordinal \in Nat
  BY DEF TracerOK, HooksOK
<1>2. log \in Entry /\ log.ord = ordinal + 1 /\ log.data = d /\ "log" \in Lists
  BY <1>1 DEF Entry, Lists
<1> HIDE DEF log
<1>3. StateFacts(after) = StateFacts(cur) \cup {Fact(ordinal + 1, "log", d)}
  BY <1>1, <1>2, AttachedFacts
<1>4. after \in TrxState
  BY <1>1, <1>2, AttachedOK DEF StateOK
<1>5. cur' = [after EXCEPT !.logIndex = @ + 1]
  BY DEF log
<1> HIDE DEF after
<1>6. cur'.trx = after.trx /\ cur'.callStack = after.callStack /\ cur'.deferred = after.deferred
  BY <1>4, <1>5 DEF TrxState
<1>7. StateFacts(cur') = StateFacts(after)
  BY <1>6 DEF StateFacts
<1> QED BY <1>3, <1>7, FactParts

(* OnOpcode marks the active call.                                         *)
LEMMA OnOpcodeFacts ==
    ASSUME TracerOK, NEW selfdestruct \in BOOLEAN, NEW failed \in BOOLEAN, OnOpcode(selfdestruct, failed)
    PROVE  RecordedFacts' = RecordedFacts /\ StateFacts(cur') = StateFacts(cur)
<1> DEFINE cs      == cur.callStack
           n       == Len(cs.stack)
           suicide == Peek(cs).suicide \/ (selfdestruct /\ ~failed)
           call    == [Peek(cs) EXCEPT !.executed = TRUE, !.suicide = suicide]
           after   == OnTop(cs, call)
<1>1. cur \in TrxState /\ cs \in CallStack /\ BranchOK(cs) /\ cs.stack \in Seq(Call)
  BY StateParts, AllLogsType DEF TracerOK, HooksOK, StateOK
<1>2. /\ cur' = IF HasActiveCall(cs) THEN [cur EXCEPT !.callStack = after] ELSE cur
      /\ UNCHANGED <<block, interrupted>>
  BY DEF OnOpcode
<1>3. CASE ~HasActiveCall(cs)
  BY <1>2, <1>3, QuietFacts
<1>4. CASE HasActiveCall(cs)
  <2>1. Peek(cs) \in Call /\ n \in 1..n /\ Peek(cs) = cs.stack[n]
    BY <1>1, <1>4, PeekType
  <2>2. suicide \in BOOLEAN
    BY <2>1 DEF Call
  <2> HIDE DEF suicide
  <2>3. /\ call \in Call /\ SameRecord(call, Peek(cs))
        /\ call.index = Peek(cs).index /\ call.depth = Peek(cs).depth
        /\ call.parent = Peek(cs).parent
    BY <2>1, <2>2 DEF Call, SameRecord
  <2> HIDE DEF call, cs
  <2>4. /\ Len(after.stack) = n /\ after.stack \in Seq(Call)
        /\ \A i \in 1..n : after.stack[i] = IF i = n THEN call ELSE cs.stack[i]
    BY <1>1, <1>4, <2>3, OnTopBranch DEF BranchOK, CallStack
  <2> HIDE DEF after
  <2>5. CallFacts(call) = CallFacts(Peek(cs))
    BY <2>3, SameCallFacts
  <2>6. CallsFacts(after.stack) = CallsFacts(cs.stack) \cup CallFacts(call)
    BY <1>1, <2>1, <2>4, <2>5, ReplacedFacts
  <2>7. CallFacts(Peek(cs)) \subseteq CallsFacts(cs.stack)
    BY <1>1, <2>1, InCallsFacts
  <2>8. cur'.trx = cur.trx /\ cur'.callStack = after /\ cur'.deferred = cur.deferred
    BY <1>1, <1>2, <1>4 DEF TrxState
  <2>9. StateFacts(cur') = StateFacts(cur)
    BY <2>5, <2>6, <2>7, <2>8 DEF StateFacts, cs
  <2> QED BY <1>2, <2>9, QuietFacts
<1> QED BY <1>3, <1>4

(* OnSelfDestructEnter, the exit that follows, OnKeccakPreimage.           *)
LEMMA OtherFieldsFacts ==
    ASSUME TracerOK, UNCHANGED <<block, interrupted>>,
           \/ \E b \in BOOLEAN : cur' = [cur EXCEPT !.suicided = b]
           \/ \E r : cur' = [cur EXCEPT !.preimages = Append(@, r)]
    PROVE  RecordedFacts' = RecordedFacts /\ StateFacts(cur') = StateFacts(cur)
<1>1. cur \in TrxState
  BY DEF TracerOK, HooksOK, StateOK
<1>2. cur'.trx = cur.trx /\ cur'.callStack = cur.callStack /\ cur'.deferred = cur.deferred
  BY <1>1 DEF TrxState
<1>3. StateFacts(cur') = StateFacts(cur)
  BY <1>2 DEF StateFacts
<1> QED BY <1>3, QuietFacts
-----------------------------------------------------------------------------
(* So the ordinals stay apart, whatever hook is called.                    *)
Distinct(facts, n) ==
    \A f \in facts : f.ord \in Nat /\ f.ord <= n /\ \A g \in facts : f.ord = g.ord => f = g

(* One fact more, under the next ordinal, or none.                         *)
OneMore(fact) == ordinal' = ordinal + 1 /\ fact.ord = ordinal + 1
                 /\ RecordedFacts' \subseteq RecordedFacts \cup {fact}

(* So a step that adds no fact, or one under the next ordinal, keeps all  *)
(* ordinals apart.                                                        *)
LEMMA DistinctKept ==
    ASSUME ordinal \in Nat, Distinct(RecordedFacts, ordinal),
           \/ RecordedFacts' = {}
           \/ RecordedFacts' \subseteq RecordedFacts /\ ordinal' = ordinal
           \/ \E f : OneMore(f)
    PROVE  Distinct(RecordedFacts', ordinal')
<1>1. CASE RecordedFacts' = {}
  BY <1>1 DEF Distinct
<1>2. CASE RecordedFacts' \subseteq RecordedFacts /\ ordinal' = ordinal
  BY <1>2 DEF Distinct
<1>3. ASSUME NEW f, OneMore(f) PROVE Distinct(RecordedFacts', ordinal')
  <2>1. f.ord = ordinal + 1 /\ ordinal' = ordinal + 1 /\ RecordedFacts' \subseteq RecordedFacts \cup {f}
    BY <1>3 DEF OneMore
  <2>2. \A g \in RecordedFacts : g.ord \in Nat /\ g.ord <= ordinal /\ g.ord <= ordinal + 1 /\ g.ord # ordinal + 1
    BY DEF Distinct
  <2>3. \A g \in RecordedFacts, h \in RecordedFacts : g.ord = h.ord => g = h
    BY DEF Distinct
  <2>4. f.ord \in Nat /\ f.ord <= ordinal + 1
    BY <2>1
  <2>5. \A g \in RecordedFacts' : g.ord \in Nat /\ g.ord <= ordinal'
    BY <2>1, <2>2, <2>4
  <2>6. \A g \in RecordedFacts', h \in RecordedFacts' : g.ord = h.ord => g = h
    BY <2>1, <2>2, <2>3
  <2> QED BY <2>5, <2>6 DEF Distinct
<1> QED BY <1>1, <1>2, <1>3

(* Blocks and transactions.                                                *)
LEMMA TrxHookDistinct ==
    ASSUME TracerOK, Distinct(RecordedFacts, ordinal),
           \/ OnBlockStart \/ OnSkippedBlock \/ \E err \in BOOLEAN : OnBlockEnd(err)
           \/ \E id \in Nat : OnTxStart(id)
           \/ \E receipt \in Receipts : OnTxEnd(receipt)
           \/ OnSystemCallStart \/ OnSystemCallEnd
    PROVE  Distinct(RecordedFacts', ordinal')
<1>1. ordinal \in Nat
  BY DEF TracerOK, HooksOK
<1>2. CASE Panic
  BY <1>1, <1>2, PanicFacts, DistinctKept DEF Panic
<1>3. CASE OnBlockStart
  BY <1>1, <1>3, OnBlockStartFacts, DistinctKept DEF OnBlockStart
<1>4. CASE ResetBlock /\ ResetTransaction
  BY <1>1, <1>4, ResetFacts, DistinctKept
<1>5. ASSUME NEW id \in Nat, OnTxStart(id), ~Panic PROVE Distinct(RecordedFacts', ordinal')
  <2>1. OneMore(Fact(ordinal + 1, "begin", TrxData(id)))
    BY <1>5, OnTxStartFacts DEF OnTxStart, Ensured, OneMore, Fact
  <2> QED BY <1>1, <2>1, DistinctKept
<1>6. ASSUME NEW receipt \in Receipts, OnTxEnd(receipt), ~Panic PROVE Distinct(RecordedFacts', ordinal')
  <2>1. CASE Dropped(receipt)
    <3>1. ordinal' = ordinal /\ cur' = FreshState /\ UNCHANGED <<block, interrupted>>
      BY <1>6, <2>1 DEF OnTxEnd, Ensured, ResetTransaction
    <3>2. RecordedFacts' \subseteq RecordedFacts
      BY <3>1, DroppedFacts, FactParts
    <3> QED BY <1>1, <3>1, <3>2, DistinctKept
  <2>2. CASE ~Dropped(receipt)
    <3>1. OneMore(Fact(ordinal + 1, "end", TrxData(cur.trx.id)))
      BY <1>6, <2>2, OnTxEndFacts DEF OnTxEnd, Ensured, ResetTransaction, OneMore, Fact
    <3> QED BY <1>1, <3>1, DistinctKept
  <2> QED BY <2>1, <2>2
<1>7. CASE OnSystemCallStart /\ ~Panic
  <2>1. RecordedFacts' \subseteq RecordedFacts /\ ordinal' = ordinal
    BY <1>7, OnSystemCallStartFacts DEF OnSystemCallStart, Ensured
  <2> QED BY <1>1, <2>1, DistinctKept
<1>8. CASE OnSystemCallEnd /\ ~Panic
  <2>1. RecordedFacts' \subseteq RecordedFacts /\ ordinal' = ordinal
    BY <1>8, OnSystemCallEndFacts DEF OnSystemCallEnd, Ensured
  <2> QED BY <1>1, <2>1, DistinctKept
<1> QED BY <1>2, <1>3, <1>4, <1>5, <1>6, <1>7, <1>8 DEF OnBlockEnd, OnSkippedBlock, Ensured

(* Calls and opcodes.                                                      *)
LEMMA CallHookDistinct ==
    ASSUME TracerOK, Distinct(RecordedFacts, ordinal),
           \/ \E depth \in Nat, d \in Data : OnCallEnter(depth, d)
           \/ \E outcome \in Outcomes \ {"open"} : OnCallExit(outcome)
           \/ OnSelfDestructEnter
           \/ \E selfdestruct, failed \in BOOLEAN : OnOpcode(selfdestruct, failed)
           \/ UNCHANGED tracerVars
    PROVE  Distinct(RecordedFacts', ordinal')
<1>1. ordinal \in Nat /\ StateOK(cur)
  BY DEF TracerOK, HooksOK
<1>2. CASE Panic \/ UNCHANGED tracerVars
  BY <1>1, <1>2, PanicFacts, DistinctKept DEF Panic, tracerVars
<1>3. ASSUME NEW depth, NEW d \in Data, OnCallEnter(depth, d) PROVE Distinct(RecordedFacts', ordinal')
  <2>1. OneMore(Fact(ordinal + 1, "enter", d))
    BY <1>3, OnCallEnterFacts DEF OnCallEnter, OneMore, Fact
  <2> QED BY <1>1, <2>1, DistinctKept
<1>4. ASSUME NEW outcome \in Outcomes \ {"open"}, OnCallExit(outcome), ~Panic
      PROVE  Distinct(RecordedFacts', ordinal')
  <2>1. CASE cur.suicided
    <3>1. cur' = [cur EXCEPT !.suicided = FALSE] /\ UNCHANGED <<block, ordinal, interrupted>>
      BY <1>4, <2>1 DEF OnCallExit
    <3> QED BY <1>1, <3>1, OtherFieldsFacts, DistinctKept
  <2>2. CASE ~cur.suicided
    <3>1. OneMore(Fact(ordinal + 1, "exit", Peek(cur.callStack).data))
      BY <1>4, <2>2, OnCallExitFacts DEF OnCallExit, Ensured, OneMore, Fact
    <3> QED BY <1>1, <3>1, DistinctKept
  <2> QED BY <2>1, <2>2
<1>5. CASE OnSelfDestructEnter
  <2>1. cur' = [cur EXCEPT !.suicided = TRUE] /\ UNCHANGED <<block, ordinal, interrupted>>
    BY <1>5 DEF OnSelfDestructEnter
  <2> QED BY <1>1, <2>1, OtherFieldsFacts, DistinctKept
<1>6. ASSUME NEW selfdestruct \in BOOLEAN, NEW failed \in BOOLEAN, OnOpcode(selfdestruct, failed)
      PROVE  Distinct(RecordedFacts', ordinal')
  BY <1>1, <1>6, OnOpcodeFacts, DistinctKept DEF OnOpcode
<1> QED BY <1>2, <1>3, <1>4, <1>5, <1>6

(* Changes, logs and preimages.                                            *)
LEMMA ChangeHookDistinct ==
    ASSUME TracerOK, Distinct(RecordedFacts, ordinal), NEW d \in Data,
           \/ \E k \in Lists : OnBlockOrTrxChange(k, d) \/ OnTrxChange(k, d)
           \/ \E blockIndex \in Nat : OnLog(d, blockIndex)
           \/ OnKeccakPreimage(d)
           \/ UNCHANGED tracerVars
    PROVE  Distinct(RecordedFacts', ordinal')
<1>1. ordinal \in Nat /\ StateOK(cur)
  BY DEF TracerOK, HooksOK
<1>2. CASE Panic \/ UNCHANGED tracerVars
  BY <1>1, <1>2, PanicFacts, DistinctKept DEF Panic, tracerVars
<1>3. ASSUME NEW k \in Lists, OnBlockOrTrxChange(k, d) \/ OnTrxChange(k, d), ~Panic
      PROVE  Distinct(RecordedFacts', ordinal')
  <2>1. /\ ordinal' = ordinal + 1 /\ interrupted' = interrupted
        /\ \/ cur' = Attached(k, Change(ordinal + 1, d)) /\ UNCHANGED block
           \/ block' = [block EXCEPT !.changes = Add(@, k, Change(ordinal + 1, d))] /\ UNCHANGED cur
    BY <1>3 DEF OnBlockOrTrxChange, OnTrxChange, Ensured
  <2>2. OneMore(Fact(ordinal + 1, k, d))
    BY <2>1, ChangeFacts DEF OneMore, Fact
  <2> QED BY <1>1, <2>2, DistinctKept
<1>4. ASSUME NEW blockIndex \in Nat, OnLog(d, blockIndex), ~Panic PROVE Distinct(RecordedFacts', ordinal')
  <2>1. cur.logIndex \in Nat
    BY <1>1, StateParts
  <2>2. RecordedFacts' = RecordedFacts \cup {Fact(ordinal + 1, "log", d)} /\ ordinal' = ordinal + 1
    BY <1>4, <2>1, OnLogFacts DEF OnLog, Ensured
  <2>3. OneMore(Fact(ordinal + 1, "log", d))
    BY <2>2 DEF OneMore, Fact
  <2> QED BY <1>1, <2>3, DistinctKept
<1>5. CASE OnKeccakPreimage(d) /\ ~Panic
  <2>1. /\ cur' = [cur EXCEPT !.preimages = Append(@, [call |-> Peek(cur.callStack).index, data |-> d])]
        /\ UNCHANGED <<block, ordinal, interrupted>>
    BY <1>5 DEF OnKeccakPreimage, Ensured
  <2> QED BY <1>1, <2>1, OtherFieldsFacts, DistinctKept
<1> QED BY <1>2, <1>3, <1>4, <1>5
=============================================================================
