-------------------------- MODULE TracedBlockProofs --------------------------
(***************************************************************************)
(* What holds of a tracer driven by its client, for any number of          *)
(* transactions, system calls and frames and whatever the client does.     *)
(***************************************************************************)
EXTENDS TracedBlock, TracerProofs

-----------------------------------------------------------------------------
(* The client's state                                                      *)

(* An element of a sequence.                                               *)
LEMMA ElementType ==
    ASSUME NEW S, NEW s \in Seq(S), NEW i \in 1..Len(s)
    PROVE  s[i] \in S
OBVIOUS

(* What is running, seen from the client's state.                          *)
LEMMA TopType ==
    ASSUME evm \in Clients, Running
    PROVE  /\ evm.running \in Seq(Contexts)
           /\ Len(evm.running) \in DOMAIN evm.running
           /\ Top \in Contexts
<1>1. evm.running \in Seq(Contexts)
  BY DEF Clients
<1>2. Len(evm.running) \in 1..Len(evm.running)
  BY <1>1, EmptySeq DEF Running
<1> QED BY <1>1, <1>2 DEF Top, Last

(* The innermost frame of a context.                                       *)
LEMMA FrameType ==
    ASSUME evm \in Clients, InFrameNow
    PROVE  Frame \in [number : 1..MaxFrames, mark : Nat]
<1>1. Top.frames \in Seq([number : 1..MaxFrames, mark : Nat]) /\ Top.frames # <<>>
  BY TopType DEF InFrameNow, Contexts
<1> DEFINE frames == Top.frames
<1>2. Frame = frames[Len(frames)]
  BY DEF Frame, Last
<1>3. frames[Len(frames)] \in [number : 1..MaxFrames, mark : Nat]
  <2> HIDE DEF frames
  <2>1. frames \in Seq([number : 1..MaxFrames, mark : Nat]) /\ frames # <<>>
    BY <1>1 DEF frames
  <2>2. Len(frames) \in 1..Len(frames)
    BY <2>1, EmptySeq
  <2> QED BY <2>1, <2>2, ElementType
<1> QED BY <1>2, <1>3

(* Whoever speaks, the payload is one of those the tracer is told of.      *)
LEMMA NowType ==
    ASSUME evm \in Clients
    PROVE  /\ Now \in [by : 0..MaxContexts, sys : BOOLEAN, frame : 0..MaxFrames]
           /\ Now \in Data
           /\ \A n \in 1..MaxFrames : [Now EXCEPT !.frame = n] \in Data
<1>1. MaxContexts \in Nat /\ MaxFrames \in Nat
  BY ClientAssumption
<1>2. Now \in [by : 0..MaxContexts, sys : BOOLEAN, frame : 0..MaxFrames]
  <2>1. CASE ~Running
    BY <1>1, <2>1 DEF Now
  <2>2. CASE Running
    <3>1. Top.id \in 1..MaxContexts /\ Top.sys \in BOOLEAN
      BY <2>2, TopType DEF Contexts
    <3>2. InFrameNow => Frame.number \in 1..MaxFrames
      BY FrameType
    <3> QED BY <1>1, <2>2, <3>1, <3>2 DEF Now
  <2> QED BY <2>1, <2>2
<1>3. \A n \in 1..MaxFrames :
        [Now EXCEPT !.frame = n] \in [by : 0..MaxContexts, sys : BOOLEAN, frame : 0..MaxFrames]
  BY <1>1, <1>2
<1> QED BY <1>2, <1>3, ClientAssumption

(* The context on top replaced.                                            *)
LEMMA WithTopType ==
    ASSUME evm \in Clients, Running, NEW c \in Contexts
    PROVE  WithTop(c) \in Clients
<1>1. evm.running \in Seq(Contexts) /\ Len(evm.running) \in DOMAIN evm.running
  BY TopType
<1>2. [evm.running EXCEPT ![Len(evm.running)] = c] \in Seq(Contexts)
  BY <1>1
<1> QED BY <1>2 DEF WithTop, Clients

(* A prefix of the log journal.                                            *)
LEMMA TruncateType ==
    ASSUME NEW S, NEW logs \in Seq(S), NEW n \in Nat
    PROVE  Truncate(logs, n) \in Seq(S)
<1> DEFINE m == IF n < Len(logs) THEN n ELSE Len(logs)
<1>1. m \in Nat /\ \A i \in 1..m : logs[i] \in S
  OBVIOUS
<1> HIDE DEF m
<1>2. SubSeq(logs, 1, m) \in Seq(S)
  BY <1>1, SubSeqProperties
<1> QED BY <1>2 DEF Truncate, m

(* The receipt the client makes is one the tracer takes.                   *)
LEMMA ReceiptType ==
    ASSUME evm \in Clients, NEW status \in {"ok", "failed"}
    PROVE  Receipt(status) \in Receipts
<1> DEFINE own   == {i \in DOMAIN evm.logs : evm.logs[i].data.by = Top.id}
           key   == [i \in own |-> i]
           logs  == InOrder(own, key)
           given == [j \in DOMAIN logs |->
                       LET l == evm.logs[logs[j]]
                       IN  [ord |-> 0, index |-> 0, data |-> l.data, blockIndex |-> l.blockIndex]]
<1>1. evm.logs \in Seq([data : Data, blockIndex : Nat]) /\ Len(evm.logs) \in Nat
  BY DEF Clients
<1>2. own \subseteq 1..Len(evm.logs)
  BY <1>1
<1>3. IsFiniteSet(own)
  <2>1. own \in SUBSET (1..Len(evm.logs)) /\ IsFiniteSet(1..Len(evm.logs))
    BY <1>1, <1>2, UptoFinite
  <2> QED BY <2>1, FS_Subset
<1>4. key \in [own -> Nat] /\ \A d, e \in own : key[d] = key[e] => d = e
  BY <1>2
<1>5. Cardinality(own) \in Nat /\ logs \in [1..Cardinality(own) -> own]
  <2> HIDE DEF own, key
  <2> QED BY <1>3, <1>4, InOrderLists
<1>6. \A j \in 1..Cardinality(own) :
        evm.logs[logs[j]].data \in Data /\ evm.logs[logs[j]].blockIndex \in Nat
  <2> SUFFICES ASSUME NEW j \in 1..Cardinality(own)
               PROVE  evm.logs[logs[j]] \in [data : Data, blockIndex : Nat]
    OBVIOUS
  <2> HIDE DEF logs, own
  <2>1. logs[j] \in 1..Len(evm.logs)
    BY <1>2, <1>5
  <2> QED BY <1>1, <2>1, ElementType
<1>7. given \in [1..Cardinality(own) -> Entry]
  <2> HIDE DEF logs, own
  <2> QED BY <1>5, <1>6 DEF Entry
<1>8. given \in Seq(Entry)
  <2> HIDE DEF given, own
  <2> QED BY <1>5, <1>7, FunctionIsSeq
<1>9. Receipt(status) = [status |-> status, logs |-> given]
  BY DEF Receipt
<1> HIDE DEF given
<1> QED BY <1>8, <1>9 DEF Receipts
-----------------------------------------------------------------------------
(* Starting a transaction or a system call.                                *)
LEMMA BeginType ==
    ASSUME evm \in Clients, NEW sys \in BOOLEAN, MayBegin, Begin(sys)
    PROVE  evm' \in Clients
<1>1. /\ evm.started \in Nat /\ evm.running \in Seq(Contexts) /\ evm.destructing \in BOOLEAN
      /\ evm.logs \in Seq([data : Data, blockIndex : Nat]) /\ Len(evm.logs) \in Nat
  BY DEF Clients
<1>2. NextId \in 1..MaxContexts /\ NextId \in Nat
  BY <1>1, ClientAssumption DEF NextId, MayBegin
<1>3. NewContext(NextId, sys, Len(evm.logs)) \in Contexts
  BY <1>1, <1>2, EmptySeq, ClientAssumption DEF NewContext, Contexts
<1>4. Append(evm.running, NewContext(NextId, sys, Len(evm.logs))) \in Seq(Contexts)
  BY <1>1, <1>3
<1> QED BY <1>2, <1>4 DEF Begin, Clients

(* The client's own state stays well-formed.                               *)
LEMMA ClientNext ==
    ASSUME evm \in Clients, Next
    PROVE  evm' \in Clients
<1>1. /\ evm.started \in Nat /\ evm.running \in Seq(Contexts) /\ evm.destructing \in BOOLEAN
      /\ evm.logs \in Seq([data : Data, blockIndex : Nat]) /\ Len(evm.logs) \in Nat
  BY DEF Clients
<1>2. EvmAtRest \in Clients
  BY EmptySeq DEF EvmAtRest, Clients
<1>3. Running => Front(evm.running) \in Seq(Contexts)
  BY <1>1, DropLast DEF Front, Running
<1>4. CASE UNCHANGED evm
  BY <1>4
<1>5. CASE evm' = EvmAtRest
  BY <1>2, <1>5
<1>6. CASE StartTrx \/ StartSystemCall
  BY <1>6, BeginType DEF StartTrx, StartSystemCall
<1>7. CASE EndSystemCall
  BY <1>3, <1>7 DEF EndSystemCall, Clients
<1>8. CASE EndTrx
  BY <1>8, EmptySeq DEF EndTrx, Clients
<1>9. CASE EndTrxWithoutReceipt
  <2>1. Top.mark \in Nat
    BY <1>9, TopType DEF EndTrxWithoutReceipt, Contexts
  <2>2. Truncate(evm.logs, Top.mark) \in Seq([data : Data, blockIndex : Nat])
    BY <1>1, <2>1, TruncateType
  <2> QED BY <1>9, <2>2, EmptySeq DEF EndTrxWithoutReceipt, Clients
<1>10. CASE EnterCall
  <2> DEFINE n      == Top.entered + 1
             frame  == [number |-> n, mark |-> Len(evm.logs)]
             frames == Append(Top.frames, frame)
             roots  == IF InFrameNow THEN Top.roots ELSE Top.roots + 1
             c      == [Top EXCEPT !.entered = n, !.roots = roots, !.frames = frames]
  <2>1. Running /\ Top.entered < MaxFrames /\ evm' = WithTop(c)
    BY <1>10 DEF EnterCall
  <2>2. Top \in Contexts
    BY <2>1, TopType
  <2>3. n \in 1..MaxFrames /\ n \in 0..MaxFrames /\ roots \in Nat
    BY <2>1, <2>2, ClientAssumption DEF Contexts
  <2>4. frames \in Seq([number : 1..MaxFrames, mark : Nat])
    <3>1. frame \in [number : 1..MaxFrames, mark : Nat]
      BY <1>1, <2>3
    <3> HIDE DEF frame
    <3> QED BY <2>2, <3>1 DEF Contexts
  <2>5. c \in Contexts
    <3> HIDE DEF n, frames, roots
    <3> QED BY <2>2, <2>3, <2>4 DEF Contexts
  <2> QED BY <2>1, <2>5, WithTopType
<1>11. ASSUME NEW outcome, ExitCall(outcome) PROVE evm' \in Clients
  <2> DEFINE c     == [Top EXCEPT !.frames = Front(@)]
             after == IF outcome = "ok" THEN evm.logs ELSE Truncate(evm.logs, Frame.mark)
             popped == WithTop(c)
  <2>1. Running /\ InFrameNow /\ Top.frames # <<>> /\ evm' = [popped EXCEPT !.logs = after]
    BY <1>11 DEF ExitCall, InFrameNow, WithTop
  <2>2. Top \in Contexts
    BY <2>1, TopType
  <2>3. Front(Top.frames) \in Seq([number : 1..MaxFrames, mark : Nat])
    BY <2>1, <2>2, DropLast DEF Front, Contexts
  <2>4. c \in Contexts
    BY <2>2, <2>3 DEF Contexts
  <2>5. popped \in Clients
    BY <2>1, <2>4, WithTopType
  <2>6. after \in Seq([data : Data, blockIndex : Nat])
    BY <1>1, <2>1, FrameType, TruncateType
  <2> HIDE DEF popped, after
  <2> QED BY <2>1, <2>5, <2>6 DEF Clients
<1>12. CASE EnterSelfDestruct \/ ExitSelfDestruct
  BY <1>12 DEF EnterSelfDestruct, ExitSelfDestruct, Clients
<1>13. CASE Logs
  <2> DEFINE log == [data |-> Now, blockIndex |-> Len(evm.logs)]
  <2>1. log \in [data : Data, blockIndex : Nat]
    BY <1>1, NowType
  <2>2. Append(evm.logs, log) \in Seq([data : Data, blockIndex : Nat])
    <3> HIDE DEF log
    <3> QED BY <1>1, <2>1
  <2> QED BY <1>13, <2>2 DEF Logs, Clients
<1>14. CASE StartBlock \/ SkipBlock \/ SelfDestruct \/ FaultingOpcode \/ ClearCode
              \/ KeccakPreimage \/ Changes
  BY <1>4, <1>14 DEF StartBlock, SkipBlock, SelfDestruct, FaultingOpcode, ClearCode,
                     KeccakPreimage, Changes
<1>15. CASE EndBlock \/ FailBlock
  BY <1>5, <1>15 DEF EndBlock, FailBlock
<1> QED BY <1>6, <1>7, <1>8, <1>9, <1>10, <1>11, <1>12, <1>13, <1>14, <1>15 DEF Next, Step
-----------------------------------------------------------------------------
(* Whatever the client does, the tracer keeps its invariant.               *)
LEMMA TracerNext ==
    ASSUME TracerOK, evm \in Clients, Next
    PROVE  TracerOK'
<1>1. HooksOK
  BY DEF TracerOK
<1> SUFFICES HooksOK' /\ LogOrdinalsOK' /\ block' \in Blocks
  BY DEF TracerOK
<1>2. Now \in Data /\ \A n \in 1..MaxFrames : [Now EXCEPT !.frame = n] \in Data
  BY NowType
<1>3. {"balance", "code", "nonce", "storage"} \subseteq Lists
  BY DEF Lists
<1>4. CASE StartBlock \/ EndBlock \/ FailBlock \/ SkipBlock
  <2>1. OnBlockStart \/ (\E err \in BOOLEAN : OnBlockEnd(err)) \/ OnSkippedBlock
    BY <1>4 DEF StartBlock, EndBlock, FailBlock, SkipBlock
  <2> QED BY <1>1, <2>1, BlockHookOK, BlockHookTracerOK
<1>5. CASE StartTrx
  <2>1. NextId \in Nat /\ OnTxStart(NextId)
    BY <1>5 DEF StartTrx, NextId, Clients
  <2> QED BY <1>1, <2>1, OnTxStartOK, OnTxStartTracerOK
<1>6. CASE EndTrx \/ EndTrxWithoutReceipt
  <2>1. \E receipt \in Receipts : OnTxEnd(receipt)
    <3>1. NoReceipt \in Receipts
      BY DEF Receipts
    <3> QED BY <1>6, <3>1, ReceiptType DEF EndTrx, EndTrxWithoutReceipt
  <2> QED BY <1>1, <2>1, OnTxEndOK, OnTxEndTracerOK
<1>7. CASE StartSystemCall
  BY <1>1, <1>7, OnSystemCallStartOK, OnSystemCallStartTracerOK DEF StartSystemCall
<1>8. CASE EndSystemCall
  BY <1>1, <1>8, OnSystemCallEndOK, OnSystemCallEndTracerOK DEF EndSystemCall
<1>9. CASE EnterCall
  <2> DEFINE n == Top.entered + 1
  <2>1. Running /\ Top.entered < MaxFrames
        /\ OnCallEnter(Len(Top.frames), [Now EXCEPT !.frame = n])
    BY <1>9 DEF EnterCall
  <2>2. n \in 1..MaxFrames
    <3>1. Top.entered \in 0..MaxFrames /\ MaxFrames \in Nat
      BY <2>1, TopType, ClientAssumption DEF Contexts
    <3> QED BY <2>1, <3>1
  <2>3. [Now EXCEPT !.frame = n] \in Data
    BY <1>2, <2>2
  <2> QED BY <1>1, <2>1, <2>3, OnCallEnterOK, OnCallEnterTracerOK
<1>10. ASSUME NEW outcome \in {"ok", "failed", "reverted"}, ExitCall(outcome)
       PROVE  HooksOK' /\ LogOrdinalsOK' /\ block' \in Blocks
  BY <1>1, <1>10, OnCallExitOK, OnCallExitTracerOK DEF ExitCall, Outcomes
<1>11. CASE ExitSelfDestruct
  BY <1>1, <1>11, OnCallExitOK, OnCallExitTracerOK DEF ExitSelfDestruct, Outcomes
<1>12. CASE EnterSelfDestruct
  BY <1>1, <1>12, OnSelfDestructEnterOK, OnSelfDestructEnterTracerOK DEF EnterSelfDestruct
<1>13. CASE SelfDestruct \/ FaultingOpcode
  <2>1. OnOpcode(TRUE, FALSE) \/ OnOpcode(TRUE, TRUE)
    BY <1>13 DEF SelfDestruct, FaultingOpcode
  <2> QED BY <1>1, <2>1, OnOpcodeOK, OnOpcodeTracerOK
<1>14. CASE ClearCode \/ Changes
  <2>1. \/ UNCHANGED tracerVars
        \/ \E k \in Lists : OnBlockOrTrxChange(k, Now) \/ OnTrxChange(k, Now)
    BY <1>3, <1>14 DEF ClearCode, Changes, OnBalanceChange, OnNonceChange, OnCodeChange,
                       OnStorageChange
  <2>2. CASE UNCHANGED tracerVars
    BY <2>2, StutterTracerOK DEF TracerOK
  <2>3. ASSUME NEW k \in Lists, OnBlockOrTrxChange(k, Now) \/ OnTrxChange(k, Now)
        PROVE  HooksOK' /\ LogOrdinalsOK' /\ block' \in Blocks
    BY <1>1, <1>2, <2>3, OnBlockOrTrxChangeOK, OnTrxChangeOK, ChangeTracerOK
  <2> QED BY <2>1, <2>2, <2>3
<1>15. CASE KeccakPreimage
  BY <1>1, <1>2, <1>15, OnKeccakPreimageOK, OnKeccakPreimageTracerOK DEF KeccakPreimage
<1>16. CASE Logs
  <2>1. Len(evm.logs) \in Nat
    BY DEF Clients
  <2> QED BY <1>1, <1>2, <1>16, <2>1, OnLogOK, OnLogTracerOK DEF Logs
<1> QED BY <1>4, <1>5, <1>6, <1>7, <1>8, <1>9, <1>10, <1>11, <1>12, <1>13, <1>14, <1>15, <1>16 DEF Next, Step

(* The tracer, the block it builds and its client stay well-formed over    *)
(* any number of blocks, transactions, system calls, frames and changes,   *)
(* with failing frames, dropped transactions and failing blocks anywhere.  *)
(* In particular every receipt that the client makes from its own journal  *)
(* is matched to logs that are there.                                      *)
THEOREM BlockTypes == Spec => []TypeOK
<1> DEFINE Inv == TracerOK /\ evm \in Clients
<1>1. Init => Inv
  BY TracerInitTyped, EmptySeq DEF Init, EvmAtRest, Clients
<1>2. Inv /\ [Next]_vars => Inv'
  <2> SUFFICES ASSUME Inv, [Next]_vars PROVE Inv'
    OBVIOUS
  <2>1. CASE Next
    BY <2>1, TracerNext, ClientNext
  <2>2. CASE UNCHANGED vars
    BY <2>2, StutterTracerOK DEF vars, tracerVars
  <2> QED BY <2>1, <2>2
<1>3. Inv => TypeOK
  BY TracerOKTyped DEF TypeOK
<1> QED BY <1>1, <1>2, <1>3, PTL DEF Spec
-----------------------------------------------------------------------------
(* Nothing is left behind                                                  *)

(* How the tracer and its client correspond until the tracer panics: the   *)
(* tracer is in a transaction or system call exactly when the client is    *)
(* running one, it knows which of the two, and what it has set aside is    *)
(* the transaction that the client's system call interrupts.               *)
Linked ==
    /\ InTrx <=> Running
    /\ Running => block.open /\ inSystemCall = Top.sys
    /\ Len(evm.running) <= 2
    /\ interrupted # <<>> <=> Len(evm.running) = 2
    /\ Len(evm.running) = 2 => /\ ~evm.running[1].sys
                               /\ evm.running[2].sys
                               /\ interrupted[1].trx.open

(* The inductive invariant.                                                *)
LinkedOK ==
    /\ TracerOK /\ evm \in Clients
    /\ NothingLeftBehind
    /\ ~panicked => Linked

(* The parts of the invariant, with the types they stand on.               *)
LEMMA LinkedParts ==
    ASSUME LinkedOK
    PROVE  /\ cur \in TrxState /\ cur.trx \in Trx /\ block \in Blocks
           /\ interrupted \in Seq(TrxState) /\ Len(interrupted) <= 1
           /\ inSystemCall \in BOOLEAN /\ panicked \in BOOLEAN
           /\ evm.running \in Seq(Contexts) /\ Len(evm.running) \in Nat
           /\ evm.running = <<>> <=> Len(evm.running) = 0
<1>1. TracerTypeOK
  BY TracerOKTyped DEF LinkedOK
<1>2. evm.running \in Seq(Contexts)
  BY DEF LinkedOK, Clients
<1>3. cur.trx \in Trx
  BY <1>1 DEF TracerTypeOK, TrxState
<1> QED BY <1>1, <1>2, <1>3, EmptySeq DEF TracerTypeOK

(* After a panic nothing of the tracer changes any more.                   *)
LEMMA PanicLinked ==
    ASSUME LinkedOK, Panic
    PROVE  NothingLeftBehind' /\ (~panicked => Linked)'
BY DEF LinkedOK, Panic, NothingLeftBehind, InTrx

(* A step inside of what is running, which neither ends nor interrupts it. *)
LEMMA InsideLinked ==
    ASSUME LinkedOK, Linked, InTrx,
           cur'.trx.open, block'.open = block.open, UNCHANGED <<inSystemCall, interrupted>>,
           evm'.running \in Seq(Contexts), Len(evm'.running) = Len(evm.running),
           \A i \in 1..Len(evm.running) : evm'.running[i].sys = evm.running[i].sys
    PROVE  NothingLeftBehind' /\ (~panicked => Linked)'
<1>1. Len(evm.running) \in 1..2 /\ Len(evm.running) \in Nat
  <2>1. Len(evm.running) \in Nat /\ (evm.running = <<>> <=> Len(evm.running) = 0)
    BY LinkedParts
  <2>2. evm.running # <<>> /\ Len(evm.running) <= 2
    BY DEF Linked, Running
  <2> DEFINE n == Len(evm.running)
  <2>3. n \in Nat /\ n # 0 /\ n <= 2
    BY <2>1, <2>2
  <2> HIDE DEF n
  <2>4. n \in 1..2
    BY <2>3
  <2> QED BY <2>3, <2>4 DEF n
<1>2. Running' /\ InTrx' /\ block'.open
  BY <1>1, EmptySeq DEF Linked, Running, InTrx
<1>3. Top'.sys = Top.sys
  <2>1. /\ Top = evm.running[Len(evm.running)]
        /\ Top' = evm'.running[Len(evm'.running)]
    BY DEF Top, Last
  <2> DEFINE n == Len(evm.running)
  <2>2. n \in 1..2 /\ Len(evm'.running) = n
    BY <1>1
  <2>3. \A i \in 1..n : evm'.running[i].sys = evm.running[i].sys
    OBVIOUS
  <2> HIDE DEF n
  <2>4. evm'.running[n].sys = evm.running[n].sys
    BY <2>2, <2>3
  <2> QED BY <2>1, <2>2, <2>4 DEF n
<1>4. Linked'
  BY <1>1, <1>2, <1>3 DEF Linked, Running
<1>5. NothingLeftBehind'
  BY <1>2 DEF NothingLeftBehind, InTrx
<1> QED BY <1>4, <1>5

(* The hooks of a call leave the transaction open.                         *)
LEMMA CallHookInside ==
    ASSUME LinkedOK, NEW depth, NEW d, NEW outcome, NEW a, NEW b,
           \/ OnCallEnter(depth, d) \/ OnCallExit(outcome) \/ OnSelfDestructEnter
           \/ OnOpcode(a, b) \/ OnKeccakPreimage(d)
    PROVE  \/ Panic
           \/ /\ cur'.trx.open = cur.trx.open
              /\ UNCHANGED <<block, inSystemCall, interrupted>>
<1>1. cur \in TrxState /\ cur.trx \in Trx
  BY LinkedParts
<1>2. CASE OnCallEnter(depth, d)
  <2> DEFINE call   == NewCall(ordinal + 1, d)
             pushed == Push(cur.callStack, call)
             rooted == Push(cur.callStack, PopulateOnEnter(cur.deferred, call))
  <2>1. \/ cur' = [cur EXCEPT !.callStack = pushed]
        \/ cur' = [cur EXCEPT !.callStack = rooted, !.deferred = NoEntries]
    BY <1>2 DEF OnCallEnter
  <2>2. UNCHANGED <<block, inSystemCall, interrupted>>
    BY <1>2 DEF OnCallEnter
  <2> HIDE DEF pushed, rooted
  <2> QED BY <1>1, <2>1, <2>2 DEF TrxState
<1>3. CASE OnCallExit(outcome)
  <2> DEFINE call   == [Peek(cur.callStack) EXCEPT !.outcome = outcome, !.end = ordinal + 1]
             popped == Pop(cur.callStack)
             trx    == [cur.trx EXCEPT !.calls = Append(@, call)]
  <2>1. \/ Panic
        \/ /\ \/ cur' = [cur EXCEPT !.suicided = FALSE]
              \/ cur' = [cur EXCEPT !.callStack = popped, !.trx = trx]
           /\ UNCHANGED <<block, inSystemCall, interrupted>>
    BY <1>3 DEF OnCallExit, Ensured
  <2>2. trx.open = cur.trx.open
    BY <1>1 DEF Trx
  <2> HIDE DEF popped, trx
  <2> QED BY <1>1, <2>1, <2>2 DEF TrxState
<1>4. CASE OnSelfDestructEnter
  BY <1>1, <1>4 DEF OnSelfDestructEnter, TrxState
<1>5. CASE OnOpcode(a, b)
  BY <1>1, <1>5 DEF OnOpcode, TrxState
<1>6. CASE OnKeccakPreimage(d)
  BY <1>1, <1>6 DEF OnKeccakPreimage, Ensured, TrxState
<1> QED BY <1>2, <1>3, <1>4, <1>5, <1>6

(* So do the hooks of changes and logs; a change outside of transactions   *)
(* touches the block only.                                                 *)
LEMMA ChangeHookInside ==
    ASSUME LinkedOK, NEW k, NEW d, NEW n,
           OnBlockOrTrxChange(k, d) \/ OnTrxChange(k, d) \/ OnLog(d, n)
    PROVE  \/ Panic
           \/ /\ cur'.trx.open = cur.trx.open /\ (~InTrx => cur' = cur)
              /\ block'.open = block.open /\ UNCHANGED <<inSystemCall, interrupted>>
<1>1. cur \in TrxState /\ block \in Blocks
  BY LinkedParts
<1>2. \A e : Attached(k, e).trx = cur.trx
  BY <1>1 DEF Attached, TrxState
<1>3. CASE OnBlockOrTrxChange(k, d)
  <2> DEFINE change  == Change(ordinal + 1, d)
             changes == Add(block.changes, k, change)
  <2>1. \/ Panic
        \/ InTrx /\ cur' = Attached(k, change) /\ UNCHANGED <<block, inSystemCall, interrupted>>
        \/ ~InTrx /\ block' = [block EXCEPT !.changes = changes]
                  /\ UNCHANGED <<cur, inSystemCall, interrupted>>
    BY <1>3 DEF OnBlockOrTrxChange, Ensured
  <2> HIDE DEF changes, change
  <2> QED BY <1>1, <1>2, <2>1 DEF Blocks
<1>4. CASE OnTrxChange(k, d)
  BY <1>2, <1>4 DEF OnTrxChange, Ensured
<1>5. CASE OnLog(d, n)
  <2>1. \A e : [Attached("log", e) EXCEPT !.logIndex = @ + 1].trx = cur.trx
    BY <1>1 DEF Attached, TrxState
  <2> QED BY <1>5, <2>1 DEF OnLog, Ensured
<1> QED BY <1>3, <1>4, <1>5

(* Steps between transactions and blocks end with nothing running ...      *)
LEMMA AtRestLinked ==
    ASSUME cur' = FreshState, inSystemCall' = FALSE, interrupted' = <<>>, evm'.running = <<>>,
           block'.open \/ (block' = NoBlock /\ ordinal' = 0)
    PROVE  NothingLeftBehind' /\ (~panicked => Linked)'
<1>1. ~FreshState.trx.open
  BY DEF FreshState, NoTrx
<1>2. ~InTrx' /\ ~Running'
  BY <1>1 DEF InTrx, Running
<1>3. Len(evm'.running) = 0
  BY EmptySeq
<1> QED BY <1>2, <1>3 DEF NothingLeftBehind, Linked

(* ... those that leave one or two contexts running correspond ...          *)
LEMMA OneLinked ==
    ASSUME cur'.trx.open, block'.open, interrupted' = <<>>,
           Len(evm'.running) = 1, inSystemCall' = evm'.running[1].sys
    PROVE  NothingLeftBehind' /\ (~panicked => Linked)'
<1>1. Top' = evm'.running[1]
  BY DEF Top, Last
<1>2. InTrx' /\ Running'
  BY EmptySeq DEF InTrx, Running
<1> QED BY <1>1, <1>2 DEF NothingLeftBehind, Linked

LEMMA TwoLinked ==
    ASSUME cur'.trx.open, block'.open, interrupted' # <<>>, interrupted'[1].trx.open,
           Len(evm'.running) = 2, inSystemCall' = evm'.running[2].sys,
           ~evm'.running[1].sys, evm'.running[2].sys
    PROVE  NothingLeftBehind' /\ (~panicked => Linked)'
<1>1. Top' = evm'.running[2]
  BY DEF Top, Last
<1>2. InTrx' /\ Running'
  BY EmptySeq DEF InTrx, Running
<1>3. inSystemCall' = Top'.sys
  BY <1>1, Zenon
<1>4. Len(evm'.running) <= 2
  OBVIOUS
<1>5. Linked'
  BY <1>2, <1>3, <1>4, Zenon DEF Linked
<1>6. NothingLeftBehind'
  BY <1>2 DEF NothingLeftBehind
<1> QED BY <1>5, <1>6

(* ... and others change what neither the link nor the rest depends on.    *)
LEMMA SameLinked ==
    ASSUME LinkedOK, Linked, block'.open, block.open, cur' = cur,
           UNCHANGED <<inSystemCall, interrupted>>, evm'.running = evm.running
    PROVE  NothingLeftBehind' /\ (~panicked => Linked)'
<1>1. NothingLeftBehind
  BY DEF LinkedOK
<1>2. InTrx' = InTrx /\ Running' = Running /\ Top' = Top
  BY DEF InTrx, Running, Top
<1>3. NothingLeftBehind'
  BY <1>1, <1>2 DEF NothingLeftBehind
<1>4. Linked'
  BY <1>2 DEF Linked
<1> QED BY <1>3, <1>4

(* Replacing the context on top by one of its kind.                        *)
LEMMA WithTopShape ==
    ASSUME LinkedOK, Running, NEW c, c.sys = Top.sys
    PROVE  /\ Len(WithTop(c).running) = Len(evm.running)
           /\ \A i \in 1..Len(evm.running) : WithTop(c).running[i].sys = evm.running[i].sys
<1> DEFINE r == evm.running
           n == Len(r)
<1>1. r \in Seq(Contexts) /\ evm \in Clients
  BY LinkedParts DEF LinkedOK
<1>2. Top = r[n]
  BY DEF Top, Last
<1>3. WithTop(c).running = [r EXCEPT ![n] = c]
  BY <1>1 DEF WithTop, Clients
<1> HIDE DEF r
<1>4. /\ Len([r EXCEPT ![n] = c]) = n
      /\ \A i \in 1..n : [r EXCEPT ![n] = c][i] = IF i = n THEN c ELSE r[i]
  BY <1>1
<1> HIDE DEF n
<1>5. \A i \in 1..n : [r EXCEPT ![n] = c][i].sys = r[i].sys
  BY <1>2, <1>4
<1> QED BY <1>3, <1>4, <1>5 DEF n, r

(* What is running is one context, or two of which the second is a system  *)
(* call that interrupts the first, a transaction.                          *)
LEMMA LinkedShape ==
    ASSUME LinkedOK, Linked, Running
    PROVE  \/ /\ Len(evm.running) = 1 /\ evm.running[1] = Top
              /\ interrupted = <<>>
           \/ /\ Len(evm.running) = 2 /\ evm.running[2] = Top
              /\ interrupted # <<>> /\ Top.sys
              /\ ~evm.running[1].sys /\ interrupted[1].trx.open
<1> DEFINE n == Len(evm.running)
<1>1. n \in Nat /\ n # 0 /\ n <= 2
  <2>1. n \in Nat /\ (evm.running = <<>> <=> n = 0)
    BY LinkedParts
  <2> QED BY <2>1 DEF Linked, Running
<1>2. Top = evm.running[n]
  BY DEF Top, Last
<1>3. interrupted # <<>> <=> n = 2
  BY DEF Linked
<1>4. n = 2 => ~evm.running[1].sys /\ evm.running[2].sys /\ interrupted[1].trx.open
  BY DEF Linked
<1> HIDE DEF n
<1>5. n = 1 \/ n = 2
  BY <1>1
<1> QED BY <1>2, <1>3, <1>4, <1>5 DEF n

(* Starting a transaction.                                                 *)
LEMMA StartTrxLinked ==
    ASSUME LinkedOK, Linked, StartTrx
    PROVE  NothingLeftBehind' /\ (~panicked => Linked)'
<1> DEFINE trx == [NoTrx EXCEPT !.open = TRUE, !.id = NextId, !.begin = ordinal + 1]
           ctx == NewContext(NextId, FALSE, Len(evm.logs))
<1>1. CASE Panic
  BY <1>1, PanicLinked
<1>2. CASE cur' = [cur EXCEPT !.trx = trx] /\ UNCHANGED <<block, inSystemCall, interrupted>>
  <2>1. ~Running /\ ~InTrx /\ block.open /\ Begin(FALSE)
    BY DEF StartTrx, Linked
  <2>2. inSystemCall = FALSE /\ interrupted = <<>>
    BY <2>1, LinkedParts DEF LinkedOK, NothingLeftBehind
  <2>3. trx.open
    BY DEF NoTrx
  <2>4. cur'.trx.open
    <3> HIDE DEF trx
    <3> QED BY <1>2, <2>3, LinkedParts DEF TrxState
  <2>5. evm'.running = <<ctx>>
    <3>1. evm'.running = Append(evm.running, ctx)
      BY <2>1 DEF Begin, LinkedOK, Clients
    <3>2. evm.running = <<>>
      BY <2>1 DEF Running
    <3> HIDE DEF ctx
    <3> QED BY <3>1, <3>2
  <2>6. ctx.sys = FALSE
    BY DEF NewContext
  <2> HIDE DEF ctx
  <2>7. Len(evm'.running) = 1 /\ evm'.running[1] = ctx
    BY <2>5
  <2>8. block'.open /\ interrupted' = <<>> /\ inSystemCall' = evm'.running[1].sys
    BY <1>2, <2>1, <2>2, <2>6, <2>7
  <2> QED BY <2>4, <2>7, <2>8, OneLinked
<1>3. OnTxStart(NextId)
  BY DEF StartTrx
<1> QED BY <1>1, <1>2, <1>3 DEF OnTxStart, Ensured

(* Starting a system call, alone or inside a transaction.                  *)
LEMMA StartSystemCallLinked ==
    ASSUME LinkedOK, Linked, StartSystemCall
    PROVE  NothingLeftBehind' /\ (~panicked => Linked)'
<1> DEFINE trx  == [NoTrx EXCEPT !.open = TRUE]
           base == IF InTrx THEN FreshState ELSE cur
           ctx  == NewContext(NextId, TRUE, Len(evm.logs))
<1>1. CASE Panic
  BY <1>1, PanicLinked
<1>2. CASE /\ interrupted' = IF InTrx THEN <<cur>> ELSE interrupted
           /\ cur' = [base EXCEPT !.trx = trx]
           /\ inSystemCall' = TRUE /\ UNCHANGED block
  <2>1. block.open /\ Begin(TRUE) /\ (Running => ~Top.sys)
    BY DEF StartSystemCall
  <2>2. cur'.trx.open
    <3>1. trx.open
      BY DEF NoTrx
    <3>2. base \in TrxState
      BY FreshOK, StateParts, LinkedParts
    <3> HIDE DEF trx, base
    <3> QED BY <1>2, <3>1, <3>2 DEF TrxState
  <2>3. evm'.running = Append(evm.running, ctx) /\ ctx.sys = TRUE
    BY <2>1 DEF Begin, LinkedOK, Clients, NewContext
  <2> HIDE DEF ctx, trx, base
  <2>4. evm.running \in Seq(Contexts)
    BY LinkedParts
  <2>5. CASE InTrx
    <3>1. Running
      BY <2>5 DEF Linked
    <3>2. Len(evm.running) = 1 /\ ~evm.running[1].sys
      BY <2>1, <3>1, LinkedShape
    <3>3. /\ Len(evm'.running) = 2 /\ evm'.running[1] = evm.running[1]
          /\ evm'.running[2] = ctx
      BY <2>3, <2>4, <3>2
    <3>4. interrupted' = <<cur>> /\ interrupted'[1] = cur /\ interrupted' # <<>>
      BY <1>2, <2>5
    <3>5. interrupted'[1].trx.open /\ block'.open
      BY <1>2, <2>1, <2>5, <3>4 DEF InTrx
    <3>6. inSystemCall' = evm'.running[2].sys /\ ~evm'.running[1].sys /\ evm'.running[2].sys
      BY <1>2, <2>3, <3>2, <3>3
    <3> QED BY <2>2, <3>3, <3>4, <3>5, <3>6, TwoLinked
  <2>6. CASE ~InTrx
    <3>1. evm.running = <<>> /\ interrupted = <<>>
      BY <2>6 DEF Linked, Running, LinkedOK, NothingLeftBehind
    <3>2. evm'.running = <<ctx>>
      BY <2>3, <3>1
    <3>3. Len(evm'.running) = 1 /\ evm'.running[1] = ctx
      BY <3>2
    <3>4. block'.open /\ interrupted' = <<>> /\ inSystemCall' = evm'.running[1].sys
      BY <1>2, <2>1, <2>3, <2>6, <3>1, <3>3
    <3> QED BY <2>2, <3>3, <3>4, OneLinked
  <2> QED BY <2>5, <2>6
<1>3. OnSystemCallStart
  BY DEF StartSystemCall
<1> QED BY <1>1, <1>2, <1>3 DEF OnSystemCallStart, Ensured

(* Ending a system call: what it interrupted, if anything, goes on.        *)
LEMMA EndSystemCallLinked ==
    ASSUME LinkedOK, Linked, EndSystemCall
    PROVE  NothingLeftBehind' /\ (~panicked => Linked)'
<1> DEFINE calls == block.systemCalls \o AttachPreimages(cur.trx.calls, cur.preimages)
<1>1. CASE Panic
  BY <1>1, PanicLinked
<1>2. CASE /\ block.open /\ block' = [block EXCEPT !.systemCalls = calls]
           /\ cur' = IF interrupted = <<>> THEN FreshState ELSE interrupted[1]
           /\ interrupted' = <<>> /\ inSystemCall' = FALSE
  <2>1. block'.open
    <3> HIDE DEF calls
    <3> QED BY <1>2, LinkedParts DEF Blocks
  <2>2. Running /\ evm.running \in Seq(Contexts)
    BY LinkedParts DEF EndSystemCall
  <2>3. evm'.running = SubSeq(evm.running, 1, Len(evm.running) - 1)
    BY DEF EndSystemCall, Front, LinkedOK, Clients
  <2>4. CASE Len(evm.running) = 1 /\ interrupted = <<>>
    <3>1. evm'.running = <<>>
      BY <2>2, <2>3, <2>4, DropLast, EmptySeq DEF Running
    <3> QED BY <1>2, <2>1, <2>4, <3>1, AtRestLinked
  <2>5. CASE /\ Len(evm.running) = 2 /\ ~evm.running[1].sys
             /\ interrupted # <<>> /\ interrupted[1].trx.open
    <3>1. Len(evm'.running) = 1 /\ evm'.running[1] = evm.running[1]
      BY <2>2, <2>3, <2>5, DropLast DEF Running
    <3>2. evm.running[1].sys = FALSE
      <4>1. evm.running[1] \in Contexts
        BY <2>2, <2>5, ElementType
      <4> QED BY <2>5, <4>1 DEF Contexts
    <3>3. cur'.trx.open /\ interrupted' = <<>> /\ inSystemCall' = evm'.running[1].sys
      BY <1>2, <2>5, <3>1, <3>2
    <3> QED BY <2>1, <3>1, <3>3, OneLinked
  <2> QED BY <2>2, <2>4, <2>5, LinkedShape
<1>3. OnSystemCallEnd
  BY DEF EndSystemCall
<1> QED BY <1>1, <1>2, <1>3 DEF OnSystemCallEnd, Ensured

(* Every step of the client, unless the tracer panics.                     *)
LEMMA LinkedNext ==
    ASSUME LinkedOK, Next
    PROVE  NothingLeftBehind' /\ (~panicked => Linked)'
<1>1. ~panicked /\ Linked
  BY DEF Next, Step, StartBlock, EndBlock, FailBlock, SkipBlock, StartTrx, EndTrx,
         EndTrxWithoutReceipt, StartSystemCall, EndSystemCall, EnterCall, ExitCall,
         SelfDestruct, EnterSelfDestruct, ExitSelfDestruct, FaultingOpcode, ClearCode,
         KeccakPreimage, Changes, Logs, Idle, LinkedOK
<1>2. CASE Panic
  BY <1>2, PanicLinked
<1>3. evm \in Clients /\ evm' \in Clients /\ evm.running \in Seq(Contexts)
  BY ClientNext, LinkedParts DEF LinkedOK
<1>4. evm'.running \in Seq(Contexts)
  BY <1>3 DEF Clients
<1>5. CASE StartBlock
  <2>1. ~block.open /\ block' = [NoBlock EXCEPT !.open = TRUE]
        /\ UNCHANGED <<cur, inSystemCall, interrupted, evm>>
    BY <1>5 DEF StartBlock, OnBlockStart
  <2>2. ~InTrx /\ cur = FreshState /\ inSystemCall = FALSE /\ interrupted = <<>>
    BY <2>1, LinkedParts DEF LinkedOK, NothingLeftBehind
  <2>3. evm.running = <<>> /\ block'.open
    BY <1>1, <2>1, <2>2 DEF Linked, Running, NoBlock
  <2> QED BY <2>1, <2>2, <2>3, AtRestLinked
<1>6. CASE EndBlock \/ FailBlock \/ SkipBlock
  <2>1. Panic \/ (ResetBlock /\ ResetTransaction)
    BY <1>6 DEF EndBlock, FailBlock, SkipBlock, OnBlockEnd, OnSkippedBlock, Ensured
  <2>2. evm'.running = <<>>
    <3>1. CASE EndBlock \/ FailBlock
      <4>1. evm' = EvmAtRest
        BY <3>1 DEF EndBlock, FailBlock
      <4> QED BY <4>1 DEF EvmAtRest
    <3>2. CASE SkipBlock
      BY <1>1, <3>2 DEF SkipBlock, Linked, Running, LinkedOK, NothingLeftBehind
    <3> QED BY <1>6, <3>1, <3>2
  <2> QED BY <1>2, <2>1, <2>2, AtRestLinked DEF ResetBlock, ResetTransaction
<1>7. CASE EndTrx \/ EndTrxWithoutReceipt
  <2>1. Running /\ ~Top.sys /\ evm'.running = <<>> /\ \E receipt : OnTxEnd(receipt)
    BY <1>3, <1>7 DEF EndTrx, EndTrxWithoutReceipt, Clients
  <2>2. interrupted = <<>>
    BY <1>1, <2>1, LinkedShape
  <2>3. PICK receipt : OnTxEnd(receipt)
    BY <2>1
  <2> DEFINE traces == Append(block.traces, CompleteTransaction(receipt))
  <2>4. \/ Panic
        \/ /\ block.open /\ (block' = block \/ block' = [block EXCEPT !.traces = traces])
           /\ ResetTransaction /\ UNCHANGED interrupted
    BY <2>3 DEF OnTxEnd, Ensured
  <2> HIDE DEF traces
  <2>5. Panic \/ (block'.open /\ ResetTransaction /\ interrupted' = <<>>)
    BY <2>2, <2>4, LinkedParts DEF Blocks
  <2> QED BY <1>2, <2>1, <2>5, AtRestLinked DEF ResetTransaction
<1>8. CASE StartTrx
  BY <1>1, <1>8, StartTrxLinked
<1>9. CASE StartSystemCall
  BY <1>1, <1>9, StartSystemCallLinked
<1>10. CASE EndSystemCall
  BY <1>1, <1>10, EndSystemCallLinked
<1>11. ASSUME InTrx, cur'.trx.open = cur.trx.open, block'.open = block.open,
              UNCHANGED <<inSystemCall, interrupted>>,
              \/ evm'.running = evm.running
              \/ \E c : c.sys = Top.sys /\ evm'.running = WithTop(c).running
       PROVE  NothingLeftBehind' /\ (~panicked => Linked)'
  <2>1. Running
    BY <1>1, <1>11 DEF Linked
  <2>2. /\ Len(evm'.running) = Len(evm.running)
        /\ \A i \in 1..Len(evm.running) : evm'.running[i].sys = evm.running[i].sys
    BY <1>11, <2>1, WithTopShape
  <2>3. cur'.trx.open
    BY <1>11 DEF InTrx
  <2> QED BY <1>1, <1>4, <1>11, <2>2, <2>3, InsideLinked
<1>12. CASE EnterCall \/ \E outcome : ExitCall(outcome)
  <2>1. InTrx
    BY <1>1, <1>12 DEF EnterCall, ExitCall, InFrameNow, Linked
  <2>2. Top \in Contexts
    BY <1>1, <1>3, <2>1, TopType DEF Linked
  <2>3. \E c : c.sys = Top.sys /\ evm'.running = WithTop(c).running
    <3>1. CASE EnterCall
      <4> DEFINE roots  == IF InFrameNow THEN Top.roots ELSE Top.roots + 1
                 frames == Append(Top.frames, [number |-> Top.entered + 1, mark |-> Len(evm.logs)])
                 c      == [Top EXCEPT !.entered = Top.entered + 1, !.roots = roots, !.frames = frames]
      <4>1. evm' = WithTop(c)
        BY <3>1 DEF EnterCall
      <4> HIDE DEF roots, frames
      <4>2. c.sys = Top.sys
        BY <2>2 DEF Contexts
      <4> QED BY <4>1, <4>2
    <3>2. ASSUME NEW outcome, ExitCall(outcome)
          PROVE  \E c : c.sys = Top.sys /\ evm'.running = WithTop(c).running
      <4> DEFINE frames == Front(Top.frames)
                 c      == [Top EXCEPT !.frames = frames]
                 logs   == IF outcome = "ok" THEN evm.logs ELSE Truncate(evm.logs, Frame.mark)
      <4>1. evm' = [WithTop(c) EXCEPT !.logs = logs]
        BY <3>2 DEF ExitCall, WithTop
      <4> HIDE DEF frames, logs
      <4>2. c.sys = Top.sys
        BY <2>2 DEF Contexts
      <4> HIDE DEF c
      <4>3. [WithTop(c) EXCEPT !.logs = logs].running = WithTop(c).running
        BY <1>3 DEF WithTop, Clients
      <4> QED BY <4>1, <4>2, <4>3
    <3> QED BY <1>12, <3>1, <3>2
  <2>4. \/ Panic
        \/ cur'.trx.open = cur.trx.open /\ UNCHANGED <<block, inSystemCall, interrupted>>
    BY <1>12, CallHookInside DEF EnterCall, ExitCall
  <2> QED BY <1>2, <1>11, <2>1, <2>3, <2>4
<1>13. CASE SelfDestruct \/ EnterSelfDestruct \/ FaultingOpcode \/ KeccakPreimage
  <2>1. InTrx
    BY <1>1, <1>13 DEF SelfDestruct, EnterSelfDestruct, FaultingOpcode, KeccakPreimage,
                       InFrameNow, Linked
  <2>2. evm'.running = evm.running
    BY <1>3, <1>13 DEF SelfDestruct, EnterSelfDestruct, FaultingOpcode, KeccakPreimage, Clients
  <2>3. \/ Panic
        \/ cur'.trx.open = cur.trx.open /\ UNCHANGED <<block, inSystemCall, interrupted>>
    BY <1>13, CallHookInside
       DEF SelfDestruct, EnterSelfDestruct, FaultingOpcode, KeccakPreimage
  <2> QED BY <1>2, <1>11, <2>1, <2>2, <2>3
<1>14. CASE ExitSelfDestruct
  <2>1. evm'.running = evm.running /\ OnCallExit("ok")
    BY <1>3, <1>14 DEF ExitSelfDestruct, Clients
  <2>2. \/ Panic
        \/ cur'.trx.open = cur.trx.open /\ UNCHANGED <<block, inSystemCall, interrupted>>
    BY <2>1, CallHookInside
  <2>3. Panic \/ InTrx
    <3>1. CASE cur.suicided
      BY <3>1 DEF LinkedOK, NothingLeftBehind, FreshState
    <3>2. CASE ~cur.suicided
      BY <2>1, <3>2 DEF OnCallExit, Ensured
    <3> QED BY <3>1, <3>2
  <2> QED BY <1>2, <1>11, <2>1, <2>2, <2>3
<1>15. CASE ClearCode \/ Changes \/ Logs
  <2>1. block.open /\ evm'.running = evm.running
    BY <1>1, <1>3, <1>15 DEF ClearCode, Changes, Logs, Clients, Linked, InFrameNow
  <2>2. \/ UNCHANGED tracerVars
        \/ \E k, d, n : OnBlockOrTrxChange(k, d) \/ OnTrxChange(k, d) \/ OnLog(d, n)
    BY <1>15 DEF ClearCode, Changes, Logs, OnBalanceChange, OnNonceChange, OnCodeChange,
                 OnStorageChange
  <2>3. \/ Panic
        \/ /\ cur'.trx.open = cur.trx.open /\ (~InTrx => cur' = cur)
           /\ block'.open = block.open /\ UNCHANGED <<inSystemCall, interrupted>>
    <3>1. CASE UNCHANGED tracerVars
      BY <3>1 DEF tracerVars
    <3> QED BY <2>2, <3>1, ChangeHookInside
  <2>4. CASE ~InTrx /\ ~Panic
    BY <1>1, <2>1, <2>3, <2>4, SameLinked
  <2> QED BY <1>2, <1>11, <2>1, <2>3, <2>4
<1> QED BY <1>5, <1>6, <1>7, <1>8, <1>9, <1>10, <1>12, <1>13, <1>14, <1>15 DEF Next, Step

(* Nothing of a transaction or a block is left for the next one to find,   *)
(* whatever was interrupted, dropped or failed before: once OnTxEnd or     *)
(* OnSystemCallEnd has returned and nothing is running, the tracer is as   *)
(* good as new, and between blocks it has no block and no ordinal either.  *)
THEOREM BlockLeavesNothing == Spec => []NothingLeftBehind
<1>1. Init => LinkedOK
  <2> SUFFICES ASSUME Init PROVE LinkedOK
    OBVIOUS
  <2>1. TracerOK /\ evm \in Clients
    BY TracerInitTyped, EmptySeq DEF Init, EvmAtRest, Clients
  <2>2. /\ cur = FreshState /\ ~FreshState.trx.open /\ ~inSystemCall /\ interrupted = <<>>
        /\ block = NoBlock /\ ordinal = 0 /\ evm.running = <<>> /\ Len(evm.running) = 0
    BY EmptySeq DEF Init, TracerInit, EvmAtRest, FreshState, NoTrx
  <2> QED BY <2>1, <2>2 DEF LinkedOK, Linked, NothingLeftBehind, InTrx, Running
<1>2. LinkedOK /\ [Next]_vars => LinkedOK'
  <2> SUFFICES ASSUME LinkedOK, [Next]_vars PROVE LinkedOK'
    OBVIOUS
  <2>1. CASE Next
    BY <2>1, TracerNext, ClientNext, LinkedNext DEF LinkedOK
  <2>2. CASE UNCHANGED vars
    <3>1. TracerOK' /\ evm' \in Clients
      BY <2>2, StutterTracerOK DEF vars, tracerVars, LinkedOK
    <3> QED BY <2>2, <3>1 DEF vars, LinkedOK, Linked, NothingLeftBehind, InTrx, Running, Top
  <2> QED BY <2>1, <2>2
<1>3. LinkedOK => NothingLeftBehind
  BY DEF LinkedOK
<1> QED BY <1>1, <1>2, <1>3, PTL DEF Spec
-----------------------------------------------------------------------------
(***************************************************************************)
(* The journal: whatever the client does is recorded once, under the next  *)
(* ordinal and in its name, for a client whose deferred changes always     *)
(* find a root call, and as long as the tracer does not panic.             *)
(***************************************************************************)
Disciplined ==
    \A p \in Profiles :
        /\ p.outsideSys = {}
        /\ "no call" \in p.behaviours => p.outsideTrx = {}
        /\ "no receipt" \in p.behaviours /\ ~DropTransactionsWithoutReceipt => p.outsideTrx = {}

(* What a frame of a context says of itself.                               *)
Voice(c, n) == [by |-> c.id, sys |-> c.sys, frame |-> n]

(* Each frame of a context has an open call in its name.                   *)
Frames(cs, c) ==
    /\ Len(cs.stack) = Len(c.frames)
    /\ \A i \in 1..Len(c.frames) : /\ cs.stack[i].outcome = "open"
                                   /\ cs.stack[i].data = Voice(c, c.frames[i].number)

(* The state s traces the context c: an open call for each frame, in its   *)
(* name, no fact of another context, and changes deferred only where a     *)
(* root call will take them; outside is what the client changes outside of *)
(* all frames of a transaction.                                            *)
Holds(s, c, outside) ==
    /\ s.trx.end = 0
    /\ IF c.sys THEN s.trx.begin = 0 ELSE s.trx.id = c.id
    /\ c.roots > 0 => s.trx.calls # <<>> \/ HasActiveCall(s.callStack)
    /\ c.sys \/ outside = {} => s.deferred = NoEntries
    /\ Frames(s.callStack, c)
    /\ \A f \in StateFacts(s) : f.data.by = c.id

(* Each running context is traced by the state that belongs to it, and no  *)
(* fact of the block is in its name or in that of one yet to begin.        *)
Kept ==
    /\ cur.suicided = evm.destructing
    /\ Len(evm.running) = 1 => Holds(cur, evm.running[1], profile.outsideTrx)
    /\ Len(evm.running) = 2 =>
         /\ Holds(interrupted[1], evm.running[1], profile.outsideTrx) /\ ~interrupted[1].suicided
         /\ Holds(cur, evm.running[2], profile.outsideTrx)
         /\ evm.running[1].id # evm.running[2].id
    /\ \A i \in 1..Len(evm.running) : evm.running[i].id <= evm.started
    /\ \A f \in RecordedFacts : f.data.by \in Nat /\ f.data.by <= evm.started
    /\ \A i \in 1..Len(evm.running) : \A f \in BlockFacts(block) : f.data.by # evm.running[i].id

(* The inductive invariant.                                                *)
JournalOK == LinkedOK /\ profile \in Profiles /\ (~panicked => Kept)

(* What is to be shown of the state after a step.                          *)
LEMMA KeptNext ==
    ASSUME cur'.suicided = evm'.destructing,
           Len(evm'.running) = 1 => Holds(cur', evm'.running[1], profile'.outsideTrx),
           Len(evm'.running) = 2 =>
             /\ Holds(interrupted'[1], evm'.running[1], profile'.outsideTrx) /\ ~interrupted'[1].suicided
             /\ Holds(cur', evm'.running[2], profile'.outsideTrx)
             /\ evm'.running[1].id # evm'.running[2].id,
           \A i \in 1..Len(evm'.running) : evm'.running[i].id <= evm'.started,
           \A f \in RecordedFacts' : f.data.by \in Nat /\ f.data.by <= evm'.started,
           \A i \in 1..Len(evm'.running) : \A f \in BlockFacts(block') : f.data.by # evm'.running[i].id
    PROVE  Kept'
<1>1. ASSUME NEW f PROVE f \in BlockFacts(block') <=> f \in BlockFacts(block)'
  BY DEF BlockFacts, TrxFacts, CallsFacts, CallFacts, ListFacts, Fact, ToSet
<1>2. /\ Holds(cur', evm'.running[1], profile'.outsideTrx) <=> Holds(cur, evm.running[1], profile.outsideTrx)'
      /\ Holds(cur', evm'.running[2], profile'.outsideTrx) <=> Holds(cur, evm.running[2], profile.outsideTrx)'
      /\ Holds(interrupted'[1], evm'.running[1], profile'.outsideTrx)
           <=> Holds(interrupted[1], evm.running[1], profile.outsideTrx)'
  BY DEF Holds, Frames, Voice, NoEntries, HasActiveCall, StateFacts, TrxFacts, CallsFacts, CallFacts,
         ListFacts, Fact, ToSet
<1>3. \A i \in 1..Len(evm'.running) : \A f \in BlockFacts(block)' : f.data.by # evm'.running[i].id
  BY <1>1
<1> QED BY <1>2, <1>3 DEF Kept
-----------------------------------------------------------------------------
(* The contexts as the journal sees them.                                  *)
Seen(c) == [id |-> c.id, sys |-> c.sys, entered |-> c.entered,
            frames |-> [j \in DOMAIN c.frames |-> c.frames[j].number]]

View(running) == [i \in DOMAIN running |-> Seen(running[i])]

(* It sees as many, the last one last, and no difference in the others.    *)
LEMMA ViewLast ==
    ASSUME NEW r \in Seq(Contexts), r # <<>>
    PROVE  /\ Len(View(r)) = Len(r) /\ View(r) # <<>> /\ DOMAIN View(r) = 1..Len(r)
           /\ View(r)[Len(View(r))] = Seen(r[Len(r)])
<1>1. DOMAIN r = 1..Len(r) /\ Len(r) \in Nat /\ Len(r) >= 1
  BY EmptySeq
<1>2. DOMAIN View(r) = 1..Len(r) /\ View(r)[Len(r)] = Seen(r[Len(r)])
  BY <1>1 DEF View
<1>3. Len(View(r)) = Len(r)
  <2> DEFINE v == View(r)
  <2>1. v = [i \in 1..Len(r) |-> Seen(r[i])]
    BY <1>1 DEF View
  <2> HIDE DEF v
  <2>2. Len(v) = Len(r)
    BY <1>1, <2>1
  <2> QED BY <2>2 DEF v
<1>4. View(r) # <<>>
  <2>1. DOMAIN <<>> = {}
    OBVIOUS
  <2> QED BY <1>1, <1>2, <2>1
<1> QED BY <1>2, <1>3, <1>4

(* No context running, one more, one less, and a change to the last one.   *)
LEMMA ViewSteps ==
    ASSUME NEW r \in Seq(Contexts), NEW c \in Contexts
    PROVE  /\ View(<<>>) = <<>>
           /\ View(Append(r, c)) = Append(View(r), Seen(c))
           /\ r # <<>> => View(Front(r)) = SubSeq(View(r), 1, Len(View(r)) - 1)
           /\ r # <<>> => View([r EXCEPT ![Len(r)] = c]) = [View(r) EXCEPT ![Len(View(r))] = Seen(c)]
<1>1. DOMAIN r = 1..Len(r) /\ Len(r) \in Nat
  OBVIOUS
<1>2. View(<<>>) = <<>>
  BY DEF View
<1>3. View(Append(r, c)) = Append(View(r), Seen(c))
  <2> DEFINE v == View(r)
  <2>1. v = [i \in 1..Len(r) |-> Seen(r[i])]
    BY <1>1 DEF View
  <2>2. View(Append(r, c)) = [i \in 1..(Len(r) + 1) |-> Seen(Append(r, c)[i])]
    BY <1>1 DEF View
  <2> HIDE DEF v
  <2>3. Len(v) = Len(r) /\ DOMAIN v = 1..Len(r)
    BY <1>1, <2>1
  <2>4. Append(v, Seen(c)) = [i \in 1..(Len(r) + 1) |-> IF i = Len(r) + 1 THEN Seen(c) ELSE v[i]]
    <3> DEFINE S == {Seen(x) : x \in Contexts}
               w == Append(v, Seen(c))
    <3>1. v \in Seq(S) /\ Seen(c) \in S
      BY <1>1, <2>1
    <3> HIDE DEF S
    <3>2. w \in Seq(S) /\ Len(w) = Len(r) + 1 /\ w[Len(r) + 1] = Seen(c)
          /\ \A i \in 1..Len(r) : w[i] = v[i]
      BY <1>1, <2>3, <3>1
    <3> HIDE DEF w
    <3>3. w = [i \in 1..(Len(r) + 1) |-> w[i]]
      BY <3>2
    <3>4. \A i \in 1..(Len(r) + 1) : w[i] = IF i = Len(r) + 1 THEN Seen(c) ELSE v[i]
      BY <1>1, <3>2
    <3> QED BY <3>3, <3>4 DEF w
  <2>5. \A i \in 1..(Len(r) + 1) : Append(r, c)[i] = IF i = Len(r) + 1 THEN c ELSE r[i]
    BY <1>1
  <2>6. \A i \in 1..(Len(r) + 1) : Seen(Append(r, c)[i]) = IF i = Len(r) + 1 THEN Seen(c) ELSE v[i]
    BY <2>1, <2>5
  <2>7. View(Append(r, c)) = Append(v, Seen(c))
    BY <2>2, <2>4, <2>6
  <2> QED BY <2>7 DEF v
<1>4. ASSUME r # <<>> PROVE View(Front(r)) = SubSeq(View(r), 1, Len(View(r)) - 1)
  <2> DEFINE v == View(r)
             n == Len(r) - 1
  <2>1. Len(v) = Len(r) /\ DOMAIN v = 1..Len(r) /\ n \in Nat /\ v = [i \in 1..Len(r) |-> Seen(r[i])]
    BY <1>1, <1>4, ViewLast, EmptySeq DEF View
  <2> HIDE DEF v
  <2>2. Front(r) = [i \in 1..n |-> r[i]]
    BY <1>1, <2>1 DEF Front
  <2>3. View(Front(r)) = [i \in 1..n |-> Seen(r[i])]
    BY <2>1, <2>2 DEF View
  <2>4. SubSeq(v, 1, n) = [i \in 1..n |-> v[i]]
    BY <2>1
  <2>5. \A i \in 1..n : v[i] = Seen(r[i])
    BY <2>1, <1>1
  <2> QED BY <2>1, <2>3, <2>4, <2>5 DEF v
<1>5. ASSUME r # <<>> PROVE View([r EXCEPT ![Len(r)] = c]) = [View(r) EXCEPT ![Len(View(r))] = Seen(c)]
  <2> DEFINE s == [r EXCEPT ![Len(r)] = c]
  <2>1. Len(View(r)) = Len(r) /\ DOMAIN View(r) = 1..Len(r)
    BY <1>5, ViewLast
  <2>2. DOMAIN s = 1..Len(r) /\ \A i \in 1..Len(r) : s[i] = IF i = Len(r) THEN c ELSE r[i]
    BY <1>1
  <2> HIDE DEF s
  <2>3. View(s) = [i \in 1..Len(r) |-> IF i = Len(r) THEN Seen(c) ELSE Seen(r[i])]
    BY <2>2 DEF View
  <2>4. \A i \in 1..Len(r) : View(r)[i] = Seen(r[i])
    BY <1>1 DEF View
  <2>5. [View(r) EXCEPT ![Len(r)] = Seen(c)]
          = [i \in 1..Len(r) |-> IF i = Len(r) THEN Seen(c) ELSE View(r)[i]]
    BY <2>1
  <2> QED BY <2>1, <2>3, <2>4, <2>5 DEF s
<1> QED BY <1>2, <1>3, <1>4, <1>5

(* The journal hears the voice of the last frame.                          *)
LEMMA SeenSpeaks ==
    ASSUME NEW c \in Contexts
    PROVE  /\ Journal!Speaker(Seen(c)) = Voice(c, IF c.frames = <<>> THEN 0 ELSE Last(c.frames).number)
           /\ Seen(c).frames = <<>> <=> c.frames = <<>>
           /\ Seen(c).sys = c.sys /\ Seen(c).id = c.id
<1>1. /\ c.frames \in Seq([number : 1..MaxFrames, mark : Nat])
      /\ DOMAIN Seen(c).frames = 1..Len(c.frames) /\ Len(c.frames) \in Nat
      /\ \A j \in 1..Len(c.frames) : Seen(c).frames[j] = c.frames[j].number
  BY DEF Contexts, Seen
<1>2. Len(Seen(c).frames) = Len(c.frames)
  <2> DEFINE f == Seen(c).frames
  <2>1. f = [j \in 1..Len(c.frames) |-> c.frames[j].number]
    BY <1>1 DEF Seen
  <2> HIDE DEF f
  <2>2. Len(f) = Len(c.frames)
    BY <1>1, <2>1
  <2> QED BY <2>2 DEF f
<1>3. Seen(c).frames = <<>> <=> c.frames = <<>>
  <2>1. DOMAIN <<>> = {}
    OBVIOUS
  <2>2. c.frames # <<>> => 1 \in 1..Len(c.frames)
    BY <1>1, EmptySeq
  <2>3. c.frames = <<>> => Seen(c).frames = <<>>
    BY DEF Seen
  <2> QED BY <1>1, <2>1, <2>2, <2>3
<1>4. Seen(c).sys = c.sys /\ Seen(c).id = c.id
  BY DEF Seen
<1>5. Journal!Speaker(Seen(c)) = Voice(c, IF c.frames = <<>> THEN 0 ELSE c.frames[Len(c.frames)].number)
  <2>1. c.frames # <<>> => Len(c.frames) \in 1..Len(c.frames)
    BY <1>1, EmptySeq
  <2> QED BY <1>1, <1>2, <1>3, <1>4, <2>1 DEF Journal!Speaker, Voice
<1> QED BY <1>3, <1>4, <1>5 DEF Last

(* What is heard now is the voice of the last frame of the last context.   *)
LEMMA SeenNow ==
    ASSUME evm \in Clients, Running
    PROVE  /\ Journal!Running /\ Journal!Top = Seen(Top)
           /\ Journal!Speaker(Seen(Top)) = Now
           /\ Seen(Top).frames = <<>> <=> ~InFrameNow
           /\ Seen(Top).sys = Top.sys /\ Seen(Top).id = Top.id
<1> DEFINE r == evm.running
           c == Top
<1>1. r \in Seq(Contexts) /\ r # <<>> /\ c = r[Len(r)] /\ c \in Contexts
  BY TopType DEF Running, Top, Last
<1> HIDE DEF c, r
<1>2. View(r) # <<>> /\ View(r)[Len(View(r))] = Seen(c)
  BY <1>1, ViewLast
<1>3. Journal!Running /\ Journal!Top = Seen(c)
  BY <1>2 DEF Journal!Running, Journal!Top, View, Seen, r
<1>4. /\ Journal!Speaker(Seen(c)) = Voice(c, IF c.frames = <<>> THEN 0 ELSE Last(c.frames).number)
      /\ Seen(c).frames = <<>> <=> c.frames = <<>>
      /\ Seen(c).sys = c.sys /\ Seen(c).id = c.id
  BY <1>1, SeenSpeaks
<1> QED BY <1>3, <1>4 DEF c, Now, InFrameNow, Frame, Voice

(* A function on 1..m is a sequence.                                       *)
LEMMA SeqOfFunction ==
    ASSUME NEW S, NEW m \in Nat, NEW g \in [1..m -> S]
    PROVE  g \in Seq(S) /\ Len(g) = m /\ DOMAIN g = 1..m
<1>1. g \in Seq(S)
  BY SeqDef
<1> QED BY <1>1

(* A context seen with other frames.                                       *)
LEMMA SeenExcept ==
    ASSUME NEW c, NEW n, NEW g
    PROVE  /\ [Seen(c) EXCEPT !.entered = n, !.frames = g]
                = [id |-> c.id, sys |-> c.sys, entered |-> n, frames |-> g]
           /\ [Seen(c) EXCEPT !.frames = g]
                = [id |-> c.id, sys |-> c.sys, entered |-> c.entered, frames |-> g]
<1> DEFINE s       == Seen(c)
           id      == c.id
           sys     == c.sys
           entered == c.entered
           f       == Seen(c).frames
<1>1. s = [id |-> id, sys |-> sys, entered |-> entered, frames |-> f]
  BY DEF Seen
<1> HIDE DEF s, id, sys, entered, f
<1>2. s \in [id : {id}, sys : {sys}, entered : {entered}, frames : {f}]
  BY <1>1
<1>3. [s EXCEPT !.entered = n, !.frames = g] \in [id : {id}, sys : {sys}, entered : {n}, frames : {g}]
  BY <1>2
<1>4. [s EXCEPT !.frames = g] \in [id : {id}, sys : {sys}, entered : {entered}, frames : {g}]
  BY <1>2
<1> DEFINE t == [s EXCEPT !.entered = n, !.frames = g]
           u == [s EXCEPT !.frames = g]
<1>4a. t \in [id : {id}, sys : {sys}, entered : {n}, frames : {g}]
  BY <1>3
<1> HIDE DEF t, u
<1>5. t = [id |-> id, sys |-> sys, entered |-> n, frames |-> g]
  BY <1>4a
<1>6. u = [id |-> id, sys |-> sys, entered |-> entered, frames |-> g]
  BY <1>4 DEF u
<1> QED BY <1>5, <1>6 DEF t, u, s, id, sys, entered

(* The frames the journal sees.                                            *)
LEMMA SeenFrames ==
    ASSUME NEW c \in Contexts, NEW f, f = Seen(c).frames
    PROVE  /\ f \in Seq(1..MaxFrames) /\ Len(f) = Len(c.frames) /\ DOMAIN f = 1..Len(c.frames)
           /\ \A j \in 1..Len(c.frames) : f[j] = c.frames[j].number
<1> DEFINE m == Len(c.frames)
           g == [j \in 1..m |-> c.frames[j].number]
<1>1. c.frames \in Seq([number : 1..MaxFrames, mark : Nat]) /\ m \in Nat
  BY DEF Contexts
<1>2. f = g
  BY <1>1 DEF Seen
<1>3. ASSUME NEW j \in 1..m PROVE c.frames[j].number \in 1..MaxFrames
  <2>1. c.frames[j] \in [number : 1..MaxFrames, mark : Nat]
    BY <1>1, ElementOfSeq
  <2> QED BY <2>1
<1>4. g \in [1..m -> 1..MaxFrames] /\ \A j \in 1..m : g[j] = c.frames[j].number
  BY <1>3
<1> HIDE DEF g
<1>5. g \in Seq(1..MaxFrames) /\ Len(g) = m /\ DOMAIN g = 1..m
  BY <1>1, <1>4, SeqOfFunction
<1> QED BY <1>2, <1>4, <1>5

(* What a context is seen as with a frame more, and with one less.         *)
Deeper(s, n) == [s EXCEPT !.entered = n, !.frames = Append(@, n)]
Shallower(s) == [s EXCEPT !.frames = SubSeq(@, 1, Len(@) - 1)]

(* A frame more.                                                           *)
LEMMA SeenEnter ==
    ASSUME NEW c \in Contexts, NEW e \in Contexts, e.id = c.id, e.sys = c.sys,
           NEW x \in [number : 1..MaxFrames, mark : Nat], NEW n \in Nat, x.number = n,
           e.entered = n, e.frames = Append(c.frames, x)
    PROVE  Seen(e) = Deeper(Seen(c), n)
<1> DEFINE f == Seen(c).frames
           m == Len(c.frames)
           g == Append(f, n)
<1>1. c.frames \in Seq([number : 1..MaxFrames, mark : Nat]) /\ m \in Nat /\ MaxFrames \in Nat
  BY ClientAssumption DEF Contexts
<1>2. f \in Seq(1..MaxFrames) /\ Len(f) = m /\ \A j \in 1..m : f[j] = c.frames[j].number
  BY SeenFrames
<1> HIDE DEF f
<1>3. DOMAIN e.frames = 1..(m + 1) /\ e.frames[m + 1] = x
      /\ \A j \in 1..m : e.frames[j] = c.frames[j]
  <2> DEFINE S == [number : 1..MaxFrames, mark : Nat]
  <2>1. c.frames \in Seq(S) /\ x \in S
    BY <1>1
  <2> HIDE DEF S
  <2> QED BY <1>1, <2>1
<1>4. Len(g) = m + 1 /\ DOMAIN g = 1..(m + 1) /\ g[m + 1] = n /\ \A j \in 1..m : g[j] = f[j]
  <2>1. f \in Seq(Nat)
    BY <1>1, <1>2
  <2> QED BY <1>1, <1>2, <2>1
<1>5. \A j \in 1..(m + 1) : j \in 1..m \/ j = m + 1
  BY <1>1
<1> HIDE DEF m
<1>7. ASSUME NEW j \in 1..(m + 1) PROVE g[j] = e.frames[j].number
  <2>1. CASE j \in 1..m
    BY <1>2, <1>3, <1>4, <2>1
  <2>2. CASE j = m + 1
    BY <1>3, <1>4, <2>2
  <2> QED BY <1>5, <2>1, <2>2
<1>8. g = [j \in 1..(m + 1) |-> g[j]]
  <2>1. g \in Seq(Nat)
    BY <1>1, <1>2
  <2> HIDE DEF g
  <2> QED BY <1>4, <2>1
<1> HIDE DEF g
<1>9. [j \in DOMAIN e.frames |-> e.frames[j].number] = g
  BY <1>3, <1>7, <1>8
<1>10. Seen(e) = [id |-> c.id, sys |-> c.sys, entered |-> n, frames |-> g]
  BY <1>9 DEF Seen
<1>11. Seen(c) = [id |-> c.id, sys |-> c.sys, entered |-> c.entered, frames |-> f]
  BY DEF Seen, f
<1>12. Deeper(Seen(c), n) = [Seen(c) EXCEPT !.entered = n, !.frames = g]
  BY <1>11 DEF g, Deeper
<1>13. [Seen(c) EXCEPT !.entered = n, !.frames = g]
         = [id |-> c.id, sys |-> c.sys, entered |-> n, frames |-> g]
  BY SeenExcept
<1> QED BY <1>10, <1>12, <1>13

(* A frame less.                                                           *)
LEMMA SeenExit ==
    ASSUME NEW c \in Contexts, NEW e \in Contexts, e.id = c.id, e.sys = c.sys,
           c.frames # <<>>, e.entered = c.entered, e.frames = Front(c.frames)
    PROVE  Seen(e) = Shallower(Seen(c))
<1> DEFINE f == Seen(c).frames
           m == Len(c.frames)
           g == SubSeq(f, 1, m - 1)
<1>1. c.frames \in Seq([number : 1..MaxFrames, mark : Nat]) /\ m \in Nat
  BY DEF Contexts
<1>2. f \in Seq(1..MaxFrames) /\ Len(f) = m /\ \A j \in 1..m : f[j] = c.frames[j].number
  BY SeenFrames
<1> HIDE DEF f
<1>3. m - 1 \in Nat /\ \A j \in 1..(m - 1) : j \in 1..m
  BY <1>1, EmptySeq
<1>4. DOMAIN e.frames = 1..(m - 1) /\ \A j \in 1..(m - 1) : e.frames[j] = c.frames[j]
  BY <1>1, <1>3 DEF Front
<1>5. g = [j \in 1..(m - 1) |-> f[j]]
  BY <1>2, <1>3
<1> HIDE DEF m, g
<1>6. [j \in DOMAIN e.frames |-> e.frames[j].number] = g
  BY <1>2, <1>3, <1>4, <1>5
<1>7. Seen(e) = [id |-> c.id, sys |-> c.sys, entered |-> c.entered, frames |-> g]
  BY <1>6 DEF Seen
<1>8. Seen(c) = [id |-> c.id, sys |-> c.sys, entered |-> c.entered, frames |-> f]
  BY DEF Seen, f
<1>9. [Seen(c) EXCEPT !.frames = g] = [id |-> c.id, sys |-> c.sys, entered |-> c.entered, frames |-> g]
  BY SeenExcept
<1>10. SubSeq(Seen(c).frames, 1, Len(Seen(c).frames) - 1) = g
  BY <1>2 DEF f, g, m
<1> QED BY <1>7, <1>9, <1>10 DEF Shallower
-----------------------------------------------------------------------------
(* Steps inside of what is running                                         *)

(* What is running innermost is traced by the current state.               *)
LEMMA TopHolds ==
    ASSUME LinkedOK, Linked, Kept, Running
    PROVE  /\ Holds(cur, Top, profile.outsideTrx)
           /\ Top \in Contexts /\ Top.id \in Nat /\ Top.id <= evm.started /\ evm.started \in Nat
<1>1. evm.running \in Seq(Contexts) /\ Len(evm.running) \in 1..Len(evm.running) /\ Top \in Contexts
      /\ Top = evm.running[Len(evm.running)]
  <2>1. evm \in Clients
    BY DEF LinkedOK
  <2> QED BY <2>1, TopType, EmptySeq DEF Running, Top, Last
<1>2. Holds(cur, Top, profile.outsideTrx)
  BY LinkedShape DEF Kept
<1>3. Top.id <= evm.started
  BY <1>1 DEF Kept
<1>4. Top.id \in Nat /\ evm.started \in Nat
  <2>1. evm \in Clients /\ Top.id \in 1..MaxContexts
    BY <1>1 DEF LinkedOK, Contexts
  <2> QED BY <2>1, ClientAssumption DEF Clients
<1> QED BY <1>1, <1>2, <1>3, <1>4

(* A step of the context on top, which becomes c.                          *)
LEMMA InsideKept ==
    ASSUME LinkedOK, Linked, Kept, Running, NEW c, c.id = Top.id,
           Len(evm'.running) = Len(evm.running),
           \A i \in 1..Len(evm.running) :
               evm'.running[i] = IF i = Len(evm.running) THEN c ELSE evm.running[i],
           evm'.started = evm.started, UNCHANGED <<block, interrupted, profile>>,
           cur'.suicided = evm'.destructing, Holds(cur', c, profile.outsideTrx),
           \A f \in RecordedFacts' : f \in RecordedFacts \/ f.data.by = Top.id
    PROVE  Kept'
<1>1. /\ Top.id \in Nat /\ Top.id <= evm.started
      /\ Len(evm.running) \in Nat /\ Len(evm.running) \in 1..Len(evm.running)
      /\ Top = evm.running[Len(evm.running)]
  BY TopHolds, LinkedParts DEF Running, Top, Last
<1>2. \A i \in 1..Len(evm.running) : evm'.running[i].id = evm.running[i].id
  BY <1>1
<1>3. \A f \in RecordedFacts' : f.data.by \in Nat /\ f.data.by <= evm'.started
  BY <1>1 DEF Kept
<1>4. \A i \in 1..Len(evm'.running) : evm'.running[i].id <= evm'.started
  BY <1>2 DEF Kept
<1>5. \A i \in 1..Len(evm'.running) : \A f \in BlockFacts(block') : f.data.by # evm'.running[i].id
  BY <1>2 DEF Kept
<1>6. Len(evm'.running) = 1 => Holds(cur', evm'.running[1], profile'.outsideTrx)
  BY <1>1
<1>7. Len(evm'.running) = 2 =>
         /\ Holds(interrupted'[1], evm'.running[1], profile'.outsideTrx) /\ ~interrupted'[1].suicided
         /\ Holds(cur', evm'.running[2], profile'.outsideTrx)
         /\ evm'.running[1].id # evm'.running[2].id
  BY <1>1, <1>2 DEF Kept
<1> QED BY <1>3, <1>4, <1>5, <1>6, <1>7, KeptNext

(* The client with another context on top.                                 *)
LEMMA WithTopRunning ==
    ASSUME LinkedOK, Running, NEW c
    PROVE  /\ Len(WithTop(c).running) = Len(evm.running)
           /\ \A i \in 1..Len(evm.running) :
                WithTop(c).running[i] = IF i = Len(evm.running) THEN c ELSE evm.running[i]
           /\ WithTop(c).running = [evm.running EXCEPT ![Len(evm.running)] = c]
           /\ WithTop(c).started = evm.started /\ WithTop(c).destructing = evm.destructing
<1>1. evm \in Clients /\ evm.running \in Seq(Contexts)
  BY LinkedParts DEF LinkedOK
<1> DEFINE r == evm.running
<1>2. WithTop(c).running = [r EXCEPT ![Len(r)] = c]
      /\ WithTop(c).started = evm.started /\ WithTop(c).destructing = evm.destructing
  BY <1>1 DEF WithTop, Clients
<1>3. r \in Seq(Contexts)
  BY <1>1
<1> HIDE DEF r
<1>4. /\ Len([r EXCEPT ![Len(r)] = c]) = Len(r)
      /\ \A i \in 1..Len(r) : [r EXCEPT ![Len(r)] = c][i] = IF i = Len(r) THEN c ELSE r[i]
  BY <1>3
<1> QED BY <1>2, <1>4 DEF r

(* The frame that is entered has the call that is pushed in its name ...    *)
LEMMA PushFrames ==
    ASSUME NEW cs, BranchOK(cs), NEW c \in Contexts, Frames(cs, c), NEW e, NEW n, NEW mark,
           e.id = c.id, e.sys = c.sys, e.frames = Append(c.frames, [number |-> n, mark |-> mark]),
           NEW x \in Call, x.outcome = "open", x.data = Voice(c, n)
    PROVE  Frames(Push(cs, x), e)
<1> DEFINE after  == Push(cs, x).stack
           m      == Len(cs.stack)
           parent == IF HasActiveCall(cs) THEN Peek(cs).index ELSE 0
           pushed == [x EXCEPT !.index = cs.index + 1, !.depth = cs.depth, !.parent = parent]
           frame  == [number |-> n, mark |-> mark]
           frames == Append(c.frames, frame)
<1>1. cs.stack \in Seq(Call) /\ m \in Nat
  BY DEF BranchOK, CallStack
<1>2. Len(after) = m + 1 /\ \A i \in 1..m : after[i] = cs.stack[i]
  BY PushBranch
<1>3. after = Append(cs.stack, pushed)
  BY DEF Push
<1>4. pushed.outcome = "open" /\ pushed.data = Voice(c, n)
  BY DEF Call
<1> HIDE DEF pushed, after
<1>5. after[m + 1] = pushed
  BY <1>1, <1>3
<1>6. /\ c.frames \in Seq([number : 1..MaxFrames, mark : Nat]) /\ Len(c.frames) = m
      /\ \A i \in 1..m : cs.stack[i].outcome = "open" /\ cs.stack[i].data = Voice(c, c.frames[i].number)
  BY DEF Frames, Contexts
<1>7. Len(frames) = m + 1 /\ frames[m + 1].number = n /\ \A i \in 1..m : frames[i] = c.frames[i]
  <2>1. frame.number = n
    OBVIOUS
  <2> HIDE DEF frame
  <2>2. /\ Len(Append(c.frames, frame)) = m + 1 /\ Append(c.frames, frame)[m + 1] = frame
        /\ \A i \in 1..m : Append(c.frames, frame)[i] = c.frames[i]
    BY <1>1, <1>6
  <2> QED BY <2>1, <2>2
<1>8. \A k : Voice(e, k) = Voice(c, k)
  BY DEF Voice
<1> HIDE DEF frames, m
<1>9. ASSUME NEW i \in 1..(m + 1)
      PROVE  after[i].outcome = "open" /\ after[i].data = Voice(e, frames[i].number)
  <2>1. CASE i = m + 1
    BY <1>4, <1>5, <1>7, <1>8, <2>1
  <2>2. CASE i \in 1..m
    <3>1. after[i] = cs.stack[i] /\ frames[i] = c.frames[i]
      BY <1>2, <1>7, <2>2
    <3>2. cs.stack[i].outcome = "open" /\ cs.stack[i].data = Voice(c, c.frames[i].number)
      BY <1>6, <2>2
    <3> QED BY <1>8, <3>1, <3>2
  <2>3. i \in 1..m \/ i = m + 1
    BY <1>1
  <2> QED BY <2>1, <2>2, <2>3
<1>10. e.frames = frames
  BY DEF frames
<1> QED BY <1>2, <1>7, <1>9, <1>10 DEF Frames, after

(* ... and the one that is left takes its call along.                      *)
LEMMA PopFrames ==
    ASSUME NEW cs, BranchOK(cs), HasActiveCall(cs), NEW c \in Contexts, Frames(cs, c), c.frames # <<>>,
           NEW e, e.id = c.id, e.sys = c.sys, e.frames = Front(c.frames)
    PROVE  /\ Frames(Pop(cs), e)
           /\ Peek(cs).outcome = "open" /\ Peek(cs).data = Voice(c, Last(c.frames).number)
<1> DEFINE m == Len(cs.stack)
<1>1. cs.stack \in Seq(Call) /\ m \in Nat
  BY DEF BranchOK, CallStack
<1>2. /\ c.frames \in Seq([number : 1..MaxFrames, mark : Nat]) /\ Len(c.frames) = m
      /\ \A i \in 1..m : cs.stack[i].outcome = "open" /\ cs.stack[i].data = Voice(c, c.frames[i].number)
  BY DEF Frames, Contexts
<1>3. m \in 1..m /\ Last(c.frames) = c.frames[m]
  BY <1>2, EmptySeq DEF Last
<1>4. Peek(cs).outcome = "open" /\ Peek(cs).data = Voice(c, Last(c.frames).number)
  BY <1>2, <1>3 DEF Peek
<1>5. Len(Pop(cs).stack) = m - 1 /\ \A i \in 1..(m - 1) : Pop(cs).stack[i] = cs.stack[i]
  BY PopBranch
<1>6. Len(e.frames) = m - 1 /\ \A i \in 1..(m - 1) : e.frames[i] = c.frames[i]
  BY <1>2, <1>3 DEF Front
<1>7. ASSUME NEW i \in 1..(m - 1)
      PROVE  Pop(cs).stack[i].outcome = "open" /\ Pop(cs).stack[i].data = Voice(e, e.frames[i].number)
  <2>1. i \in 1..m
    BY <1>1
  <2>2. cs.stack[i].outcome = "open" /\ cs.stack[i].data = Voice(c, c.frames[i].number)
    BY <1>2, <2>1
  <2>3. Pop(cs).stack[i] = cs.stack[i] /\ e.frames[i] = c.frames[i]
    BY <1>5, <1>6
  <2> QED BY <2>2, <2>3 DEF Voice
<1> HIDE DEF m
<1> QED BY <1>4, <1>5, <1>6, <1>7 DEF Frames

(* A call for the frame that is entered, in its name.                      *)
LEMMA EnterHolds ==
    ASSUME TracerOK, NEW c \in Contexts, NEW e \in Contexts, NEW outside, Holds(cur, c, outside),
           NEW n \in Nat, NEW mark, Voice(c, n) \in Data,
           e.id = c.id, e.sys = c.sys, e.frames = Append(c.frames, [number |-> n, mark |-> mark]),
           NEW depth, OnCallEnter(depth, Voice(c, n))
    PROVE  Holds(cur', e, outside) /\ cur'.suicided = cur.suicided
<1> DEFINE d    == Voice(c, n)
           call == NewCall(ordinal + 1, d)
           root == PopulateOnEnter(cur.deferred, call)
           cs   == cur.callStack
           m    == Len(cs.stack)
<1>1. /\ cur \in TrxState /\ BranchOK(cs) /\ cs.stack \in Seq(Call) /\ ordinal + 1 \in Nat
      /\ cur.deferred \in [Lists -> Seq(Entry)] /\ m \in Nat
  BY StateParts, AllLogsType DEF TracerOK, HooksOK
<1>2. /\ call \in Call /\ call.outcome = "open" /\ call.data = d
      /\ root \in Call /\ root.outcome = "open" /\ root.data = d
  <2>1. call \in Call /\ root \in Call
    BY <1>1, NewCallType, PopulateType
  <2>2. call.outcome = "open" /\ call.data = d
    BY DEF NewCall
  <2> DEFINE lists == [k \in Lists |-> cur.deferred[k] \o call.lists[k]]
  <2>3. root = [call EXCEPT !.lists = lists]
    BY DEF PopulateOnEnter
  <2> HIDE DEF call, root, lists
  <2> QED BY <2>1, <2>2, <2>3 DEF Call
<1>3. /\ UNCHANGED <<block, interrupted>>
      /\ cur' = IF depth = 0 THEN [cur EXCEPT !.callStack = Push(cs, root), !.deferred = NoEntries]
                ELSE [cur EXCEPT !.callStack = Push(cs, call)]
  BY DEF OnCallEnter
<1>4. PICK x \in Call : /\ x.outcome = "open" /\ x.data = d
                        /\ cur'.callStack = Push(cs, x)
                        /\ cur'.trx = cur.trx /\ cur'.suicided = cur.suicided
                        /\ (cur'.deferred = cur.deferred \/ cur'.deferred = NoEntries)
  <2> HIDE DEF call, root, d, cs
  <2>1. CASE depth = 0
    BY <1>1, <1>2, <1>3, <2>1 DEF TrxState
  <2>2. CASE depth # 0
    BY <1>1, <1>2, <1>3, <2>2 DEF TrxState
  <2> QED BY <2>1, <2>2
<1> HIDE DEF call, root
<1>5. Frames(cs, c)
  BY DEF Holds
<1>6. Frames(cur'.callStack, e)
  <2> HIDE DEF cs, d
  <2> QED BY <1>1, <1>4, <1>5, PushFrames DEF d
<1>7. HasActiveCall(cur'.callStack)
  <2>1. Len(Push(cs, x).stack) = m + 1
    BY <1>1, <1>4, PushBranch
  <2>2. Push(cs, x).stack # <<>>
    BY <1>1, <2>1
  <2> QED BY <1>4, <2>2 DEF HasActiveCall
<1>8. \A f \in StateFacts(cur') : f.data.by = e.id
  <2>1. StateFacts(cur') = StateFacts(cur) \cup {Fact(ordinal + 1, "enter", d)}
    BY OnCallEnterFacts
  <2>2. Fact(ordinal + 1, "enter", d).data.by = c.id
    BY DEF Fact, Voice
  <2> QED BY <2>1, <2>2 DEF Holds
<1> QED BY <1>4, <1>6, <1>7, <1>8 DEF Holds

(* The call on top ends with its frame, and its exit is in the name of     *)
(* that frame.                                                             *)
LEMMA ExitHolds ==
    ASSUME TracerOK, NEW c \in Contexts, NEW e \in Contexts, NEW outside, Holds(cur, c, outside),
           c.frames # <<>>, e.id = c.id, e.sys = c.sys, e.frames = Front(c.frames),
           NEW outcome \in Outcomes \ {"open"}, ~cur.suicided, OnCallExit(outcome), ~Panic
    PROVE  LET exit == Fact(ordinal + 1, "exit", Voice(c, Last(c.frames).number))
           IN  /\ Holds(cur', e, outside) /\ cur'.suicided = cur.suicided
               /\ ordinal' = ordinal + 1 /\ UNCHANGED <<block, interrupted>>
               /\ RecordedFacts' = RecordedFacts \cup {exit}
<1> DEFINE cs   == cur.callStack
           m    == Len(cs.stack)
           call == [Peek(cs) EXCEPT !.outcome = outcome, !.end = ordinal + 1]
           exit == Fact(ordinal + 1, "exit", Voice(c, Last(c.frames).number))
<1>1. /\ cur \in TrxState /\ cur.trx \in Trx /\ BranchOK(cs) /\ cs.stack \in Seq(Call) /\ m \in Nat
      /\ cur.trx.calls \in Seq(Call)
  BY StateParts, AllLogsType DEF TracerOK, HooksOK
<1>2. /\ HasActiveCall(cs)
      /\ ordinal' = ordinal + 1 /\ UNCHANGED <<block, interrupted>>
      /\ cur' = [cur EXCEPT !.callStack = Pop(@), !.trx.calls = Append(@, call)]
  BY DEF OnCallExit, Ensured
<1>3. Frames(cs, c)
  BY DEF Holds
<1>4. /\ Frames(Pop(cs), e)
      /\ Peek(cs).outcome = "open" /\ Peek(cs).data = Voice(c, Last(c.frames).number)
  <2> HIDE DEF cs
  <2> QED BY <1>1, <1>2, <1>3, PopFrames
<1>6. /\ RecordedFacts' = RecordedFacts \cup {exit}
      /\ StateFacts(cur') \subseteq StateFacts(cur) \cup {exit}
  BY <1>2, <1>4, OnCallExitFacts
<1> DEFINE after == Pop(cs)
           calls == Append(cur.trx.calls, call)
           trx   == [cur.trx EXCEPT !.calls = calls]
<1>7. /\ trx.end = cur.trx.end /\ trx.begin = cur.trx.begin /\ trx.id = cur.trx.id /\ trx.calls = calls
      /\ calls # <<>>
  BY <1>1 DEF Trx
<1>8. cur' = [cur EXCEPT !.callStack = after, !.trx = trx]
  BY <1>1, <1>2 DEF TrxState, Trx
<1> HIDE DEF call, after, calls, trx
<1>10. /\ cur'.trx = trx /\ cur'.callStack = after /\ cur'.deferred = cur.deferred
       /\ cur'.suicided = cur.suicided
  BY <1>1, <1>8 DEF TrxState
<1>11. \A f \in StateFacts(cur') : f.data.by = e.id
  <2>1. exit.data.by = c.id
    BY DEF Fact, Voice
  <2> HIDE DEF exit
  <2> QED BY <1>6, <2>1 DEF Holds
<1>12. Holds(cur', e, outside)
  BY <1>4, <1>7, <1>10, <1>11 DEF Holds, after
<1> QED BY <1>2, <1>6, <1>10, <1>12

(* What a call on top is replaced by, in the same name and as open.        *)
LEMMA OnTopFrames ==
    ASSUME NEW cs, BranchOK(cs), HasActiveCall(cs), NEW c, Frames(cs, c), NEW call \in Call,
           call.index = Peek(cs).index, call.depth = Peek(cs).depth, call.parent = Peek(cs).parent,
           call.outcome = Peek(cs).outcome, call.data = Peek(cs).data
    PROVE  Frames(OnTop(cs, call), c) /\ HasActiveCall(OnTop(cs, call))
<1> DEFINE after == OnTop(cs, call)
           m     == Len(cs.stack)
<1>1. m \in Nat /\ m >= 1 /\ Peek(cs) = cs.stack[m]
  BY PeekType DEF BranchOK
<1>2. Len(after.stack) = m /\ \A i \in 1..m : after.stack[i] = IF i = m THEN call ELSE cs.stack[i]
  BY OnTopBranch
<1> HIDE DEF after
<1>3. Len(c.frames) = m
      /\ \A i \in 1..m : cs.stack[i].outcome = "open" /\ cs.stack[i].data = Voice(c, c.frames[i].number)
  BY DEF Frames
<1>4. after.stack # <<>>
  BY <1>1, <1>2
<1> HIDE DEF m
<1>5. ASSUME NEW i \in 1..m
      PROVE  after.stack[i].outcome = "open" /\ after.stack[i].data = Voice(c, c.frames[i].number)
  <2>1. cs.stack[i].outcome = "open" /\ cs.stack[i].data = Voice(c, c.frames[i].number)
    BY <1>3
  <2> QED BY <1>1, <1>2, <2>1
<1> QED BY <1>2, <1>3, <1>4, <1>5 DEF Frames, HasActiveCall, after

(* An entry, in the name of the context.                                   *)
LEMMA AttachedHolds ==
    ASSUME StateOK(cur), NEW c \in Contexts, NEW outside, Holds(cur, c, outside),
           NEW k \in Lists, NEW e \in Entry, e.data.by = c.id,
           c.frames = <<>> => ~c.sys /\ k \in outside
    PROVE  Holds(Attached(k, e), c, outside) /\ Attached(k, e).suicided = cur.suicided
<1> DEFINE cs    == cur.callStack
           lists == Add(Peek(cs).lists, k, e)
           call  == [Peek(cs) EXCEPT !.lists = lists]
           after == OnTop(cs, call)
           s     == Attached(k, e)
<1>1. cur \in TrxState /\ cs \in CallStack /\ BranchOK(cs) /\ cur.deferred \in [Lists -> Seq(Entry)]
  BY StateParts
<1>2. HasActiveCall(cs) <=> c.frames # <<>>
  <2>1. cs.stack \in Seq(Call) /\ c.frames \in Seq([number : 1..MaxFrames, mark : Nat])
    BY <1>1 DEF CallStack, Contexts
  <2>2. Len(cs.stack) = Len(c.frames)
    BY DEF Holds, Frames
  <2> QED BY <2>1, <2>2, EmptySeq DEF HasActiveCall
<1>3. \A f \in StateFacts(s) : f.data.by = c.id
  <2>1. StateFacts(s) = StateFacts(cur) \cup {Fact(e.ord, k, e.data)}
    BY AttachedFacts
  <2>2. Fact(e.ord, k, e.data).data.by = c.id
    BY DEF Fact
  <2> HIDE DEF s
  <2> QED BY <2>1, <2>2 DEF Holds
<1>4. CASE HasActiveCall(cs)
  <2>1. Peek(cs) \in Call /\ lists \in [Lists -> Seq(Entry)]
    <3>1. Peek(cs) \in Call
      BY <1>1, <1>4, PeekType
    <3> QED BY <3>1, ListsType DEF Call
  <2>2. s = [cur EXCEPT !.callStack = after]
    BY <1>4 DEF Attached
  <2> HIDE DEF lists, cs
  <2>3. /\ call \in Call /\ call.index = Peek(cs).index /\ call.depth = Peek(cs).depth
        /\ call.parent = Peek(cs).parent /\ call.outcome = Peek(cs).outcome /\ call.data = Peek(cs).data
    BY <2>1 DEF Call
  <2> HIDE DEF call
  <2>4. Frames(cs, c)
    BY DEF Holds, cs
  <2>5. Frames(after, c) /\ HasActiveCall(after)
    BY <1>1, <1>4, <2>3, <2>4, OnTopFrames
  <2> HIDE DEF after, s
  <2>6. /\ s.trx = cur.trx /\ s.callStack = after /\ s.deferred = cur.deferred
        /\ s.suicided = cur.suicided
    BY <1>1, <2>2 DEF TrxState
  <2> QED BY <1>3, <2>5, <2>6 DEF Holds, s
<1>5. CASE ~HasActiveCall(cs)
  <2> DEFINE d == Add(cur.deferred, k, e)
  <2>1. s = [cur EXCEPT !.deferred = d]
    BY <1>5 DEF Attached
  <2> HIDE DEF d, s
  <2>2. s.trx = cur.trx /\ s.callStack = cs /\ s.deferred = d /\ s.suicided = cur.suicided
    BY <1>1, <2>1 DEF TrxState
  <2>3. ~(c.sys \/ outside = {})
    BY <1>2, <1>5
  <2> QED BY <1>3, <2>2, <2>3 DEF Holds, s
<1> QED BY <1>4, <1>5

(* Opcodes.                                                                *)
LEMMA OpcodeHolds ==
    ASSUME TracerOK, NEW c, NEW outside, Holds(cur, c, outside),
           NEW selfdestruct \in BOOLEAN, NEW failed \in BOOLEAN, OnOpcode(selfdestruct, failed)
    PROVE  Holds(cur', c, outside) /\ cur'.suicided = cur.suicided
<1> DEFINE cs      == cur.callStack
           suicide == Peek(cs).suicide \/ (selfdestruct /\ ~failed)
           call    == [Peek(cs) EXCEPT !.executed = TRUE, !.suicide = suicide]
           after   == OnTop(cs, call)
<1>1. cur \in TrxState /\ cs \in CallStack /\ BranchOK(cs)
  BY StateParts DEF TracerOK, HooksOK
<1>2. cur' = IF HasActiveCall(cs) THEN [cur EXCEPT !.callStack = after] ELSE cur
  BY DEF OnOpcode
<1>3. StateFacts(cur') = StateFacts(cur)
  BY OnOpcodeFacts
<1>4. CASE ~HasActiveCall(cs)
  BY <1>2, <1>4
<1>5. CASE HasActiveCall(cs)
  <2>1. Peek(cs) \in Call /\ suicide \in BOOLEAN
    <3>1. Peek(cs) \in Call
      BY <1>1, <1>5, PeekType
    <3> QED BY <3>1 DEF Call
  <2> HIDE DEF suicide, cs
  <2>2. /\ call \in Call /\ call.index = Peek(cs).index /\ call.depth = Peek(cs).depth
        /\ call.parent = Peek(cs).parent /\ call.outcome = Peek(cs).outcome /\ call.data = Peek(cs).data
    BY <2>1 DEF Call
  <2> HIDE DEF call
  <2>3. Frames(cs, c)
    BY DEF Holds, cs
  <2>4. Frames(after, c) /\ HasActiveCall(after)
    BY <1>1, <1>5, <2>2, <2>3, OnTopFrames
  <2> HIDE DEF after
  <2>5. /\ cur'.trx = cur.trx /\ cur'.callStack = after /\ cur'.deferred = cur.deferred
        /\ cur'.suicided = cur.suicided
    BY <1>1, <1>2, <1>5 DEF TrxState
  <2> QED BY <1>3, <2>4, <2>5 DEF Holds
<1> QED BY <1>4, <1>5

(* What touches neither calls nor deferred changes.                        *)
LEMMA OtherFieldsHold ==
    ASSUME NEW s \in TrxState, NEW t, NEW c, NEW outside, Holds(s, c, outside),
           t.trx = s.trx, t.callStack = s.callStack, t.deferred = s.deferred
    PROVE  Holds(t, c, outside)
<1>1. StateFacts(t) = StateFacts(s)
  BY DEF StateFacts
<1> QED BY <1>1 DEF Holds
-----------------------------------------------------------------------------
(* Each step of the client keeps the invariant and is one of the journal,  *)
(* or none.                                                                *)
JournalStep == [Journal!JournalNext]_(Journal!journalVars)

(* The parts of the invariant.                                             *)
LEMMA JournalParts ==
    ASSUME JournalOK, ~panicked
    PROVE  /\ LinkedOK /\ Linked /\ Kept /\ TracerOK /\ evm \in Clients /\ profile \in Profiles
           /\ cur \in TrxState /\ block \in Blocks /\ StateOK(cur) /\ ordinal \in Nat
           /\ evm.running \in Seq(Contexts)
<1>1. /\ LinkedOK /\ Linked /\ Kept /\ profile \in Profiles /\ TracerOK /\ evm \in Clients
  BY DEF JournalOK, LinkedOK
<1>2. cur \in TrxState /\ block \in Blocks /\ evm.running \in Seq(Contexts)
  BY <1>1, LinkedParts
<1>3. StateOK(cur) /\ ordinal \in Nat
  BY <1>1 DEF TracerOK, HooksOK
<1> QED BY <1>1, <1>2, <1>3

(* Nothing is recorded, nothing noted.                                     *)
LEMMA SilentStep ==
    ASSUME block'.open = block.open, ordinal' = ordinal, evm'.running = evm.running,
           RecordedFacts' = RecordedFacts
    PROVE  JournalStep
BY DEF JournalStep, Journal!journalVars

(* A change or a log is noted in the name of the client as it stands.      *)
LEMMA EmitStep ==
    ASSUME evm \in Clients, block.open, block'.open = block.open, evm'.running = evm.running,
           NEW k \in Lists, ordinal' = ordinal + 1,
           RecordedFacts' = RecordedFacts \cup {Fact(ordinal + 1, k, Now)}
    PROVE  JournalStep
<1>1. (IF Journal!Running THEN Journal!Speaker(Journal!Top) ELSE Journal!Nobody) = Now
  <2>1. CASE Running
    BY <2>1, SeenNow
  <2>2. CASE ~Running
    <3>1. evm.running = <<>>
      BY <2>2 DEF Running
    <3>2. ~Journal!Running
      BY <3>1 DEF Journal!Running
    <3> QED BY <2>2, <3>2 DEF Now, Journal!Nobody
  <2> QED BY <2>1, <2>2
<1>2. Journal!Note(k, Now)
  BY DEF Journal!Note, Fact
<1>3. Journal!Emit(k)
  BY <1>1, <1>2 DEF Journal!Emit
<1> QED BY <1>3 DEF JournalStep, Journal!JournalNext

(* A step inside of a frame or context that does not show.                 *)
LEMMA SilentInside ==
    ASSUME JournalOK, ~panicked, Running, UNCHANGED <<block, ordinal, interrupted, profile>>,
           evm'.running = evm.running, evm'.started = evm.started,
           cur'.suicided = evm'.destructing, Holds(cur', Top, profile.outsideTrx),
           RecordedFacts' = RecordedFacts
    PROVE  Kept' /\ JournalStep
<1>1. LinkedOK /\ Linked /\ Kept
  BY JournalParts
<1>2. \A i \in 1..Len(evm.running) :
          evm'.running[i] = IF i = Len(evm.running) THEN Top ELSE evm.running[i]
  BY DEF Top, Last
<1>3. \A f \in RecordedFacts' : f \in RecordedFacts \/ f.data.by = Top.id
  OBVIOUS
<1>4. Kept'
  BY <1>1, <1>2, <1>3, InsideKept
<1> QED BY <1>4, SilentStep

(* Opcodes, SELFDESTRUCT and preimages.                                    *)
LEMMA OpcodesJournal ==
    ASSUME JournalOK, ~panicked, ~panicked', UNCHANGED profile,
           \/ SelfDestruct \/ EnterSelfDestruct \/ ExitSelfDestruct
           \/ FaultingOpcode \/ KeccakPreimage
    PROVE  Kept' /\ JournalStep
<1>1. /\ LinkedOK /\ Linked /\ Kept /\ TracerOK /\ cur \in TrxState /\ evm \in Clients
      /\ cur.suicided = evm.destructing
  BY JournalParts DEF Kept
<1>2. Running
  <2>1. CASE ~ExitSelfDestruct
    BY <2>1 DEF SelfDestruct, EnterSelfDestruct, FaultingOpcode, KeccakPreimage, InFrameNow
  <2>2. CASE ExitSelfDestruct
    <3>1. cur.suicided
      BY <1>1, <2>2 DEF ExitSelfDestruct
    <3>2. ~FreshState.suicided
      BY DEF FreshState
    <3>3. InTrx
      BY <1>1, <3>1, <3>2 DEF LinkedOK, NothingLeftBehind
    <3> QED BY <1>1, <3>3 DEF Linked
  <2> QED BY <2>1, <2>2
<1>3. Holds(cur, Top, profile.outsideTrx)
  BY <1>1, <1>2, TopHolds
<1>4. ~Panic
  BY DEF Panic
<1>5. CASE SelfDestruct \/ FaultingOpcode
  <2>1. PICK failed \in BOOLEAN : OnOpcode(TRUE, failed) /\ UNCHANGED evm
    BY <1>5 DEF SelfDestruct, FaultingOpcode
  <2>2. UNCHANGED <<block, ordinal, interrupted>>
    BY <2>1 DEF OnOpcode
  <2>3. Holds(cur', Top, profile.outsideTrx) /\ cur'.suicided = cur.suicided
    BY <1>1, <1>3, <2>1, OpcodeHolds
  <2>4. RecordedFacts' = RecordedFacts
    BY <1>1, <2>1, OnOpcodeFacts
  <2> QED BY <1>1, <1>2, <2>1, <2>2, <2>3, <2>4, SilentInside
<1>6. CASE EnterSelfDestruct \/ ExitSelfDestruct
  <2>1. PICK b \in BOOLEAN : /\ cur' = [cur EXCEPT !.suicided = b]
                             /\ evm' = [evm EXCEPT !.destructing = b]
                             /\ UNCHANGED <<block, ordinal, interrupted>>
    BY <1>1, <1>6 DEF EnterSelfDestruct, ExitSelfDestruct, OnSelfDestructEnter, OnCallExit
  <2>2. /\ cur'.trx = cur.trx /\ cur'.callStack = cur.callStack /\ cur'.deferred = cur.deferred
        /\ cur'.suicided = b
    BY <1>1, <2>1 DEF TrxState
  <2>3. evm'.running = evm.running /\ evm'.started = evm.started /\ evm'.destructing = b
    BY <1>1, <2>1 DEF Clients
  <2>4. Holds(cur', Top, profile.outsideTrx)
    BY <1>1, <1>3, <2>2, OtherFieldsHold
  <2>5. RecordedFacts' = RecordedFacts
    BY <1>1, <2>1, OtherFieldsFacts
  <2> QED BY <1>2, <2>1, <2>2, <2>3, <2>4, <2>5, SilentInside
<1>7. CASE KeccakPreimage
  <2> DEFINE r     == [call |-> Peek(cur.callStack).index, data |-> Now]
             after == Append(cur.preimages, r)
  <2>1. cur' = [cur EXCEPT !.preimages = after] /\ UNCHANGED <<block, ordinal, interrupted, evm>>
    BY <1>4, <1>7 DEF KeccakPreimage, OnKeccakPreimage, Ensured
  <2>2. RecordedFacts' = RecordedFacts
    <3>1. cur' = [cur EXCEPT !.preimages = Append(@, r)]
      BY <2>1
    <3> HIDE DEF r
    <3> QED BY <1>1, <2>1, <3>1, OtherFieldsFacts
  <2> HIDE DEF after
  <2>3. /\ cur'.trx = cur.trx /\ cur'.callStack = cur.callStack /\ cur'.deferred = cur.deferred
        /\ cur'.suicided = cur.suicided
    BY <1>1, <2>1 DEF TrxState
  <2>4. Holds(cur', Top, profile.outsideTrx)
    BY <1>1, <1>3, <2>3, OtherFieldsHold
  <2> QED BY <1>1, <1>2, <2>1, <2>2, <2>3, <2>4, SilentInside
<1> QED BY <1>5, <1>6, <1>7

(* A change or a log, in a context.                                        *)
LEMMA EmittedInside ==
    ASSUME JournalOK, ~panicked, Running, UNCHANGED <<block, interrupted, profile>>,
           evm'.running = evm.running, evm'.started = evm.started, evm'.destructing = evm.destructing,
           NEW k \in Lists, NEW e \in Entry, e.data = Now, e.ord = ordinal + 1, ordinal' = ordinal + 1,
           Top.frames = <<>> => ~Top.sys /\ k \in profile.outsideTrx,
           NEW n, cur' = Attached(k, e) \/ cur' = [Attached(k, e) EXCEPT !.logIndex = n],
           RecordedFacts' = RecordedFacts \cup {Fact(ordinal + 1, k, Now)}
    PROVE  Kept' /\ JournalStep
<1>1. /\ LinkedOK /\ Linked /\ Kept /\ evm \in Clients /\ StateOK(cur)
      /\ cur.suicided = evm.destructing
  BY JournalParts DEF Kept
<1>2. Holds(cur, Top, profile.outsideTrx) /\ Top \in Contexts
  BY <1>1, TopHolds
<1>3. e.data.by = Top.id /\ Now.by = Top.id
  BY DEF Now
<1> DEFINE s == Attached(k, e)
<1>4. Holds(s, Top, profile.outsideTrx) /\ s.suicided = cur.suicided
  BY <1>1, <1>2, <1>3, AttachedHolds
<1>5. s \in TrxState
  BY <1>1, AttachedOK DEF StateOK
<1> HIDE DEF s
<1>6. cur'.trx = s.trx /\ cur'.callStack = s.callStack /\ cur'.deferred = s.deferred
      /\ cur'.suicided = s.suicided
  BY <1>5 DEF TrxState, s
<1>7. Holds(cur', Top, profile.outsideTrx)
  BY <1>4, <1>5, <1>6, OtherFieldsHold
<1>8. block.open
  BY <1>1 DEF Linked
<1>9. \A f \in RecordedFacts' : f \in RecordedFacts \/ f.data.by = Top.id
  BY <1>3 DEF Fact
<1>10. \A i \in 1..Len(evm.running) :
          evm'.running[i] = IF i = Len(evm.running) THEN Top ELSE evm.running[i]
  BY DEF Top, Last
<1>11. Kept'
  BY <1>1, <1>4, <1>6, <1>7, <1>9, <1>10, InsideKept
<1>12. JournalStep
  BY <1>1, <1>8, EmitStep
<1> QED BY <1>11, <1>12

(* A change of the block.                                                  *)
LEMMA EmittedOutside ==
    ASSUME JournalOK, ~panicked, ~Running, block.open, UNCHANGED <<cur, interrupted, profile, evm>>,
           block'.open = block.open, NEW k \in Lists, ordinal' = ordinal + 1,
           RecordedFacts' = RecordedFacts \cup {Fact(ordinal + 1, k, Now)}
    PROVE  Kept' /\ JournalStep
<1>1. LinkedOK /\ Kept /\ evm \in Clients
  BY JournalParts
<1>2. Len(evm'.running) = 0
  BY EmptySeq DEF Running
<1>3. \A f \in RecordedFacts' : f.data.by \in Nat /\ f.data.by <= evm'.started
  <2>1. Now.by = 0 /\ evm.started \in Nat
    BY <1>1 DEF Now, Clients
  <2>2. ASSUME NEW f \in RecordedFacts' PROVE f.data.by \in Nat /\ f.data.by <= evm.started
    <3>1. CASE f \in RecordedFacts
      BY <1>1, <3>1 DEF Kept
    <3>2. CASE f = Fact(ordinal + 1, k, Now)
      BY <2>1, <3>2 DEF Fact
    <3> QED BY <3>1, <3>2
  <2> QED BY <2>2
<1>4. Kept'
  <2>1. cur'.suicided = evm'.destructing
    BY <1>1 DEF Kept
  <2> QED BY <1>2, <1>3, <2>1, KeptNext
<1>5. evm'.running = evm.running
  OBVIOUS
<1> QED BY <1>1, <1>4, <1>5, EmitStep

(* A change hook.                                                          *)
LEMMA ChangeJournal ==
    ASSUME JournalOK, ~panicked, block.open, UNCHANGED <<profile, evm>>, NEW k \in Lists,
           OnBlockOrTrxChange(k, Now) \/ OnTrxChange(k, Now), ~Panic,
           Running /\ Top.frames = <<>> => ~Top.sys /\ k \in profile.outsideTrx
    PROVE  Kept' /\ JournalStep
<1> DEFINE change == Change(ordinal + 1, Now)
<1>1. /\ LinkedOK /\ Linked /\ evm \in Clients /\ TracerOK /\ ordinal \in Nat /\ block \in Blocks
  BY JournalParts
<1>2. Now \in Data /\ ordinal + 1 \in Nat
  BY <1>1, NowType
<1>3. change \in Entry /\ change.ord = ordinal + 1 /\ change.data = Now
  BY <1>2, ChangeType DEF Change
<1>4. /\ ordinal' = ordinal + 1 /\ UNCHANGED <<inSystemCall, interrupted>>
      /\ \/ InTrx /\ cur' = Attached(k, change) /\ UNCHANGED block
         \/ ~InTrx /\ block' = [block EXCEPT !.changes = Add(@, k, change)] /\ UNCHANGED cur
  BY DEF OnBlockOrTrxChange, OnTrxChange, Ensured
<1>5. RecordedFacts' = RecordedFacts \cup {Fact(ordinal + 1, k, Now)}
  <2>1. \/ cur' = Attached(k, Change(ordinal + 1, Now)) /\ UNCHANGED block
        \/ block' = [block EXCEPT !.changes = Add(@, k, Change(ordinal + 1, Now))] /\ UNCHANGED cur
    BY <1>4
  <2> QED BY <1>1, <1>2, <1>4, <2>1, ChangeFacts
<1> HIDE DEF change
<1>6. CASE InTrx
  <2>1. Running /\ cur' = Attached(k, change) /\ UNCHANGED block
    BY <1>1, <1>4, <1>6 DEF Linked
  <2> QED BY <1>3, <1>4, <1>5, <2>1, EmittedInside
<1>7. CASE ~InTrx
  <2>1. ~Running /\ UNCHANGED cur
    BY <1>1, <1>4, <1>7 DEF Linked
  <2> DEFINE changes == Add(block.changes, k, change)
  <2>2. block' = [block EXCEPT !.changes = changes]
    BY <1>4, <1>7
  <2> HIDE DEF changes
  <2>3. block'.open = block.open
    BY <1>1, <2>2 DEF Blocks
  <2> QED BY <1>4, <1>5, <2>1, <2>3, EmittedOutside
<1> QED BY <1>6, <1>7

(* What the client may change outside of all frames.                       *)
LEMMA MayEmitOutside ==
    ASSUME Disciplined, profile \in Profiles, NEW k, MayEmit(k), Running, Top.frames = <<>>
    PROVE  ~Top.sys /\ k \in profile.outsideTrx
<1>1. profile.outsideSys = {} /\ ~InFrameNow
  BY DEF Disciplined, InFrameNow
<1> QED BY <1>1 DEF MayEmit

(* Changes and logs.                                                       *)
LEMMA ChangesJournal ==
    ASSUME JournalOK, Disciplined, ~panicked, ~panicked', UNCHANGED profile,
           ClearCode \/ Changes \/ Logs
    PROVE  Kept' /\ JournalStep
<1>1. /\ LinkedOK /\ Linked /\ evm \in Clients /\ TracerOK /\ ordinal \in Nat /\ block \in Blocks
      /\ profile \in Profiles /\ Kept /\ StateOK(cur) /\ cur \in TrxState
  BY JournalParts
<1>2. ~Panic
  BY DEF Panic
<1>3. {"balance", "nonce", "code", "storage", "log"} \subseteq Lists
  BY DEF Lists
<1>4. CASE ClearCode
  <2>1. Running /\ Top.frames # <<>> /\ UNCHANGED evm /\ OnCodeChange(Now, TRUE)
    BY <1>4 DEF ClearCode, InFrameNow
  <2>2. CASE OnBlockOrTrxChange("code", Now)
    <3>1. block.open
      BY <1>1, <2>1 DEF Linked
    <3> QED BY <1>2, <1>3, <2>1, <2>2, <3>1, ChangeJournal
  <2>3. CASE UNCHANGED tracerVars
    <3>1. UNCHANGED <<block, ordinal, cur, interrupted>>
      BY <2>3 DEF tracerVars
    <3>2. Holds(cur', Top, profile.outsideTrx) /\ cur'.suicided = evm'.destructing
      BY <1>1, <2>1, <3>1, TopHolds DEF Kept
    <3>3. RecordedFacts' = RecordedFacts
      BY <2>3, PanicFacts
    <3> QED BY <2>1, <3>1, <3>2, <3>3, SilentInside
  <2> QED BY <2>1, <2>2, <2>3 DEF OnCodeChange
<1>5. CASE Changes
  <2>1. PICK k \in Lists : MayEmit(k) /\ (OnBlockOrTrxChange(k, Now) \/ OnTrxChange(k, Now))
    BY <1>3, <1>5 DEF Changes, OnBalanceChange, OnNonceChange, OnCodeChange, OnStorageChange
  <2>2. UNCHANGED evm /\ block.open
    BY <1>5 DEF Changes
  <2>3. Running /\ Top.frames = <<>> => ~Top.sys /\ k \in profile.outsideTrx
    BY <1>1, <2>1, MayEmitOutside
  <2> QED BY <1>2, <2>1, <2>2, <2>3, ChangeJournal
<1>6. CASE Logs
  <2> DEFINE n   == Len(evm.logs)
             log == [ord |-> ordinal + 1, data |-> Now, index |-> cur.logIndex, blockIndex |-> n]
  <2>1. OnLog(Now, n) /\ MayEmit("log")
        /\ evm' = [evm EXCEPT !.logs = Append(@, [data |-> Now, blockIndex |-> Len(evm.logs)])]
    BY <1>6 DEF Logs
  <2>2. evm'.running = evm.running /\ evm'.started = evm.started /\ evm'.destructing = evm.destructing
        /\ n \in Nat
    BY <1>1, <2>1 DEF Clients
  <2>3. /\ InTrx /\ ordinal' = ordinal + 1 /\ UNCHANGED <<block, interrupted>>
        /\ cur' = [Attached("log", log) EXCEPT !.logIndex = @ + 1]
    BY <1>2, <2>1 DEF OnLog, Ensured
  <2>4. Running
    BY <1>1, <2>3 DEF Linked
  <2>5. Top.frames = <<>> => ~Top.sys /\ "log" \in profile.outsideTrx
    BY <1>1, <2>1, <2>4, MayEmitOutside
  <2>6. Now \in Data /\ cur.logIndex \in Nat
    BY <1>1, NowType, StateParts
  <2>7. log \in Entry /\ log.data = Now /\ log.ord = ordinal + 1
    BY <1>1, <2>2, <2>6 DEF Entry
  <2>8. RecordedFacts' = RecordedFacts \cup {Fact(ordinal + 1, "log", Now)}
    BY <1>1, <2>2, <2>3, <2>6, OnLogFacts
  <2> HIDE DEF log
  <2>9. \E m : cur' = [Attached("log", log) EXCEPT !.logIndex = m]
    BY <2>3
  <2>10. PICK m : cur' = [Attached("log", log) EXCEPT !.logIndex = m]
    BY <2>9
  <2> QED BY <1>3, <2>2, <2>3, <2>4, <2>5, <2>7, <2>8, <2>10, EmittedInside
<1> QED BY <1>4, <1>5, <1>6
-----------------------------------------------------------------------------
(* A frame is entered in the journal ...                                   *)
LEMMA EnterStep ==
    ASSUME Journal!Running, Journal!Top = Seen(Top), NEW e,
           View(evm'.running) = [View(evm.running) EXCEPT ![Len(View(evm.running))] = e],
           e = Deeper(Seen(Top), Seen(Top).entered + 1),
           Journal!Note("enter", Journal!Speaker(e))
    PROVE  JournalStep
<1>1. Journal!Enter
  BY Zenon DEF Journal!Enter, View, Seen, Deeper
<1> QED BY <1>1 DEF JournalStep, Journal!JournalNext

(* ... or left.                                                            *)
LEMMA ExitStep ==
    ASSUME Journal!Running, Journal!Top = Seen(Top), Seen(Top).frames # <<>>, NEW e,
           View(evm.running)[Len(View(evm.running))] = Seen(Top),
           View(evm'.running) = [View(evm.running) EXCEPT ![Len(View(evm.running))] = e],
           e = Shallower(Seen(Top)),
           Journal!Note("exit", Journal!Speaker(Seen(Top)))
    PROVE  JournalStep
<1> DEFINE v == View(evm.running)
<1>1. View(evm'.running) = [v EXCEPT ![Len(v)].frames = SubSeq(@, 1, Len(@) - 1)]
  <2> HIDE DEF v
  <2>1. [v EXCEPT ![Len(v)].frames = SubSeq(@, 1, Len(@) - 1)]
          = [v EXCEPT ![Len(v)] = [v[Len(v)] EXCEPT !.frames = SubSeq(@, 1, Len(@) - 1)]]
    OBVIOUS
  <2> QED BY <2>1 DEF v, Shallower
<1>2. Journal!Exit
  BY <1>1, Zenon DEF Journal!Exit, View, Seen
<1> QED BY <1>2 DEF JournalStep, Journal!JournalNext

(* Entering a frame.                                                       *)
LEMMA EnterJournal ==
    ASSUME JournalOK, ~panicked, ~panicked', UNCHANGED profile, EnterCall
    PROVE  Kept' /\ JournalStep
<1> DEFINE c      == Top
           n      == Top.entered + 1
           mark   == Len(evm.logs)
           frames == Append(Top.frames, [number |-> n, mark |-> mark])
           roots  == IF InFrameNow THEN Top.roots ELSE Top.roots + 1
           e      == [Top EXCEPT !.entered = n, !.roots = roots, !.frames = frames]
           d      == [Now EXCEPT !.frame = n]
           depth  == Len(Top.frames)
<1>1. /\ LinkedOK /\ Linked /\ Kept /\ TracerOK /\ evm \in Clients /\ ordinal \in Nat
      /\ evm.running \in Seq(Contexts) /\ cur.suicided = evm.destructing
  BY JournalParts DEF Kept
<1>2. Running /\ Top.entered < MaxFrames /\ evm' = WithTop(e) /\ OnCallEnter(depth, d)
  BY DEF EnterCall
<1>3. Holds(cur, c, profile.outsideTrx) /\ c \in Contexts
  BY <1>1, <1>2, TopHolds
<1>4. n \in Nat /\ n \in 1..MaxFrames /\ mark \in Nat /\ roots \in Nat /\ n = Top.entered + 1
  BY <1>1, <1>2, <1>3, ClientAssumption DEF Contexts, Clients
<1>5. frames \in Seq([number : 1..MaxFrames, mark : Nat])
  <2>1. c.frames \in Seq([number : 1..MaxFrames, mark : Nat])
    BY <1>3 DEF Contexts
  <2>2. [number |-> n, mark |-> mark] \in [number : 1..MaxFrames, mark : Nat]
    BY <1>4
  <2> QED BY <2>1, <2>2
<1> HIDE DEF n, mark, roots
<1>6. /\ e \in Contexts /\ e.id = c.id /\ e.sys = c.sys /\ e.entered = n
      /\ e.frames = Append(c.frames, [number |-> n, mark |-> mark])
  <2> HIDE DEF frames
  <2>1. n \in 0..MaxFrames
    BY <1>4, ClientAssumption
  <2>2. e \in Contexts
    BY <1>3, <1>4, <1>5, <2>1 DEF Contexts
  <2>3. e.id = c.id /\ e.sys = c.sys /\ e.entered = n /\ e.frames = frames
    BY <1>3 DEF Contexts
  <2> QED BY <2>2, <2>3 DEF frames
<1> HIDE DEF e, frames
<1>7. d = Voice(c, n) /\ d \in Data
  <2>1. d \in Data
    BY <1>1, <1>4, NowType
  <2>2. Now = [by |-> c.id, sys |-> c.sys, frame |-> Now.frame]
    BY <1>2 DEF Now
  <2> QED BY <2>1, <2>2 DEF Voice
<1> HIDE DEF d
<1>8. Holds(cur', e, profile.outsideTrx) /\ cur'.suicided = cur.suicided
  <2> HIDE DEF c
  <2> QED BY <1>1, <1>2, <1>3, <1>4, <1>6, <1>7, EnterHolds
<1>9. /\ RecordedFacts' = RecordedFacts \cup {Fact(ordinal + 1, "enter", Voice(c, n))}
      /\ ordinal' = ordinal + 1 /\ UNCHANGED <<block, interrupted>>
  BY <1>1, <1>2, <1>7, OnCallEnterFacts DEF OnCallEnter
<1>10. /\ Len(evm'.running) = Len(evm.running)
       /\ \A i \in 1..Len(evm.running) :
              evm'.running[i] = IF i = Len(evm.running) THEN e ELSE evm.running[i]
       /\ evm'.running = [evm.running EXCEPT ![Len(evm.running)] = e]
       /\ evm'.started = evm.started /\ evm'.destructing = evm.destructing
  BY <1>1, <1>2, WithTopRunning
<1>11. Kept'
  <2>1. \A f \in RecordedFacts' : f \in RecordedFacts \/ f.data.by = Top.id
    BY <1>9 DEF Fact, Voice
  <2> QED BY <1>1, <1>2, <1>6, <1>8, <1>9, <1>10, <2>1, InsideKept
<1>12. /\ Journal!Running /\ Journal!Top = Seen(c)
       /\ Seen(c).entered + 1 = n
  <2>1. Seen(c).entered = c.entered
    BY DEF Seen
  <2> QED BY <1>1, <1>2, <1>4, <2>1, SeenNow
<1>13. View(evm'.running) = [View(evm.running) EXCEPT ![Len(View(evm.running))] = Seen(e)]
  <2>1. evm.running # <<>>
    BY <1>2 DEF Running
  <2>2. View([evm.running EXCEPT ![Len(evm.running)] = e])
          = [View(evm.running) EXCEPT ![Len(View(evm.running))] = Seen(e)]
    BY <1>1, <1>6, <2>1, ViewSteps, Zenon
  <2> QED BY <1>10, <2>2
<1>14. Seen(e) = Deeper(Seen(c), Seen(c).entered + 1)
  <2>1. Seen(e) = Deeper(Seen(c), n)
    <3> DEFINE x == [number |-> n, mark |-> mark]
    <3>1. x \in [number : 1..MaxFrames, mark : Nat] /\ x.number = n
      BY <1>4
    <3>2. e.frames = Append(c.frames, x)
      BY <1>6
    <3> HIDE DEF c, x
    <3> QED BY <1>3, <1>4, <1>6, <3>1, <3>2, SeenEnter
  <2> QED BY <1>12, <2>1
<1>15. Journal!Speaker(Seen(e)) = Voice(c, n)
  <2>1. Last(e.frames).number = n /\ e.frames # <<>>
    <3>1. c.frames \in Seq([number : 1..MaxFrames, mark : Nat])
      BY <1>3 DEF Contexts
    <3> DEFINE S == [number : 1..MaxFrames, mark : Nat]
               x == [number |-> n, mark |-> mark]
               s == c.frames
    <3>2. x.number = n /\ x \in S
      BY <1>4
    <3>3. s \in Seq(S)
      BY <3>1
    <3> HIDE DEF x, s, S
    <3>4. Append(s, x)[Len(s) + 1] = x /\ Len(Append(s, x)) = Len(s) + 1 /\ Append(s, x) # <<>>
      BY <3>2, <3>3
    <3> QED BY <1>6, <3>2, <3>4 DEF Last, x, s
  <2>2. Voice(e, n) = Voice(c, n)
    BY <1>6 DEF Voice
  <2> QED BY <1>6, <2>1, <2>2, SeenSpeaks
<1>16. Journal!Note("enter", Journal!Speaker(Seen(e)))
  <2>1. block.open
    BY <1>1, <1>2 DEF Linked
  <2> QED BY <1>9, <1>15, <2>1 DEF Journal!Note, Fact
<1>17. JournalStep
  BY <1>12, <1>13, <1>14, <1>16, EnterStep
<1> QED BY <1>11, <1>17

(* Leaving a frame.                                                        *)
LEMMA ExitJournal ==
    ASSUME JournalOK, ~panicked, ~panicked', UNCHANGED profile,
           NEW outcome \in {"ok", "failed", "reverted"}, ExitCall(outcome)
    PROVE  Kept' /\ JournalStep
<1> DEFINE c      == Top
           frames == Front(Top.frames)
           e      == [Top EXCEPT !.frames = frames]
           logs   == IF outcome = "ok" THEN evm.logs ELSE Truncate(evm.logs, Frame.mark)
           exit   == Fact(ordinal + 1, "exit", Voice(c, Last(c.frames).number))
<1>1. /\ LinkedOK /\ Linked /\ Kept /\ TracerOK /\ evm \in Clients /\ ordinal \in Nat
      /\ evm.running \in Seq(Contexts) /\ cur.suicided = evm.destructing
  BY JournalParts DEF Kept
<1>2. /\ Running /\ Top.frames # <<>> /\ ~evm.destructing
      /\ evm' = [WithTop(e) EXCEPT !.logs = logs] /\ OnCallExit(outcome)
  BY DEF ExitCall, Idle, InFrameNow, WithTop
<1>3. Holds(cur, c, profile.outsideTrx) /\ c \in Contexts
  BY <1>1, <1>2, TopHolds
<1>4. frames \in Seq([number : 1..MaxFrames, mark : Nat])
  <2> DEFINE S == [number : 1..MaxFrames, mark : Nat]
             s == Top.frames
  <2>1. s \in Seq(S) /\ s # <<>>
    BY <1>2, <1>3 DEF Contexts
  <2> HIDE DEF s, S
  <2>2. Front(s) \in Seq(S)
    BY <2>1, DropLast DEF Front
  <2> QED BY <2>2 DEF s, S
<1>5. /\ e \in Contexts /\ e.id = c.id /\ e.sys = c.sys /\ e.entered = c.entered
      /\ e.frames = Front(c.frames)
  <2> HIDE DEF frames
  <2>1. e \in Contexts /\ e.id = c.id /\ e.sys = c.sys /\ e.entered = c.entered /\ e.frames = frames
    BY <1>3, <1>4 DEF Contexts
  <2> QED BY <2>1 DEF frames
<1> HIDE DEF e, frames, logs
<1>6. ~Panic /\ ~cur.suicided /\ outcome \in Outcomes \ {"open"}
  BY <1>1, <1>2 DEF Panic, Outcomes
<1>7. /\ Holds(cur', e, profile.outsideTrx) /\ cur'.suicided = cur.suicided
      /\ ordinal' = ordinal + 1 /\ UNCHANGED <<block, interrupted>>
      /\ RecordedFacts' = RecordedFacts \cup {exit}
  <2> HIDE DEF c
  <2>1. c.frames # <<>>
    BY <1>2 DEF c
  <2> QED BY <1>1, <1>2, <1>3, <1>5, <1>6, <2>1, ExitHolds
<1>8. /\ evm'.running = WithTop(e).running /\ evm'.started = WithTop(e).started
      /\ evm'.destructing = WithTop(e).destructing
  <2>1. WithTop(e) \in Clients
    BY <1>1, <1>2, <1>5, WithTopType
  <2> QED BY <1>2, <2>1 DEF Clients
<1>9. /\ Len(evm'.running) = Len(evm.running)
      /\ \A i \in 1..Len(evm.running) :
             evm'.running[i] = IF i = Len(evm.running) THEN e ELSE evm.running[i]
      /\ evm'.running = [evm.running EXCEPT ![Len(evm.running)] = e]
      /\ evm'.started = evm.started /\ evm'.destructing = evm.destructing
  BY <1>1, <1>2, <1>8, WithTopRunning
<1>10. Kept'
  <2>1. \A f \in RecordedFacts' : f \in RecordedFacts \/ f.data.by = Top.id
    BY <1>7 DEF Fact, Voice
  <2> QED BY <1>1, <1>2, <1>5, <1>7, <1>9, <2>1, InsideKept
<1>11. /\ Journal!Running /\ Journal!Top = Seen(c) /\ Seen(c).frames # <<>>
       /\ Journal!Speaker(Seen(c)) = Voice(c, Last(c.frames).number)
  BY <1>1, <1>2, <1>3, SeenNow, SeenSpeaks
<1>12. /\ View(evm'.running) = [View(evm.running) EXCEPT ![Len(View(evm.running))] = Seen(e)]
       /\ View(evm.running)[Len(View(evm.running))] = Seen(c)
  BY <1>1, <1>2, <1>5, <1>9, ViewSteps, ViewLast DEF Running, Top, Last
<1>13. Seen(e) = Shallower(Seen(c))
  <2> HIDE DEF c
  <2>1. c.frames # <<>>
    BY <1>2 DEF c
  <2> QED BY <1>3, <1>5, <2>1, SeenExit
<1>14. Journal!Note("exit", Journal!Speaker(Seen(c)))
  <2>1. block.open
    BY <1>1, <1>2 DEF Linked
  <2> QED BY <1>7, <1>11, <2>1 DEF Journal!Note, Fact
<1>15. JournalStep
  BY <1>11, <1>12, <1>13, <1>14, ExitStep
<1> QED BY <1>10, <1>15
-----------------------------------------------------------------------------
(* Steps between blocks and contexts                                       *)

(* With nothing running, only the names of the facts matter.               *)
LEMMA RestKept ==
    ASSUME evm'.running = <<>>, cur'.suicided = evm'.destructing,
           \A f \in RecordedFacts' : f.data.by \in Nat /\ f.data.by <= evm'.started
    PROVE  Kept'
<1>1. Len(evm'.running) = 0
  BY EmptySeq
<1> QED BY <1>1, KeptNext

(* A new context, as the journal sees it.                                  *)
LEMMA SeenFresh ==
    ASSUME NEW id, NEW sys, NEW mark
    PROVE  Seen(NewContext(id, sys, mark)) = Journal!Fresh(id, sys)
BY DEF Seen, NewContext, Journal!Fresh

(* The tracer between transactions.                                        *)
LEMMA AtRest ==
    ASSUME JournalOK, ~panicked, ~Running
    PROVE  /\ cur = FreshState /\ ~InTrx /\ interrupted = <<>> /\ evm.running = <<>>
           /\ ~block.open => block = NoBlock /\ ordinal = 0 /\ RecordedFacts = {}
<1>1. LinkedOK /\ Linked
  BY JournalParts
<1>2. cur = FreshState /\ ~InTrx /\ interrupted = <<>> /\ evm.running = <<>>
  BY <1>1 DEF LinkedOK, Linked, NothingLeftBehind, Running
<1>3. ~block.open => block = NoBlock /\ ordinal = 0
  BY <1>1 DEF LinkedOK, NothingLeftBehind
<1> QED BY <1>2, <1>3, FactParts, NothingRecorded

(* The bounds of a block.                                                  *)
LEMMA BlockJournal ==
    ASSUME JournalOK, ~panicked, ~panicked', UNCHANGED profile,
           StartBlock \/ EndBlock \/ FailBlock \/ SkipBlock
    PROVE  Kept' /\ JournalStep
<1>1. /\ LinkedOK /\ Linked /\ Kept /\ ~Panic /\ ~evm.destructing
      /\ cur.suicided = evm.destructing
  BY JournalParts DEF Kept, Panic, StartBlock, EndBlock, FailBlock, SkipBlock, Idle
<1>2. ~FreshState.suicided /\ ~NoBlock.open
  BY DEF FreshState, NoBlock
<1>3. CASE StartBlock
  <2>1. ~block.open /\ OnBlockStart /\ UNCHANGED evm
    BY <1>3 DEF StartBlock
  <2>2. ~Running
    BY <1>1, <2>1 DEF Linked
  <2>3. block = NoBlock /\ evm.running = <<>>
    BY <2>1, <2>2, AtRest
  <2>4. block'.open = TRUE /\ UNCHANGED <<ordinal, cur>>
    BY <2>1 DEF OnBlockStart, NoBlock
  <2>5. RecordedFacts' = RecordedFacts
    BY <2>1, <2>3, OnBlockStartFacts
  <2>6. Kept'
    BY <1>1, <2>1, <2>3, <2>4, <2>5, RestKept DEF Kept
  <2>7. Journal!Open
    BY <2>1, <2>4, <2>5 DEF Journal!Open
  <2> QED BY <2>6, <2>7 DEF JournalStep, Journal!JournalNext
<1>4. CASE EndBlock \/ FailBlock
  <2>1. /\ block.open /\ evm' = EvmAtRest /\ ResetBlock /\ ResetTransaction
    BY <1>1, <1>4 DEF EndBlock, FailBlock, OnBlockEnd, Ensured
  <2>2. RecordedFacts' = {}
    BY <2>1, ResetFacts
  <2>3. /\ evm'.running = <<>> /\ ~evm'.destructing /\ ~cur'.suicided
        /\ ~block'.open /\ block'.open = FALSE /\ ordinal' = 0
        /\ cur'.suicided = evm'.destructing
    BY <1>2, <2>1 DEF EvmAtRest, ResetBlock, ResetTransaction, FreshState, NoBlock
  <2>4. Kept'
    BY <2>2, <2>3, RestKept
  <2>5. Journal!Close
    <3>1. View(evm'.running) = <<>>
      BY <2>3 DEF View
    <3> QED BY <2>1, <2>2, <2>3, <3>1, Zenon DEF Journal!Close, View, Seen
  <2> QED BY <2>4, <2>5 DEF JournalStep, Journal!JournalNext
<1>5. CASE SkipBlock
  <2>1. ~block.open /\ ResetBlock /\ ResetTransaction /\ UNCHANGED evm
    BY <1>1, <1>5 DEF SkipBlock, OnSkippedBlock, Ensured
  <2>2. ~Running
    BY <1>1, <2>1 DEF Linked
  <2>3. block = NoBlock /\ ordinal = 0 /\ RecordedFacts = {} /\ evm.running = <<>>
    BY <2>1, <2>2, AtRest
  <2>4. RecordedFacts' = {}
    BY <2>1, ResetFacts
  <2>5. block' = NoBlock /\ ordinal' = 0 /\ cur' = FreshState
    BY <2>1 DEF ResetBlock, ResetTransaction
  <2>6. cur'.suicided = evm'.destructing
    BY <1>1, <2>1, <2>2, <2>5, AtRest
  <2>7. Kept'
    BY <2>1, <2>3, <2>4, <2>6, RestKept
  <2>8. JournalStep
    BY <2>1, <2>3, <2>4, <2>5, SilentStep
  <2> QED BY <2>7, <2>8
<1> QED BY <1>3, <1>4, <1>5

(* The only element.                                                       *)
LEMMA FirstElement ==
    ASSUME NEW s, NEW x, s = Append(<<>>, x)
    PROVE  s = <<x>> /\ Len(s) = 1 /\ s[1] = x
<1>1. s = <<x>>
  OBVIOUS
<1> QED BY <1>1

(* The beginning of a context is a step of the journal.                    *)
LEMMA BeginStep ==
    ASSUME NEW id \in 1..MaxContexts, Journal!BeginTrx(id) \/ Journal!BeginSystemCall(id)
    PROVE  JournalStep
<1>1. \E i \in 1..MaxContexts : Journal!BeginTrx(i) \/ Journal!BeginSystemCall(i)
  BY Zenon
<1> QED BY <1>1, Zenon DEF JournalStep, Journal!JournalNext

(* A context that begins is new to the journal.                            *)
LEMMA BeginsUnused ==
    ASSUME JournalOK, ~panicked, MayBegin
    PROVE  /\ NextId \in 1..MaxContexts /\ NextId \in Nat /\ NextId = evm.started + 1
           /\ Journal!Unused(NextId)
           /\ \A f \in RecordedFacts : f.data.by # NextId
           /\ \A i \in 1..Len(evm.running) : evm.running[i].id # NextId
<1>1. Kept /\ evm.started \in Nat /\ evm.running \in Seq(Contexts) /\ MaxContexts \in Nat
  BY JournalParts, ClientAssumption DEF Clients
<1>2. NextId \in 1..MaxContexts /\ NextId \in Nat /\ NextId = evm.started + 1
  BY <1>1 DEF NextId, MayBegin
<1>3. \A f \in RecordedFacts : f.data.by # NextId
  BY <1>1, <1>2 DEF Kept
<1>4. ASSUME NEW i \in 1..Len(evm.running) PROVE evm.running[i].id # NextId
  <2>1. evm.running[i].id <= evm.started
    BY <1>1 DEF Kept
  <2>2. evm.running[i].id \in Nat
    <3>1. evm.running[i] \in Contexts
      BY <1>1, ElementType
    <3> QED BY <1>1, <3>1 DEF Contexts
  <2> QED BY <1>1, <1>2, <2>1, <2>2
<1>5. \A i \in DOMAIN View(evm.running) : View(evm.running)[i].id # NextId
  <2>1. DOMAIN evm.running = 1..Len(evm.running)
    BY <1>1
  <2> QED BY <1>4, <2>1 DEF View, Seen
<1>6. Journal!Unused(NextId)
  BY <1>3, <1>5, Zenon DEF Journal!Unused, View, Seen
<1> QED BY <1>2, <1>3, <1>4, <1>6

(* Starting a transaction.                                                 *)
LEMMA StartTrxJournal ==
    ASSUME JournalOK, ~panicked, ~panicked', UNCHANGED profile, StartTrx
    PROVE  Kept' /\ JournalStep
<1>1. /\ LinkedOK /\ Linked /\ Kept /\ TracerOK /\ evm \in Clients /\ ~Panic
      /\ ordinal \in Nat /\ evm.started \in Nat /\ evm.running \in Seq(Contexts)
  BY JournalParts DEF Panic, Clients
<1>2. ~Running /\ block.open /\ MayBegin /\ Begin(FALSE) /\ OnTxStart(NextId) /\ ~evm.destructing
  BY DEF StartTrx, Idle
<1>3. cur = FreshState /\ ~InTrx /\ interrupted = <<>> /\ evm.running = <<>>
  BY <1>2, AtRest
<1>4. PICK id \in 1..MaxContexts : id = NextId
  BY <1>2, BeginsUnused
<1>4a. /\ id \in Nat /\ id = evm.started + 1 /\ Journal!Unused(NextId)
       /\ \A f \in RecordedFacts : f.data.by # id
  BY <1>2, <1>4, BeginsUnused
<1> DEFINE ctx   == NewContext(id, FALSE, Len(evm.logs))
           trx   == [NoTrx EXCEPT !.open = TRUE, !.id = id, !.begin = ordinal + 1]
           begin == Fact(ordinal + 1, "begin", TrxData(id))
<1>5. cur' = [cur EXCEPT !.trx = trx] /\ ordinal' = ordinal + 1 /\ UNCHANGED <<block, interrupted>>
  BY <1>1, <1>2, <1>4 DEF OnTxStart, Ensured
<1>6. /\ RecordedFacts' = RecordedFacts \cup {begin}
      /\ StateFacts(cur') \subseteq {begin}
  <2>1. StateFacts(cur) = {} /\ TrxFacts(cur.trx) = {}
    BY <1>3, NothingRecorded DEF FreshState
  <2> QED BY <1>1, <1>3, <1>5, <2>1, OnTxStartFacts
<1>7. begin.data.by = id
  BY DEF Fact, TrxData
<1>8. ctx \in Contexts /\ ctx.id = id /\ ctx.sys = FALSE /\ ctx.roots = 0 /\ ctx.frames = <<>>
  <2>1. Len(evm.logs) \in Nat
    BY <1>1 DEF Clients
  <2> QED BY <1>4, <1>4a, <2>1, EmptySeq, ClientAssumption DEF NewContext, Contexts
<1>9. evm'.running = Append(evm.running, ctx) /\ evm'.started = id /\ evm'.destructing = evm.destructing
  BY <1>1, <1>2, <1>4 DEF Begin, Clients
<1> HIDE DEF ctx, begin
<1>10. /\ cur'.trx = trx /\ cur'.callStack = NewCallStack /\ cur'.deferred = NoEntries
       /\ cur'.suicided = FALSE /\ trx.end = 0 /\ trx.id = id
  <2>1. trx.end = 0 /\ trx.id = id
    BY DEF NoTrx
  <2> HIDE DEF trx
  <2> QED BY <1>3, <1>5, <2>1 DEF FreshState
<1> HIDE DEF trx
<1>11. Holds(cur', ctx, profile.outsideTrx)
  <2>1. Frames(cur'.callStack, ctx)
    BY <1>8, <1>10, EmptySeq DEF Frames, NewCallStack
  <2> QED BY <1>6, <1>7, <1>8, <1>10, <2>1 DEF Holds
<1>12. evm'.running = <<ctx>> /\ Len(evm'.running) = 1 /\ evm'.running[1] = ctx
  BY <1>3, <1>9
<1>13. Kept'
  <2>1. \A f \in RecordedFacts' : f.data.by \in Nat /\ f.data.by <= evm'.started
    <3>1. \A f \in RecordedFacts : f.data.by \in Nat /\ f.data.by <= evm.started
      BY <1>1 DEF Kept
    <3> QED BY <1>1, <1>4, <1>4a, <1>6, <1>7, <1>9, <3>1
  <2>2. \A f \in BlockFacts(block') : f.data.by # id
    BY <1>4, <1>4a, <1>5, FactParts
  <2>3. \A i \in 1..Len(evm'.running) : evm'.running[i] = ctx
    BY <1>12
  <2>4. cur'.suicided = evm'.destructing
    <3>1. evm.destructing = FALSE
      BY <1>1, <1>2 DEF Clients
    <3> QED BY <1>9, <1>10, <3>1
  <2>5. \A i \in 1..Len(evm'.running) : evm'.running[i].id <= evm'.started
    BY <1>4, <1>4a, <1>8, <1>9, <2>3
  <2> QED BY <1>8, <1>11, <1>12, <2>1, <2>2, <2>3, <2>4, <2>5, KeptNext
<1>14. Journal!BeginTrx(id)
  <2>1. View(evm'.running) = <<Journal!Fresh(id, FALSE)>>
    <3>1. View(Append(evm.running, ctx)) = Append(View(evm.running), Seen(ctx)) /\ View(<<>>) = <<>>
      BY <1>1, <1>8, ViewSteps
    <3>2. Seen(ctx) = Journal!Fresh(id, FALSE)
      BY SeenFresh DEF ctx
    <3>3. View(evm'.running) = Append(<<>>, Journal!Fresh(id, FALSE))
      BY <1>3, <1>9, <3>1, <3>2
    <3> QED BY <3>3, FirstElement
  <2>2. ~Journal!Running
    BY <1>3 DEF Journal!Running
  <2>3. Journal!Speaker(Journal!Fresh(id, FALSE)) = TrxData(id)
    BY DEF Journal!Speaker, Journal!Fresh, TrxData
  <2>4. Journal!Note("begin", Journal!Speaker(Journal!Fresh(id, FALSE)))
    BY <1>2, <1>5, <1>6, <2>3 DEF Journal!Note, Fact, begin
  <2> QED BY <1>4, <1>4a, <2>1, <2>2, <2>4, Zenon DEF Journal!BeginTrx, View, Seen
<1>15. JournalStep
  BY <1>14, BeginStep
<1> QED BY <1>13, <1>15

(* Starting a system call.                                                 *)
LEMMA StartSystemCallJournal ==
    ASSUME JournalOK, ~panicked, ~panicked', UNCHANGED profile, StartSystemCall
    PROVE  Kept' /\ JournalStep
<1>1. /\ LinkedOK /\ Linked /\ Kept /\ TracerOK /\ evm \in Clients /\ ~Panic
      /\ evm.started \in Nat /\ evm.running \in Seq(Contexts) /\ cur.suicided = evm.destructing
  BY JournalParts DEF Panic, Clients, Kept
<1>2. /\ Running => ~Top.sys
      /\ block.open /\ MayBegin /\ Begin(TRUE) /\ OnSystemCallStart /\ ~evm.destructing
  BY DEF StartSystemCall, Idle
<1>2a. PICK id \in 1..MaxContexts : id = NextId
  BY <1>2, BeginsUnused
<1>3. /\ id \in Nat /\ id = evm.started + 1 /\ Journal!Unused(NextId)
      /\ \A f \in RecordedFacts : f.data.by # id
      /\ \A i \in 1..Len(evm.running) : evm.running[i].id # id
  BY <1>2, <1>2a, BeginsUnused
<1> DEFINE ctx  == NewContext(id, TRUE, Len(evm.logs))
           trx  == [NoTrx EXCEPT !.open = TRUE]
           base == IF InTrx THEN FreshState ELSE cur
<1>4. /\ interrupted' = IF InTrx THEN <<cur>> ELSE interrupted
      /\ cur' = [base EXCEPT !.trx = trx]
      /\ UNCHANGED <<block, ordinal>>
  BY <1>1, <1>2 DEF OnSystemCallStart, Ensured
<1>5. /\ evm'.running = Append(evm.running, ctx) /\ evm'.started = id
      /\ evm'.destructing = evm.destructing
  BY <1>1, <1>2, <1>2a DEF Begin, Clients
<1>6. ctx \in Contexts /\ ctx.id = id /\ ctx.sys = TRUE /\ ctx.roots = 0 /\ ctx.frames = <<>>
  <2>1. Len(evm.logs) \in Nat
    BY <1>1 DEF Clients
  <2> QED BY <1>3, <2>1, EmptySeq, ClientAssumption DEF NewContext, Contexts
<1>7. base = FreshState
  BY <1>1 DEF LinkedOK, NothingLeftBehind
<1>8. InTrx => Len(evm.running) = 1 /\ evm.running[1] = Top /\ interrupted = <<>> /\ Running
  BY <1>1, <1>2, LinkedShape DEF Linked
<1>9. ~InTrx => evm.running = <<>> /\ interrupted = <<>>
  BY <1>1, AtRest DEF Linked
<1>10. RecordedFacts' = RecordedFacts /\ StateFacts(cur') = {}
  <2>1. (IF InTrx THEN interrupted = <<>> ELSE TrxFacts(cur.trx) = {})
    BY <1>7, <1>8, NothingRecorded DEF FreshState
  <2>2. StateFacts(FreshState) = {}
    BY NothingRecorded
  <2> QED BY <1>1, <1>4, <1>7, <2>1, <2>2, OnSystemCallStartFacts
<1> HIDE DEF base, ctx
<1>11. /\ cur'.trx = trx /\ cur'.callStack = NewCallStack /\ cur'.deferred = NoEntries
       /\ cur'.suicided = FALSE /\ trx.end = 0 /\ trx.begin = 0
  <2>1. trx.end = 0 /\ trx.begin = 0
    BY DEF NoTrx
  <2> HIDE DEF trx
  <2> QED BY <1>4, <1>7, <2>1 DEF FreshState
<1> HIDE DEF trx
<1>12. Holds(cur', ctx, profile.outsideTrx)
  <2>1. Frames(cur'.callStack, ctx)
    BY <1>6, <1>11, EmptySeq DEF Frames, NewCallStack
  <2> QED BY <1>6, <1>10, <1>11, <2>1 DEF Holds
<1>13. evm.destructing = FALSE
  BY <1>1, <1>2 DEF Clients
<1>14. \A f \in RecordedFacts' : f.data.by \in Nat /\ f.data.by <= evm'.started
  <2>1. \A f \in RecordedFacts : f.data.by \in Nat /\ f.data.by <= evm.started
    BY <1>1 DEF Kept
  <2> QED BY <1>1, <1>3, <1>5, <1>10, <2>1
<1>15. \A f \in BlockFacts(block') : f \in RecordedFacts
  BY <1>4, FactParts
<1>16. Kept'
  <2>1. CASE InTrx
    <3>1. /\ Len(evm'.running) = 2 /\ evm'.running[1] = Top /\ evm'.running[2] = ctx
      BY <1>1, <1>5, <1>8, <2>1
    <3>2. interrupted' = <<cur>> /\ interrupted'[1] = cur
      BY <1>4, <2>1
    <3>3. Holds(cur, Top, profile.outsideTrx) /\ Top.id <= evm.started /\ Top.id \in Nat
      BY <1>1, <1>8, <2>1, TopHolds
    <3>4. Top.id # id
      BY <1>1, <1>3, <3>3
    <3>5. \A i \in 1..Len(evm'.running) : evm'.running[i] = Top \/ evm'.running[i] = ctx
      <4>1. \A i \in 1..2 : i = 1 \/ i = 2
        OBVIOUS
      <4> QED BY <3>1, <4>1
    <3>6. \A i \in 1..Len(evm'.running) : evm'.running[i].id <= evm'.started
      <4>1. Top.id <= id /\ ctx.id <= id /\ evm'.started = id
        BY <1>1, <1>3, <1>5, <1>6, <3>3
      <4> QED BY <3>5, <4>1
    <3>7. \A i \in 1..Len(evm'.running) : \A f \in BlockFacts(block') : f.data.by # evm'.running[i].id
      <4>1. \A f \in BlockFacts(block) : f.data.by # Top.id
        BY <1>1, <1>8, <2>1 DEF Kept
      <4> QED BY <1>3, <1>4, <1>6, <1>15, <3>5, <4>1
    <3>8. cur'.suicided = evm'.destructing /\ ~interrupted'[1].suicided
      BY <1>1, <1>5, <1>11, <1>13, <3>2
    <3>9. evm'.running[1].id # evm'.running[2].id
      BY <1>6, <3>1, <3>4
    <3> QED BY <1>12, <1>14, <3>1, <3>2, <3>3, <3>6, <3>7, <3>8, <3>9, KeptNext
  <2>2. CASE ~InTrx
    <3>1. evm'.running = <<ctx>> /\ Len(evm'.running) = 1 /\ evm'.running[1] = ctx
      <4>1. evm'.running = Append(<<>>, ctx)
        BY <1>5, <1>9, <2>2
      <4> QED BY <4>1, FirstElement
    <3>2. \A i \in 1..Len(evm'.running) : evm'.running[i] = ctx
      BY <3>1
    <3>3. \A i \in 1..Len(evm'.running) : evm'.running[i].id <= evm'.started
      BY <1>3, <1>5, <1>6, <3>2
    <3>4. \A i \in 1..Len(evm'.running) : \A f \in BlockFacts(block') : f.data.by # evm'.running[i].id
      BY <1>3, <1>6, <1>15, <3>2
    <3>5. cur'.suicided = evm'.destructing
      BY <1>5, <1>11, <1>13
    <3> QED BY <1>12, <1>14, <3>1, <3>3, <3>4, <3>5, KeptNext
  <2> QED BY <2>1, <2>2
<1>17. Journal!BeginSystemCall(id)
  <2>1. View(evm'.running) = Append(View(evm.running), Journal!Fresh(id, TRUE))
    <3>1. Seen(ctx) = Journal!Fresh(id, TRUE)
      BY SeenFresh DEF ctx
    <3> QED BY <1>1, <1>5, <1>6, <3>1, ViewSteps
  <2>2. Journal!Running => ~Journal!Top.sys
    <3>1. CASE Running
      BY <1>1, <1>2, <3>1, SeenNow
    <3>2. CASE ~Running
      <4>1. evm.running = <<>>
        BY <3>2 DEF Running
      <4> QED BY <4>1 DEF Journal!Running
    <3> QED BY <3>1, <3>2
  <2>3. UNCHANGED block.open /\ ordinal' = ordinal
    BY <1>4
  <2> QED BY <1>2, <1>3, <1>2a, <1>10, <2>1, <2>2, <2>3, Zenon DEF Journal!BeginSystemCall, View, Seen
<1>18. JournalStep
  BY <1>17, BeginStep
<1> QED BY <1>16, <1>18

(* The end of a transaction, in the journal or out of it.                  *)
LEMMA EndOfTrx ==
    ASSUME JournalOK, ~panicked, ~Panic, Running, ~Top.sys, ~InFrameNow, ~evm.destructing,
           NEW receipt \in Receipts, OnTxEnd(receipt),
           ~Dropped(receipt) => Top.roots > 0 \/ profile.outsideTrx = {},
           evm'.running = <<>>, evm'.started = evm.started, evm'.destructing = evm.destructing
    PROVE  Kept' /\ JournalStep
<1> DEFINE end == Fact(ordinal + 1, "end", TrxData(Top.id))
<1>1. /\ LinkedOK /\ Linked /\ Kept /\ TracerOK /\ evm \in Clients /\ ordinal \in Nat
      /\ block \in Blocks /\ evm.running \in Seq(Contexts) /\ cur \in TrxState
  BY JournalParts
<1>2. /\ Len(evm.running) = 1 /\ evm.running[1] = Top /\ interrupted = <<>>
      /\ Holds(cur, Top, profile.outsideTrx)
      /\ Top \in Contexts /\ Top.id \in Nat /\ Top.id <= evm.started /\ evm.started \in Nat
  BY <1>1, LinkedShape, TopHolds
<1>3. Top.frames = <<>> /\ Top.sys = FALSE /\ Top.roots \in Nat /\ cur.trx.id = Top.id /\ cur.trx.end = 0
  <2>1. Top.frames = <<>>
    BY DEF InFrameNow
  <2>2. Top.sys = FALSE /\ Top.roots \in Nat
    BY <1>2 DEF Contexts
  <2> QED BY <1>2, <2>1, <2>2 DEF Holds
<1>4. cur' = FreshState /\ interrupted' = interrupted /\ block.open
  BY DEF OnTxEnd, Ensured, ResetTransaction
<1>5. cur'.suicided = evm'.destructing
  <2>1. evm.destructing = FALSE
    BY <1>1 DEF Clients
  <2> QED BY <1>4, <2>1 DEF FreshState
<1>6. /\ Journal!Running /\ Journal!Top = Seen(Top) /\ ~Journal!Top.sys /\ Journal!Top.frames = <<>>
      /\ Journal!Top.id = Top.id /\ Journal!Speaker(Journal!Top) = TrxData(Top.id)
  <2>1. /\ Journal!Running /\ Journal!Top = Seen(Top) /\ Journal!Speaker(Seen(Top)) = Now
        /\ Seen(Top).frames = <<>> /\ Seen(Top).sys = Top.sys /\ Seen(Top).id = Top.id
    BY <1>1, SeenNow
  <2>2. Now = TrxData(Top.id)
    BY <1>3 DEF Now, TrxData
  <2> QED BY <2>1, <2>2
<1>7. View(evm'.running) = <<>>
  BY DEF View
<1>8. RecordedFacts = BlockFacts(block) \cup StateFacts(cur)
  BY <1>2, FactParts, NothingRecorded
<1>9. \A f \in StateFacts(cur) : f.data.by = Top.id
  BY <1>2 DEF Holds
<1>10. \A f \in BlockFacts(block) : f.data.by # Top.id
  <2>1. 1 \in 1..Len(evm.running)
    BY <1>2
  <2> QED BY <1>1, <1>2, <2>1 DEF Kept
<1>11. CASE Dropped(receipt)
  <2>1. UNCHANGED <<block, ordinal>>
    BY <1>11 DEF OnTxEnd, Ensured
  <2>2. RecordedFacts' = BlockFacts(block)
    BY <1>2, <1>4, <2>1, DroppedFacts, NothingRecorded
  <2>3. RecordedFacts' = {f \in RecordedFacts : f.data.by # Top.id}
    BY <1>8, <1>9, <1>10, <2>2
  <2>4. Kept'
    BY <1>1, <1>5, <2>3, RestKept DEF Kept
  <2>5. Journal!Forget
    BY <1>6, <1>7, <2>1, <2>3, Zenon DEF Journal!Forget, View, Seen
  <2> QED BY <2>4, <2>5 DEF JournalStep, Journal!JournalNext
<1>12. CASE ~Dropped(receipt)
  <2>1. /\ block' = [block EXCEPT !.traces = Append(@, CompleteTransaction(receipt))]
        /\ ordinal' = ordinal + 1
    BY <1>12 DEF OnTxEnd, Ensured
  <2>2. block'.open = block.open
    <3> DEFINE traces == Append(block.traces, CompleteTransaction(receipt))
    <3>1. block' = [block EXCEPT !.traces = traces]
      BY <2>1
    <3> HIDE DEF traces
    <3> QED BY <1>1, <3>1 DEF Blocks
  <2>3. ~HasActiveCall(cur.callStack)
    <3>1. Len(cur.callStack.stack) = Len(Top.frames) /\ Len(Top.frames) = 0
      BY <1>2, <1>3, EmptySeq DEF Holds, Frames
    <3>2. cur.callStack.stack \in Seq(Call)
      BY <1>1 DEF TrxState, CallStack
    <3> QED BY <3>1, <3>2, EmptySeq DEF HasActiveCall
  <2>4. cur.trx.calls # <<>> \/ ListFacts(cur.deferred) = {}
    <3>1. CASE Top.roots > 0
      BY <1>2, <2>3, <3>1 DEF Holds
    <3>2. CASE profile.outsideTrx = {}
      BY <1>2, <3>2, NoFacts DEF Holds
    <3> QED BY <1>12, <3>1, <3>2
  <2>5. RecordedFacts' = RecordedFacts \cup {end}
    BY <1>1, <1>3, <1>4, <2>1, <2>3, <2>4, OnTxEndFacts
  <2>6. Kept'
    <3>1. end.data.by = Top.id
      BY DEF Fact, TrxData
    <3> HIDE DEF end
    <3>2. \A f \in RecordedFacts : f.data.by \in Nat /\ f.data.by <= evm.started
      BY <1>1 DEF Kept
    <3>3. \A f \in RecordedFacts' : f.data.by \in Nat /\ f.data.by <= evm'.started
      BY <1>2, <2>5, <3>1, <3>2
    <3> QED BY <1>5, <3>3, RestKept
  <2>7. Journal!Note("end", Journal!Speaker(Journal!Top))
    BY <1>4, <1>6, <2>1, <2>2, <2>5 DEF Journal!Note, Fact
  <2>8. Journal!EndTrx
    BY <1>6, <1>7, <2>7, Zenon DEF Journal!EndTrx, View, Seen
  <2> QED BY <2>6, <2>8 DEF JournalStep, Journal!JournalNext
<1> QED BY <1>11, <1>12

(* Ending a transaction with a receipt, or without one.                    *)
LEMMA EndTrxJournal ==
    ASSUME JournalOK, Disciplined, ~panicked, ~panicked', UNCHANGED profile,
           EndTrx \/ EndTrxWithoutReceipt
    PROVE  Kept' /\ JournalStep
<1>1. evm \in Clients /\ profile \in Profiles /\ ~Panic
  BY JournalParts DEF Panic
<1>2. /\ Running /\ ~Top.sys /\ ~InFrameNow /\ ~evm.destructing
      /\ evm'.running = <<>> /\ evm'.started = evm.started /\ evm'.destructing = evm.destructing
  BY <1>1 DEF EndTrx, EndTrxWithoutReceipt, Idle, Clients
<1>3. Top.roots \in Nat
  BY <1>1, <1>2, TopType DEF Contexts
<1>4. CASE EndTrx
  <2>1. PICK status \in {"ok", "failed"} : OnTxEnd(Receipt(status))
    BY <1>4 DEF EndTrx
  <2>2. Receipt(status) \in Receipts
    BY <1>1, ReceiptType
  <2>3. Top.roots = 0 => profile.outsideTrx = {}
    BY <1>1, <1>4 DEF EndTrx, Behaves, Disciplined
  <2>4. Top.roots > 0 \/ profile.outsideTrx = {}
    BY <1>3, <2>3
  <2> QED BY <1>1, <1>2, <2>1, <2>2, <2>4, EndOfTrx
<1>5. CASE EndTrxWithoutReceipt
  <2>1. OnTxEnd(NoReceipt) /\ Behaves("no receipt")
    BY <1>5 DEF EndTrxWithoutReceipt
  <2>2. NoReceipt \in Receipts
    BY DEF Receipts
  <2>3. ~Dropped(NoReceipt) => profile.outsideTrx = {}
    BY <1>1, <2>1 DEF Dropped, Behaves, Disciplined
  <2> QED BY <1>1, <1>2, <2>1, <2>2, <2>3, EndOfTrx
<1> QED BY <1>4, <1>5

(* Ending a system call: its calls go to the block, and what it            *)
(* interrupted goes on.                                                    *)
LEMMA EndSystemCallJournal ==
    ASSUME JournalOK, ~panicked, ~panicked', UNCHANGED profile, EndSystemCall
    PROVE  Kept' /\ JournalStep
<1> DEFINE calls == block.systemCalls \o AttachPreimages(cur.trx.calls, cur.preimages)
<1>1. /\ LinkedOK /\ Linked /\ Kept /\ TracerOK /\ evm \in Clients /\ ~Panic
      /\ block \in Blocks /\ evm.running \in Seq(Contexts) /\ cur \in TrxState
      /\ cur.suicided = evm.destructing
  BY JournalParts DEF Panic, Kept
<1>2. /\ Running /\ Top.sys /\ Top.frames = <<>> /\ ~evm.destructing
      /\ evm' = [evm EXCEPT !.running = Front(@)] /\ OnSystemCallEnd
  BY DEF EndSystemCall, InFrameNow, Idle
<1>3. /\ block.open /\ block' = [block EXCEPT !.systemCalls = calls]
      /\ cur' = IF interrupted = <<>> THEN FreshState ELSE interrupted[1]
      /\ interrupted' = <<>> /\ UNCHANGED ordinal
  BY <1>1, <1>2 DEF OnSystemCallEnd, Ensured
<1>4. /\ evm'.running = Front(evm.running) /\ evm'.started = evm.started
      /\ evm'.destructing = evm.destructing /\ evm.destructing = FALSE
  BY <1>1, <1>2 DEF Clients
<1>5. Holds(cur, Top, profile.outsideTrx)
  BY <1>1, <1>2, TopHolds
<1>6. /\ RecordedFacts' = RecordedFacts
      /\ BlockFacts(block') \subseteq BlockFacts(block) \cup StateFacts(cur)
  <2>1. cur.trx.begin = 0 /\ cur.trx.end = 0 /\ ListFacts(cur.deferred) = {}
    BY <1>2, <1>5, NoFacts DEF Holds
  <2>2. ~HasActiveCall(cur.callStack)
    <3>1. Len(cur.callStack.stack) = Len(Top.frames) /\ Len(Top.frames) = 0
      BY <1>2, <1>5, EmptySeq DEF Holds, Frames
    <3>2. cur.callStack.stack \in Seq(Call)
      BY <1>1 DEF TrxState, CallStack
    <3> QED BY <3>1, <3>2, EmptySeq DEF HasActiveCall
  <2> QED BY <1>1, <1>3, <2>1, <2>2, OnSystemCallEndFacts
<1>7. block'.open = block.open
  <2> HIDE DEF calls
  <2> QED BY <1>1, <1>3 DEF Blocks
<1> HIDE DEF calls
<1>8. \A f \in RecordedFacts' : f.data.by \in Nat /\ f.data.by <= evm'.started
  BY <1>1, <1>4, <1>6 DEF Kept
<1>9. evm'.running = SubSeq(evm.running, 1, Len(evm.running) - 1) /\ evm.running # <<>>
  BY <1>2, <1>4 DEF Front, Running
<1>10. ASSUME Len(evm.running) = 1, interrupted = <<>> PROVE Kept'
  <2>1. evm'.running = <<>>
    BY <1>1, <1>9, <1>10, DropLast, EmptySeq
  <2>2. cur'.suicided = evm'.destructing
    BY <1>3, <1>4, <1>10 DEF FreshState
  <2> QED BY <1>8, <2>1, <2>2, RestKept
<1>11. ASSUME Len(evm.running) = 2, evm.running[2] = Top, interrupted # <<>> PROVE Kept'
  <2>1. Len(evm'.running) = 1 /\ evm'.running[1] = evm.running[1]
    BY <1>1, <1>9, <1>11, DropLast
  <2>2. /\ Holds(interrupted[1], evm.running[1], profile.outsideTrx) /\ ~interrupted[1].suicided
        /\ evm.running[1].id # Top.id
    BY <1>1, <1>11 DEF Kept
  <2>3. cur' = interrupted[1]
    BY <1>3, <1>11
  <2>4. cur'.suicided = evm'.destructing
    <3>1. interrupted[1] \in TrxState
      <4>1. interrupted \in Seq(TrxState)
        BY <1>1, LinkedParts
      <4>2. 1 \in 1..Len(interrupted)
        BY <1>11, <4>1, EmptySeq
      <4> QED BY <4>1, <4>2, ElementType
    <3> QED BY <1>4, <2>2, <2>3, <3>1 DEF TrxState
  <2>5. \A i \in 1..Len(evm'.running) : evm'.running[i] = evm.running[1]
    <3>1. \A i \in 1..1 : i = 1
      OBVIOUS
    <3> QED BY <2>1, <3>1
  <2>6. 1 \in 1..Len(evm.running)
    BY <1>11
  <2>7. \A i \in 1..Len(evm'.running) : evm'.running[i].id <= evm'.started
    BY <1>1, <1>4, <2>5, <2>6 DEF Kept
  <2>8. \A i \in 1..Len(evm'.running) : \A f \in BlockFacts(block') : f.data.by # evm'.running[i].id
    <3>1. \A f \in BlockFacts(block) : f.data.by # evm.running[1].id
      BY <1>1, <2>6 DEF Kept
    <3>2. \A f \in StateFacts(cur) : f.data.by # evm.running[1].id
      BY <1>5, <2>2 DEF Holds
    <3> QED BY <1>6, <2>5, <3>1, <3>2
  <2> QED BY <1>8, <2>1, <2>2, <2>3, <2>4, <2>7, <2>8, KeptNext
<1>12. Kept'
  BY <1>1, <1>2, <1>10, <1>11, LinkedShape
<1>13. Journal!EndSystemCall
  <2>1. View(evm'.running) = SubSeq(View(evm.running), 1, Len(View(evm.running)) - 1)
    <3>1. Top \in Contexts
      BY <1>1, <1>2, TopType
    <3> QED BY <1>1, <1>4, <1>9, <3>1, ViewSteps
  <2>2. Journal!Running /\ Journal!Top.sys /\ Journal!Top.frames = <<>>
    <3>1. Journal!Running /\ Journal!Top = Seen(Top) /\ Seen(Top).frames = <<>> /\ Seen(Top).sys = Top.sys
      BY <1>1, <1>2, SeenNow DEF InFrameNow
    <3> QED BY <1>2, <3>1
  <2>3. UNCHANGED block.open /\ ordinal' = ordinal
    BY <1>3, <1>7
  <2> QED BY <1>6, <2>1, <2>2, <2>3, Zenon DEF Journal!EndSystemCall, View, Seen
<1> QED BY <1>12, <1>13 DEF JournalStep, Journal!JournalNext
-----------------------------------------------------------------------------
(* Each step of a disciplined client, unless the tracer panics.            *)
LEMMA JournalSteps ==
    ASSUME JournalOK, Disciplined, Next, ~panicked'
    PROVE  Kept' /\ JournalStep
<1>1. ~panicked
  BY DEF Next, Step, StartBlock, EndBlock, FailBlock, SkipBlock, StartTrx, EndTrx,
         EndTrxWithoutReceipt, StartSystemCall, EndSystemCall, EnterCall, ExitCall,
         SelfDestruct, EnterSelfDestruct, ExitSelfDestruct, FaultingOpcode, ClearCode,
         KeccakPreimage, Changes, Logs, Idle
<1>2. UNCHANGED profile
  BY DEF Next
<1>3. CASE StartBlock \/ EndBlock \/ FailBlock \/ SkipBlock
  BY <1>1, <1>2, <1>3, BlockJournal
<1>4. CASE StartTrx
  BY <1>1, <1>2, <1>4, StartTrxJournal
<1>5. CASE EndTrx \/ EndTrxWithoutReceipt
  BY <1>1, <1>2, <1>5, EndTrxJournal
<1>6. CASE StartSystemCall
  BY <1>1, <1>2, <1>6, StartSystemCallJournal
<1>7. CASE EndSystemCall
  BY <1>1, <1>2, <1>7, EndSystemCallJournal
<1>8. CASE EnterCall
  BY <1>1, <1>2, <1>8, EnterJournal
<1>9. CASE \E outcome \in {"ok", "failed", "reverted"} : ExitCall(outcome)
  BY <1>1, <1>2, <1>9, ExitJournal
<1>10. CASE SelfDestruct \/ EnterSelfDestruct \/ ExitSelfDestruct \/ FaultingOpcode \/ KeccakPreimage
  BY <1>1, <1>2, <1>10, OpcodesJournal
<1>11. CASE ClearCode \/ Changes \/ Logs
  BY <1>1, <1>2, <1>11, ChangesJournal
<1> QED BY <1>3, <1>4, <1>5, <1>6, <1>7, <1>8, <1>9, <1>10, <1>11 DEF Next, Step

(* The invariant holds at first, when the journal is empty, ...            *)
LEMMA JournalOKInit == Init => JournalOK /\ Journal!JournalInit
<1> SUFFICES ASSUME Init PROVE JournalOK /\ Journal!JournalInit
  OBVIOUS
<1>1. TracerOK /\ evm \in Clients /\ profile \in Profiles
  BY TracerInitTyped, EmptySeq DEF Init, EvmAtRest, Clients
<1>2. /\ cur = FreshState /\ ~FreshState.trx.open /\ ~inSystemCall /\ interrupted = <<>>
      /\ block = NoBlock /\ ordinal = 0 /\ evm.running = <<>> /\ Len(evm.running) = 0
      /\ ~FreshState.suicided /\ FreshState.suicided = FALSE /\ evm.destructing = FALSE
      /\ NoBlock.open = FALSE
  BY EmptySeq DEF Init, TracerInit, EvmAtRest, FreshState, NoTrx, NoBlock
<1>3. LinkedOK
  BY <1>1, <1>2 DEF LinkedOK, Linked, NothingLeftBehind, InTrx, Running
<1>4. RecordedFacts = {}
  BY <1>2, FactParts, NothingRecorded
<1>5. Kept
  <2>1. cur.suicided = evm.destructing
    BY <1>2
  <2>2. \A i \in 1..Len(evm.running) : FALSE
    BY <1>2
  <2>3. Len(evm.running) # 1 /\ Len(evm.running) # 2
    BY <1>2
  <2> QED BY <1>4, <2>1, <2>2, <2>3, Zenon DEF Kept
<1>6. View(evm.running) = <<>>
  BY <1>2 DEF View
<1>7. Journal!JournalInit
  BY <1>2, <1>4, <1>6, Zenon DEF Journal!JournalInit, View, Seen
<1> QED BY <1>1, <1>3, <1>5, <1>7 DEF JournalOK

(* ... and a step in which nothing panics keeps it, and writes at most one *)
(* fact.                                                                   *)
LEMMA JournalOKStep ==
    ASSUME Disciplined
    PROVE  JournalOK /\ NoPanic' /\ [Next]_vars => JournalOK' /\ JournalStep
<1> SUFFICES ASSUME JournalOK, NoPanic', [Next]_vars
             PROVE  JournalOK' /\ JournalStep
  OBVIOUS
<1>1. CASE Next
  <2>1. LinkedOK'
    BY <1>1, TracerNext, ClientNext, LinkedNext DEF LinkedOK, JournalOK
  <2>2. profile' \in Profiles
    BY <1>1 DEF Next, JournalOK
  <2>3. Kept' /\ JournalStep
    BY <1>1, JournalSteps DEF NoPanic
  <2> QED BY <2>1, <2>2, <2>3 DEF JournalOK
<1>2. CASE UNCHANGED vars
  <2>1. TracerOK' /\ evm' \in Clients
    BY <1>2, StutterTracerOK DEF vars, tracerVars, LinkedOK, JournalOK
  <2>2. LinkedOK'
    BY <1>2, <2>1 DEF vars, LinkedOK, JournalOK, Linked, NothingLeftBehind, InTrx, Running, Top
  <2>3. RecordedFacts' = RecordedFacts
    BY <1>2, PanicFacts DEF vars, tracerVars
  <2>4. ~panicked /\ Kept /\ ~panicked'
    BY <1>2 DEF JournalOK, NoPanic, vars
  <2>5. Kept'
    BY <1>2, <2>3, <2>4, KeptNext DEF Kept, vars
  <2>6. JournalStep
    BY <1>2, <2>3, SilentStep DEF vars
  <2> QED BY <1>2, <2>2, <2>5, <2>6 DEF JournalOK, vars
<1> QED BY <1>1, <1>2

(* The tracer keeps the journal of what the client does, whatever is       *)
(* interrupted, dropped, failed or self-destructed: each hook adds one     *)
(* fact under the next ordinal, and sorting calls, moving deferred changes *)
(* and setting transactions aside lose, alter and repeat none.  This is    *)
(* for as long as no hook panics, and for clients whose changes outside of *)
(* all calls always find a root call to go to: see Disciplined.            *)
THEOREM BlockJournalled ==
    ASSUME Disciplined
    PROVE  Spec /\ []NoPanic => ImplementsJournal
<1>1. JournalOK /\ NoPanic' /\ [Next]_vars => JournalOK' /\ [Journal!JournalNext]_(Journal!journalVars)
  BY JournalOKStep DEF JournalStep
<1> QED BY <1>1, JournalOKInit, PTL DEF Spec, ImplementsJournal, Journal!JournalSpec
=============================================================================
