--------------------------- MODULE HookOrderProofs ---------------------------
(***************************************************************************)
(* What holds of a tracer whatever hooks are called in whatever order, for *)
(* any payloads, transactions, receipts and number of them.                *)
(***************************************************************************)
EXTENDS HookOrder, TracerProofs

(* Every hook keeps to the invariant.                                      *)
LEMMA HookNextOK ==
    ASSUME HooksOK, [HookNext]_tracerVars
    PROVE  HooksOK'
<1>1. CASE BlockHooks
  BY <1>1, BlockHookOK DEF BlockHooks
<1>2. CASE TrxHooks
  <2>1. ASSUME NEW id \in TrxIds, OnTxStart(id) PROVE HooksOK'
    BY <2>1, OnTxStartOK, ArgumentsAssumption
  <2>2. ASSUME NEW receipt \in ReceiptChoices, OnTxEnd(receipt) PROVE HooksOK'
    BY <2>2, OnTxEndOK
  <2> QED BY <1>2, <2>1, <2>2, OnSystemCallStartOK, OnSystemCallEndOK DEF TrxHooks
<1>3. CASE CallHooks
  <2>1. ASSUME NEW depth \in 0..1, NEW d \in Data, OnCallEnter(depth, d) PROVE HooksOK'
    BY <2>1, OnCallEnterOK
  <2>2. ASSUME NEW outcome \in Outcomes \ {"open"}, OnCallExit(outcome) PROVE HooksOK'
    BY <2>2, OnCallExitOK
  <2>3. ASSUME NEW failed \in BOOLEAN, OnOpcode(TRUE, failed) PROVE HooksOK'
    BY <2>3, OnOpcodeOK
  <2>4. CASE OnCallEnterUnspecified
    BY <2>4, PanicOK DEF OnCallEnterUnspecified
  <2> QED BY <1>3, <2>1, <2>2, <2>3, <2>4, OnSelfDestructEnterOK DEF CallHooks
<1>4. CASE ChangeHooks
  <2> SUFFICES ASSUME NEW d \in Data,
                      \/ OnBalanceChange(d) \/ OnNonceChange(d) \/ OnStorageChange(d)
                      \/ \E cleared \in BOOLEAN : OnCodeChange(d, cleared)
                      \/ OnLog(d, 0) \/ OnKeccakPreimage(d)
               PROVE  HooksOK'
    BY <1>4 DEF ChangeHooks
  <2>1. {"balance", "code", "nonce", "storage"} \subseteq Lists
    BY DEF Lists
  <2>2. CASE OnBalanceChange(d)
    BY <2>1, <2>2, OnBlockOrTrxChangeOK DEF OnBalanceChange
  <2>3. CASE OnNonceChange(d)
    BY <2>1, <2>3, OnTrxChangeOK DEF OnNonceChange
  <2>4. CASE OnStorageChange(d)
    BY <2>1, <2>4, OnTrxChangeOK DEF OnStorageChange
  <2>5. ASSUME NEW cleared \in BOOLEAN, OnCodeChange(d, cleared) PROVE HooksOK'
    <3>1. CASE UNCHANGED tracerVars
      BY <3>1 DEF HooksOK, StateOK, tracerVars
    <3>2. CASE OnBlockOrTrxChange("code", d)
      BY <2>1, <3>2, OnBlockOrTrxChangeOK
    <3> QED BY <2>5, <3>1, <3>2 DEF OnCodeChange
  <2>6. CASE OnLog(d, 0)
    BY <2>6, OnLogOK
  <2>7. CASE OnKeccakPreimage(d)
    BY <2>7, OnKeccakPreimageOK
  <2> QED BY <2>2, <2>3, <2>4, <2>5, <2>6, <2>7
<1>5. CASE UNCHANGED tracerVars
  BY <1>5 DEF HooksOK, StateOK, tracerVars
<1> QED BY <1>1, <1>2, <1>3, <1>4, <1>5 DEF HookNext

(* The open calls form one branch of the call tree, and so do those of a   *)
(* transaction that a system call has set aside, whatever the node calls:  *)
(* the call stack that OnCallEnter and OnCallExit keep never gets out of   *)
(* step with the numbers, parents and depths it gave out.                  *)
THEOREM HookBranches == HookSpec => []OpenCallsAreBranch
<1>1. HookInit => HooksOK
  BY TracerInitOK DEF HookInit
<1>2. HooksOK /\ [HookNext]_tracerVars => HooksOK'
  BY HookNextOK
<1>3. HooksOK => OpenCallsAreBranch
  BY HooksOKBranches DEF OpenCallsAreBranch
<1> QED BY <1>1, <1>2, <1>3, PTL DEF HookSpec
-----------------------------------------------------------------------------
(* Every hook keeps what goes into the block well-formed.                  *)
LEMMA HookNextTracerOK ==
    ASSUME TracerOK, [HookNext]_tracerVars
    PROVE  TracerOK'
<1>1. HooksOK'
  BY HookNextOK DEF TracerOK
<1> DEFINE Kept == LogOrdinalsOK' /\ block' \in Blocks
<1> SUFFICES Kept
  BY <1>1 DEF TracerOK
<1>2. CASE BlockHooks
  BY <1>2, BlockHookTracerOK DEF BlockHooks
<1>3. CASE TrxHooks
  <2>1. ASSUME NEW id \in TrxIds, OnTxStart(id) PROVE Kept
    BY <2>1, OnTxStartTracerOK, ArgumentsAssumption
  <2>2. ASSUME NEW receipt \in ReceiptChoices, OnTxEnd(receipt) PROVE Kept
    BY <2>2, OnTxEndTracerOK, ArgumentsAssumption
  <2> QED BY <1>3, <2>1, <2>2, OnSystemCallStartTracerOK, OnSystemCallEndTracerOK DEF TrxHooks
<1>4. CASE CallHooks
  <2>1. ASSUME NEW depth \in 0..1, NEW d \in Data, OnCallEnter(depth, d) PROVE Kept
    BY <2>1, OnCallEnterTracerOK
  <2>2. ASSUME NEW outcome \in Outcomes \ {"open"}, OnCallExit(outcome) PROVE Kept
    BY <2>2, OnCallExitTracerOK
  <2>3. ASSUME NEW failed \in BOOLEAN, OnOpcode(TRUE, failed) PROVE Kept
    BY <2>3, OnOpcodeTracerOK
  <2>4. CASE OnCallEnterUnspecified
    BY <2>4, PanicTracerOK DEF OnCallEnterUnspecified, TracerOK
  <2> QED BY <1>4, <2>1, <2>2, <2>3, <2>4, OnSelfDestructEnterTracerOK DEF CallHooks
<1>5. CASE ChangeHooks
  <2> SUFFICES ASSUME NEW d \in Data,
                      \/ OnBalanceChange(d) \/ OnNonceChange(d) \/ OnStorageChange(d)
                      \/ \E cleared \in BOOLEAN : OnCodeChange(d, cleared)
                      \/ OnLog(d, 0) \/ OnKeccakPreimage(d)
               PROVE  Kept
    BY <1>5 DEF ChangeHooks
  <2>1. {"balance", "code", "nonce", "storage"} \subseteq Lists
    BY DEF Lists
  <2>2. CASE OnBalanceChange(d)
    BY <2>1, <2>2, ChangeTracerOK DEF OnBalanceChange
  <2>3. CASE OnNonceChange(d)
    BY <2>1, <2>3, ChangeTracerOK DEF OnNonceChange
  <2>4. CASE OnStorageChange(d)
    BY <2>1, <2>4, ChangeTracerOK DEF OnStorageChange
  <2>5. ASSUME NEW cleared \in BOOLEAN, OnCodeChange(d, cleared) PROVE Kept
    <3>1. CASE UNCHANGED tracerVars
      BY <3>1, StutterTracerOK DEF TracerOK
    <3>2. CASE OnBlockOrTrxChange("code", d)
      BY <2>1, <3>2, ChangeTracerOK
    <3> QED BY <2>5, <3>1, <3>2 DEF OnCodeChange
  <2>6. CASE OnLog(d, 0)
    BY <2>6, OnLogTracerOK
  <2>7. CASE OnKeccakPreimage(d)
    BY <2>7, OnKeccakPreimageTracerOK
  <2> QED BY <2>2, <2>3, <2>4, <2>5, <2>6, <2>7
<1>6. CASE UNCHANGED tracerVars
  BY <1>6, StutterTracerOK DEF TracerOK
<1> QED BY <1>2, <1>3, <1>4, <1>5, <1>6 DEF HookNext

(* Whatever is called when, the tracer's state and the block it builds are *)
(* well-formed.  completeTransaction is the hard part: it sorts calls by   *)
(* number and logs by ordinal, and neither sort leaves a hole because no   *)
(* two calls share a number and no two logs an ordinal.                    *)
THEOREM HookTypes == HookSpec => []TracerTypeOK
<1>1. HookInit => TracerOK
  BY TracerInitTyped DEF HookInit
<1>2. TracerOK /\ [HookNext]_tracerVars => TracerOK'
  BY HookNextTracerOK
<1>3. TracerOK => TracerTypeOK
  BY TracerOKTyped
<1> QED BY <1>1, <1>2, <1>3, PTL DEF HookSpec
-----------------------------------------------------------------------------
(* Every hook keeps the ordinals of the recorded facts apart.              *)
LEMMA HookNextDistinct ==
    ASSUME TracerOK, Distinct(RecordedFacts, ordinal), [HookNext]_tracerVars
    PROVE  Distinct(RecordedFacts', ordinal')
<1> DEFINE Kept == Distinct(RecordedFacts', ordinal')
<1> SUFFICES Kept
  OBVIOUS
<1> HIDE DEF Kept
<1>1. CASE BlockHooks
  BY <1>1, TrxHookDistinct DEF BlockHooks, Kept
<1>2. CASE TrxHooks
  <2>1. ASSUME NEW id \in TrxIds, OnTxStart(id) PROVE Kept
    <3>1. id \in Nat
      BY ArgumentsAssumption
    <3> QED BY <2>1, <3>1, TrxHookDistinct DEF Kept
  <2>2. ASSUME NEW receipt \in ReceiptChoices, OnTxEnd(receipt) PROVE Kept
    <3>1. receipt \in Receipts
      BY ArgumentsAssumption
    <3> QED BY <2>2, <3>1, TrxHookDistinct DEF Kept
  <2>3. CASE OnSystemCallStart \/ OnSystemCallEnd
    BY <2>3, TrxHookDistinct DEF Kept
  <2> QED BY <1>2, <2>1, <2>2, <2>3 DEF TrxHooks
<1>3. CASE CallHooks
  <2>1. ASSUME NEW depth \in 0..1, NEW e \in Data, OnCallEnter(depth, e) PROVE Kept
    <3>1. depth \in Nat
      OBVIOUS
    <3> QED BY <2>1, <3>1, CallHookDistinct DEF Kept
  <2>2. ASSUME NEW outcome \in Outcomes \ {"open"}, OnCallExit(outcome) PROVE Kept
    BY <2>2, CallHookDistinct DEF Kept
  <2>3. ASSUME NEW failed \in BOOLEAN, OnOpcode(TRUE, failed) PROVE Kept
    BY <2>3, CallHookDistinct DEF Kept
  <2>4. CASE OnSelfDestructEnter
    BY <2>4, CallHookDistinct DEF Kept
  <2>5. CASE OnCallEnterUnspecified
    BY <2>5, PanicFacts, DistinctKept, StateParts DEF OnCallEnterUnspecified, Panic, TracerOK, HooksOK, Kept
  <2> QED BY <1>3, <2>1, <2>2, <2>3, <2>4, <2>5 DEF CallHooks
<1>4. CASE ChangeHooks
  <2> SUFFICES ASSUME NEW d \in Data,
                      \/ OnBalanceChange(d) \/ OnNonceChange(d) \/ OnStorageChange(d)
                      \/ \E cleared \in BOOLEAN : OnCodeChange(d, cleared)
                      \/ OnLog(d, 0) \/ OnKeccakPreimage(d)
               PROVE  Kept
    BY <1>4 DEF ChangeHooks
  <2>1. {"balance", "code", "nonce", "storage"} \subseteq Lists
    BY DEF Lists
  <2>2. ASSUME NEW k \in Lists, OnBlockOrTrxChange(k, d) \/ OnTrxChange(k, d) PROVE Kept
    BY <2>2, ChangeHookDistinct DEF Kept
  <2>3. CASE OnBalanceChange(d)
    BY <2>1, <2>2, <2>3 DEF OnBalanceChange
  <2>4. CASE OnNonceChange(d)
    BY <2>1, <2>2, <2>4 DEF OnNonceChange
  <2>5. CASE OnStorageChange(d)
    BY <2>1, <2>2, <2>5 DEF OnStorageChange
  <2>6. ASSUME NEW cleared \in BOOLEAN, OnCodeChange(d, cleared) PROVE Kept
    <3>1. CASE UNCHANGED tracerVars
      BY <3>1, PanicFacts, DistinctKept, StateParts DEF TracerOK, HooksOK, tracerVars, Kept
    <3>2. CASE OnBlockOrTrxChange("code", d)
      BY <2>1, <2>2, <3>2
    <3> QED BY <2>6, <3>1, <3>2 DEF OnCodeChange
  <2>7. CASE OnLog(d, 0)
    BY <2>7, ChangeHookDistinct DEF Kept
  <2>8. CASE OnKeccakPreimage(d)
    BY <2>8, ChangeHookDistinct DEF Kept
  <2> QED BY <2>3, <2>4, <2>5, <2>6, <2>7, <2>8
<1>5. CASE UNCHANGED tracerVars
  BY <1>5, PanicFacts, DistinctKept, StateParts DEF TracerOK, HooksOK, tracerVars, Kept
<1> QED BY <1>1, <1>2, <1>3, <1>4, <1>5 DEF HookNext

(* No ordinal of a block is given to two facts and none is ahead of the    *)
(* counter, whatever the node calls when: between them, the passes of      *)
(* completeTransaction, the deferred lists, the state that a system call   *)
(* sets aside and brings back and the reset of a block never let a fact    *)
(* in twice under another name, nor the counter fall behind.               *)
THEOREM HookOrdinals == HookSpec => []OrdinalsUnique
<1> DEFINE Apart == Distinct(RecordedFacts, ordinal)
<1>1. HookInit => TracerOK /\ Apart
  <2>1. HookInit => RecordedFacts = {}
    BY FactParts, NothingRecorded DEF HookInit, TracerInit
  <2> QED BY <2>1, TracerInitTyped DEF HookInit, Distinct
<1>2. TracerOK /\ Apart /\ [HookNext]_tracerVars => (TracerOK /\ Apart)'
  <2>1. Distinct(RecordedFacts', ordinal') => Apart'
    BY DEF Distinct
  <2> QED BY <2>1, HookNextTracerOK, HookNextDistinct
<1>3. Apart => OrdinalsUnique
  BY DEF Distinct, OrdinalsUnique
<1> HIDE DEF Apart
<1> QED BY <1>1, <1>2, <1>3, PTL DEF HookSpec
=============================================================================
