------------------------------ MODULE FlashBlocks ------------------------------
(***************************************************************************)
(* Flash blocks (tracer.go): a block is built in iterations, each emitted, *)
(* and each starting from a snapshot taken in the one before it.  The      *)
(* snapshot is a pointer to the block it was taken in, with the lengths    *)
(* its lists had at the time, while that block goes on growing.  Also what *)
(* a block is emitted with besides its content: the last irreversible      *)
(* block and the printed flash block index (tracer_printer.go).            *)
(*                                                                         *)
(* What fills the lists is the subject of TracedBlock; here an item is a   *)
(* transaction or system call that begins and ends, or a change made in    *)
(* the block outside of both.                                              *)
(***************************************************************************)
EXTENDS Integers, Sequences, FiniteSets, SequencesExt

CONSTANTS Nodes,        \* the kinds of node, see Node
          Numbers,      \* block numbers they build
          Indexes,      \* flash block indexes they use
          LibWindow,    \* 200 in computeLibNum
          FinalOffset   \* 1000 in computePrintedFlashBlockIndex

ASSUME FlashAssumption ==
    /\ Numbers \subseteq Nat /\ Indexes \subseteq Nat
    /\ FinalOffset \in Nat /\ LibWindow \in Nat

(* The numbers and flash block indexes of the blocks a node builds, the    *)
(* finalized numbers it reports (0 for none), whether its iterations come  *)
(* to a final one, and a bound on the ordinals given out in a block.       *)
Node == [numbers : SUBSET Numbers, indexes : SUBSET Indexes, finalized : SUBSET Nat, final : SUBSET BOOLEAN, ordinals : Nat]

ASSUME NodeAssumption == Nodes \subseteq Node

VARIABLES block,     \* the block being built
          ordinal,   \* blockOrdinal
          flash,     \* flashBlockIndex and flashBlockIsFinal
          snapshot,  \* snapshotForNextFlashBlock
          finality,  \* blockFinality
          output,    \* the last blockOutput
          panicked,
          node       \* what kind of node drives the tracer

vars == <<block, ordinal, flash, snapshot, finality, output, panicked, node>>
-----------------------------------------------------------------------------
Kinds == {"trace", "systemCall", "balance", "code"}

(* The ordinals an item uses at least: a beginning and an end, or one.     *)
Width(kind) == IF kind \in {"trace", "systemCall"} THEN 2 ELSE 1

NoLists == [k \in Kinds |-> <<>>]

NoBlock == [open |-> FALSE, number |-> 0, lists |-> NoLists]

(* A nil flashBlockIndex, which is not that of an iteration with index 0.  *)
NoIndex == -1

Regular == [index |-> NoIndex, final |-> FALSE]

IsFlashBlock(fb) == fb.index # NoIndex

(* live: the block it points to is the one still being built.              *)
NoSnapshot == [taken |-> FALSE, live |-> FALSE, block |-> NoBlock,
               lens |-> [k \in Kinds |-> 0], ordinal |-> 0, index |-> 0]

(* The block itself is left out: it goes as it is.                         *)
NoOutput == [number |-> 0, flash |-> Regular, finalized |-> 0, libNum |-> 0, printed |-> 0]

Init ==
    /\ block = NoBlock /\ ordinal = 0 /\ flash = Regular /\ snapshot = NoSnapshot
    /\ finality = 0 /\ output = NoOutput /\ panicked = FALSE /\ node \in Nodes
-----------------------------------------------------------------------------
PrevBlock == IF snapshot.live THEN block ELSE snapshot.block

(* handleFlashBlockStart                                                   *)
SameNumber(number) == snapshot.taken /\ PrevBlock.number = number

IndexRefused(number, fb) == SameNumber(number) /\ fb.index <= snapshot.index

AtSnapshot == [k \in Kinds |-> SubSeq(PrevBlock.lists[k], 1, snapshot.lens[k])]

(* restoreFlashBlockSnapshot: the lists, then the ordinal.                 *)
Restored(number, fb) == IsFlashBlock(fb) /\ SameNumber(number)

(* Mutants of RestoredLists and RestoredOrdinal: the whole list of code    *)
(* changes is restored; the ordinal is not.                                *)
RestoredListsWhole(number, fb) ==
    IF Restored(number, fb) THEN [AtSnapshot EXCEPT !["code"] = PrevBlock.lists["code"]] ELSE NoLists

RestoredOrdinalForgotten(number, fb) == ordinal

RestoredLists(number, fb) == IF Restored(number, fb) THEN AtSnapshot ELSE NoLists

RestoredOrdinal(number, fb) == IF Restored(number, fb) THEN snapshot.ordinal ELSE ordinal

SnapshotAfterStart(number, fb) ==
    IF IsFlashBlock(fb) /\ ~SameNumber(number) THEN NoSnapshot ELSE snapshot

Started(number, fb) == [open |-> TRUE, number |-> number, lists |-> RestoredLists(number, fb)]

(* An event without a finalized block leaves the status as it was reset.   *)
Reported(finalized) == IF finalized > 0 THEN finalized ELSE finality

OnBlockStart(number, fb, finalized) ==
    IF IsFlashBlock(fb) /\ IndexRefused(number, fb)
    THEN panicked' = TRUE /\ UNCHANGED <<block, ordinal, flash, snapshot, finality, output>>
    ELSE /\ block' = Started(number, fb)
         /\ ordinal' = RestoredOrdinal(number, fb)
         /\ flash' = IF IsFlashBlock(fb) THEN fb ELSE flash
         /\ snapshot' = SnapshotAfterStart(number, fb)
         /\ finality' = Reported(finalized)
         /\ UNCHANGED <<output, panicked>>

(* An item: a hook pair or a hook that advances the ordinal and appends.   *)
Add(kind) ==
    /\ ordinal + Width(kind) <= node.ordinals
    /\ ordinal' = ordinal + Width(kind)
    /\ block' = [block EXCEPT !.lists[kind] = Append(@,
           [number |-> block.number, index |-> flash.index,
            first |-> ordinal + 1, last |-> ordinal + Width(kind)])]
    /\ UNCHANGED <<flash, snapshot, finality, output, panicked>>

SnapshotFlashBlockForNextIteration ==
    /\ snapshot' = IF ~IsFlashBlock(flash) THEN snapshot
                   ELSE [taken |-> TRUE, live |-> TRUE, block |-> NoBlock,
                         lens |-> [k \in Kinds |-> Len(block.lists[k])],
                         ordinal |-> ordinal, index |-> flash.index]
    /\ UNCHANGED <<block, ordinal, flash, finality, output, panicked>>

(* computeLibNum: mutants without the first or the second cap.             *)
LibNumUncapped(number, finalized) ==
    LET reported == IF finalized # 0 THEN finalized
                    ELSE IF number >= LibWindow THEN number - LibWindow ELSE 0
    IN  IF reported > number THEN number ELSE reported

LibNumAhead(number, finalized) ==
    IF number >= LibWindow /\ finalized < number - LibWindow THEN number - LibWindow ELSE finalized

LibNum(number, finalized) ==
    LET reported == IF finalized # 0 THEN finalized
                    ELSE IF number >= LibWindow THEN number - LibWindow ELSE 0
        lib == IF number >= LibWindow /\ reported < number - LibWindow
               THEN number - LibWindow ELSE reported
    IN  IF lib > number THEN number ELSE lib

(* Mutant of PrintedFlashBlockIndex: computed once the block is reset.     *)
PrintedAfterReset(fb) == 0

PrintedFlashBlockIndex(fb) ==
    IF ~IsFlashBlock(fb) THEN 0 ELSE IF fb.final THEN fb.index + FinalOffset ELSE fb.index

OutputOf(number, fb, finalized) ==
    [number |-> number, flash |-> fb, finalized |-> finalized,
     libNum |-> LibNum(number, finalized), printed |-> PrintedFlashBlockIndex(fb)]

(* Mutant of Detached: the snapshot is left pointing to a block that the   *)
(* reset empties.                                                          *)
DetachedEmptied(snap, b) == IF snap.live THEN [snap EXCEPT !.live = FALSE] ELSE snap

(* The block is no longer the tracer's; the snapshot keeps it.             *)
Detached(snap, b) == IF snap.live THEN [snap EXCEPT !.live = FALSE, !.block = b] ELSE snap

(* resetBlock keeps the snapshot.                                          *)
ResetBlock == block' = NoBlock /\ ordinal' = 0 /\ flash' = Regular /\ finality' = 0

OnBlockEnd(err) ==
    /\ output'   = IF err THEN output ELSE OutputOf(block.number, flash, finality)
    /\ snapshot' = IF err /\ IsFlashBlock(flash) THEN NoSnapshot ELSE Detached(snapshot, block)
    /\ ResetBlock
    /\ UNCHANGED panicked

(* A block started and ended at once.                                      *)
OnSkippedBlock(number, fb, finalized) ==
    IF IsFlashBlock(fb) /\ IndexRefused(number, fb)
    THEN panicked' = TRUE /\ UNCHANGED <<block, ordinal, flash, snapshot, finality, output>>
    ELSE /\ output' = OutputOf(number, fb, Reported(finalized))
         /\ snapshot' = SnapshotAfterStart(number, fb)
         /\ ResetBlock
         /\ UNCHANGED panicked
-----------------------------------------------------------------------------
(* The node: any sequence of regular blocks and flash iterations, which    *)
(* may repeat a number, skip indexes, fail, and keep a snapshot or not.    *)
FlashEvents == {Regular} \cup [index : node.indexes, final : node.final]

Next ==
    /\ ~panicked /\ UNCHANGED node
    /\ \/ /\ ~block.open
          /\ \E number \in node.numbers, fb \in FlashEvents, finalized \in node.finalized :
                OnBlockStart(number, fb, finalized) \/ OnSkippedBlock(number, fb, finalized)
       \/ /\ block.open
          /\ \/ \E kind \in Kinds : Add(kind)
             \/ SnapshotFlashBlockForNextIteration
             \/ \E err \in BOOLEAN : OnBlockEnd(err)

Spec == Init /\ [][Next]_vars
-----------------------------------------------------------------------------
Item == [number : Nat, index : Nat \cup {NoIndex}, first : Nat, last : Nat]

Blocks == [open : BOOLEAN, number : Nat, lists : [Kinds -> Seq(Item)]]

Flashes == [index : Nat \cup {NoIndex}, final : BOOLEAN]

Snapshots == [taken : BOOLEAN, live : BOOLEAN, block : Blocks, lens : [Kinds -> Nat],
              ordinal : Nat, index : Nat]

Outputs == [number : Nat, flash : Flashes, finalized : Nat, libNum : Nat, printed : Nat]

(* A snapshot never reaches beyond the lists of the block it points to.    *)
TypeOK ==
    /\ block \in Blocks
    /\ ordinal \in Nat
    /\ flash \in Flashes
    /\ snapshot \in Snapshots
    /\ \A k \in Kinds : snapshot.lens[k] <= Len(PrevBlock.lists[k])
    /\ finality \in Nat
    /\ output \in Outputs
    /\ panicked \in BOOLEAN
    /\ node \in Nodes
-----------------------------------------------------------------------------
Tagged(k, item) ==
    [kind |-> k, number |-> item.number, index |-> item.index, first |-> item.first, last |-> item.last]

Items(lists) == UNION {{Tagged(k, item) : item \in ToSet(lists[k])} : k \in Kinds}

(* The n-th has n items up to itself.                                      *)
Nth(items, n) == {i \in items : Cardinality({j \in items : j.first <= i.first}) = n}

(* The items of a block in the order they happened.                        *)
Merged(lists) ==
    [n \in 1..Cardinality(Items(lists)) |-> CHOOSE i \in Nth(Items(lists), n) : TRUE]

Iteration(number, fb, lists) == [number |-> number, index |-> fb, items |-> Merged(lists)]

Kept == IF snapshot.taken THEN Iteration(PrevBlock.number, snapshot.index, AtSnapshot) ELSE NoBlock

Current == IF block.open THEN Iteration(block.number, flash.index, block.lists) ELSE NoBlock

Sequence == INSTANCE FlashSequence WITH Nothing <- NoBlock, kept <- Kept, current <- Current

(* Each iteration starts from exactly what was there when the one before   *)
(* took its snapshot, also though that one went on, other blocks came in   *)
(* between, and the lists and the ordinal are restored one by one.         *)
ImplementsSequence == Sequence!SequenceSpec

Within(lists, last) ==
    \A k \in Kinds : \A i \in DOMAIN lists[k] :
        1 <= lists[k][i].first /\ lists[k][i].first <= lists[k][i].last /\ lists[k][i].last <= last

Complete(lists, last) ==
    \A n \in 1..last : \E k \in Kinds : \E i \in DOMAIN lists[k] :
        lists[k][i].first <= n /\ n <= lists[k][i].last

Apart(lists) ==
    \A k, l \in Kinds : \A i \in DOMAIN lists[k], j \in DOMAIN lists[l] :
        \/ k = l /\ i = j
        \/ lists[k][i].last < lists[l][j].first
        \/ lists[l][j].last < lists[k][i].first

Dense(lists, last) == Within(lists, last) /\ Complete(lists, last) /\ Apart(lists)

(* The items of the block being built, restored or its own, use each       *)
(* ordinal up to the block's counter, none above it, and none twice.       *)
OrdinalsContiguous == Dense(block.lists, ordinal)

(* The last irreversible block of a block is neither ahead of it nor more  *)
(* than the window behind it, also around number 0.                        *)
LibInWindow ==
    /\ output.libNum <= output.number
    /\ output.number - output.libNum <= LibWindow

(* And it never moves back while neither block numbers nor the finalized   *)
(* numbers reported do.                                                    *)
LibNeverMovesBack ==
    [][output'.number >= output.number /\ output'.finalized >= output.finalized
        => output'.libNum >= output.libNum]_vars

(* What a reader of the output can tell: a regular block shows 0, a final  *)
(* iteration the offset or more, and what is between is the index of a     *)
(* partial one.  0 may also be a partial iteration with index 0, and the   *)
(* offset or more a partial one with such an index.                        *)
PrintedIndexDecodes ==
    LET p == output.printed
    IN  /\ ~IsFlashBlock(output.flash) => p = 0
        /\ output.flash.final => p >= FinalOffset
        /\ 0 < p /\ p < FinalOffset => output.flash = [index |-> p, final |-> FALSE]
=============================================================================
