--------------------------- MODULE FlashBlocksProofs ---------------------------
(***************************************************************************)
(* Flash blocks with any number of iterations, items and block numbers:    *)
(* restoring prefixes of the lists of the block before, and the ordinal,   *)
(* leaves no gap and no overlap; and what a block is emitted with.         *)
(***************************************************************************)
EXTENDS FlashBlocks, SequenceTheorems, FiniteSetTheorems, TLAPS

Prev(snap, b) == IF snap.live THEN b ELSE snap.block

Prefix(snap, b) == [k \in Kinds |-> SubSeq(Prev(snap, b).lists[k], 1, snap.lens[k])]

(* What a snapshot is good for while b is the block being built.           *)
SnapshotOK(snap, b) ==
    /\ snap \in Snapshots
    /\ \A k \in Kinds : snap.lens[k] <= Len(Prev(snap, b).lists[k])
    /\ snap.taken = TRUE => Dense(Prefix(snap, b), snap.ordinal)
    /\ snap.live = TRUE => b.open = TRUE

(* Only an iteration can be the final one.                                 *)
FlashOK(fb) ==
    fb \in Flashes /\ (fb.final = TRUE => IsFlashBlock(fb))

OutputOK(out) ==
    /\ out \in Outputs
    /\ out.libNum = LibNum(out.number, out.finalized)
    /\ out.printed = PrintedFlashBlockIndex(out.flash)
    /\ FlashOK(out.flash)

FlashInv ==
    /\ block \in Blocks /\ ordinal \in Nat /\ Dense(block.lists, ordinal)
    /\ block.open = FALSE => block = NoBlock /\ ordinal = 0 /\ flash = Regular
    /\ SnapshotOK(snapshot, block)
    /\ FlashOK(flash)
    /\ finality \in Nat
    /\ OutputOK(output)
    /\ panicked \in BOOLEAN
    /\ node \in Nodes
-----------------------------------------------------------------------------
(* computeLibNum stays between the number less the window and the number,  *)
(* and grows with both its arguments.                                      *)
LEMMA LibNumRange ==
    ASSUME NEW number \in Nat, NEW finalized \in Nat
    PROVE  /\ LibNum(number, finalized) \in Nat
           /\ LibNum(number, finalized) <= number
           /\ number - LibNum(number, finalized) <= LibWindow
  BY FlashAssumption DEF LibNum

LEMMA LibNumMonotone ==
    ASSUME NEW n \in Nat, NEW m \in Nat, n <= m, NEW f \in Nat, NEW g \in Nat, f <= g
    PROVE  LibNum(n, f) <= LibNum(m, g)
  BY FlashAssumption DEF LibNum

LEMMA FlashEventOK ==
    ASSUME FlashInv, NEW fb \in FlashEvents
    PROVE  FlashOK(fb)
<1>1. node \in Node
  BY NodeAssumption DEF FlashInv
<1>2. CASE fb = Regular
  BY <1>2 DEF Regular, FlashOK, Flashes
<1>3. CASE fb \in [index : node.indexes, final : node.final]
  <2>1. node.indexes \subseteq Nat /\ node.final \subseteq BOOLEAN
    BY <1>1, FlashAssumption DEF Node
  <2>2. PICK i \in node.indexes, final \in node.final : fb = [index |-> i, final |-> final]
    BY <1>3
  <2>3. i \in Nat /\ final \in BOOLEAN
    BY <2>1, <2>2
  <2> QED BY <2>2, <2>3 DEF FlashOK, Flashes, IsFlashBlock, NoIndex
<1> QED BY <1>2, <1>3 DEF FlashEvents

LEMMA OutputIsOK ==
    ASSUME NEW number \in Nat, NEW fb, FlashOK(fb), NEW finalized \in Nat
    PROVE  OutputOK(OutputOf(number, fb, finalized))
<1>1. LibNum(number, finalized) \in Nat
  BY LibNumRange
<1>2. PrintedFlashBlockIndex(fb) \in Nat
  BY FlashAssumption DEF FlashOK, Flashes, PrintedFlashBlockIndex, IsFlashBlock
<1> QED BY <1>1, <1>2 DEF OutputOK, OutputOf, Outputs, FlashOK
-----------------------------------------------------------------------------
LEMMA PrefixFacts ==
    ASSUME NEW S, NEW s \in Seq(S), NEW n \in Nat, n <= Len(s)
    PROVE  /\ SubSeq(s, 1, n) \in Seq(S)
           /\ Len(SubSeq(s, 1, n)) = n
           /\ \A i \in 1..n : SubSeq(s, 1, n)[i] = s[i]
  BY SubSeqProperties

LEMMA GrownPrefix ==
    ASSUME NEW S, NEW s \in Seq(S), NEW x \in S, NEW n \in Nat, n <= Len(s)
    PROVE  SubSeq(Append(s, x), 1, n) = SubSeq(s, 1, n)
<1>1. Append(s, x) \in Seq(S) /\ Len(Append(s, x)) = Len(s) + 1
      /\ \A i \in 1..Len(s) : Append(s, x)[i] = s[i]
  BY AppendProperties
<1>2. /\ SubSeq(s, 1, n) \in Seq(S) /\ Len(SubSeq(s, 1, n)) = n
      /\ \A i \in 1..n : SubSeq(s, 1, n)[i] = s[i]
  BY PrefixFacts
<1>3. Len(Append(s, x)) \in Nat /\ n <= Len(Append(s, x))
  BY <1>1, LenProperties
<1>4. /\ SubSeq(Append(s, x), 1, n) \in Seq(S) /\ Len(SubSeq(Append(s, x), 1, n)) = n
      /\ \A i \in 1..n : SubSeq(Append(s, x), 1, n)[i] = Append(s, x)[i]
  BY <1>1, <1>3, PrefixFacts
<1>5. \A i \in 1..n : SubSeq(Append(s, x), 1, n)[i] = SubSeq(s, 1, n)[i]
  BY <1>1, <1>2, <1>4, LenProperties
<1> QED BY <1>2, <1>4, <1>5, SeqEqual

(* The whole list is a prefix of itself.                                   *)
LEMMA WholePrefix ==
    ASSUME NEW S, NEW s \in Seq(S)
    PROVE  SubSeq(s, 1, Len(s)) = s
<1>1. Len(s) \in Nat
  BY LenProperties
<1>2. /\ SubSeq(s, 1, Len(s)) \in Seq(S) /\ Len(SubSeq(s, 1, Len(s))) = Len(s)
      /\ \A i \in 1..Len(s) : SubSeq(s, 1, Len(s))[i] = s[i]
  BY <1>1, PrefixFacts
<1> QED BY <1>2, SeqEqual

LEMMA NoListsDense ==
    NoLists \in [Kinds -> Seq(Item)] /\ Dense(NoLists, 0)
<1>1. NoLists \in [Kinds -> Seq(Item)]
  BY DEF NoLists
<1>2. \A k \in Kinds : NoLists[k] = <<>> /\ DOMAIN NoLists[k] = {}
  BY DEF NoLists
<1> QED BY <1>1, <1>2 DEF Dense, Within, Complete, Apart

LEMMA NoBlockOK ==
    NoBlock \in Blocks /\ NoBlock.lists = NoLists /\ NoBlock.open = FALSE
  BY NoListsDense DEF NoBlock, Blocks

LEMMA NoSnapshotOK ==
    ASSUME NEW b
    PROVE  SnapshotOK(NoSnapshot, b)
<1>1. NoSnapshot \in Snapshots
  BY NoBlockOK DEF NoSnapshot, Snapshots
<1>2. \A k \in Kinds : NoSnapshot.lens[k] <= Len(Prev(NoSnapshot, b).lists[k])
  BY NoBlockOK DEF NoSnapshot, Prev, NoLists
<1> QED BY <1>1, <1>2 DEF SnapshotOK, NoSnapshot

(* The snapshot outlives its block, whatever is built next.                *)
LEMMA KeptSnapshotOK ==
    ASSUME NEW snap, NEW b, NEW c, SnapshotOK(snap, b), snap.live = FALSE
    PROVE  SnapshotOK(snap, c)
  BY DEF SnapshotOK, Prev, Prefix

LEMMA DetachedOK ==
    ASSUME NEW snap, NEW b \in Blocks, NEW c, SnapshotOK(snap, b)
    PROVE  SnapshotOK(Detached(snap, b), c)
<1>1. CASE snap.live = FALSE
  BY <1>1, KeptSnapshotOK DEF Detached
<1>2. CASE snap.live = TRUE
  <2> DEFINE d == [snap EXCEPT !.live = FALSE, !.block = b]
  <2>1. /\ d \in Snapshots /\ d.live = FALSE /\ d.block = b
        /\ d.lens = snap.lens /\ d.ordinal = snap.ordinal /\ d.taken = snap.taken
    BY DEF SnapshotOK, Snapshots
  <2>2. Detached(snap, b) = d
    BY <1>2 DEF Detached
  <2> HIDE DEF d
  <2>3. Prev(d, c) = Prev(snap, b) /\ Prefix(d, c) = Prefix(snap, b)
    BY <1>2, <2>1 DEF Prev, Prefix
  <2> QED BY <2>1, <2>2, <2>3 DEF SnapshotOK
<1> QED BY <1>1, <1>2 DEF SnapshotOK, Snapshots

(* A snapshot taken now holds all the block does.                          *)
TakenNow(b, o, i) ==
    [taken |-> TRUE, live |-> TRUE, block |-> NoBlock,
     lens |-> [k \in Kinds |-> Len(b.lists[k])], ordinal |-> o, index |-> i]

LEMMA TakenWhole ==
    ASSUME NEW b \in Blocks, NEW o \in Nat, NEW i \in Nat
    PROVE  /\ TakenNow(b, o, i).taken = TRUE /\ TakenNow(b, o, i).index = i
           /\ Prev(TakenNow(b, o, i), b) = b
           /\ Prefix(TakenNow(b, o, i), b) = b.lists
<1> DEFINE lens == [k \in Kinds |-> Len(b.lists[k])]
           snap == TakenNow(b, o, i)
<1>1. b.lists \in [Kinds -> Seq(Item)]
  BY DEF Blocks
<1>2. \A k \in Kinds : lens[k] = Len(b.lists[k])
  OBVIOUS
<1> HIDE DEF lens
<1>3. snap.taken = TRUE /\ snap.index = i /\ snap.live = TRUE /\ snap.lens = lens
  BY DEF TakenNow, lens
<1> HIDE DEF snap
<1>4. Prev(snap, b) = b
  BY <1>3 DEF Prev
<1>5. \A k \in Kinds : SubSeq(b.lists[k], 1, lens[k]) = b.lists[k]
  BY <1>1, <1>2, WholePrefix
<1>6. Prefix(snap, b) = [k \in Kinds |-> SubSeq(b.lists[k], 1, lens[k])]
  BY <1>3, <1>4 DEF Prefix
<1> QED BY <1>1, <1>3, <1>4, <1>5, <1>6 DEF snap

LEMMA TakenOK ==
    ASSUME NEW b \in Blocks, NEW o \in Nat, NEW i \in Nat, Dense(b.lists, o), b.open = TRUE
    PROVE  SnapshotOK(TakenNow(b, o, i), b)
<1> DEFINE lens == [k \in Kinds |-> Len(b.lists[k])]
           snap == TakenNow(b, o, i)
<1>1. b.lists \in [Kinds -> Seq(Item)]
  BY DEF Blocks
<1>2. lens \in [Kinds -> Nat] /\ \A k \in Kinds : lens[k] = Len(b.lists[k])
  BY <1>1, LenProperties
<1> HIDE DEF lens
<1>3. snap \in Snapshots /\ snap.live = TRUE /\ snap.lens = lens /\ snap.ordinal = o
  BY <1>2, NoBlockOK DEF TakenNow, Snapshots, lens
<1>4. Prev(snap, b) = b /\ Prefix(snap, b) = b.lists
  BY TakenWhole, Zenon
<1> HIDE DEF snap
<1>5. \A k \in Kinds : snap.lens[k] <= Len(Prev(snap, b).lists[k])
  BY <1>1, <1>2, <1>3, <1>4, LenProperties
<1>6. SnapshotOK(snap, b)
  BY <1>3, <1>4, <1>5 DEF SnapshotOK
<1> QED BY <1>6 DEF snap

(* What is restored is well-formed.                                        *)
LEMMA PrefixTyped ==
    ASSUME NEW snap, NEW b \in Blocks, SnapshotOK(snap, b)
    PROVE  Prefix(snap, b) \in [Kinds -> Seq(Item)]
<1>1. Prev(snap, b).lists \in [Kinds -> Seq(Item)] /\ snap.lens \in [Kinds -> Nat]
  BY DEF SnapshotOK, Snapshots, Blocks, Prev
<1>2. ASSUME NEW k \in Kinds
      PROVE  SubSeq(Prev(snap, b).lists[k], 1, snap.lens[k]) \in Seq(Item)
  BY <1>1, PrefixFacts DEF SnapshotOK
<1> QED BY <1>2 DEF Prefix
-----------------------------------------------------------------------------
(* A block with one more item.                                             *)
Grown(b, kind, item) == [b EXCEPT !.lists[kind] = Append(@, item)]

LEMMA GrownFacts ==
    ASSUME NEW b \in Blocks, NEW kind \in Kinds, NEW item \in Item
    PROVE  /\ Grown(b, kind, item) \in Blocks
           /\ Grown(b, kind, item).open = b.open
           /\ Grown(b, kind, item).lists[kind] = Append(b.lists[kind], item)
           /\ \A k \in Kinds : k # kind => Grown(b, kind, item).lists[k] = b.lists[k]
<1>1. b.lists \in [Kinds -> Seq(Item)]
  BY DEF Blocks
<1>2. Append(b.lists[kind], item) \in Seq(Item)
  BY <1>1, AppendProperties
<1> QED BY <1>1, <1>2 DEF Grown, Blocks

LEMMA GrownPrefixes ==
    ASSUME NEW snap, NEW b \in Blocks, NEW kind \in Kinds, NEW item \in Item,
           SnapshotOK(snap, b), snap.live = TRUE
    PROVE  Prefix(snap, Grown(b, kind, item)) = Prefix(snap, b)
<1> DEFINE c == Grown(b, kind, item)
<1>1. c.lists[kind] = Append(b.lists[kind], item) /\ \A k \in Kinds : k # kind => c.lists[k] = b.lists[k]
  BY GrownFacts
<1> HIDE DEF c
<1>2. b.lists \in [Kinds -> Seq(Item)] /\ snap.lens \in [Kinds -> Nat]
  BY DEF Blocks, SnapshotOK, Snapshots
<1>3. Prev(snap, b) = b /\ Prev(snap, c) = c
  BY DEF Prev
<1>4. ASSUME NEW k \in Kinds
      PROVE  SubSeq(c.lists[k], 1, snap.lens[k]) = SubSeq(b.lists[k], 1, snap.lens[k])
  <2>1. b.lists[k] \in Seq(Item) /\ snap.lens[k] \in Nat /\ snap.lens[k] <= Len(b.lists[k])
    BY <1>2, <1>3 DEF SnapshotOK
  <2>2. SubSeq(Append(b.lists[k], item), 1, snap.lens[k]) = SubSeq(b.lists[k], 1, snap.lens[k])
    BY <2>1, GrownPrefix
  <2> QED BY <1>1, <2>2
<1>5. Prefix(snap, c) = Prefix(snap, b)
  BY <1>3, <1>4 DEF Prefix
<1> QED BY <1>5 DEF c

LEMMA GrownSnapshotOK ==
    ASSUME NEW snap, NEW b \in Blocks, NEW kind \in Kinds, NEW item \in Item, SnapshotOK(snap, b)
    PROVE  SnapshotOK(snap, Grown(b, kind, item))
<1> DEFINE c == Grown(b, kind, item)
<1>1. CASE snap.live = FALSE
  BY <1>1, KeptSnapshotOK
<1>2. CASE snap.live = TRUE
  <2>1. /\ c.open = b.open /\ c.lists[kind] = Append(b.lists[kind], item)
        /\ \A k \in Kinds : k # kind => c.lists[k] = b.lists[k]
    BY GrownFacts
  <2> HIDE DEF c
  <2>2. b.lists \in [Kinds -> Seq(Item)] /\ snap.lens \in [Kinds -> Nat]
    BY DEF Blocks, SnapshotOK, Snapshots
  <2>3. Prev(snap, b) = b /\ Prev(snap, c) = c
    BY <1>2 DEF Prev
  <2>4. \A k \in Kinds : snap.lens[k] <= Len(b.lists[k])
    BY <2>3 DEF SnapshotOK
  <2>5. \A k \in Kinds : snap.lens[k] <= Len(c.lists[k])
    <3>1. ASSUME NEW k \in Kinds
          PROVE  Len(b.lists[k]) \in Nat /\ snap.lens[k] \in Nat
      BY <2>2, LenProperties
    <3>2. Len(c.lists[kind]) = Len(b.lists[kind]) + 1
      BY <2>1, <2>2, AppendProperties
    <3> SUFFICES ASSUME NEW k \in Kinds PROVE snap.lens[k] <= Len(c.lists[k])
      OBVIOUS
    <3>3. CASE k = kind
      BY <2>4, <3>1, <3>2, <3>3
    <3>4. CASE k # kind
      BY <2>1, <2>4, <3>4
    <3> QED BY <3>3, <3>4
  <2>6. Prefix(snap, c) = Prefix(snap, b)
    BY <1>2, GrownPrefixes DEF c
  <2>7. SnapshotOK(snap, c)
    BY <2>1, <2>3, <2>5, <2>6 DEF SnapshotOK
  <2> QED BY <2>7 DEF c
<1> QED BY <1>1, <1>2 DEF SnapshotOK, Snapshots

(* It takes the ordinals that follow.                                      *)
LEMMA GrownDense ==
    ASSUME NEW b \in Blocks, NEW kind \in Kinds, NEW item \in Item,
           NEW o \in Nat, NEW w \in Nat \ {0}, item.first = o + 1, item.last = o + w,
           Dense(b.lists, o)
    PROVE  Dense(Grown(b, kind, item).lists, o + w)
<1> DEFINE old == b.lists
           new == Grown(b, kind, item).lists
           last == Len(old[kind]) + 1
<1>1. old \in [Kinds -> Seq(Item)]
  BY DEF Blocks
<1>2. new[kind] = Append(old[kind], item) /\ \A k \in Kinds : k # kind => new[k] = old[k]
  BY GrownFacts
<1>3. Dense(old, o)
  OBVIOUS
<1> HIDE DEF old, new
<1>4. /\ last \in DOMAIN new[kind] /\ new[kind][last] = item
      /\ \A i \in DOMAIN old[kind] : i \in DOMAIN new[kind] /\ new[kind][i] = old[kind][i]
      /\ \A i \in DOMAIN new[kind] : i = last \/ i \in DOMAIN old[kind]
  BY <1>1, <1>2, AppendProperties, LenProperties
<1>5. \A k \in Kinds : \A i \in DOMAIN new[k] :
          \/ k = kind /\ i = last /\ new[k][i] = item
          \/ i \in DOMAIN old[k] /\ new[k][i] = old[k][i]
  BY <1>2, <1>4
<1>6. \A k \in Kinds : \A i \in DOMAIN old[k] : old[k][i] \in Item
  BY <1>1
<1>7. item.first \in Nat /\ item.last \in Nat
  BY DEF Item
<1>8. \A k \in Kinds : \A i \in DOMAIN old[k] :
          /\ old[k][i].first \in Nat /\ old[k][i].last \in Nat
          /\ 1 <= old[k][i].first /\ old[k][i].first <= old[k][i].last /\ old[k][i].last <= o
  BY <1>3, <1>6 DEF Item, Dense, Within
<1> HIDE DEF last
<1>9. Within(new, o + w)
  BY <1>5, <1>7, <1>8 DEF Within
<1>10. Complete(new, o + w)
  <2> SUFFICES ASSUME NEW n \in 1..(o + w)
               PROVE  \E k \in Kinds : \E i \in DOMAIN new[k] : new[k][i].first <= n /\ n <= new[k][i].last
    BY DEF Complete
  <2>1. CASE n <= o
    <3>1. PICK k \in Kinds : \E i \in DOMAIN old[k] : old[k][i].first <= n /\ n <= old[k][i].last
      BY <1>3, <2>1 DEF Dense, Complete
    <3> PICK i \in DOMAIN old[k] : old[k][i].first <= n /\ n <= old[k][i].last
      BY <3>1
    <3>2. i \in DOMAIN new[k] /\ new[k][i] = old[k][i]
      BY <1>2, <1>4
    <3> QED BY <3>2
  <2>2. CASE n > o
    BY <1>4, <1>7, <2>2
  <2> QED BY <2>1, <2>2
<1>11. Apart(new)
  <2> SUFFICES ASSUME NEW k \in Kinds, NEW l \in Kinds, NEW i \in DOMAIN new[k], NEW j \in DOMAIN new[l]
               PROVE  \/ k = l /\ i = j
                      \/ new[k][i].last < new[l][j].first
                      \/ new[l][j].last < new[k][i].first
    BY DEF Apart
  <2>1. CASE (i \in DOMAIN old[k] /\ new[k][i] = old[k][i]) /\ (j \in DOMAIN old[l] /\ new[l][j] = old[l][j])
    BY <1>3, <2>1 DEF Dense, Apart
  <2>2. CASE k = kind /\ i = last /\ new[k][i] = item
    <3>1. CASE l = kind /\ j = last
      BY <2>2, <3>1
    <3>2. CASE j \in DOMAIN old[l] /\ new[l][j] = old[l][j]
      BY <1>7, <1>8, <2>2, <3>2
    <3> QED BY <1>5, <3>1, <3>2
  <2>3. CASE (l = kind /\ j = last /\ new[l][j] = item) /\ (i \in DOMAIN old[k] /\ new[k][i] = old[k][i])
    BY <1>7, <1>8, <2>3
  <2> QED BY <1>5, <2>1, <2>2, <2>3
<1>12. Dense(new, o + w)
  BY <1>9, <1>10, <1>11 DEF Dense
<1> QED BY <1>12 DEF new
-----------------------------------------------------------------------------
LEMMA FlashStart ==
    Init => FlashInv
<1> SUFFICES ASSUME Init PROVE FlashInv
  OBVIOUS
<1>1. FlashOK(flash)
  BY FlashAssumption DEF Init, Regular, FlashOK, Flashes
<1>2. OutputOK(output)
  <2>1. LibNum(0, 0) = 0
    BY FlashAssumption DEF LibNum
  <2> QED BY <1>1, <2>1 DEF Init, NoOutput, OutputOK, Outputs, PrintedFlashBlockIndex, FlashOK, Regular, IsFlashBlock
<1>3. block \in Blocks /\ Dense(block.lists, ordinal)
  BY NoBlockOK, NoListsDense DEF Init
<1> QED BY <1>1, <1>2, <1>3, NoSnapshotOK DEF Init, FlashInv

(* What OnBlockEnd and OnSkippedBlock leave, if the snapshot and the       *)
(* output are in order.                                                    *)
LEMMA ResetKeeps ==
    ASSUME FlashInv, ResetBlock, UNCHANGED <<panicked, node>>,
           SnapshotOK(snapshot', NoBlock), OutputOK(output')
    PROVE  FlashInv'
<1>1. block' = NoBlock /\ ordinal' = 0 /\ flash' = Regular /\ finality' = 0
  BY DEF ResetBlock
<1>2. FlashOK(flash')
  BY <1>1, FlashAssumption DEF Regular, FlashOK, Flashes
<1>3. block' \in Blocks /\ Dense(block'.lists, ordinal')
  BY <1>1, NoBlockOK, NoListsDense
<1> QED BY <1>1, <1>2, <1>3 DEF FlashInv
-----------------------------------------------------------------------------
(* The snapshot after handleFlashBlockStart.                               *)
LEMMA StartedSnapshotOK ==
    ASSUME FlashInv, block.open = FALSE, NEW number \in Nat, NEW fb, NEW b
    PROVE  SnapshotOK(SnapshotAfterStart(number, fb), b)
<1>1. snapshot.live = FALSE
  BY DEF FlashInv, SnapshotOK, Snapshots
<1>2. SnapshotOK(snapshot, b)
  BY <1>1, KeptSnapshotOK DEF FlashInv
<1> QED BY <1>2, NoSnapshotOK DEF SnapshotAfterStart

LEMMA OnBlockStartKeeps ==
    ASSUME FlashInv, block.open = FALSE, UNCHANGED node,
           NEW number \in Nat, NEW fb \in FlashEvents, NEW finalized \in Nat,
           OnBlockStart(number, fb, finalized)
    PROVE  FlashInv'
<1>1. CASE IsFlashBlock(fb) /\ IndexRefused(number, fb)
  <2>1. /\ UNCHANGED <<block, ordinal, flash, snapshot, finality, output, node>>
        /\ panicked' \in BOOLEAN
    BY <1>1 DEF OnBlockStart
  <2> QED BY <2>1 DEF FlashInv
<1>2. CASE ~(IsFlashBlock(fb) /\ IndexRefused(number, fb))
  <2>1. /\ block' = Started(number, fb)
        /\ ordinal' = RestoredOrdinal(number, fb)
        /\ flash' = IF IsFlashBlock(fb) THEN fb ELSE flash
        /\ snapshot' = SnapshotAfterStart(number, fb)
        /\ finality' = Reported(finalized)
        /\ UNCHANGED <<output, panicked>>
    BY <1>2 DEF OnBlockStart
  <2>2. block \in Blocks /\ SnapshotOK(snapshot, block) /\ ordinal = 0
    BY DEF FlashInv
  <2>3. /\ AtSnapshot = Prefix(snapshot, block)
        /\ snapshot.ordinal \in Nat
        /\ snapshot.taken \in BOOLEAN
    BY <2>2 DEF AtSnapshot, Prefix, PrevBlock, Prev, SnapshotOK, Snapshots
  <2>4. /\ RestoredLists(number, fb) \in [Kinds -> Seq(Item)]
        /\ RestoredOrdinal(number, fb) \in Nat
        /\ Dense(RestoredLists(number, fb), RestoredOrdinal(number, fb))
    <3>1. CASE Restored(number, fb)
      <4>1. snapshot.taken = TRUE
        BY <2>3, <3>1 DEF Restored, SameNumber
      <4>2. Dense(Prefix(snapshot, block), snapshot.ordinal)
        BY <2>2, <4>1 DEF SnapshotOK
      <4>3. Prefix(snapshot, block) \in [Kinds -> Seq(Item)]
        BY <2>2, PrefixTyped
      <4> QED BY <2>3, <3>1, <4>2, <4>3 DEF RestoredLists, RestoredOrdinal
    <3>2. CASE ~Restored(number, fb)
      BY <2>2, <3>2, NoListsDense DEF RestoredLists, RestoredOrdinal
    <3> QED BY <3>1, <3>2
  <2>5. block' \in Blocks /\ block'.lists = RestoredLists(number, fb) /\ block'.open = TRUE
    BY <2>1, <2>4 DEF Started, Blocks
  <2>6. SnapshotOK(snapshot', block')
    BY <2>1, StartedSnapshotOK
  <2>7. FlashOK(flash')
    BY <2>1, FlashEventOK DEF FlashInv
  <2>8. finality' \in Nat
    BY <2>1 DEF Reported, FlashInv
  <2> QED BY <2>1, <2>4, <2>5, <2>6, <2>7, <2>8 DEF FlashInv
<1> QED BY <1>1, <1>2

LEMMA AddKeeps ==
    ASSUME FlashInv, block.open = TRUE, UNCHANGED node, NEW kind \in Kinds, Add(kind)
    PROVE  FlashInv'
<1> DEFINE item == [number |-> block.number, index |-> flash.index,
                    first |-> ordinal + 1, last |-> ordinal + Width(kind)]
<1>1. Width(kind) \in Nat \ {0}
  BY DEF Width
<1>2. block \in Blocks /\ ordinal \in Nat /\ Dense(block.lists, ordinal) /\ SnapshotOK(snapshot, block)
  BY DEF FlashInv
<1>3. item \in Item /\ item.first = ordinal + 1 /\ item.last = ordinal + Width(kind)
  BY <1>1, <1>2 DEF Item, Blocks, FlashInv, FlashOK, Flashes
<1>4. /\ ordinal' = ordinal + Width(kind)
      /\ block' = Grown(block, kind, item)
      /\ UNCHANGED <<flash, snapshot, finality, output, panicked>>
  BY DEF Add, Grown
<1> HIDE DEF item
<1>5. block' \in Blocks /\ block'.open = TRUE
  BY <1>2, <1>3, <1>4, GrownFacts
<1>6. Dense(block'.lists, ordinal')
  BY <1>1, <1>2, <1>3, <1>4, GrownDense
<1>7. SnapshotOK(snapshot', block')
  BY <1>2, <1>3, <1>4, GrownSnapshotOK
<1>8. ordinal' \in Nat
  BY <1>1, <1>2, <1>4
<1> QED BY <1>4, <1>5, <1>6, <1>7, <1>8 DEF FlashInv

LEMMA SnapshotKeeps ==
    ASSUME FlashInv, block.open = TRUE, UNCHANGED node, SnapshotFlashBlockForNextIteration
    PROVE  FlashInv'
<1>1. UNCHANGED <<block, ordinal, flash, finality, output, panicked>>
  BY DEF SnapshotFlashBlockForNextIteration
<1>2. SnapshotOK(snapshot', block)
  <2>1. IsFlashBlock(flash) => flash.index \in Nat
    BY DEF FlashInv, FlashOK, Flashes, IsFlashBlock
  <2>2. CASE ~IsFlashBlock(flash)
    BY <2>2 DEF SnapshotFlashBlockForNextIteration, FlashInv
  <2>3. CASE IsFlashBlock(flash)
    BY <2>1, <2>3, TakenOK DEF SnapshotFlashBlockForNextIteration, FlashInv, TakenNow
  <2> QED BY <2>2, <2>3
<1> QED BY <1>1, <1>2 DEF FlashInv

LEMMA OnBlockEndKeeps ==
    ASSUME FlashInv, UNCHANGED node, NEW err \in BOOLEAN, OnBlockEnd(err)
    PROVE  FlashInv'
<1>1. ResetBlock /\ UNCHANGED panicked
      /\ output' = (IF err THEN output ELSE OutputOf(block.number, flash, finality))
      /\ snapshot' = (IF err /\ IsFlashBlock(flash) THEN NoSnapshot ELSE Detached(snapshot, block))
  BY DEF OnBlockEnd
<1>2. SnapshotOK(snapshot', NoBlock)
  BY <1>1, NoSnapshotOK, DetachedOK DEF FlashInv
<1>3. OutputOK(output')
  <2>1. block.number \in Nat
    BY DEF FlashInv, Blocks
  <2> QED BY <1>1, <2>1, OutputIsOK DEF FlashInv
<1> QED BY <1>1, <1>2, <1>3, ResetKeeps

LEMMA OnSkippedBlockKeeps ==
    ASSUME FlashInv, block.open = FALSE, UNCHANGED node,
           NEW number \in Nat, NEW fb \in FlashEvents, NEW finalized \in Nat,
           OnSkippedBlock(number, fb, finalized)
    PROVE  FlashInv'
<1>1. CASE IsFlashBlock(fb) /\ IndexRefused(number, fb)
  <2>1. /\ UNCHANGED <<block, ordinal, flash, snapshot, finality, output, node>>
        /\ panicked' \in BOOLEAN
    BY <1>1 DEF OnSkippedBlock
  <2> QED BY <2>1 DEF FlashInv
<1>2. CASE ~(IsFlashBlock(fb) /\ IndexRefused(number, fb))
  <2>1. /\ output' = OutputOf(number, fb, Reported(finalized))
        /\ snapshot' = SnapshotAfterStart(number, fb)
        /\ ResetBlock /\ UNCHANGED panicked
    BY <1>2 DEF OnSkippedBlock
  <2>2. Reported(finalized) \in Nat
    BY DEF Reported, FlashInv
  <2> QED BY <2>1, <2>2, FlashEventOK, OutputIsOK, StartedSnapshotOK, ResetKeeps
<1> QED BY <1>1, <1>2

LEMMA FlashStep ==
    ASSUME FlashInv, [Next]_vars
    PROVE  FlashInv'
<1>1. CASE UNCHANGED vars
  BY <1>1 DEF vars, FlashInv
<1>2. CASE Next
  <2>1. UNCHANGED node /\ block.open \in BOOLEAN
    BY <1>2 DEF Next, FlashInv, Blocks
  <2>2. node.numbers \subseteq Nat /\ node.finalized \subseteq Nat
    BY FlashAssumption, NodeAssumption DEF FlashInv, Node
  <2>3. ASSUME block.open = FALSE, NEW number \in node.numbers, NEW fb \in FlashEvents,
               NEW finalized \in node.finalized,
               OnBlockStart(number, fb, finalized) \/ OnSkippedBlock(number, fb, finalized)
        PROVE  FlashInv'
    <3>1. number \in Nat /\ finalized \in Nat
      BY <2>2
    <3> QED BY <2>1, <2>3, <3>1, OnBlockStartKeeps, OnSkippedBlockKeeps
  <2>4. ASSUME block.open = TRUE,
               \/ \E kind \in Kinds : Add(kind)
               \/ SnapshotFlashBlockForNextIteration
               \/ \E err \in BOOLEAN : OnBlockEnd(err)
        PROVE  FlashInv'
    BY <2>1, <2>4, AddKeeps, SnapshotKeeps, OnBlockEndKeeps
  <2>5. CASE block.open = FALSE
    BY <1>2, <2>3, <2>5 DEF Next
  <2>6. CASE block.open = TRUE
    BY <1>2, <2>4, <2>6 DEF Next
  <2> QED BY <2>1, <2>5, <2>6
<1> QED BY <1>1, <1>2

LEMMA FlashInvariant == Spec => []FlashInv
  BY FlashStart, FlashStep, PTL DEF Spec
-----------------------------------------------------------------------------
(* The block, the snapshot and the output stay well-formed, and a snapshot *)
(* within the lists of the block it points to (flashBlockSnapshot).        *)
THEOREM FlashTypes == Spec => []TypeOK
<1>1. FlashInv => TypeOK
  BY DEF FlashInv, FlashOK, OutputOK, SnapshotOK, TypeOK, PrevBlock, Prev
<1> QED BY <1>1, FlashInvariant, PTL

(* After any iterations, restored or not (restoreFlashBlockSnapshot), the  *)
(* items of a block use the ordinals up to its counter, each one once.     *)
THEOREM FlashOrdinals == Spec => []OrdinalsContiguous
<1>1. FlashInv => OrdinalsContiguous
  BY DEF FlashInv, OrdinalsContiguous
<1> QED BY <1>1, FlashInvariant, PTL

(* computeLibNum, for any numbers and any finality reported.               *)
THEOREM FlashLib == Spec => []LibInWindow
<1>1. FlashInv => LibInWindow
  BY LibNumRange DEF FlashInv, OutputOK, Outputs, LibInWindow
<1> QED BY <1>1, FlashInvariant, PTL

(* From one block emitted to the next.                                     *)
THEOREM FlashLibMoves == Spec => LibNeverMovesBack
<1>1. ASSUME FlashInv, FlashInv',
             output'.number >= output.number, output'.finalized >= output.finalized
      PROVE  output'.libNum >= output.libNum
  <2>1. /\ output.number \in Nat /\ output.finalized \in Nat
        /\ output.libNum = LibNum(output.number, output.finalized)
    BY <1>1 DEF FlashInv, OutputOK, Outputs
  <2>2. /\ output'.number \in Nat /\ output'.finalized \in Nat
        /\ output'.libNum = LibNum(output'.number, output'.finalized)
    BY <1>1 DEF FlashInv, OutputOK, Outputs
  <2>3. LibNum(output.number, output.finalized) <= LibNum(output'.number, output'.finalized)
    BY <1>1, <2>1, <2>2, LibNumMonotone
  <2>4. output.libNum \in Nat /\ output'.libNum \in Nat
    BY <1>1 DEF FlashInv, OutputOK, Outputs
  <2> QED BY <2>1, <2>2, <2>3, <2>4
<1> QED BY <1>1, FlashInvariant, PTL DEF LibNeverMovesBack

(* computePrintedFlashBlockIndex, for any index the node may give: 0 of a  *)
(* regular block, the offset or more of a final iteration, and between the *)
(* two nothing but the index of a partial one.                             *)
THEOREM FlashPrinted == Spec => []PrintedIndexDecodes
<1>1. ASSUME FlashInv PROVE PrintedIndexDecodes
  <2> DEFINE fb == output.flash
             p == output.printed
  <2>1. p = PrintedFlashBlockIndex(fb) /\ FlashOK(fb)
    BY <1>1 DEF FlashInv, OutputOK
  <2>2. fb = [index |-> fb.index, final |-> fb.final] /\ fb.final \in BOOLEAN
        /\ (fb.index \in Nat \/ ~IsFlashBlock(fb))
    BY <2>1 DEF FlashOK, Flashes, IsFlashBlock
  <2>3. fb.final = TRUE => IsFlashBlock(fb)
    BY <2>1 DEF FlashOK
  <2> HIDE DEF fb, p
  <2>4. CASE ~IsFlashBlock(fb)
    <3>1. p = 0 /\ fb.final = FALSE
      BY <2>1, <2>2, <2>3, <2>4 DEF PrintedFlashBlockIndex
    <3> QED BY <2>4, <3>1 DEF PrintedIndexDecodes, fb, p
  <2>5. CASE IsFlashBlock(fb) /\ fb.final = TRUE
    <3>1. p = fb.index + FinalOffset /\ fb.index \in Nat
      BY <2>1, <2>2, <2>5 DEF PrintedFlashBlockIndex
    <3>2. p >= FinalOffset /\ ~(p < FinalOffset)
      BY <3>1, FlashAssumption
    <3> QED BY <2>5, <3>2 DEF PrintedIndexDecodes, fb, p
  <2>6. CASE IsFlashBlock(fb) /\ fb.final = FALSE
    <3>1. p = fb.index
      BY <2>1, <2>6 DEF PrintedFlashBlockIndex
    <3>2. fb = [index |-> p, final |-> FALSE]
      BY <2>2, <2>6, <3>1
    <3> QED BY <2>6, <3>2 DEF PrintedIndexDecodes, fb, p
  <2> QED BY <2>2, <2>4, <2>5, <2>6
<1> QED BY <1>1, FlashInvariant, PTL
-----------------------------------------------------------------------------
(* The sequence the lists of a block are merged to.                        *)
LEMMA ItemsMember ==
    ASSUME NEW lists, NEW x
    PROVE  x \in Items(lists) <=> \E k \in Kinds : \E i \in DOMAIN lists[k] : x = Tagged(k, lists[k][i])
  BY DEF Items, ToSet

LEMMA ItemsFacts ==
    ASSUME NEW lists \in [Kinds -> Seq(Item)], NEW o \in Nat, Dense(lists, o)
    PROVE  /\ \A x \in Items(lists) :
                  /\ x.first \in Nat /\ x.last \in Nat
                  /\ 1 <= x.first /\ x.first <= x.last /\ x.last <= o
           /\ \A x, y \in Items(lists) : x = y \/ x.last < y.first \/ y.last < x.first
           /\ \A n \in 1..o : \E x \in Items(lists) : x.first <= n /\ n <= x.last
<1>1. \A k \in Kinds : \A i \in DOMAIN lists[k] : lists[k][i] \in Item
  OBVIOUS
<1>2. ASSUME NEW k \in Kinds, NEW i \in DOMAIN lists[k]
      PROVE  /\ Tagged(k, lists[k][i]).first = lists[k][i].first
             /\ Tagged(k, lists[k][i]).last = lists[k][i].last
             /\ Tagged(k, lists[k][i]) \in Items(lists)
  BY ItemsMember DEF Tagged
<1>3. ASSUME NEW x \in Items(lists)
      PROVE  /\ x.first \in Nat /\ x.last \in Nat
             /\ 1 <= x.first /\ x.first <= x.last /\ x.last <= o
  <2> PICK k \in Kinds : \E i \in DOMAIN lists[k] : x = Tagged(k, lists[k][i])
    BY ItemsMember
  <2> PICK i \in DOMAIN lists[k] : x = Tagged(k, lists[k][i])
    OBVIOUS
  <2> QED BY <1>1, <1>2 DEF Item, Dense, Within
<1>4. ASSUME NEW x \in Items(lists), NEW y \in Items(lists)
      PROVE  x = y \/ x.last < y.first \/ y.last < x.first
  <2> PICK k \in Kinds : \E i \in DOMAIN lists[k] : x = Tagged(k, lists[k][i])
    BY ItemsMember
  <2> PICK i \in DOMAIN lists[k] : x = Tagged(k, lists[k][i])
    OBVIOUS
  <2> PICK l \in Kinds : \E j \in DOMAIN lists[l] : y = Tagged(l, lists[l][j])
    BY ItemsMember
  <2> PICK j \in DOMAIN lists[l] : y = Tagged(l, lists[l][j])
    OBVIOUS
  <2>1. \/ k = l /\ i = j
        \/ lists[k][i].last < lists[l][j].first
        \/ lists[l][j].last < lists[k][i].first
    BY DEF Dense, Apart
  <2> QED BY <1>2, <2>1
<1>5. ASSUME NEW n \in 1..o
      PROVE  \E x \in Items(lists) : x.first <= n /\ n <= x.last
  <2> PICK k \in Kinds : \E i \in DOMAIN lists[k] : lists[k][i].first <= n /\ n <= lists[k][i].last
    BY DEF Dense, Complete
  <2> PICK i \in DOMAIN lists[k] : lists[k][i].first <= n /\ n <= lists[k][i].last
    OBVIOUS
  <2> QED BY <1>2
<1> QED BY <1>3, <1>4, <1>5

LEMMA ItemsFinite ==
    ASSUME NEW lists \in [Kinds -> Seq(Item)], NEW o \in Nat, Dense(lists, o)
    PROVE  IsFiniteSet(Items(lists)) /\ Cardinality(Items(lists)) \in Nat
<1> DEFINE S == Items(lists)
           f == [x \in S |-> x.first]
<1>1. /\ \A x \in S : x.first \in Nat /\ x.last \in Nat /\ 1 <= x.first /\ x.first <= x.last /\ x.last <= o
      /\ \A x, y \in S : x = y \/ x.last < y.first \/ y.last < x.first
  BY ItemsFacts
<1> HIDE DEF S
<1>2. \A x \in S : x.first \in 1..o
  BY <1>1
<1>3. \A x, y \in S : x.first = y.first => x = y
  BY <1>1
<1>4. f \in Injection(S, 1..o)
  BY <1>2, <1>3 DEF Injection, IsInjective
<1>5. IsFiniteSet(1..o)
  BY FS_Interval
<1>6. IsFiniteSet(S)
  BY <1>4, <1>5, FS_Injection
<1> QED BY <1>6, FS_CardinalityType DEF S

(* A set with one item after all others.                                   *)
LEMMA NthGrown ==
    ASSUME NEW A, NEW x, IsFiniteSet(A), NEW o \in Nat,
           \A y \in A : y.first \in Nat /\ y.first <= o, x.first = o + 1
    PROVE  /\ Cardinality(A) \in Nat /\ Cardinality(A \cup {x}) = Cardinality(A) + 1
           /\ \A n \in 1..Cardinality(A) : Nth(A \cup {x}, n) = Nth(A, n)
           /\ Nth(A \cup {x}, Cardinality(A) + 1) = {x}
<1> DEFINE N == Cardinality(A)
           B == A \cup {x}
           upTo(S, i) == {j \in S : j.first <= i.first}
<1>1. x \notin A
  BY Z3
<1>2. N \in Nat /\ Cardinality(B) = N + 1
  BY <1>1, FS_AddElement, FS_CardinalityType
<1>3. ASSUME NEW i \in A
      PROVE  upTo(B, i) = upTo(A, i) /\ Cardinality(upTo(A, i)) \in Nat /\ Cardinality(upTo(A, i)) <= N
  <2>1. ~(x.first <= i.first)
    OBVIOUS
  <2>2. upTo(B, i) = upTo(A, i)
    BY <2>1
  <2>3. upTo(A, i) \in SUBSET A
    OBVIOUS
  <2> HIDE DEF upTo
  <2>4. IsFiniteSet(upTo(A, i)) /\ Cardinality(upTo(A, i)) <= N
    BY <2>3, FS_Subset
  <2> QED BY <2>2, <2>4, FS_CardinalityType
<1>4. upTo(B, x) = B
  OBVIOUS
<1>5. \A S, n : Nth(S, n) = {i \in S : Cardinality(upTo(S, i)) = n}
  BY DEF Nth
<1> HIDE DEF N, upTo
<1>6. ASSUME NEW n \in 1..N
      PROVE  Nth(B, n) = Nth(A, n)
  <2>1. Cardinality(upTo(B, x)) # n
    <3>1. Cardinality(upTo(B, x)) = N + 1
      BY <1>2, <1>4
    <3>2. n # N + 1
      BY <1>2
    <3> QED BY <3>1, <3>2
  <2> QED BY <1>3, <1>5, <2>1
<1>7. Nth(B, N + 1) = {x}
  <2>1. \A i \in A : Cardinality(upTo(B, i)) # N + 1
    BY <1>2, <1>3
  <2>2. Cardinality(upTo(B, x)) = N + 1
    BY <1>2, <1>4
  <2> QED BY <1>5, <2>1, <2>2
<1> QED BY <1>2, <1>6, <1>7 DEF N

LEMMA GrownItems ==
    ASSUME NEW b \in Blocks, NEW kind \in Kinds, NEW item \in Item
    PROVE  Items(Grown(b, kind, item).lists) = Items(b.lists) \cup {Tagged(kind, item)}
<1> DEFINE old == b.lists
           new == Grown(b, kind, item).lists
           last == Len(old[kind]) + 1
<1>1. old \in [Kinds -> Seq(Item)]
  BY DEF Blocks
<1>2. new[kind] = Append(old[kind], item) /\ \A k \in Kinds : k # kind => new[k] = old[k]
  BY GrownFacts
<1> HIDE DEF old, new
<1>3. /\ last \in DOMAIN new[kind] /\ new[kind][last] = item
      /\ \A i \in DOMAIN old[kind] : i \in DOMAIN new[kind] /\ new[kind][i] = old[kind][i]
      /\ \A i \in DOMAIN new[kind] : i = last \/ i \in DOMAIN old[kind]
  BY <1>1, <1>2, AppendProperties, LenProperties
<1> HIDE DEF last
<1>4. \A k \in Kinds : \A i \in DOMAIN new[k] :
          \/ k = kind /\ new[k][i] = item
          \/ i \in DOMAIN old[k] /\ new[k][i] = old[k][i]
  BY <1>2, <1>3
<1>5. \A k \in Kinds : \A i \in DOMAIN old[k] : i \in DOMAIN new[k] /\ new[k][i] = old[k][i]
  BY <1>2, <1>3
<1>6. ASSUME NEW x \in Items(new) PROVE x \in Items(old) \cup {Tagged(kind, item)}
  <2> PICK k \in Kinds : \E i \in DOMAIN new[k] : x = Tagged(k, new[k][i])
    BY ItemsMember
  <2> PICK i \in DOMAIN new[k] : x = Tagged(k, new[k][i])
    OBVIOUS
  <2>1. CASE k = kind /\ new[k][i] = item
    BY <2>1
  <2>2. CASE i \in DOMAIN old[k] /\ new[k][i] = old[k][i]
    BY <2>2, ItemsMember
  <2> QED BY <1>4, <2>1, <2>2
<1>7. ASSUME NEW x \in Items(old) PROVE x \in Items(new)
  <2> PICK k \in Kinds : \E i \in DOMAIN old[k] : x = Tagged(k, old[k][i])
    BY ItemsMember
  <2> PICK i \in DOMAIN old[k] : x = Tagged(k, old[k][i])
    OBVIOUS
  <2> QED BY <1>5, ItemsMember
<1>8. Tagged(kind, item) \in Items(new)
  BY <1>3, ItemsMember
<1>9. Items(new) = Items(old) \cup {Tagged(kind, item)}
  BY <1>6, <1>7, <1>8
<1> QED BY <1>9 DEF old, new

(* The new item comes last, whichever list it is in.                       *)
LEMMA MergedGrown ==
    ASSUME NEW b \in Blocks, NEW kind \in Kinds, NEW item \in Item, NEW o \in Nat,
           item.first = o + 1, Dense(b.lists, o)
    PROVE  Merged(Grown(b, kind, item).lists) = Append(Merged(b.lists), Tagged(kind, item))
<1> DEFINE A == Items(b.lists)
           x == Tagged(kind, item)
           N == Cardinality(A)
           old == Merged(b.lists)
           new == Merged(Grown(b, kind, item).lists)
           S == {old[n] : n \in 1..N} \cup {x}
<1>1. b.lists \in [Kinds -> Seq(Item)]
  BY DEF Blocks
<1>2. IsFiniteSet(A) /\ \A y \in A : y.first \in Nat /\ y.first <= o
  <2>1. IsFiniteSet(A)
    BY <1>1, ItemsFinite
  <2>2. \A y \in A : y.first \in Nat /\ y.last \in Nat /\ y.first <= y.last /\ y.last <= o
    BY <1>1, ItemsFacts
  <2> HIDE DEF A
  <2>3. \A y \in A : y.first <= o
    BY <2>2
  <2> QED BY <2>1, <2>2, <2>3
<1>3. x.first = o + 1
  BY DEF Tagged
<1>4. Items(Grown(b, kind, item).lists) = A \cup {x}
  BY GrownItems
<1> HIDE DEF A, x
<1>5. /\ N \in Nat /\ Cardinality(A \cup {x}) = N + 1
      /\ \A n \in 1..N : Nth(A \cup {x}, n) = Nth(A, n)
      /\ Nth(A \cup {x}, N + 1) = {x}
  BY <1>2, <1>3, NthGrown
<1>6. old = [n \in 1..N |-> CHOOSE i \in Nth(A, n) : TRUE]
  BY DEF Merged, A
<1>7. new = [n \in 1..(N + 1) |-> CHOOSE i \in Nth(A \cup {x}, n) : TRUE]
  BY <1>4, <1>5 DEF Merged
<1> HIDE DEF N, old, new
<1>8. (CHOOSE i \in Nth(A \cup {x}, N + 1) : TRUE) = x
  BY <1>5
<1>9. old \in [1..N -> S]
  BY <1>6
<1>10. new \in [1..(N + 1) -> S] /\ new[N + 1] = x /\ \A n \in 1..N : new[n] = old[n]
  <2>1. N + 1 \in 1..(N + 1) /\ \A n \in 1..N : n \in 1..(N + 1)
    BY <1>5
  <2>2. \A n \in 1..(N + 1) : n \in 1..N \/ n = N + 1
    BY <1>5
  <2>3. new[N + 1] = x
    BY <1>7, <1>8, <2>1
  <2>4. \A n \in 1..N : new[n] = old[n]
    <3> SUFFICES ASSUME NEW n \in 1..N PROVE new[n] = old[n]
      OBVIOUS
    <3>1. Nth(A \cup {x}, n) = Nth(A, n)
      BY <1>5
    <3>2. new[n] = CHOOSE i \in Nth(A \cup {x}, n) : TRUE
      BY <1>7, <2>1
    <3>3. old[n] = CHOOSE i \in Nth(A, n) : TRUE
      BY <1>6
    <3> QED BY <3>1, <3>2, <3>3
  <2>5. \A n \in 1..(N + 1) : new[n] \in S
    BY <2>2, <2>3, <2>4
  <2> HIDE DEF S
  <2> QED BY <1>7, <2>3, <2>4, <2>5
<1>11. x \in S
  OBVIOUS
<1> HIDE DEF S
<1>12. old \in Seq(S) /\ Len(old) = N
  BY <1>5, <1>9, LenProperties
<1>13. new \in Seq(S) /\ Len(new) = N + 1
  BY <1>5, <1>10, LenProperties
<1>14. /\ Append(old, x) \in Seq(S) /\ Len(Append(old, x)) = N + 1
       /\ Append(old, x)[N + 1] = x /\ \A n \in 1..N : Append(old, x)[n] = old[n]
  BY <1>11, <1>12, AppendProperties
<1>15. \A n \in 1..Len(new) : new[n] = Append(old, x)[n]
  <2>1. \A n \in 1..Len(new) : n \in 1..N \/ n = N + 1
    BY <1>5, <1>13
  <2> QED BY <1>10, <1>14, <2>1
<1>16. new = Append(old, x)
  BY <1>13, <1>14, <1>15, SeqEqual
<1> QED BY <1>16 DEF old, new, x

LEMMA MergedNoLists ==
    Merged(NoLists) = <<>>
<1>1. Items(NoLists) = {}
  <2>1. \A k \in Kinds : NoLists[k] = <<>>
    BY DEF NoLists
  <2> QED BY <2>1, ItemsMember
<1>2. Cardinality(Items(NoLists)) = 0
  BY <1>1, FS_EmptySet
<1>3. 1..0 = {}
  OBVIOUS
<1> QED BY <1>2, <1>3 DEF Merged

(* The ordinal to go on from is that of the last item, in whichever list.  *)
LEMMA ClockIsOrdinal ==
    ASSUME NEW lists \in [Kinds -> Seq(Item)], NEW o \in Nat, Dense(lists, o)
    PROVE  Sequence!Clock(Merged(lists)) = o
<1> DEFINE A == Items(lists)
           N == Cardinality(A)
           m == Merged(lists)
<1>1. IsFiniteSet(A) /\ N \in Nat
  BY ItemsFinite
<1>2. /\ \A x \in A : x.first \in Nat /\ x.last \in Nat /\ 1 <= x.first /\ x.first <= x.last /\ x.last <= o
      /\ \A x, y \in A : x = y \/ x.last < y.first \/ y.last < x.first
      /\ \A n \in 1..o : \E x \in A : x.first <= n /\ n <= x.last
  BY ItemsFacts
<1>3. m = [n \in 1..N |-> CHOOSE i \in Nth(A, n) : TRUE]
  BY DEF Merged
<1> HIDE DEF A, m
<1>4. CASE o = 0
  <2>1. A = {}
    BY <1>2, <1>4
  <2>2. N = 0
    BY <2>1, FS_EmptySet
  <2>3. m = <<>>
    <3>1. 1..0 = {}
      OBVIOUS
    <3> HIDE DEF N
    <3> QED BY <1>3, <2>2, <3>1
  <2> QED BY <1>4, <2>3 DEF Sequence!Clock, m
<1>5. CASE o # 0
  <2>1. o \in 1..o
    BY <1>5
  <2>2. PICK z \in A : z.first <= o /\ o <= z.last
    BY <1>2, <2>1
  <2>3. z.last = o
    BY <1>2, <2>2
  <2>4. \A y \in A : y.first <= z.first
    <3> SUFFICES ASSUME NEW y \in A PROVE y.first <= z.first
      OBVIOUS
    <3>1. y = z \/ y.last < z.first \/ z.last < y.first
      BY <1>2
    <3> QED BY <1>2, <2>3, <3>1
  <2>5. N # 0
    BY <1>1, FS_EmptySet
  <2>6. z \in Nth(A, N)
    <3>1. {j \in A : j.first <= z.first} = A
      BY <2>4
    <3> QED BY <3>1 DEF Nth
  <2>7. ASSUME NEW i \in Nth(A, N) PROVE i = z
    <3> DEFINE T == {j \in A : j.first <= i.first}
    <3>1. i \in A /\ Cardinality(T) = N
      BY DEF Nth
    <3>2. T \in SUBSET A
      OBVIOUS
    <3> HIDE DEF T
    <3>3. T = A
      BY <1>1, <3>1, <3>2, FS_Subset
    <3>4. z.first <= i.first
      BY <3>3 DEF T
    <3>5. i.first <= z.first
      BY <2>4, <3>1
    <3>6. i = z \/ i.last < z.first \/ z.last < i.first
      BY <1>2, <3>1
    <3> QED BY <1>2, <3>1, <3>4, <3>5, <3>6
  <2>8. Nth(A, N) = {z}
    BY <2>6, <2>7
  <2> HIDE DEF N
  <2>9. N \in 1..N
    BY <1>1, <2>5
  <2>10. m[N] = z
    BY <1>3, <2>8, <2>9
  <2>11. m \in [1..N -> {m[n] : n \in 1..N}]
    BY <1>3
  <2>12. m \in Seq({m[n] : n \in 1..N}) /\ Len(m) = N
    BY <1>1, <2>11, LenProperties
  <2>13. m # <<>>
    BY <2>5, <2>12, EmptySeq
  <2>14. m[Len(m)].last = o
    BY <2>3, <2>10, <2>12
  <2>15. Sequence!Clock(m) = o
    BY <2>13, <2>14 DEF Sequence!Clock
  <2> QED BY <2>15 DEF m
<1> QED BY <1>4, <1>5
-----------------------------------------------------------------------------
(* What the snapshot and the block are to FlashSequence.                   *)
KeptIn(snap, b) == IF snap.taken THEN Iteration(Prev(snap, b).number, snap.index, Prefix(snap, b)) ELSE NoBlock

LEMMA IterationFacts ==
    ASSUME NEW number, NEW fb, NEW lists
    PROVE  /\ Iteration(number, fb, lists) # NoBlock
           /\ Iteration(number, fb, lists).number = number
           /\ Iteration(number, fb, lists).index = fb
           /\ Iteration(number, fb, lists).items = Merged(lists)
<1>1. "items" \in DOMAIN Iteration(number, fb, lists) /\ "items" \notin DOMAIN NoBlock
  BY DEF Iteration, NoBlock
<1> QED BY <1>1 DEF Iteration

LEMMA IterationGrown ==
    ASSUME NEW number, NEW fb, NEW old, NEW new, NEW x, Merged(new) = Append(Merged(old), x)
    PROVE  Iteration(number, fb, new) = [Iteration(number, fb, old) EXCEPT !.items = Append(@, x)]
<1> DEFINE r == Iteration(number, fb, old)
           t == [r EXCEPT !.items = Append(@, x)]
           S == [number : {number}, index : {fb}, items : {Merged(old), Merged(new)}]
<1>1. r \in S /\ r.items = Merged(old) /\ Iteration(number, fb, new) \in S
      /\ Iteration(number, fb, new).items = Merged(new)
  BY DEF Iteration
<1> HIDE DEF r
<1>2. t \in S /\ t.items = Merged(new)
  BY <1>1
<1> HIDE DEF t
<1>3. \A u \in S, v \in S : u.items = v.items => u = v
  OBVIOUS
<1> HIDE DEF S
<1>4. t = Iteration(number, fb, new)
  BY <1>1, <1>2, <1>3
<1> QED BY <1>4 DEF t, r

LEMMA FlashIndexOK ==
    ASSUME NEW fb, fb.index \in Indexes \cup {NoIndex}, IsFlashBlock(fb)
    PROVE  fb.index \in Nat
  BY FlashAssumption DEF IsFlashBlock

LEMMA KeptIsIn ==
    Kept = KeptIn(snapshot, block) /\ Kept' = KeptIn(snapshot', block')
<1>1. Kept = KeptIn(snapshot, block)
  BY DEF Kept, KeptIn, AtSnapshot, PrevBlock, Prefix, Prev
<1>2. Kept' = KeptIn(snapshot', block')
  BY DEF Kept, KeptIn, AtSnapshot, PrevBlock, Prefix, Prev
<1> QED BY <1>1, <1>2

(* A snapshot keeps what it kept while its block grows, when the block is  *)
(* the tracer's no more, and whatever block comes next.                    *)
LEMMA KeptOnItsOwn ==
    ASSUME NEW snap, NEW b, NEW c, snap.live = FALSE
    PROVE  KeptIn(snap, c) = KeptIn(snap, b)
  BY DEF KeptIn, Prev, Prefix

LEMMA NothingKept ==
    ASSUME NEW b
    PROVE  KeptIn(NoSnapshot, b) = NoBlock
  BY DEF KeptIn, NoSnapshot

LEMMA KeptWhenDetached ==
    ASSUME NEW snap, NEW b \in Blocks, NEW c, SnapshotOK(snap, b)
    PROVE  KeptIn(Detached(snap, b), c) = KeptIn(snap, b)
<1>1. CASE snap.live = FALSE
  BY <1>1, KeptOnItsOwn DEF Detached
<1>2. CASE snap.live = TRUE
  <2> DEFINE d == [snap EXCEPT !.live = FALSE, !.block = b]
  <2>1. /\ d.live = FALSE /\ d.block = b
        /\ d.lens = snap.lens /\ d.index = snap.index /\ d.taken = snap.taken
    BY DEF SnapshotOK, Snapshots
  <2>2. Detached(snap, b) = d
    BY <1>2 DEF Detached
  <2> HIDE DEF d
  <2>3. Prev(d, c) = Prev(snap, b)
    BY <1>2, <2>1 DEF Prev
  <2>4. Prefix(d, c) = Prefix(snap, b)
    BY <2>1, <2>3 DEF Prefix
  <2> QED BY <2>1, <2>2, <2>3, <2>4 DEF KeptIn
<1> QED BY <1>1, <1>2 DEF SnapshotOK, Snapshots

LEMMA KeptWhenGrown ==
    ASSUME NEW snap, NEW b \in Blocks, NEW kind \in Kinds, NEW item \in Item, SnapshotOK(snap, b)
    PROVE  KeptIn(snap, Grown(b, kind, item)) = KeptIn(snap, b)
<1>1. CASE snap.live = FALSE
  BY <1>1, KeptOnItsOwn
<1>2. CASE snap.live = TRUE
  <2>1. Prefix(snap, Grown(b, kind, item)) = Prefix(snap, b)
    BY <1>2, GrownPrefixes
  <2>2. Prev(snap, Grown(b, kind, item)).number = Prev(snap, b).number
    BY <1>2 DEF Prev, Grown, Blocks
  <2> QED BY <2>1, <2>2 DEF KeptIn
<1> QED BY <1>1, <1>2 DEF SnapshotOK, Snapshots
-----------------------------------------------------------------------------
(* A block starts from what is kept exactly when it is restored.           *)
LEMMA RestoredWhenKept ==
    ASSUME NEW number, NEW fb
    PROVE  /\ Kept # NoBlock <=> snapshot.taken
           /\ Restored(number, fb) <=> IsFlashBlock(fb) /\ Kept # NoBlock /\ Kept.number = number
           /\ snapshot.taken => Kept.index = snapshot.index /\ Kept.items = Merged(AtSnapshot)
  BY IterationFacts DEF Kept, Restored, SameNumber

(* handleFlashBlockStart keeps the snapshot or does away with it.          *)
LEMMA KeptAfterStart ==
    ASSUME FlashInv, block.open = FALSE, NEW number, NEW fb,
           snapshot' = SnapshotAfterStart(number, fb)
    PROVE  Kept' = IF IsFlashBlock(fb) /\ ~Restored(number, fb) THEN NoBlock ELSE Kept
<1>1. snapshot.live = FALSE
  BY DEF FlashInv, SnapshotOK, Snapshots
<1>2. CASE IsFlashBlock(fb) /\ ~SameNumber(number)
  <2>1. snapshot' = NoSnapshot
    BY <1>2 DEF SnapshotAfterStart
  <2> QED BY <1>2, <2>1, KeptIsIn, NothingKept DEF Restored
<1>3. CASE ~(IsFlashBlock(fb) /\ ~SameNumber(number))
  <2>1. snapshot' = snapshot
    BY <1>3 DEF SnapshotAfterStart
  <2>2. Kept' = Kept
    BY <1>1, <2>1, KeptIsIn, KeptOnItsOwn
  <2> QED BY <1>3, <2>2 DEF Restored
<1> QED BY <1>2, <1>3

LEMMA RefineStart ==
    ASSUME FlashInv, block.open = FALSE,
           NEW number \in Numbers, NEW fb, fb.index \in Indexes \cup {NoIndex}, ~IsFlashBlock(fb) => fb = Regular,
           NEW finalized, OnBlockStart(number, fb, finalized)
    PROVE  [Sequence!SequenceNext]_(Sequence!vars)
<1>1. CASE IsFlashBlock(fb) /\ IndexRefused(number, fb)
  <2>1. UNCHANGED <<block, flash, snapshot>>
    BY <1>1 DEF OnBlockStart
  <2>2. Kept' = Kept /\ Current' = Current
    BY <2>1 DEF Kept, Current, AtSnapshot, PrevBlock
  <2> QED BY <2>2, Zenon DEF Sequence!vars
<1>2. CASE ~(IsFlashBlock(fb) /\ IndexRefused(number, fb))
  <2>1. /\ block' = Started(number, fb)
        /\ flash' = IF IsFlashBlock(fb) THEN fb ELSE flash
        /\ snapshot' = SnapshotAfterStart(number, fb)
    BY <1>2 DEF OnBlockStart
  <2>2. IsFlashBlock(fb) => fb.index \in Nat
    BY FlashIndexOK
  <2> DEFINE resumes == IsFlashBlock(fb) /\ Kept # NoBlock /\ Kept.number = number
             items == IF resumes THEN Kept.items ELSE <<>>
  <2>3. resumes <=> Restored(number, fb)
    BY RestoredWhenKept
  <2>4. Current = NoBlock
    BY DEF Current
  <2>5. resumes => fb.index > Kept.index
    <3> SUFFICES ASSUME Restored(number, fb) PROVE fb.index > Kept.index
      BY <2>3
    <3>1. snapshot.taken /\ IsFlashBlock(fb) /\ SameNumber(number)
      BY DEF Restored, SameNumber
    <3>2. ~(fb.index <= snapshot.index)
      BY <1>2, <3>1 DEF IndexRefused
    <3>3. snapshot.index \in Nat
      BY DEF FlashInv, SnapshotOK, Snapshots
    <3>4. Kept.index = snapshot.index
      BY <3>1, RestoredWhenKept
    <3> QED BY <2>2, <3>1, <3>2, <3>3, <3>4
  <2>6. items = Merged(RestoredLists(number, fb))
    <3>1. CASE Restored(number, fb)
      <4>1. snapshot.taken
        BY <3>1 DEF Restored, SameNumber
      <4> QED BY <2>3, <3>1, <4>1, RestoredWhenKept DEF RestoredLists
    <3>2. CASE ~Restored(number, fb)
      BY <2>3, <3>2, MergedNoLists DEF RestoredLists
    <3> QED BY <3>1, <3>2
  <2>7. flash'.index = fb.index
    BY <2>1, <2>2 DEF FlashInv, Regular
  <2>8. Current' = [number |-> number, index |-> fb.index, items |-> items]
    <3>1. block'.open = TRUE /\ block'.number = number /\ block'.lists = RestoredLists(number, fb)
      BY <2>1 DEF Started
    <3> QED BY <2>6, <2>7, <3>1 DEF Current, Iteration
  <2>9. Kept' = IF IsFlashBlock(fb) /\ ~resumes THEN NoBlock ELSE Kept
    BY <2>1, <2>2, <2>3, KeptAfterStart
  <2>10. Sequence!Begin(number, fb.index)
    BY <2>4, <2>5, <2>8, <2>9, Zenon DEF Sequence!Begin, IsFlashBlock
  <2> QED BY <2>10, Zenon DEF Sequence!SequenceNext
<1> QED BY <1>1, <1>2

LEMMA RefineAdd ==
    ASSUME FlashInv, block.open = TRUE, NEW kind \in Kinds, Add(kind)
    PROVE  [Sequence!SequenceNext]_(Sequence!vars)
<1> DEFINE item == [number |-> block.number, index |-> flash.index,
                    first |-> ordinal + 1, last |-> ordinal + Width(kind)]
           more == [kind |-> kind, number |-> Current.number, index |-> Current.index,
                    first |-> ordinal + 1, last |-> ordinal + Width(kind)]
<1>1. Width(kind) \in Nat \ {0}
  BY DEF Width
<1>2. block \in Blocks /\ ordinal \in Nat /\ Dense(block.lists, ordinal) /\ SnapshotOK(snapshot, block)
  BY DEF FlashInv
<1>3. item \in Item /\ item.first = ordinal + 1
  BY <1>1, <1>2 DEF Item, Blocks, FlashInv, FlashOK, Flashes
<1>4. block' = Grown(block, kind, item) /\ UNCHANGED <<flash, snapshot>>
  BY DEF Add, Grown
<1>5. Current = Iteration(block.number, flash.index, block.lists)
  BY DEF Current
<1>6. Current # NoBlock /\ Current.number = block.number /\ Current.index = flash.index
      /\ Current.items = Merged(block.lists)
  BY <1>5, IterationFacts
<1>7. Tagged(kind, item) = more
  BY <1>6 DEF Tagged
<1> HIDE DEF item, more
<1>8. block'.open = TRUE /\ block'.number = block.number
  BY <1>2, <1>3, <1>4, GrownFacts DEF Grown, Blocks
<1>9. Current' = Iteration(block.number, flash.index, block'.lists)
  BY <1>4, <1>8 DEF Current
<1>10. Merged(block'.lists) = Append(Current.items, more)
  BY <1>2, <1>3, <1>4, <1>6, <1>7, MergedGrown
<1>11. Current' = [Current EXCEPT !.items = Append(@, more)]
  BY <1>5, <1>6, <1>9, <1>10, IterationGrown
<1>12. Kept' = Kept
  BY <1>2, <1>3, <1>4, KeptIsIn, KeptWhenGrown
<1>13. Sequence!Clock(Current.items) = ordinal
  BY <1>2, <1>6, ClockIsOrdinal DEF Blocks
<1>14. Sequence!Do(kind)
  BY <1>6, <1>11, <1>12, <1>13, Zenon DEF Sequence!Do, more
<1> QED BY <1>14, Zenon DEF Sequence!SequenceNext

LEMMA RefineSnapshot ==
    ASSUME FlashInv, block.open = TRUE, SnapshotFlashBlockForNextIteration
    PROVE  [Sequence!SequenceNext]_(Sequence!vars)
<1>1. UNCHANGED <<block, flash>>
  BY DEF SnapshotFlashBlockForNextIteration
<1>2. Current' = Current
  BY <1>1 DEF Current
<1>3. CASE ~IsFlashBlock(flash)
  <2>1. UNCHANGED snapshot
    BY <1>3 DEF SnapshotFlashBlockForNextIteration
  <2>2. Kept' = Kept
    BY <1>1, <2>1 DEF Kept, AtSnapshot, PrevBlock
  <2> QED BY <1>2, <2>2, Zenon DEF Sequence!vars
<1>4. CASE IsFlashBlock(flash)
  <2>1. snapshot' = TakenNow(block, ordinal, flash.index)
    BY <1>4 DEF SnapshotFlashBlockForNextIteration, TakenNow
  <2>2. block \in Blocks /\ ordinal \in Nat /\ flash.index \in Nat
    BY <1>4 DEF FlashInv, FlashOK, Flashes, IsFlashBlock
  <2>3. KeptIn(snapshot', block) = Iteration(block.number, flash.index, block.lists)
    <3>1. KeptIn(TakenNow(block, ordinal, flash.index), block)
             = Iteration(block.number, flash.index, block.lists)
      BY <2>2, TakenWhole DEF KeptIn
    <3> QED BY <2>1, <3>1
  <2>4. Current = Iteration(block.number, flash.index, block.lists)
    BY DEF Current
  <2>5. Kept' = Current
    BY <1>1, <2>3, <2>4, KeptIsIn
  <2>6. Current # NoBlock /\ Current.index # NoIndex
    BY <1>4, <2>4, IterationFacts DEF IsFlashBlock
  <2>7. Sequence!Keep
    BY <1>2, <2>5, <2>6, Zenon DEF Sequence!Keep
  <2> QED BY <2>7, Zenon DEF Sequence!SequenceNext
<1> QED BY <1>3, <1>4

LEMMA RefineEnd ==
    ASSUME FlashInv, block.open = TRUE, NEW err \in BOOLEAN, OnBlockEnd(err)
    PROVE  [Sequence!SequenceNext]_(Sequence!vars)
<1>1. Current # NoBlock /\ Current.index = flash.index
  BY IterationFacts DEF Current
<1>2. Current' = NoBlock
  BY NoBlockOK DEF OnBlockEnd, ResetBlock, Current
<1>3. snapshot' = (IF err /\ IsFlashBlock(flash) THEN NoSnapshot ELSE Detached(snapshot, block))
  BY DEF OnBlockEnd
<1>4. Kept' = IF err /\ IsFlashBlock(flash) THEN NoBlock ELSE Kept
  <2>1. CASE err /\ IsFlashBlock(flash)
    BY <1>3, <2>1, KeptIsIn, NothingKept
  <2>2. CASE ~(err /\ IsFlashBlock(flash))
    <3>1. snapshot' = Detached(snapshot, block)
      BY <1>3, <2>2
    <3> QED BY <2>2, <3>1, KeptIsIn, KeptWhenDetached DEF FlashInv
  <2> QED BY <2>1, <2>2
<1>5. CASE err = TRUE
  <2>1. Kept' = IF Current.index # NoIndex THEN NoBlock ELSE Kept
    BY <1>1, <1>4, <1>5 DEF IsFlashBlock
  <2>2. Sequence!Abandon
    BY <1>1, <1>2, <2>1, Zenon DEF Sequence!Abandon
  <2> QED BY <2>2, Zenon DEF Sequence!SequenceNext
<1>6. CASE err = FALSE
  <2>1. Kept' = Kept
    BY <1>4, <1>6
  <2>2. Sequence!Emit
    BY <1>1, <1>2, <2>1, Zenon DEF Sequence!Emit
  <2> QED BY <2>2, Zenon DEF Sequence!SequenceNext
<1> QED BY <1>5, <1>6

LEMMA RefineSkipped ==
    ASSUME FlashInv, block.open = FALSE,
           NEW number \in Numbers, NEW fb, fb.index \in Indexes \cup {NoIndex},
           NEW finalized, OnSkippedBlock(number, fb, finalized)
    PROVE  [Sequence!SequenceNext]_(Sequence!vars)
<1>1. CASE IsFlashBlock(fb) /\ IndexRefused(number, fb)
  <2>1. UNCHANGED <<block, flash, snapshot>>
    BY <1>1 DEF OnSkippedBlock
  <2>2. Kept' = Kept /\ Current' = Current
    BY <2>1 DEF Kept, Current, AtSnapshot, PrevBlock
  <2> QED BY <2>2, Zenon DEF Sequence!vars
<1>2. CASE ~(IsFlashBlock(fb) /\ IndexRefused(number, fb))
  <2>1. snapshot' = SnapshotAfterStart(number, fb) /\ block' = NoBlock
    BY <1>2 DEF OnSkippedBlock, ResetBlock
  <2>2. IsFlashBlock(fb) => fb.index \in Nat
    BY FlashIndexOK
  <2>3. Current = NoBlock /\ Current' = Current
    BY <2>1, NoBlockOK DEF Current
  <2>4. Kept' = IF IsFlashBlock(fb) /\ ~Restored(number, fb) THEN NoBlock ELSE Kept
    BY <2>1, <2>2, KeptAfterStart
  <2>5. CASE Restored(number, fb)
    <3>1. snapshot.taken /\ IsFlashBlock(fb) /\ SameNumber(number)
      BY <2>5 DEF Restored, SameNumber
    <3>2. ~(fb.index <= snapshot.index)
      BY <1>2, <3>1 DEF IndexRefused
    <3>3. snapshot.index \in Nat
      BY DEF FlashInv, SnapshotOK, Snapshots
    <3>4. fb.index > Kept.index
      BY <2>2, <3>1, <3>2, <3>3, RestoredWhenKept
    <3>5. IsFlashBlock(fb) /\ Kept # NoBlock /\ Kept.number = number /\ Kept' = Kept
      BY <2>4, <2>5, RestoredWhenKept
    <3>6. Sequence!BeginAndEmit(number, fb.index)
      BY <2>3, <3>4, <3>5, Zenon DEF Sequence!BeginAndEmit, IsFlashBlock
    <3> QED BY <3>6, Zenon DEF Sequence!SequenceNext
  <2>6. CASE ~Restored(number, fb)
    <3>1. ~(IsFlashBlock(fb) /\ Kept # NoBlock /\ Kept.number = number)
      BY <2>6, RestoredWhenKept
    <3>2. Kept' = IF IsFlashBlock(fb) THEN NoBlock ELSE Kept
      BY <2>4, <2>6
    <3>3. Sequence!BeginAndEmit(number, fb.index)
      BY <2>3, <3>1, <3>2, Zenon DEF Sequence!BeginAndEmit, IsFlashBlock
    <3> QED BY <3>3, Zenon DEF Sequence!SequenceNext
  <2> QED BY <2>5, <2>6
<1> QED BY <1>1, <1>2

LEMMA RefineStep ==
    ASSUME FlashInv, [Next]_vars
    PROVE  [Sequence!SequenceNext]_(Sequence!vars)
<1>1. CASE UNCHANGED vars
  <2>1. Kept' = Kept /\ Current' = Current
    BY <1>1 DEF vars, Kept, Current, AtSnapshot, PrevBlock
  <2> QED BY <2>1, Zenon DEF Sequence!vars
<1>2. CASE Next
  <2>1. node \in Node /\ block.open \in BOOLEAN
    BY NodeAssumption DEF FlashInv, Blocks
  <2>2. node.numbers \subseteq Numbers /\ node.indexes \subseteq Indexes
    BY <2>1 DEF Node
  <2>3. ASSUME NEW fb \in FlashEvents
        PROVE  fb.index \in Indexes \cup {NoIndex} /\ (~IsFlashBlock(fb) => fb = Regular)
    BY <2>2, FlashAssumption DEF FlashEvents, Regular, IsFlashBlock, NoIndex
  <2>4. ASSUME block.open = FALSE, NEW number \in node.numbers, NEW fb \in FlashEvents,
               NEW finalized \in node.finalized,
               OnBlockStart(number, fb, finalized) \/ OnSkippedBlock(number, fb, finalized)
        PROVE  [Sequence!SequenceNext]_(Sequence!vars)
    <3>1. number \in Numbers
      BY <2>2
    <3> QED BY <2>3, <2>4, <3>1, RefineStart, RefineSkipped
  <2>5. ASSUME block.open = TRUE,
               \/ \E kind \in Kinds : Add(kind)
               \/ SnapshotFlashBlockForNextIteration
               \/ \E err \in BOOLEAN : OnBlockEnd(err)
        PROVE  [Sequence!SequenceNext]_(Sequence!vars)
    BY <2>5, RefineAdd, RefineSnapshot, RefineEnd
  <2>6. CASE block.open = FALSE
    BY <1>2, <2>4, <2>6 DEF Next
  <2>7. CASE block.open = TRUE
    BY <1>2, <2>5, <2>7 DEF Next
  <2> QED BY <2>1, <2>6, <2>7
<1> QED BY <1>1, <1>2

(* An iteration starts from exactly the items there were when the one it   *)
(* continues took its snapshot, in the order they happened and with their  *)
(* ordinals: not fewer, and none of what that one did afterwards, for any  *)
(* number of iterations, failed, refused and skipped ones among them.      *)
THEOREM FlashSequenced == Spec => ImplementsSequence
<1>1. Init => Sequence!SequenceInit
  <2> SUFFICES ASSUME Init PROVE Kept = NoBlock /\ Current = NoBlock
    BY Zenon DEF Sequence!SequenceInit
  <2> QED BY NothingKept, KeptIsIn, NoBlockOK DEF Init, Current
<1>2. FlashInv /\ [Next]_vars => [Sequence!SequenceNext]_(Sequence!vars)
  BY RefineStep
<1> QED BY <1>1, <1>2, FlashInvariant, PTL DEF Spec, ImplementsSequence, Sequence!SequenceSpec
=============================================================================
