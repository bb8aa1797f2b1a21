-------------------------- MODULE KeccakFilterProofs --------------------------
(***************************************************************************)
(* The search of the keccak filter, for any words, hashes and limits: it   *)
(* stays within the hashes recorded and finds the least set that explains  *)
(* the slots and is closed.                                                *)
(***************************************************************************)
EXTENDS KeccakFilter, TLAPS

Slots == UNION {stored[c] : c \in Calls}

(* Between two levels, only the frontier has not been looked into.         *)
SearchInv ==
    /\ FilterTypeOK
    /\ phase = "running" \/ recorded = {} => kept = {} /\ frontier = {}
    /\ phase # "running" /\ recorded # {} =>
           /\ SlotBases(Slots) \subseteq kept
           /\ InnerHashes(kept \ frontier) \subseteq kept
    /\ \A hashes \in SUBSET RecordedHashes :
           Closed(hashes) => (phase # "running" => kept \subseteq hashes)
-----------------------------------------------------------------------------
(* A base belongs to one key.                                              *)
BaseOf(h, key) ==
    /\ h <= key /\ key - h < OffsetLimit
    /\ \A g \in RecordedHashes : g <= key => g <= h

(* What is found from a set is found from its elements one by one          *)
(* (the two nested loops of storageSlotHashes).                            *)
LEMMA SlotBasesElements ==
    ASSUME NEW keys, NEW h
    PROVE  h \in SlotBases(keys) <=> h \in RecordedHashes /\ \E key \in keys : BaseOf(h, key)
  BY DEF SlotBases, BaseOf

LEMMA InnerHashesElements ==
    ASSUME NEW hashes, NEW h
    PROVE  h \in InnerHashes(hashes) <=>
               /\ h \in RecordedHashes
               /\ \E g \in hashes : \E key \in InnerWords(preimageOf[g]) : BaseOf(h, key)
<1> DEFINE words == UNION {InnerWords(preimageOf[g]) : g \in hashes}
<1>1. h \in SlotBases(words) <=> h \in RecordedHashes /\ \E key \in words : BaseOf(h, key)
  BY SlotBasesElements
<1>2. ASSUME NEW key
      PROVE  key \in words <=> \E g \in hashes : key \in InnerWords(preimageOf[g])
  OBVIOUS
<1> HIDE DEF words
<1>3. (\E key \in words : BaseOf(h, key)) <=>
          \E g \in hashes : \E key \in InnerWords(preimageOf[g]) : BaseOf(h, key)
  BY <1>2
<1>4. InnerHashes(hashes) = SlotBases(words)
  BY DEF InnerHashes, words
<1> QED BY <1>1, <1>3, <1>4

(* Bases are recorded hashes.                                              *)
LEMMA InnerHashesRecorded ==
    ASSUME NEW hashes
    PROVE  InnerHashes(hashes) \subseteq RecordedHashes
  BY DEF InnerHashes, SlotBases

(* A larger set reaches more.                                              *)
LEMMA InnerHashesMonotone ==
    ASSUME NEW small, NEW large, small \subseteq large
    PROVE  InnerHashes(small) \subseteq InnerHashes(large)
<1> SUFFICES ASSUME NEW h \in InnerHashes(small)
             PROVE  h \in InnerHashes(large)
  OBVIOUS
<1> QED BY InnerHashesElements

(* A set reaches no more than its two parts.                               *)
LEMMA InnerHashesParts ==
    ASSUME NEW hashes, NEW part
    PROVE  InnerHashes(hashes) \subseteq InnerHashes(hashes \ part) \cup InnerHashes(part)
<1> SUFFICES ASSUME NEW h \in InnerHashes(hashes)
             PROVE  h \in InnerHashes(hashes \ part) \/ h \in InnerHashes(part)
  OBVIOUS
<1>1. PICK g \in hashes : \E key \in InnerWords(preimageOf[g]) : BaseOf(h, key)
  BY InnerHashesElements
<1>2. h \in RecordedHashes
  BY InnerHashesElements
<1>3. CASE g \in part
  BY <1>1, <1>2, <1>3, InnerHashesElements
<1>4. CASE g \notin part
  BY <1>1, <1>2, <1>4, InnerHashesElements
<1> QED BY <1>3, <1>4
-----------------------------------------------------------------------------
(* While the search runs, nothing it reads changes.                        *)
LEMMA SearchReadsOnly ==
    ASSUME UNCHANGED <<preimageOf, stored, recorded>>
    PROVE  /\ RecordedHashes' = RecordedHashes
           /\ SlotBases(Slots)' = SlotBases(Slots)
           /\ \A hashes : Closed(hashes)' <=> Closed(hashes)
           /\ InnerHashes(kept \ frontier)' = InnerHashes((kept \ frontier)')
<1>1. RecordedHashes' = RecordedHashes
  BY DEF RecordedHashes
<1>2. SlotBases(Slots)' = SlotBases(Slots)
  BY <1>1 DEF SlotBases, Slots
<1>3. \A hashes : Closed(hashes)' <=> Closed(hashes)
  BY <1>1 DEF Closed, SlotBases, InnerHashes
<1>4. InnerHashes(kept \ frontier)' = InnerHashes((kept \ frontier)')
  BY <1>1 DEF SlotBases, InnerHashes
<1> QED BY <1>1, <1>2, <1>3, <1>4
-----------------------------------------------------------------------------
LEMMA FilterStart ==
    FilterInit => SearchInv
  BY FilterAssumption DEF FilterInit, SearchInv, FilterTypeOK, RecordedHashes

(* What the calls do before the search leaves nothing found.               *)
LEMMA OnStorageChangeKeeps ==
    ASSUME SearchInv, NEW c \in Calls, NEW key \in Keys, OnStorageChange(c, key)
    PROVE  SearchInv'
<1>1. /\ phase = "running" /\ kept = {} /\ frontier = {}
      /\ UNCHANGED <<preimageOf, phase, kept, frontier, depth, attached>>
  BY DEF SearchInv, OnStorageChange, Searched
<1>2. /\ stored' \in [Calls -> SUBSET Keys]
      /\ recorded' \in SUBSET (Calls \X Hashes)
  BY DEF SearchInv, FilterTypeOK, OnStorageChange
<1>3. FilterTypeOK'
  BY <1>1, <1>2 DEF SearchInv, FilterTypeOK
<1> QED BY <1>1, <1>3 DEF SearchInv

LEMMA OnKeccakPreimageKeeps ==
    ASSUME SearchInv, NEW c \in Calls, NEW hash \in Hashes, OnKeccakPreimage(c, hash)
    PROVE  SearchInv'
<1>1. /\ phase = "running" /\ kept = {} /\ frontier = {}
      /\ UNCHANGED <<preimageOf, phase, kept, frontier, depth, attached>>
  BY DEF SearchInv, OnKeccakPreimage, Searched
<1>2. /\ stored' \in [Calls -> SUBSET Keys]
      /\ recorded' \in SUBSET (Calls \X Hashes)
  BY DEF SearchInv, FilterTypeOK, OnKeccakPreimage
<1>3. FilterTypeOK'
  BY <1>1, <1>2 DEF SearchInv, FilterTypeOK
<1> QED BY <1>1, <1>3 DEF SearchInv

LEMMA StartSearchKeeps ==
    ASSUME SearchInv, StartSearch
    PROVE  SearchInv'
<1>1. UNCHANGED <<preimageOf, stored, recorded, depth, attached>> /\ phase = "running"
      /\ kept = {} /\ frontier = {}
  BY DEF StartSearch, SearchInv
<1>2. /\ RecordedHashes' = RecordedHashes
      /\ SlotBases(Slots)' = SlotBases(Slots)
      /\ \A hashes : Closed(hashes)' <=> Closed(hashes)
      /\ InnerHashes(kept \ frontier)' = InnerHashes((kept \ frontier)')
  BY <1>1, SearchReadsOnly
<1>3. CASE recorded = {}
  BY <1>1, <1>2, <1>3 DEF StartSearch, SearchInv, FilterTypeOK
<1>4. CASE recorded # {}
  <2>1. phase' = "searching" /\ kept' = SlotBases(Slots) /\ frontier' = kept'
    BY <1>4 DEF StartSearch, Slots
  <2>2. SlotBases(Slots) \subseteq RecordedHashes
    BY DEF SlotBases
  <2>3. FilterTypeOK'
    BY <1>1, <1>2, <2>1, <2>2 DEF SearchInv, FilterTypeOK
  <2>4. InnerHashes((kept \ frontier)') = {}
    <3>1. (kept \ frontier)' = {}
      BY <2>1
    <3>2. \A h : h \notin InnerHashes({})
      BY InnerHashesElements
    <3> QED BY <3>1, <3>2
  <2>5. \A hashes : Closed(hashes) => kept' \subseteq hashes
    BY <2>1 DEF Closed, Slots
  <2> QED BY <1>1, <1>2, <1>4, <2>1, <2>3, <2>4, <2>5 DEF SearchInv
<1> QED BY <1>3, <1>4

LEMMA NextLevelKeeps ==
    ASSUME SearchInv, NextLevel
    PROVE  SearchInv'
<1>1. /\ UNCHANGED <<preimageOf, stored, recorded, phase, attached>>
      /\ phase = "searching" /\ depth < MaxDepth /\ frontier # {}
      /\ frontier' = InnerHashes(frontier) \ kept
      /\ kept' = kept \cup frontier'
      /\ depth' = depth + 1
  BY DEF NextLevel, Searching
<1>2. /\ RecordedHashes' = RecordedHashes
      /\ SlotBases(Slots)' = SlotBases(Slots)
      /\ \A hashes : Closed(hashes)' <=> Closed(hashes)
      /\ InnerHashes(kept \ frontier)' = InnerHashes((kept \ frontier)')
  BY <1>1, SearchReadsOnly
<1>3. recorded # {} /\ frontier \subseteq kept
  BY <1>1 DEF SearchInv, FilterTypeOK
<1>4. FilterTypeOK'
  <2>1. InnerHashes(frontier) \subseteq RecordedHashes
    BY InnerHashesRecorded
  <2>2. kept' \subseteq RecordedHashes /\ frontier' \subseteq kept' /\ kept \subseteq kept'
    BY <1>1, <2>1 DEF SearchInv, FilterTypeOK
  <2>3. depth' \in 0..MaxDepth
    BY <1>1, FilterAssumption DEF SearchInv, FilterTypeOK
  <2>4. attached' \in [Calls -> SUBSET kept']
    <3>1. attached \in [Calls -> SUBSET kept] /\ attached' = attached
      BY <1>1 DEF SearchInv, FilterTypeOK
    <3> QED BY <2>2, <3>1
  <2> QED BY <1>1, <1>2, <2>2, <2>3, <2>4 DEF SearchInv, FilterTypeOK
<1>5. SlotBases(Slots) \subseteq kept'
  BY <1>1, <1>3 DEF SearchInv
<1>6. InnerHashes((kept \ frontier)') \subseteq kept'
  <2>1. (kept \ frontier)' = kept
    BY <1>1
  <2>2. InnerHashes(kept) \subseteq InnerHashes(kept \ frontier) \cup InnerHashes(frontier)
    BY InnerHashesParts
  <2>3. InnerHashes(kept \ frontier) \subseteq kept
    BY <1>1, <1>3 DEF SearchInv
  <2> QED BY <1>1, <2>1, <2>2, <2>3
<1>7. ASSUME NEW hashes \in SUBSET RecordedHashes, Closed(hashes)
      PROVE  kept' \subseteq hashes
  <2>1. kept \subseteq hashes
    BY <1>1, <1>7 DEF SearchInv
  <2>2. InnerHashes(frontier) \subseteq InnerHashes(hashes)
    BY <1>3, <2>1, InnerHashesMonotone
  <2>3. InnerHashes(hashes) \subseteq hashes
    BY <1>7 DEF Closed
  <2> QED BY <1>1, <2>1, <2>2, <2>3
<1> QED BY <1>1, <1>2, <1>3, <1>4, <1>5, <1>6, <1>7 DEF SearchInv

LEMMA AttachKeeps ==
    ASSUME SearchInv, Attach
    PROVE  SearchInv'
<1>1. /\ UNCHANGED <<preimageOf, stored, recorded, kept, frontier, depth>>
      /\ phase = "searching" /\ phase' = "done"
      /\ attached' = [c \in Calls |-> {h \in kept : <<c, h>> \in recorded}]
  BY DEF Attach
<1>2. /\ RecordedHashes' = RecordedHashes
      /\ SlotBases(Slots)' = SlotBases(Slots)
      /\ \A hashes : Closed(hashes)' <=> Closed(hashes)
      /\ InnerHashes(kept \ frontier)' = InnerHashes((kept \ frontier)')
  BY <1>1, SearchReadsOnly
<1>3. FilterTypeOK'
  BY <1>1, <1>2 DEF SearchInv, FilterTypeOK
<1>4. (kept \ frontier)' = kept \ frontier
  BY <1>1
<1> QED BY <1>1, <1>2, <1>3, <1>4 DEF SearchInv

LEMMA FilterStep ==
    ASSUME SearchInv, [FilterNext]_filterVars
    PROVE  SearchInv'
<1>1. ASSUME UNCHANGED filterVars
      PROVE  SearchInv'
  <2>1. UNCHANGED <<preimageOf, stored, recorded, phase, kept, frontier, depth, attached>>
    BY <1>1 DEF filterVars
  <2>2. /\ RecordedHashes' = RecordedHashes
        /\ SlotBases(Slots)' = SlotBases(Slots)
        /\ \A hashes : Closed(hashes)' <=> Closed(hashes)
        /\ InnerHashes(kept \ frontier)' = InnerHashes((kept \ frontier)')
    BY <2>1, SearchReadsOnly
  <2>3. (kept \ frontier)' = kept \ frontier
    BY <2>1
  <2>4. FilterTypeOK'
    BY <2>1, <2>2 DEF SearchInv, FilterTypeOK
  <2> QED BY <2>1, <2>2, <2>3, <2>4 DEF SearchInv
<1> QED BY <1>1, OnStorageChangeKeeps, OnKeccakPreimageKeeps, StartSearchKeeps, NextLevelKeeps,
           AttachKeeps DEF FilterNext

LEMMA SearchInvariant == FilterSpec => []SearchInv
  BY FilterStart, FilterStep, PTL DEF FilterSpec
-----------------------------------------------------------------------------
(* What is recorded, found and attached stays well-formed, within the      *)
(* limit on levels (storageSlotHashes, attachStorageSlotPreimages).        *)
THEOREM FilterTypes == FilterSpec => []FilterTypeOK
<1>1. SearchInv => FilterTypeOK
  BY DEF SearchInv
<1> QED BY <1>1, SearchInvariant, PTL

(* However deep and entangled the preimages are: what storageSlotHashes    *)
(* keeps is in every set that explains the slots and is closed, and is     *)
(* such a set itself if the search ended before the limit.                 *)
THEOREM FilterLeast == FilterSpec => []KeptIsLeast
<1>1. SearchInv => KeptIsLeast
  <2> SUFFICES ASSUME SearchInv PROVE KeptIsLeast
    OBVIOUS
  <2>1. ASSUME phase = "done", frontier = {}, recorded # {}
        PROVE  Closed(kept)
    <3>1. kept \ frontier = kept
      BY <2>1
    <3> QED BY <2>1, <3>1 DEF SearchInv, Closed, Slots
  <2> QED BY <2>1 DEF SearchInv, KeptIsLeast
<1> QED BY <1>1, SearchInvariant, PTL
=============================================================================
