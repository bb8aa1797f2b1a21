----------------------------- MODULE KeccakFilter -----------------------------
(***************************************************************************)
(* Which KECCAK256 preimages of a transaction or system call are kept      *)
(* (keccak_filter.go): those that explain a storage slot it wrote, found   *)
(* by a breadth-first search from the slots through the hashes inside the  *)
(* preimages.                                                              *)
(*                                                                         *)
(* A 32-byte word is a number, written in two digits of base HalfWord, and *)
(* a preimage is a sequence of such digits (16 bytes each).  A hash        *)
(* determines its preimage, so recordings are a set: their order and their *)
(* repetitions make no difference.                                         *)
(***************************************************************************)
EXTENDS Integers, Sequences, FiniteSets

CONSTANTS Calls,
          Hashes,       \* the words that are the hash of something
          Hashings,     \* and of what they may be
          Keys,         \* storage keys written
          HalfWord,     \* 2^128
          OffsetLimit,  \* 2^64 in keccakSlotBase
          MaxSize,      \* maxKeccakPreimageSize, in half words
          MaxDepth,     \* keccakFilterMaxDepth
          MaxStores     \* bound: storage keys one call writes

(* Two hashes are never close to each other.                               *)
ASSUME FilterAssumption ==
    /\ HalfWord \in Nat \ {0} /\ OffsetLimit \in Nat \ {0}
    /\ MaxSize \in Nat /\ MaxDepth \in Nat /\ MaxStores \in Nat
    /\ Hashes \subseteq Nat /\ Keys \subseteq Nat
    /\ Hashings \subseteq [Hashes -> Seq(0..(HalfWord - 1))]
    /\ \A g, h \in Hashes : g < h => h - g >= OffsetLimit

VARIABLES preimageOf, \* what the hashes are the hash of
          stored,     \* the keys of each call's storage changes
          recorded,   \* transactionKeccakPreimages: calls and the hashes they computed
          phase,      \* "running", then "searching", then "done"
          kept,       \* storageSlotHashes: the hashes that explain a slot,
          frontier,   \* those of them found last,
          depth,      \* after how many levels
          attached    \* each call's KeccakPreimages

filterVars == <<preimageOf, stored, recorded, phase, kept, frontier, depth, attached>>
-----------------------------------------------------------------------------
FilterInit ==
    /\ preimageOf \in Hashings
    /\ stored = [c \in Calls |-> {}]
    /\ recorded = {}
    /\ phase = "running"
    /\ kept = {} /\ frontier = {} /\ depth = 0
    /\ attached = [c \in Calls |-> {}]

Searched == UNCHANGED <<phase, kept, frontier, depth, attached>>

OnStorageChange(call, key) ==
    /\ phase = "running" /\ Cardinality(stored[call]) < MaxStores
    /\ stored' = [stored EXCEPT ![call] = @ \cup {key}]
    /\ UNCHANGED <<preimageOf, recorded>> /\ Searched

(* Mutant of OnKeccakPreimage: of any size.                                *)
OnKeccakPreimageUnbounded(call, hash) ==
    /\ phase = "running"
    /\ recorded' = recorded \cup {<<call, hash>>}
    /\ UNCHANGED <<preimageOf, stored>> /\ Searched

OnKeccakPreimage(call, hash) ==
    /\ phase = "running"
    /\ recorded' = IF Len(preimageOf[hash]) > MaxSize THEN recorded
                   ELSE recorded \cup {<<call, hash>>}
    /\ UNCHANGED <<preimageOf, stored>> /\ Searched
-----------------------------------------------------------------------------
RecordedHashes == {h \in Hashes : \E c \in Calls : <<c, h>> \in recorded}

(* keccakSlotBase, for a set of keys: the largest hash at or below a key,  *)
(* if it is near enough.                                                   *)
SlotBases(keys) ==
    {h \in RecordedHashes : \E key \in keys :
        /\ h <= key /\ key - h < OffsetLimit
        /\ \A g \in RecordedHashes : g <= key => g <= h}

Word(high, low) == high * HalfWord + low

(* innerKeccakHashCandidates: each whole word, and the last 32 bytes of a  *)
(* preimage that is longer than one word and does not end with one.        *)
InnerWords(preimage) ==
    LET n == Len(preimage)
    IN  {Word(preimage[2 * i - 1], preimage[2 * i]) : i \in 1..(n \div 2)}
            \cup {Word(preimage[n - 1], preimage[n]) : i \in {j \in {n} : j > 2 /\ j % 2 = 1}}

(* Mutant of InnerHashes: the last 32 bytes are forgotten.                 *)
InnerHashesWhole(hashes) ==
    SlotBases(UNION {{Word(preimageOf[h][2 * i - 1], preimageOf[h][2 * i]) :
                        i \in 1..(Len(preimageOf[h]) \div 2)} : h \in hashes})

InnerHashes(hashes) == SlotBases(UNION {InnerWords(preimageOf[h]) : h \in hashes})

(* attachStorageSlotPreimages.  Mutant of StartSearch: only from what the  *)
(* calls that hashed something wrote.                                      *)
StartSearchOwnSlots ==
    /\ phase = "running"
    /\ IF recorded = {} THEN phase' = "done" /\ UNCHANGED <<kept, frontier>>
       ELSE /\ phase' = "searching"
            /\ kept' = SlotBases(UNION {stored[r[1]] : r \in recorded})
            /\ frontier' = kept'
    /\ UNCHANGED <<preimageOf, stored, recorded, depth, attached>>

StartSearch ==
    /\ phase = "running"
    /\ IF recorded = {} THEN phase' = "done" /\ UNCHANGED <<kept, frontier>>
       ELSE /\ phase' = "searching"
            /\ kept' = SlotBases(UNION {stored[c] : c \in Calls})
            /\ frontier' = kept'
    /\ UNCHANGED <<preimageOf, stored, recorded, depth, attached>>

(* Mutant of Searching: no limit on the levels.                            *)
SearchingOn == phase = "searching" /\ frontier # {}

Searching == phase = "searching" /\ depth < MaxDepth /\ frontier # {}

NextLevel ==
    /\ Searching
    /\ frontier' = InnerHashes(frontier) \ kept
    /\ kept' = kept \cup frontier'
    /\ depth' = depth + 1
    /\ UNCHANGED <<preimageOf, stored, recorded, phase, attached>>

(* Mutant of Attach: every call gets what any call computed.               *)
AttachToAll ==
    /\ phase = "searching" /\ ~Searching
    /\ attached' = [c \in Calls |-> kept]
    /\ phase' = "done"
    /\ UNCHANGED <<preimageOf, stored, recorded, kept, frontier, depth>>

Attach ==
    /\ phase = "searching" /\ ~Searching
    /\ attached' = [c \in Calls |-> {h \in kept : <<c, h>> \in recorded}]
    /\ phase' = "done"
    /\ UNCHANGED <<preimageOf, stored, recorded, kept, frontier, depth>>

FilterNext ==
    \/ \E c \in Calls :
          \/ \E key \in Keys : OnStorageChange(c, key)
          \/ \E h \in Hashes : OnKeccakPreimage(c, h)
    \/ StartSearch \/ NextLevel \/ Attach

FilterSpec == FilterInit /\ [][FilterNext]_filterVars
-----------------------------------------------------------------------------
FilterTypeOK ==
    /\ preimageOf \in Hashings
    /\ stored \in [Calls -> SUBSET Keys]
    /\ recorded \in SUBSET (Calls \X Hashes)
    /\ phase \in {"running", "searching", "done"}
    /\ kept \in SUBSET RecordedHashes /\ frontier \in SUBSET kept
    /\ depth \in 0..MaxDepth
    /\ attached \in [Calls -> SUBSET kept]

(* The rule the comment of attachStorageSlotPreimages states: a hash       *)
(* explains a word that is it or lies less than OffsetLimit above it.      *)
Explains(hash, word) == \E offset \in 0..(OffsetLimit - 1) : word = hash + offset

(* A whole word of a preimage, or its last 32 bytes.                       *)
WordAt(preimage, i) == i % 2 = 1 \/ i = Len(preimage) - 1

(* The hashes that explain a slot through at most n levels.                *)
Explaining[n \in 0..MaxDepth] ==
    IF n = 0
    THEN {h \in RecordedHashes : \E c \in Calls : \E key \in stored[c] : Explains(h, key)}
    ELSE Explaining[n - 1] \cup
         {h \in RecordedHashes : \E g \in Explaining[n - 1] :
            LET p == preimageOf[g]
            IN  \E i \in 1..(Len(p) - 1) : WordAt(p, i) /\ Explains(h, Word(p[i], p[i + 1]))}

(* In the end each call has the preimages it computed that are small and   *)
(* explain a slot written by any call, within the levels allowed, and no   *)
(* others.                                                                 *)
AttachedExplain ==
    phase = "done" =>
        \A c \in Calls : attached[c] =
            {h \in Explaining[MaxDepth] : <<c, h>> \in recorded /\ Len(preimageOf[h]) <= MaxSize}

Closed(hashes) ==
    /\ SlotBases(UNION {stored[c] : c \in Calls}) \subseteq hashes
    /\ InnerHashes(hashes) \subseteq hashes

(* Unless the limit on levels stops it, the search finds the least set of  *)
(* recorded hashes that explains the slots and is closed under the hashes  *)
(* inside preimages.                                                       *)
KeptIsLeast ==
    /\ phase = "done" /\ frontier = {} /\ recorded # {} => Closed(kept)
    /\ phase # "running" =>
           \A hashes \in SUBSET RecordedHashes : Closed(hashes) => kept \subseteq hashes
=============================================================================
