------------------------------ MODULE SetCodeAuth ------------------------------
(***************************************************************************)
(* EIP-7702 authorizations of a transaction (tracer.go).  The tracer only  *)
(* sees the list, the authority recovered from each signature, and nonce   *)
(* changes; from the changes of the root call it infers which              *)
(* authorizations were applied, and marks the others as discarded.         *)
(*                                                                         *)
(* The client (not in src/) increments the sender's nonce, then goes       *)
(* through the list and applies an authorization, incrementing the         *)
(* authority's nonce, when that nonce is the one signed and the            *)
(* authorization is eligible otherwise (its chain, the authority's code).  *)
(* It may do so before the root call or when it has just entered it.       *)
(* Calls increment nonces too, and a call that reverts takes that back.    *)
(***************************************************************************)
EXTENDS Integers, Sequences, FiniteSets

CONSTANTS Accounts,
          Sender,
          NoAuthority,   \* for a signature recovery that fails
          MaxAuths,      \* bound: authorizations in a transaction
          MaxNonce,      \* bound: nonces signed, and spent by calls
          MaxFrames      \* bound: calls open at a time

ASSUME AuthAssumption ==
    /\ Sender \in Accounts /\ NoAuthority \notin Accounts
    /\ MaxAuths \in Nat /\ MaxNonce \in Nat /\ MaxFrames \in Nat \ {0}

VARIABLES auths,       \* trx.SetCodeAuthorizations
          nonceOf,     \* the client's accounts,
          frames,      \* and as they were at the enter of each call still open
          processed,   \* how many authorizations the client has gone through,
          applied,     \* and which of them it applied
          spent,       \* history: nonces used up otherwise, up to and in the
                       \* root call but not in the calls it makes
          stage,       \* the transaction: "none", "sent", "running",
                       \* "executed", "complete"
          deferred,    \* nonce changes in deferredCallState
          changes      \* the root call's NonceChanges

authVars == <<auths, nonceOf, frames, processed, applied, spent, stage, deferred, changes>>

Authorization == [authority : Accounts \cup {NoAuthority}, nonce : 0..MaxNonce, eligible : BOOLEAN]
-----------------------------------------------------------------------------
AuthInit ==
    /\ auths = <<>> /\ nonceOf = [a \in Accounts |-> 0] /\ frames = <<>>
    /\ processed = 0 /\ applied = {} /\ spent = {}
    /\ stage = "none" /\ deferred = <<>> /\ changes = <<>>

(* Only a failed recovery is marked here.                                  *)
OnTxStart(list) ==
    /\ stage = "none" /\ stage' = "sent"
    /\ auths' = [i \in DOMAIN list |->
           [auth |-> list[i], discarded |-> list[i].authority = NoAuthority]]
    /\ UNCHANGED <<nonceOf, frames, processed, applied, spent, deferred, changes>>

(* The client increments a nonce, with OnNonceChange: the change is        *)
(* deferred while no call is active, and otherwise goes to the active      *)
(* call.  The lists of the calls below the root are not looked at again.   *)
OnNonceChange(a) ==
    LET change == [address |-> a, old |-> nonceOf[a], new |-> nonceOf[a] + 1]
    IN  /\ nonceOf' = [nonceOf EXCEPT ![a] = @ + 1]
        /\ deferred' = IF frames = <<>> THEN Append(deferred, change) ELSE deferred
        /\ changes' = IF Len(frames) = 1 THEN Append(changes, change) ELSE changes
        /\ UNCHANGED auths

SendersNonce ==
    /\ stage = "sent" /\ stage' = "running"
    /\ OnNonceChange(Sender)
    /\ spent' = spent \cup {<<Sender, nonceOf[Sender]>>}
    /\ UNCHANGED <<frames, processed, applied>>

Authorized == processed = Len(auths)

(* What an authorization does stays when the root call reverts.            *)
Authorize ==
    /\ stage = "running" /\ ~Authorized
    /\ LET auth == auths[processed + 1].auth
       IN  IF auth.eligible /\ auth.authority # NoAuthority /\ nonceOf[auth.authority] = auth.nonce
           THEN OnNonceChange(auth.authority) /\ applied' = applied \cup {processed + 1}
           ELSE UNCHANGED <<applied, nonceOf, deferred, auths, changes>>
    /\ processed' = processed + 1
    /\ frames' = [d \in DOMAIN frames |-> nonceOf']
    /\ UNCHANGED <<stage, spent>>

(* Entering the root call moves what was deferred into it.                 *)
EnterRootCall ==
    /\ stage = "running" /\ frames = <<>>
    /\ frames' = <<nonceOf>>
    /\ changes' = deferred \o changes /\ deferred' = <<>>
    /\ UNCHANGED <<auths, nonceOf, processed, applied, spent, stage>>

EnterCall ==
    /\ frames # <<>> /\ Authorized /\ Len(frames) < MaxFrames
    /\ frames' = Append(frames, nonceOf)
    /\ UNCHANGED <<auths, nonceOf, processed, applied, spent, stage, deferred, changes>>

(* A call increments a nonce; only what the root call itself did is        *)
(* remembered as spent.                                                    *)
CallNonceChange(a) ==
    /\ frames # <<>> /\ Authorized /\ nonceOf[a] <= MaxNonce
    /\ OnNonceChange(a)
    /\ spent' = IF Len(frames) = 1 THEN spent \cup {<<a, nonceOf[a]>>} ELSE spent
    /\ UNCHANGED <<frames, processed, applied, stage>>

(* The client goes back to the nonces at the enter when the call reverts;  *)
(* the tracer keeps the changes.                                           *)
ExitCall(reverted) ==
    /\ frames # <<>> /\ Authorized
    /\ nonceOf' = IF reverted THEN frames[Len(frames)] ELSE nonceOf
    /\ frames' = SubSeq(frames, 1, Len(frames) - 1)
    /\ stage' = IF Len(frames) = 1 THEN "executed" ELSE stage
    /\ UNCHANGED <<auths, processed, applied, spent, deferred, changes>>

(* One that comes after the root call.                                     *)
LateNonceChange(a) ==
    /\ stage = "executed" /\ deferred = <<>> /\ nonceOf[a] <= MaxNonce
    /\ OnNonceChange(a)
    /\ UNCHANGED <<frames, stage, processed, applied, spent>>
-----------------------------------------------------------------------------
(* findNonceChange: mutant that only compares the new nonce.               *)
MatchesNewValue(change, auth) == change.new = auth.nonce + 1

Matches(change, auth) ==
    change.address = auth.authority /\ change.old = auth.nonce /\ change.new = auth.nonce + 1

First(S) == CHOOSE i \in S : \A j \in S : i <= j

(* The changes an authorization may take: mutant where it may take one     *)
(* that was taken.                                                         *)
FreeOrTaken(found, i) == {j \in DOMAIN changes : Matches(changes[j], auths[i].auth)}

Free(found, i) ==
    {j \in DOMAIN changes : Matches(changes[j], auths[i].auth) /\ \A k \in 1..(i - 1) : found[k] # j}

(* The change each authorization takes, 0 for none; the list is gone       *)
(* through in order and each change can be taken once.                     *)
Found ==
    LET after[n \in 0..Len(auths)] ==
          IF n = 0 THEN <<>>
          ELSE LET before == after[n - 1]
                   free   == IF auths[n].auth.authority = NoAuthority THEN {} ELSE Free(before, n)
               IN  Append(before, IF free = {} THEN 0 ELSE First(free))
    IN  after[Len(auths)]

DiscardUncommittedSetCodeAuthorizations ==
    LET found == Found
    IN  auths' = [i \in DOMAIN auths |-> [auths[i] EXCEPT !.discarded = @ \/ found[i] = 0]]

CompleteTransaction ==
    /\ stage = "executed" /\ stage' = "complete"
    /\ DiscardUncommittedSetCodeAuthorizations
    /\ changes' = changes \o deferred /\ deferred' = <<>>
    /\ UNCHANGED <<nonceOf, frames, processed, applied, spent>>

AuthNext ==
    \/ \E n \in 0..MaxAuths : \E list \in [1..n -> Authorization] : OnTxStart(list)
    \/ SendersNonce \/ Authorize
    \/ EnterRootCall \/ EnterCall \/ \E reverted \in BOOLEAN : ExitCall(reverted)
    \/ \E a \in Accounts : CallNonceChange(a) \/ LateNonceChange(a)
    \/ CompleteTransaction

AuthSpec == AuthInit /\ [][AuthNext]_authVars
-----------------------------------------------------------------------------
Kept == {i \in DOMAIN auths : ~auths[i].discarded}

Twins(i) ==
    {j \in DOMAIN auths : auths[j].auth.authority = auths[i].auth.authority
                              /\ auths[j].auth.nonce = auths[i].auth.nonce}

(* For each authorization that was applied, one of the same authority and  *)
(* nonce is kept, and only one: a nonce change vouches for one of them.    *)
AppliedNonceKeptOnce ==
    stage = "complete" => \A i \in applied : Cardinality(Kept \cap Twins(i)) = 1

(* An authorization is kept only if one of the same authority and nonce    *)
(* was applied, or if that nonce was really used up in another way the     *)
(* code cannot tell from it: by the transaction itself or by the root      *)
(* call.  What other calls did, before they reverted or not, and what came *)
(* after the root call keeps no authorization.                             *)
KeptVouchedFor ==
    stage = "complete" =>
        \A i \in Kept :
            \/ Twins(i) \cap applied # {}
            \/ <<auths[i].auth.authority, auths[i].auth.nonce>> \in spent

(* "If we don't see this nonce change, it means the authorization was not  *)
(* actually applied": one that was is not discarded.                       *)
AppliedKept == stage = "complete" => applied \subseteq Kept
=============================================================================
