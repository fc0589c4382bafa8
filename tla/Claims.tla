-------------------------------- MODULE Claims --------------------------------
(***************************************************************************)
(* Who owns a computer.  A signed-in phone that resolves a pairing code is *)
(* given a pending claim proof (pair-intent.ts); the computer's first      *)
(* confirmation of a session of that account arms it (room.ts,             *)
(* readyClaimProof); the phone spends it to bind the computer to its       *)
(* account (account.ts, claimDevice).  The account, or the computer itself *)
(* (device-release.ts), gives the binding back.                            *)
(*                                                                         *)
(* One computer.  Every D1 statement is an atomic step, and requests of    *)
(* several accounts interleave between them.                               *)
(***************************************************************************)
EXTENDS Integers, Sequences, FiniteSets

CONSTANTS
  Callers,      \* requests that may run at the same time
  Owners,
  NoOwner,    \* the computer is not bound
  MaxProofs     \* bound on the proofs that are minted

VARIABLES
  caller,       \* the handlers' locals
  owner,        \* device_owners: the row of this computer
  proofs,       \* device_claim_proofs
  proofCount,
  banned,       \* daemons.kicked_at is set
  upgraded,     \* accounts whose socket the room let in
  confirmed,    \* history: accounts whose session the computer confirmed
  spent         \* history: the proof behind each binding that was made

claimVars == <<caller, owner, proofs, proofCount, banned, upgraded, confirmed,
               spent>>

Idles == [pc |-> "none"]

ClaimsInit ==
  /\ caller = [c \in Callers |-> Idles]
  /\ owner = NoOwner /\ banned = FALSE
  /\ proofs = {} /\ proofCount = 0
  /\ upgraded = {} /\ confirmed = {} /\ spent = <<>>

Calls(c, a, pc, proof) ==
  /\ caller[c] = Idles
  /\ caller' = [caller EXCEPT ![c] =
       [pc |-> pc, who |-> a, proof |-> proof, existing |-> owner]]
Steps(c, pc) == caller' = [caller EXCEPT ![c].pc = pc]
Returns(c) == caller' = [caller EXCEPT ![c] = Idles]
-----------------------------------------------------------------------------
(* handlePairIntent resolves the code and reads the owner: to any other    *)
(* account the code reads as unpaired.                                     *)
PairIntent(c, a) ==
  /\ owner \in {NoOwner, a}
  /\ Calls(c, a, "ticket", 0)
  /\ UNCHANGED <<owner, proofs, proofCount, banned, upgraded, confirmed, spent>>

(* The room issues a ticket, or it does not; with it a pending proof is    *)
(* minted unless the account was found to own the computer already.        *)
IntentAnswered(c) ==
  /\ caller[c].pc = "ticket"
  /\ Returns(c)
  /\ \/ UNCHANGED <<proofs, proofCount>>
     \/ /\ caller[c].existing = NoOwner /\ proofCount < MaxProofs
        /\ proofCount' = proofCount + 1
        /\ proofs' = proofs \cup
             {[proof |-> proofCount', user |-> caller[c].who, ready |-> FALSE]}
  /\ UNCHANGED <<owner, banned, upgraded, confirmed, spent>>

ProofExpires(p) ==
  /\ proofs' = proofs \ {p}
  /\ UNCHANGED <<caller, owner, proofCount, banned, upgraded, confirmed, spent>>

(* deviceAccess is decided when the socket is let in, not again.           *)
deviceAccess(a) == owner \in {NoOwner, a}

PhoneUpgrades(a) ==
  /\ deviceAccess(a) /\ ~ banned
  /\ upgraded' = upgraded \cup {a}
  /\ UNCHANGED <<caller, owner, proofs, proofCount, banned, confirmed, spent>>

PhoneLeaves(a) ==
  /\ upgraded' = upgraded \ {a}
  /\ UNCHANGED <<caller, owner, proofs, proofCount, banned, confirmed, spent>>

(* SESSION_ESTABLISHED arms every pending proof of the account; the call   *)
(* to D1 may fail.                                                         *)
readyClaimProof(a) ==
  /\ a \in upgraded
  /\ confirmed' = confirmed \cup {a}
  /\ proofs' \in {proofs,
       {p \in proofs : p.user # a} \cup
         {[p EXCEPT !.ready = TRUE] : p \in {q \in proofs : q.user = a}}}
  /\ UNCHANGED <<caller, owner, proofCount, banned, upgraded, spent>>
-----------------------------------------------------------------------------
(* claimDevice: sending a binding again spends nothing.                    *)
claimDevice(c, a, proof) ==
  /\ owner # a
  /\ Calls(c, a, "consume", proof)
  /\ UNCHANGED <<owner, proofs, proofCount, banned, upgraded, confirmed, spent>>

Claimable(c, p) == p.proof = caller[c].proof /\ p.user = caller[c].who /\ p.ready

\* a proof the computer never confirmed is as good as an armed one
MutConsumeClaimProof(c) ==
  LET found == {p \in proofs : p.proof = caller[c].proof /\ p.user = caller[c].who} IN
  /\ caller[c].pc = "consume"
  /\ proofs' = proofs \ found
  /\ IF found # {} /\ caller[c].existing = NoOwner
     THEN Steps(c, "daemon") ELSE Returns(c)
  /\ UNCHANGED <<owner, proofCount, banned, upgraded, confirmed, spent>>
(* The statement that checks the proof deletes it, whatever follows.       *)
consumeClaimProof(c) ==
  LET found == {p \in proofs : Claimable(c, p)} IN
  /\ caller[c].pc = "consume"
  /\ proofs' = proofs \ found
  /\ IF found # {} /\ caller[c].existing = NoOwner
     THEN Steps(c, "daemon") ELSE Returns(c)
  /\ UNCHANGED <<owner, proofCount, banned, upgraded, confirmed, spent>>

getDaemon(c) ==
  /\ caller[c].pc = "daemon"
  /\ IF banned THEN Returns(c) ELSE Steps(c, "bind")
  /\ UNCHANGED <<owner, proofs, proofCount, banned, upgraded, confirmed, spent>>

(* The insert does nothing when a row has appeared since it was looked for.*)
bindDevice(c) ==
  /\ caller[c].pc = "bind"
  /\ IF owner = NoOwner
     THEN owner' = caller[c].who /\ spent' = Append(spent, caller[c].proof)
     ELSE UNCHANGED <<owner, spent>>
  /\ Returns(c)
  /\ UNCHANGED <<proofs, proofCount, banned, upgraded, confirmed>>

(* releaseDevice, by the account that owns the computer.                   *)
releaseDevice(a) ==
  /\ owner = a
  /\ owner' = NoOwner
  /\ UNCHANGED <<caller, proofs, proofCount, banned, upgraded, confirmed, spent>>

(* handleDeviceRelease, by the computer: the room has verified its token.  *)
ReleaseReadsOwner(c) ==
  /\ ~ banned
  /\ owner # NoOwner
  /\ Calls(c, owner, "unbind", 0)
  /\ UNCHANGED <<owner, proofs, proofCount, banned, upgraded, confirmed, spent>>

unbindDevice(c) ==
  /\ caller[c].pc = "unbind"
  /\ owner' = IF owner = caller[c].who THEN NoOwner ELSE owner
  /\ Returns(c)
  /\ UNCHANGED <<proofs, proofCount, banned, upgraded, confirmed, spent>>

AdminKicks ==
  /\ ~ banned /\ banned' = TRUE
  /\ upgraded' = {}
  /\ UNCHANGED <<caller, owner, proofs, proofCount, confirmed, spent>>

ClaimsNext ==
  \/ AdminKicks
  \/ \E p \in proofs : ProofExpires(p)
  \/ \E a \in Owners :
       PhoneUpgrades(a) \/ PhoneLeaves(a) \/ readyClaimProof(a) \/ releaseDevice(a)
  \/ \E c \in Callers :
       \/ \E a \in Owners :
            PairIntent(c, a) \/ \E n \in 1 .. proofCount : claimDevice(c, a, n)
       \/ IntentAnswered(c) \/ consumeClaimProof(c) \/ getDaemon(c)
       \/ bindDevice(c) \/ ReleaseReadsOwner(c) \/ unbindDevice(c)

ClaimsSpec == ClaimsInit /\ [][ClaimsNext]_claimVars
-----------------------------------------------------------------------------
(* A computer belongs only to an account a session of which it confirmed   *)
(* itself: to have resolved its code is not enough, however the requests   *)
(* of two accounts interleave with arming, expiry and release.             *)
OwnerIsConfirmed == owner # NoOwner => owner \in confirmed

(* No two bindings rest on one proof, though a claim may be sent twice and *)
(* the computer released in between: consumeClaimProof decides single use. *)
ProofIsSpentOnce == \A i, j \in DOMAIN spent : spent[i] = spent[j] => i = j

(* A computer's owner was confirmed by a session of theirs, and each       *)
(* binding spent a proof of its own.                                       *)
ClaimIsEarned == OwnerIsConfirmed /\ ProofIsSpentOnce
=============================================================================
