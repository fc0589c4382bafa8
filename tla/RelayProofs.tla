----------------------------- MODULE RelayProofs -----------------------------
(***************************************************************************)
(* What the relay's accounts and enrolment promise, proved for any number  *)
(* of accounts, requests, proofs, handlers, grants and tokens.             *)
(***************************************************************************)
EXTENDS Claims, Enrollment, TLAPS

-----------------------------------------------------------------------------
(* Claims.  The binding of a computer to an account rests on the life of a *)
(* proof number.  A number is in the table, or it was consumed by one      *)
(* request that is about to bind, or it is behind one binding that was     *)
(* made, and never two of the three.                                       *)


Calling == [pc : {"ticket", "consume", "daemon", "bind", "unbind"}, who : Owners,
            proof : Nat, existing : Owners \cup {NoOwner}]

ClaimTypes ==
  /\ caller \in [Callers -> Calling \cup {Idles}]
  /\ owner \in Owners \cup {NoOwner}
  /\ proofCount \in Nat
  /\ proofs \subseteq [proof : Nat, user : Owners, ready : BOOLEAN]
  /\ spent \in Seq(Nat)

(* The request has consumed its proof and has not bound the computer yet.  *)
Holds(c) == caller[c].pc \in {"daemon", "bind"}

Consumed(n) == n <= proofCount /\ \A p \in proofs : p.proof # n

ProofTable ==
  /\ \A p \in proofs : p.proof <= proofCount /\ (p.ready => p.user \in confirmed)
  /\ \A p, q \in proofs : p.proof = q.proof => p = q

HeldProofs ==
  /\ \A c \in Callers : Holds(c) =>
       /\ caller[c].who \in confirmed /\ Consumed(caller[c].proof)
       /\ \A i \in DOMAIN spent : spent[i] # caller[c].proof
  /\ \A c, d \in Callers :
       Holds(c) /\ Holds(d) /\ caller[c].proof = caller[d].proof => c = d

SpentProofs == \A i \in DOMAIN spent : Consumed(spent[i])

(* Every proof number is in one place, and what was armed was confirmed.   *)
ClaimInv == ClaimTypes /\ ProofTable /\ HeldProofs /\ SpentProofs /\ ClaimIsEarned

LEMMA ClaimInitInv == ClaimsInit => ClaimInv
BY DEF ClaimsInit, ClaimInv, ClaimTypes, ProofTable, HeldProofs, SpentProofs, ClaimIsEarned,
       OwnerIsConfirmed, ProofIsSpentOnce, Idles, Calling, Holds, Consumed

(* A request that begins holds no proof yet.                               *)
LEMMA CallsKeep ==
  ASSUME ClaimInv, NEW c \in Callers, NEW a \in Owners, NEW n \in Nat,
         NEW pc \in {"ticket", "consume", "unbind"}, Calls(c, a, pc, n),
         UNCHANGED <<owner, proofs, proofCount, confirmed, spent>>
  PROVE  ClaimInv'
<1> DEFINE r == [pc |-> pc, who |-> a, proof |-> n, existing |-> owner]
<1>1. r \in Calling /\ r.pc \notin {"daemon", "bind"}
  BY Zenon DEF ClaimInv, ClaimTypes, Calling
<1>2. caller' = [caller EXCEPT ![c] = r]
  BY Zenon DEF Calls
<1>3. ClaimTypes'
  BY Zenon, <1>1, <1>2 DEF ClaimInv, ClaimTypes
<1>4. \A d \in Callers : Holds(d)' => Holds(d) /\ caller'[d] = caller[d]
  BY Zenon, <1>1, <1>2 DEF ClaimInv, ClaimTypes, Holds
<1>5. HeldProofs'
  BY Zenon, <1>4 DEF ClaimInv, HeldProofs, Consumed
<1> QED BY Zenon, <1>3, <1>5 DEF ClaimInv, ProofTable, SpentProofs, Consumed, ClaimIsEarned,
                          OwnerIsConfirmed, ProofIsSpentOnce

(* A request that ends holds none any more.                                *)
LEMMA ReturnsKeep ==
  ASSUME ClaimInv, NEW c \in Callers, Returns(c)
  PROVE  /\ caller' \in [Callers -> Calling \cup {Idles}]
         /\ \A d \in Callers : Holds(d)' => Holds(d) /\ caller'[d] = caller[d] /\ d # c
BY Zenon DEF ClaimInv, ClaimTypes, Returns, Idles, Holds

LEMMA IntentAnsweredKeeps ==
  ASSUME ClaimInv, NEW c \in Callers, IntentAnswered(c)
  PROVE  ClaimInv'
<1>1. Returns(c) /\ UNCHANGED <<owner, confirmed, spent>>
  BY Zenon DEF IntentAnswered
<1>2. CASE UNCHANGED <<proofs, proofCount>>
  BY <1>1, <1>2, ReturnsKeep DEF ClaimInv, ClaimTypes, ProofTable, HeldProofs, SpentProofs,
     Consumed, ClaimIsEarned, OwnerIsConfirmed, ProofIsSpentOnce
<1>3. CASE ~ UNCHANGED <<proofs, proofCount>>
  <2> DEFINE p == [proof |-> proofCount', user |-> caller[c].who, ready |-> FALSE]
  <2>1. proofCount' = proofCount + 1 /\ proofs' = proofs \cup {p}
    BY Zenon, <1>3 DEF IntentAnswered
  <2>2. p \in [proof : Nat, user : Owners, ready : BOOLEAN] /\ p.proof = proofCount + 1 /\ ~ p.ready
    <3>1. caller[c].who \in Owners
      BY DEF ClaimInv, ClaimTypes, IntentAnswered, Calling, Idles
    <3>2. proofCount' \in Nat
      BY <2>1 DEF ClaimInv, ClaimTypes
    <3> QED BY Zenon, <2>1, <3>1, <3>2
  <2>3. ClaimTypes'
    BY Zenon, <1>1, <2>1, <2>2, ReturnsKeep DEF ClaimInv, ClaimTypes
  <2>4. ProofTable'
    <3> HIDE DEF p
    <3>1. \A q \in proofs : q.proof \in Nat /\ q.proof <= proofCount /\ proofCount \in Nat
      BY Zenon DEF ClaimInv, ClaimTypes, ProofTable
    <3>2. \A q \in proofs : q.proof # p.proof
      BY <2>2, <3>1
    <3>3. \A q, r \in proofs' : q.proof = r.proof => q = r
      BY Zenon, <2>1, <3>2 DEF ClaimInv, ProofTable
    <3>4. \A q \in proofs' : q.proof <= proofCount' /\ (q.ready => q.user \in confirmed')
      BY <1>1, <2>1, <2>2, <3>1 DEF ClaimInv, ClaimTypes, ProofTable
    <3> QED BY Zenon, <3>3, <3>4 DEF ProofTable
  <2>5. \A n \in Nat : Consumed(n) => Consumed(n)'
    BY <2>1, <2>2 DEF ClaimInv, ClaimTypes, Consumed
  <2>6. HeldProofs'
    <3>1. \A d \in Callers : Holds(d) => caller[d].proof \in Nat
      BY DEF ClaimInv, ClaimTypes, Calling, Idles, Holds
    <3> QED BY Zenon, <1>1, <2>5, <3>1, ReturnsKeep DEF ClaimInv, HeldProofs
  <2>7. SpentProofs'
    BY <1>1, <2>5 DEF ClaimInv, ClaimTypes, SpentProofs
  <2> QED BY Zenon, <1>1, <2>3, <2>4, <2>6, <2>7 DEF ClaimInv, ClaimIsEarned, OwnerIsConfirmed, ProofIsSpentOnce
<1> QED BY Zenon, <1>2, <1>3

(* Arming changes neither the numbers in the table nor whose they are.     *)
LEMMA ReadyKeeps ==
  ASSUME ClaimInv, NEW a \in Owners, readyClaimProof(a)
  PROVE  ClaimInv'
<1> DEFINE armed == {[p EXCEPT !.ready = TRUE] : p \in {q \in proofs : q.user = a}}
<1>1. UNCHANGED <<caller, owner, proofCount, spent>> /\ confirmed' = confirmed \cup {a}
  BY Zenon DEF readyClaimProof
<1>2. CASE proofs' = proofs
  BY Zenon, <1>1, <1>2 DEF ClaimInv, ClaimTypes, ProofTable, HeldProofs, SpentProofs, Holds,
     Consumed, ClaimIsEarned, OwnerIsConfirmed, ProofIsSpentOnce
<1>3. CASE proofs' = {p \in proofs : p.user # a} \cup armed
  <2>1. \A p \in armed : /\ p \in [proof : Nat, user : Owners, ready : BOOLEAN] /\ p.user = a
                         /\ \E q \in proofs : q.user = a /\ q.proof = p.proof
                                              /\ p = [q EXCEPT !.ready = TRUE]
    BY Zenon DEF ClaimInv, ClaimTypes
  <2>2. \A p \in proofs' : \E q \in proofs : q.proof = p.proof /\ q.user = p.user
    BY <1>3, <2>1
  <2>3. ClaimTypes'
    BY Zenon, <1>1, <1>3, <2>1 DEF ClaimInv, ClaimTypes
  <2>4. ProofTable'
    <3>1. \A p \in proofs' : p.proof <= proofCount' /\ (p.ready => p.user \in confirmed')
      BY Zenon, <1>1, <1>3, <2>1 DEF ClaimInv, ProofTable
    <3>2. \A p, q \in proofs' : p.proof = q.proof => p = q
      <4> SUFFICES ASSUME NEW p \in proofs', NEW q \in proofs', p.proof = q.proof
                   PROVE  p = q
        OBVIOUS
      <4>1. CASE p.user = a
        <5>1. p \in armed /\ q \in armed
          BY <1>3, <2>1, <4>1 DEF ClaimInv, ProofTable
        <5> QED BY <2>1, <5>1 DEF ClaimInv, ProofTable
      <4>2. CASE p.user # a
        BY <1>3, <2>1, <4>2 DEF ClaimInv, ProofTable
      <4> QED BY Zenon, <4>1, <4>2
    <3> QED BY Zenon, <3>1, <3>2 DEF ProofTable
  <2>5. HeldProofs' /\ SpentProofs'
    BY <1>1, <2>2 DEF ClaimInv, HeldProofs, SpentProofs, Holds, Consumed
  <2> QED BY Zenon, <1>1, <2>3, <2>4, <2>5 DEF ClaimInv, ClaimIsEarned, OwnerIsConfirmed, ProofIsSpentOnce
<1> QED BY Zenon, <1>2, <1>3 DEF readyClaimProof

(* The statement that finds a proof takes its number out of the table.     *)
LEMMA ConsumeKeeps ==
  ASSUME ClaimInv, NEW c \in Callers, consumeClaimProof(c)
  PROVE  ClaimInv'
<1> DEFINE found == {p \in proofs : Claimable(c, p)}
<1>1. /\ caller[c].pc = "consume" /\ caller[c] \in Calling /\ ~ Holds(c)
      /\ proofs' = proofs \ found /\ UNCHANGED <<owner, proofCount, confirmed, spent>>
  BY DEF ClaimInv, ClaimTypes, consumeClaimProof, Idles, Holds
<1>2. \A n \in Nat : Consumed(n) => Consumed(n)'
  BY Zenon, <1>1 DEF Consumed
<1>3. ProofTable' /\ proofs' \subseteq [proof : Nat, user : Owners, ready : BOOLEAN]
  BY Zenon, <1>1 DEF ClaimInv, ClaimTypes, ProofTable
<1>4. SpentProofs'
  BY <1>1, <1>2 DEF ClaimInv, ClaimTypes, SpentProofs
<1>5. \A d \in Callers : Holds(d) => caller[d].proof \in Nat
  BY DEF ClaimInv, ClaimTypes, Calling, Idles, Holds
<1>6. ClaimTypes' /\ HeldProofs'
  <2>1. CASE Returns(c)
    <3>1. ClaimTypes'
      BY Zenon, <1>1, <1>3, <2>1, ReturnsKeep DEF ClaimInv, ClaimTypes
    <3>2. HeldProofs'
      BY Zenon, <1>1, <1>2, <1>5, <2>1, ReturnsKeep DEF ClaimInv, HeldProofs
    <3> QED BY Zenon, <3>1, <3>2
  <2>2. CASE ~ Returns(c)
    <3>1. PICK p \in proofs : Claimable(c, p)
      BY Zenon, <2>2 DEF consumeClaimProof
    <3>2. Steps(c, "daemon")
      BY Zenon, <2>2 DEF consumeClaimProof
    <3>3. caller' = [caller EXCEPT ![c] = [caller[c] EXCEPT !.pc = "daemon"]]
      BY Zenon, <3>2 DEF Steps
    <3>4. /\ [caller[c] EXCEPT !.pc = "daemon"] \in Calling
          /\ caller'[c].proof = caller[c].proof /\ caller'[c].who = caller[c].who
          /\ \A d \in Callers \ {c} : caller'[d] = caller[d]
      BY Zenon, <1>1, <3>3 DEF ClaimInv, ClaimTypes, Calling
    <3>5. ClaimTypes'
      BY Zenon, <1>1, <1>3, <3>3, <3>4 DEF ClaimInv, ClaimTypes
    <3>6. caller[c].who \in confirmed /\ p.proof = caller[c].proof /\ p.proof <= proofCount
      BY Zenon, <3>1 DEF Claimable, ClaimInv, ProofTable
    <3>7. Consumed(caller[c].proof)'
      BY <1>1, <3>1, <3>4, <3>6 DEF Consumed, ClaimInv, ProofTable
    <3>8. \A n \in Nat : Consumed(n) => n # caller[c].proof
      BY Zenon, <3>1, <3>6 DEF Consumed
    <3>9. \A i \in DOMAIN spent : spent[i] # caller[c].proof
      BY <3>8 DEF ClaimInv, ClaimTypes, SpentProofs
    <3>10. \A d \in Callers \ {c} : Holds(d)' => Holds(d) /\ caller'[d].proof # caller[c].proof
      BY Zenon, <1>5, <3>4, <3>8 DEF ClaimInv, HeldProofs, Holds
    <3>11. \A d \in Callers : Holds(d)' =>
             /\ caller'[d].who \in confirmed' /\ Consumed(caller[d].proof)'
             /\ caller'[d].proof = caller[d].proof
             /\ \A i \in DOMAIN spent' : spent'[i] # caller'[d].proof
      BY <1>1, <1>2, <1>5, <3>4, <3>6, <3>7, <3>9, <3>10 DEF ClaimInv, HeldProofs
    <3>12. \A d, e \in Callers : Holds(d)' /\ Holds(e)' /\ caller'[d].proof = caller'[e].proof => d = e
      BY Zenon, <3>4, <3>10 DEF ClaimInv, HeldProofs
    <3> QED BY Zenon, <3>5, <3>11, <3>12 DEF HeldProofs, Consumed
  <2> QED BY Zenon, <2>1, <2>2
<1> QED BY Zenon, <1>1, <1>3, <1>4, <1>6 DEF ClaimInv, ClaimIsEarned, OwnerIsConfirmed, ProofIsSpentOnce

LEMMA GetDaemonKeeps ==
  ASSUME ClaimInv, NEW c \in Callers, getDaemon(c)
  PROVE  ClaimInv'
<1>1. /\ caller[c].pc = "daemon" /\ caller[c] \in Calling /\ Holds(c)
      /\ UNCHANGED <<owner, proofs, proofCount, confirmed, spent>>
  BY DEF ClaimInv, ClaimTypes, getDaemon, Idles, Holds
<1>2. /\ caller' \in [Callers -> Calling \cup {Idles}]
      /\ \A d \in Callers : Holds(d)' => /\ Holds(d) /\ caller'[d].proof = caller[d].proof
                                         /\ caller'[d].who = caller[d].who
  <2>1. CASE Returns(c)
    BY Zenon, <2>1, ReturnsKeep
  <2>2. CASE Steps(c, "bind")
    <3>1. caller' = [caller EXCEPT ![c] = [caller[c] EXCEPT !.pc = "bind"]]
      BY Zenon, <2>2 DEF Steps
    <3>2. /\ [caller[c] EXCEPT !.pc = "bind"] \in Calling
          /\ caller'[c].proof = caller[c].proof /\ caller'[c].who = caller[c].who
          /\ \A d \in Callers \ {c} : caller'[d] = caller[d]
      BY Zenon, <1>1, <3>1 DEF ClaimInv, ClaimTypes, Calling
    <3> QED BY Zenon, <1>1, <3>1, <3>2 DEF ClaimInv, ClaimTypes, Holds
  <2> QED BY Zenon, <2>1, <2>2 DEF getDaemon
<1>3. HeldProofs'
  BY <1>1, <1>2 DEF ClaimInv, HeldProofs, Consumed
<1> QED BY Zenon, <1>1, <1>2, <1>3 DEF ClaimInv, ClaimTypes, ProofTable, SpentProofs, Consumed,
                                ClaimIsEarned, OwnerIsConfirmed, ProofIsSpentOnce

(* A binding puts the number its request held behind it.                   *)
LEMMA BindKeeps ==
  ASSUME ClaimInv, NEW c \in Callers, bindDevice(c)
  PROVE  ClaimInv'
<1>1. /\ Returns(c) /\ Holds(c) /\ caller[c].proof \in Nat /\ caller[c].who \in Owners
      /\ UNCHANGED <<proofs, proofCount, confirmed>>
  BY DEF ClaimInv, ClaimTypes, bindDevice, Calling, Idles, Holds
<1>2. CASE UNCHANGED <<owner, spent>>
  BY <1>1, <1>2, ReturnsKeep DEF ClaimInv, ClaimTypes, ProofTable, HeldProofs, SpentProofs,
     Consumed, ClaimIsEarned, OwnerIsConfirmed, ProofIsSpentOnce
<1>3. CASE ~ UNCHANGED <<owner, spent>>
  <2>1. owner' = caller[c].who /\ spent' = Append(spent, caller[c].proof)
    BY Zenon, <1>3 DEF bindDevice
  <2>2. /\ spent' \in Seq(Nat) /\ DOMAIN spent' = 1 .. Len(spent) + 1 /\ DOMAIN spent = 1 .. Len(spent)
        /\ spent'[Len(spent) + 1] = caller[c].proof /\ Len(spent) \in Nat
        /\ \A i \in DOMAIN spent : spent'[i] = spent[i]
    BY <1>1, <2>1 DEF ClaimInv, ClaimTypes
  <2>3. ClaimTypes'
    BY Zenon, <1>1, <2>1, <2>2, ReturnsKeep DEF ClaimInv, ClaimTypes
  <2>4. SpentProofs'
    BY <1>1, <2>2 DEF ClaimInv, HeldProofs, SpentProofs, Consumed
  <2>5. HeldProofs'
    <3>1. HeldProofs
      BY Zenon DEF ClaimInv
    <3>2. \A d \in Callers : Holds(d)' => Holds(d) /\ d # c /\ caller'[d] = caller[d]
      BY Zenon, <1>1, ReturnsKeep
    <3>3. \A d \in Callers : Holds(d)' =>
            /\ caller'[d].who \in confirmed' /\ Consumed(caller[d].proof)'
            /\ caller'[d].proof # caller[c].proof
            /\ \A i \in DOMAIN spent : spent[i] # caller'[d].proof
      BY Zenon, <1>1, <3>1, <3>2 DEF HeldProofs, Consumed
    <3>4. \A d, e \in Callers :
            Holds(d)' /\ Holds(e)' /\ caller'[d].proof = caller'[e].proof => d = e
      BY Zenon, <3>1, <3>2 DEF HeldProofs
    <3>5. \A d \in Callers : Holds(d)' => \A i \in DOMAIN spent' : spent'[i] # caller'[d].proof
      BY <2>2, <3>3
    <3> QED BY Zenon, <3>3, <3>4, <3>5 DEF HeldProofs
  <2>6. ClaimIsEarned'
    BY <1>1, <2>1, <2>2 DEF ClaimInv, HeldProofs, ClaimIsEarned, OwnerIsConfirmed, ProofIsSpentOnce
  <2> QED BY Zenon, <1>1, <2>3, <2>4, <2>5, <2>6 DEF ClaimInv, ProofTable
<1> QED BY Zenon, <1>2, <1>3

(* Steps that change who owns the computer only to nobody, and no request. *)
LEMMA RestKeeps ==
  ASSUME ClaimInv, ClaimsNext \/ UNCHANGED claimVars,
         \/ UNCHANGED claimVars \/ AdminKicks \/ \E p \in proofs : ProofExpires(p)
         \/ \E a \in Owners : PhoneUpgrades(a) \/ PhoneLeaves(a) \/ releaseDevice(a)
  PROVE  ClaimInv'
<1>1. /\ UNCHANGED <<caller, proofCount, confirmed, spent>> /\ proofs' \subseteq proofs
      /\ owner' \in {owner, NoOwner}
  BY Zenon DEF claimVars, AdminKicks, ProofExpires, PhoneUpgrades, PhoneLeaves, releaseDevice
<1> QED BY Zenon, <1>1 DEF ClaimInv, ClaimTypes, ProofTable, HeldProofs, SpentProofs, Holds,
                    Consumed, ClaimIsEarned, OwnerIsConfirmed, ProofIsSpentOnce

LEMMA UnbindKeeps ==
  ASSUME ClaimInv, NEW c \in Callers, unbindDevice(c)
  PROVE  ClaimInv'
<1>1. /\ Returns(c) /\ UNCHANGED <<proofs, proofCount, confirmed, spent>>
      /\ owner' \in {owner, NoOwner}
  BY Zenon DEF unbindDevice
<1> QED BY <1>1, ReturnsKeep DEF ClaimInv, ClaimTypes, ProofTable, HeldProofs, SpentProofs,
                                 Consumed, ClaimIsEarned, OwnerIsConfirmed, ProofIsSpentOnce

(* consumeClaimProof and bindDevice: the owner of a computer was confirmed *)
(* by a session, and no proof is behind two bindings, for any accounts,    *)
(* requests and number of proofs.                                          *)
THEOREM ClaimIsEarnedHolds == ClaimsSpec => []ClaimIsEarned
<1>1. ClaimInv /\ [ClaimsNext]_claimVars => ClaimInv'
  <2> SUFFICES ASSUME ClaimInv, [ClaimsNext]_claimVars PROVE ClaimInv'
    OBVIOUS
  <2>1. ASSUME NEW c \in Callers, NEW a \in Owners, PairIntent(c, a) PROVE ClaimInv'
    BY <2>1, CallsKeep DEF PairIntent
  <2>2. ASSUME NEW c \in Callers, NEW a \in Owners, NEW n \in 1 .. proofCount, claimDevice(c, a, n)
        PROVE  ClaimInv'
    <3>1. n \in Nat
      BY DEF ClaimInv, ClaimTypes
    <3> QED BY Zenon, <2>2, <3>1, CallsKeep DEF claimDevice
  <2>3. ASSUME NEW c \in Callers, ReleaseReadsOwner(c) PROVE ClaimInv'
    <3>1. owner \in Owners
      BY Zenon, <2>3 DEF ReleaseReadsOwner, ClaimInv, ClaimTypes
    <3> QED BY Zenon, <2>3, <3>1, CallsKeep DEF ReleaseReadsOwner
  <2> QED BY Zenon, <2>1, <2>2, <2>3, IntentAnsweredKeeps, ReadyKeeps, ConsumeKeeps, GetDaemonKeeps,
             BindKeeps, RestKeeps, UnbindKeeps DEF ClaimsNext
<1>2. ClaimInv => ClaimIsEarned
  BY Zenon DEF ClaimInv
<1> QED BY <1>1, <1>2, ClaimInitInv, PTL DEF ClaimsSpec

-----------------------------------------------------------------------------
(* Enrolment.  The argument orders the tokens by the time they were        *)
(* minted: a handler that outlived its request can only carry the token    *)
(* the files hold, the next one, or one that the room has left behind and  *)
(* therefore refuses.                                                      *)


EnrollPcs == {"look", "mint", "insert", "room", "verify", "finish", "abort", "undo"}
RekeyPcs == {"rekeylook", "rekey"}
Enrolling(h) == handler[h].pc \in EnrollPcs
Rekeying(h) == handler[h].pc \in RekeyPcs

HandlerRec ==
  [pc : EnrollPcs \cup RekeyPcs \cup {"rest", "kickroom", "kickread", "kickrow"},
   token : Nat, new : Nat, grant : Grants \cup {NoGrant}]
FilesRec == [pending : Nat, relay : Nat, next : Nat, waits : Handlers \cup {NoHandler}]

EnrollTypes ==
  /\ comp \in FilesRec /\ tokens \in Nat
  /\ handler \in [Handlers -> HandlerRec]
  /\ used \in [Grants -> 0 .. 1] /\ claimed \subseteq Grants
  /\ daemonRow \in [st : {"none", "live", "kicked"}, grant : Grants \cup {NoGrant},
                    released : BOOLEAN]
  /\ roomMeta \in [st : {"none", "row"}, token : Nat, grant : Grants \cup {NoGrant}]
  /\ overlapped \in BOOLEAN

(* The computer's files are ahead of the room by one token at most.        *)
FilesInv ==
  /\ comp.pending <= 1
  /\ comp.relay = 0 => comp.next = 0 /\ tokens = comp.pending
  /\ comp.relay <= tokens /\ comp.next <= tokens
  /\ comp.next > 0 => comp.relay > 0 /\ comp.relay <= comp.next

RoomTokenInv ==
  /\ roomMeta.st = "none" => roomMeta.token = 0
  /\ roomMeta.token > 0 =>
       IF comp.relay = 0 THEN roomMeta.token = comp.pending
                         ELSE roomMeta.token \in {comp.relay, comp.next}
  /\ comp.relay > 1 => roomMeta.st # "none"

(* What a handler carries, however late it is.                             *)
EnrollCarries(h) ==
  /\ handler[h].token = 1 /\ handler[h].new = 0
  /\ comp.relay = 0 => comp.pending = 1
  /\ comp.waits = h => comp.relay = 0

RekeyCarries(h) ==
  /\ 0 < handler[h].token /\ handler[h].token < handler[h].new
  /\ handler[h].token <= comp.relay
  /\ handler[h].new = comp.next \/ handler[h].new <= comp.relay
  /\ comp.waits = h => handler[h].new = comp.next /\ handler[h].token = comp.relay

CarriedInv ==
  \A h \in Handlers : (Enrolling(h) => EnrollCarries(h)) /\ (Rekeying(h) => RekeyCarries(h))

(* One slot of a grant is charged for the row, and none before its insert. *)
QuotaInv ==
  /\ \A g \in Grants : /\ g \notin claimed => used[g] = 0
                       /\ daemonRow.grant = g /\ ~ daemonRow.released => used[g] = 1
  /\ \A h \in Handlers : At(h, "insert") =>
       handler[h].grant \in claimed /\ used[handler[h].grant] = 0
  /\ \A h, k \in Handlers :
       At(h, "insert") /\ At(k, "insert") /\ handler[h].grant = handler[k].grant => h = k
  /\ daemonRow.st = "none" => daemonRow = NoDaemonRow

(* A computer that waited for each answer has one request under way.       *)
OneRequestInv ==
  ~ overlapped =>
    /\ \A h, k \in Handlers :
         (Enrolling(h) \/ Rekeying(h)) /\ (Enrolling(k) \/ Rekeying(k)) => h = k
    /\ comp.relay > 0 => \A h \in Handlers : ~ Enrolling(h)
    /\ \A h \in Handlers : handler[h].pc \in {"verify", "finish", "room"} =>
         daemonRow.st # "none" /\ handler[h].grant = daemonRow.grant

EnrollInv ==
  /\ EnrollTypes /\ FilesInv /\ RoomTokenInv /\ CarriedInv /\ QuotaInv /\ OneRequestInv
  /\ ReadyIsEnrolled

LEMMA EnrollInitInv == EnrollmentInit => EnrollInv
<1> SUFFICES ASSUME EnrollmentInit PROVE EnrollInv
  OBVIOUS
<1>1. Resting \in HandlerRec /\ Resting.pc \notin EnrollPcs \cup RekeyPcs /\ Resting.pc = "rest"
  BY DEF Resting, HandlerRec, EnrollPcs, RekeyPcs
<1>2. EnrollTypes
  <2>1. handler \in [Handlers -> HandlerRec] /\ comp \in FilesRec
    BY Zenon, <1>1 DEF EnrollmentInit, FilesRec
  <2>2. used \in [Grants -> 0 .. 1]
    BY DEF EnrollmentInit
  <2> QED BY Zenon, <2>1, <2>2 DEF EnrollmentInit, EnrollTypes, NoDaemonRow, NoMeta
<1>3. \A h \in Handlers : ~ Enrolling(h) /\ ~ Rekeying(h) /\ ~ At(h, "insert") /\ handler[h].pc = "rest"
  BY Zenon, <1>1 DEF EnrollmentInit, Enrolling, Rekeying, At
<1>4. FilesInv /\ RoomTokenInv /\ CarriedInv
  BY <1>3 DEF EnrollmentInit, FilesInv, RoomTokenInv, CarriedInv, NoMeta
<1>5. QuotaInv
  BY Zenon, <1>3, EnrollmentAssumption DEF EnrollmentInit, QuotaInv, NoDaemonRow
<1>6. OneRequestInv /\ ReadyIsEnrolled
  BY <1>3 DEF EnrollmentInit, OneRequestInv, ReadyIsEnrolled
<1> QED BY Zenon, <1>2, <1>4, <1>5, <1>6 DEF EnrollInv

(* What the invariant says of one handler's request.                       *)
LEMMA CarriedFacts ==
  ASSUME EnrollInv
  PROVE  \A k \in Handlers : (Enrolling(k) => EnrollCarries(k)) /\ (Rekeying(k) => RekeyCarries(k))
BY Zenon DEF EnrollInv, CarriedInv

(* The quotas still count right after a step that charges no slot and      *)
(* brings no handler to its insert.                                        *)
LEMMA QuotaStays ==
  ASSUME EnrollInv, UNCHANGED <<used, daemonRow>>, claimed \subseteq claimed',
         \A k \in Handlers : At(k, "insert")' => At(k, "insert") /\ handler'[k] = handler[k]
  PROVE  QuotaInv'
<1>1. QuotaInv
  BY Zenon DEF EnrollInv
<1>2. \A g \in Grants : /\ g \notin claimed' => used'[g] = 0
                        /\ daemonRow'.grant = g /\ ~ daemonRow'.released => used'[g] = 1
  BY Zenon, <1>1 DEF QuotaInv
<1>3. \A k \in Handlers : At(k, "insert")' =>
        handler'[k].grant \in claimed' /\ used'[handler'[k].grant] = 0
  BY Zenon, <1>1 DEF QuotaInv
<1>4. \A k, l \in Handlers :
        At(k, "insert")' /\ At(l, "insert")' /\ handler'[k].grant = handler'[l].grant => k = l
  BY Zenon, <1>1 DEF QuotaInv
<1>5. daemonRow'.st = "none" => daemonRow' = NoDaemonRow
  BY Zenon, <1>1 DEF QuotaInv
<1> QED BY Zenon, <1>2, <1>3, <1>4, <1>5 DEF QuotaInv

(* A handler's call without news for the computer's files.                 *)
Proceeds(h, r) ==
  /\ handler' = [handler EXCEPT ![h] = r]
  /\ comp' \in FilesRec /\ comp'.waits \in {comp.waits, NoHandler}
  /\ comp'.pending = comp.pending /\ comp'.relay = comp.relay /\ comp'.next = comp.next
  /\ UNCHANGED <<tokens, overlapped>>

(* The handler goes on with the request it has, or with none.              *)
SameRequest(h, r) ==
  /\ r \in HandlerRec
  /\ r.pc \in EnrollPcs => Enrolling(h) /\ r.token = handler[h].token /\ r.new = handler[h].new
  /\ r.pc \in RekeyPcs => Rekeying(h) /\ r.token = handler[h].token /\ r.new = handler[h].new

LEMMA ContinuesProceeds ==
  ASSUME EnrollInv, NEW h \in Handlers, NEW r, Continues(h, r)
  PROVE  Proceeds(h, r)
BY Zenon DEF EnrollInv, EnrollTypes, Continues, Proceeds

LEMMA FailureProceeds ==
  ASSUME EnrollInv, NEW h \in Handlers, NEW ok \in BOOLEAN, Answers(h, ok),
         ~ ok \/ comp.waits # h
  PROVE  Proceeds(h, Resting)
BY Zenon DEF EnrollInv, EnrollTypes, FilesRec, Answers, Proceeds

LEMMA RestingFields ==
  /\ Resting \in HandlerRec /\ Resting.pc = "rest"
  /\ \A h \in Handlers : SameRequest(h, Resting)
BY Zenon DEF Resting, HandlerRec, SameRequest, EnrollPcs, RekeyPcs

(* What such a step leaves as it was.                                      *)
LEMMA ProceedKeeps ==
  ASSUME EnrollInv, NEW h \in Handlers, NEW r, Proceeds(h, r), SameRequest(h, r)
  PROVE  /\ comp' \in FilesRec /\ tokens' \in Nat /\ overlapped' \in BOOLEAN
         /\ handler' \in [Handlers -> HandlerRec] /\ handler'[h] = r
         /\ \A k \in Handlers \ {h} : handler'[k] = handler[k]
         /\ FilesInv' /\ CarriedInv'
         /\ \A k \in Handlers : (Enrolling(k)' => Enrolling(k)) /\ (Rekeying(k)' => Rekeying(k))
<1>1. handler' = [handler EXCEPT ![h] = r] /\ r \in HandlerRec
  BY Zenon DEF Proceeds, SameRequest
<1>2. /\ handler' \in [Handlers -> HandlerRec] /\ handler'[h] = r
      /\ \A k \in Handlers \ {h} : handler'[k] = handler[k]
  BY Zenon, <1>1 DEF EnrollInv, EnrollTypes
<1>3. FilesInv'
  BY Zenon DEF EnrollInv, FilesInv, Proceeds
<1>4. \A k \in Handlers :
        /\ Enrolling(k)' => /\ Enrolling(k) /\ handler'[k].token = handler[k].token
                            /\ handler'[k].new = handler[k].new
        /\ Rekeying(k)' => /\ Rekeying(k) /\ handler'[k].token = handler[k].token
                           /\ handler'[k].new = handler[k].new
  BY Zenon, <1>2 DEF SameRequest, Enrolling, Rekeying
<1>5. \A k \in Handlers : comp'.waits = k => comp.waits = k
  BY Zenon, EnrollmentAssumption DEF Proceeds
<1>6. CarriedInv'
  BY <1>4, <1>5 DEF EnrollInv, CarriedInv, EnrollCarries, RekeyCarries, Proceeds
<1> QED BY Zenon, <1>2, <1>3, <1>4, <1>6 DEF Proceeds, EnrollInv, EnrollTypes

(* The invariant after a step that changes the tables in a way that suits  *)
(* each part of it.                                                        *)
LEMMA ProceedInv ==
  ASSUME EnrollInv, NEW h \in Handlers, NEW r, Proceeds(h, r), SameRequest(h, r),
         EnrollTypes', RoomTokenInv', QuotaInv',
         r.pc \in {"verify", "finish", "room"} /\ ~ overlapped =>
           daemonRow'.st # "none" /\ r.grant = daemonRow'.grant,
         ~ overlapped =>
           \/ daemonRow'.st = daemonRow.st /\ daemonRow'.grant = daemonRow.grant
           \/ daemonRow'.st # "none" /\ daemonRow'.grant = daemonRow.grant
           \/ Enrolling(h),
         ~ overlapped /\ comp.relay > 0 /\ ~ Enrolling(h) =>
           roomMeta'.grant = roomMeta.grant /\ (roomMeta.st # "none" => roomMeta'.st # "none")
  PROVE  EnrollInv'
<1>1. /\ handler'[h] = r /\ \A k \in Handlers \ {h} : handler'[k] = handler[k]
      /\ FilesInv' /\ CarriedInv'
      /\ \A k \in Handlers : (Enrolling(k)' => Enrolling(k)) /\ (Rekeying(k)' => Rekeying(k))
  BY Zenon, ProceedKeeps
<1>2. overlapped' = overlapped /\ comp'.relay = comp.relay
  BY Zenon DEF Proceeds
<1>3. \A k \in Handlers : handler[k].pc \in {"verify", "finish", "room"} => Enrolling(k)
  BY Zenon DEF Enrolling, EnrollPcs
<1>4. OneRequestInv'
  <2> SUFFICES ASSUME ~ overlapped PROVE OneRequestInv'
    BY Zenon, <1>2 DEF OneRequestInv
  <2>1. \A k, l \in Handlers :
          (Enrolling(k) \/ Rekeying(k))' /\ (Enrolling(l) \/ Rekeying(l))' => k = l
    BY Zenon, <1>1 DEF EnrollInv, OneRequestInv
  <2>2. comp'.relay > 0 => \A k \in Handlers : ~ Enrolling(k)'
    BY Zenon, <1>1, <1>2 DEF EnrollInv, OneRequestInv
  <2>3. \A k \in Handlers : handler'[k].pc \in {"verify", "finish", "room"} =>
          daemonRow'.st # "none" /\ handler'[k].grant = daemonRow'.grant
    BY Zenon, <1>1, <1>3 DEF EnrollInv, OneRequestInv
  <2> QED BY Zenon, <2>1, <2>2, <2>3 DEF OneRequestInv
<1>5. ReadyIsEnrolled'
  BY Zenon, <1>2 DEF EnrollInv, OneRequestInv, ReadyIsEnrolled
<1> QED BY Zenon, <1>1, <1>4, <1>5 DEF EnrollInv

(* The common case: the tables stay as they are.                           *)
LEMMA ProceedOnly ==
  ASSUME EnrollInv, NEW h \in Handlers, NEW r, Proceeds(h, r), SameRequest(h, r),
         UNCHANGED <<used, claimed, daemonRow, roomMeta>>, r.pc # "insert",
         r.pc \in {"verify", "finish", "room"} /\ ~ overlapped =>
           daemonRow.st # "none" /\ r.grant = daemonRow.grant
  PROVE  EnrollInv'
<1>1. EnrollTypes'
  BY Zenon, ProceedKeeps DEF EnrollInv, EnrollTypes
<1>2. RoomTokenInv'
  BY Zenon DEF EnrollInv, RoomTokenInv, Proceeds
<1>3. QuotaInv'
  <2>1. \A k \in Handlers : At(k, "insert")' => At(k, "insert") /\ handler'[k] = handler[k]
    BY Zenon, ProceedKeeps DEF At
  <2> QED BY Zenon, <2>1, QuotaStays
<1> QED BY Zenon, <1>1, <1>2, <1>3, ProceedInv

(* The handler of an enrolment at its next call, with what it has.         *)
LEMMA PcFields ==
  ASSUME EnrollInv, NEW h \in Handlers, Enrolling(h),
         NEW pc \in {"mint", "insert", "room", "verify", "finish", "abort", "undo"}
  PROVE  /\ SameRequest(h, [handler[h] EXCEPT !.pc = pc])
         /\ [handler[h] EXCEPT !.pc = pc].pc = pc
         /\ [handler[h] EXCEPT !.pc = pc].grant = handler[h].grant
<1>1. handler[h] \in HandlerRec
  BY Zenon DEF EnrollInv, EnrollTypes
<1> QED BY Zenon, <1>1 DEF HandlerRec, SameRequest, EnrollPcs, RekeyPcs

(* The same with the grant it has found or minted.                         *)
LEMMA GrantFields ==
  ASSUME EnrollInv, NEW h \in Handlers, Enrolling(h), NEW pc \in {"insert", "verify"},
         NEW g \in Grants \cup {NoGrant}
  PROVE  /\ SameRequest(h, [handler[h] EXCEPT !.pc = pc, !.grant = g])
         /\ [handler[h] EXCEPT !.pc = pc, !.grant = g].pc = pc
         /\ [handler[h] EXCEPT !.pc = pc, !.grant = g].grant = g
<1>1. handler[h] \in HandlerRec
  BY Zenon DEF EnrollInv, EnrollTypes
<1> QED BY Zenon, <1>1 DEF HandlerRec, SameRequest, EnrollPcs, RekeyPcs

(* The steps that only read the tables.                                    *)
LEMMA RefusedKeeps ==
  ASSUME EnrollInv, NEW h \in Handlers, Refused(h) \/ HandlerDies(h)
  PROVE  EnrollInv'
<1>1. Proceeds(h, Resting)
  BY Zenon, FailureProceeds, ContinuesProceeds DEF Refused, HandlerDies
<1> QED BY Zenon, <1>1, ProceedOnly, RestingFields DEF Refused, HandlerDies

LEMMA LooksKeeps ==
  ASSUME EnrollInv, NEW h \in Handlers, Looks(h)
  PROVE  EnrollInv'
<1>1. Enrolling(h) /\ UNCHANGED <<used, claimed, daemonRow, roomMeta>>
  BY Zenon DEF Looks, At, Enrolling, EnrollPcs
<1>2. /\ daemonRow.st \in {"none", "live", "kicked"} /\ daemonRow.grant \in Grants \cup {NoGrant}
      /\ handler[h].grant \in Grants \cup {NoGrant}
  BY Zenon DEF EnrollInv, EnrollTypes, HandlerRec
<1>3. CASE daemonRow.st = "none"
  <2> DEFINE r == [handler[h] EXCEPT !.pc = "mint"]
  <2>1. Proceeds(h, r)
    BY Zenon, <1>3, ContinuesProceeds DEF Looks
  <2>2. SameRequest(h, r) /\ r.pc = "mint"
    BY Zenon, <1>1, <1>2, PcFields
  <2> HIDE DEF r
  <2> QED BY Zenon, <1>1, <2>1, <2>2, ProceedOnly
<1>4. CASE daemonRow.st = "kicked"
  <2>1. Proceeds(h, Resting)
    BY ZenonT(30), <1>4, FailureProceeds DEF Looks
  <2> QED BY Zenon, <1>1, <2>1, RestingFields, ProceedOnly
<1>5. CASE daemonRow.st = "live"
  <2> DEFINE r == [handler[h] EXCEPT !.pc = "verify", !.grant = daemonRow.grant]
  <2>1. Proceeds(h, r)
    BY Zenon, <1>5, ContinuesProceeds DEF Looks
  <2>2. SameRequest(h, r) /\ r.pc = "verify" /\ r.grant = daemonRow.grant
    <3>1. \A g \in Grants \cup {NoGrant} :
            LET q == [handler[h] EXCEPT !.pc = "verify", !.grant = g]
            IN  SameRequest(h, q) /\ q.pc = "verify" /\ q.grant = g
      BY Zenon, <1>1, GrantFields
    <3> QED BY Zenon, <1>2, <3>1
  <2> HIDE DEF r
  <2> QED BY Zenon, <1>1, <1>5, <2>1, <2>2, ProceedOnly
<1> QED BY Zenon, <1>2, <1>3, <1>4, <1>5

(* The room has the token the computer asked for, and the computer learns  *)
(* of it: verifyRoomEnroll or RoomCore.enroll succeeded.                   *)
LEMMA EnrollSucceeds ==
  ASSUME EnrollInv, NEW h \in Handlers, Answers(h, TRUE), comp.waits = h,
         handler[h].pc \in {"verify", "finish", "room"},
         UNCHANGED <<used, claimed, daemonRow>>,
         roomMeta' \in [st : {"none", "row"}, token : Nat, grant : Grants \cup {NoGrant}],
         roomMeta'.st # "none", roomMeta'.token = handler[h].token,
         roomMeta'.grant = handler[h].grant
  PROVE  EnrollInv'
<1>1. Enrolling(h) /\ handler[h].token = 1 /\ handler[h].new = 0 /\ comp.relay = 0 /\ comp.pending = 1
  BY Zenon DEF EnrollInv, CarriedInv, EnrollCarries, Enrolling, EnrollPcs
<1>2. /\ comp' \in FilesRec /\ comp'.pending = 1 /\ comp'.relay = 1 /\ comp'.next = 0
      /\ comp'.waits = NoHandler /\ comp.next = 0 /\ tokens = 1
      /\ handler' = [handler EXCEPT ![h] = Resting] /\ UNCHANGED <<tokens, overlapped>>
  <2>1. comp' = [comp EXCEPT !.waits = NoHandler, !.relay = 1]
    BY <1>1 DEF Answers
  <2>2. comp.next = 0 /\ tokens = 1 /\ comp \in FilesRec
    BY Zenon, <1>1 DEF EnrollInv, EnrollTypes, FilesInv
  <2> QED BY ZenonT(30), <1>1, <2>1, <2>2 DEF FilesRec, Answers
<1>3. /\ handler' \in [Handlers -> HandlerRec] /\ handler'[h].pc = "rest"
      /\ \A k \in Handlers \ {h} : handler'[k] = handler[k]
  BY Zenon, <1>2, RestingFields DEF EnrollInv, EnrollTypes
<1>4. EnrollTypes' /\ FilesInv' /\ RoomTokenInv'
  BY <1>1, <1>2, <1>3 DEF EnrollInv, EnrollTypes, FilesInv, RoomTokenInv
<1>5. \A k \in Handlers : /\ Enrolling(k)' => k # h /\ Enrolling(k)
                          /\ ~ Rekeying(k) /\ ~ Rekeying(k)'
                          /\ At(k, "insert")' => k # h /\ At(k, "insert")
                          /\ handler'[k].pc \in {"verify", "finish", "room"} => k # h /\ Enrolling(k)
  <2>1. \A k \in Handlers : ~ Rekeying(k)
    <3>1. \A k \in Handlers : Rekeying(k) => handler[k].token \in Nat
      BY Zenon DEF EnrollInv, EnrollTypes, HandlerRec
    <3> QED BY <1>1, <3>1, CarriedFacts DEF RekeyCarries
  <2> QED BY Zenon, <1>3, <2>1 DEF Enrolling, Rekeying, At, EnrollPcs, RekeyPcs
<1>6. CarriedInv'
  <2>1. \A k \in Handlers : Enrolling(k)' => handler'[k].token = 1 /\ handler'[k].new = 0
    <3>1. \A k \in Handlers : Enrolling(k) => handler[k].token = 1 /\ handler[k].new = 0
      BY Zenon, CarriedFacts DEF EnrollCarries
    <3> QED BY <1>3, <1>5, <3>1
  <2>2. \A k \in Handlers : Enrolling(k)' => EnrollCarries(k)'
    BY Zenon, <1>2, <2>1, EnrollmentAssumption DEF EnrollCarries
  <2> QED BY Zenon, <1>5, <2>2 DEF CarriedInv
<1>7. QuotaInv'
  BY Zenon, <1>3, <1>5, QuotaStays
<1>8. OneRequestInv' /\ ReadyIsEnrolled'
  BY Zenon, <1>1, <1>2, <1>3, <1>5 DEF EnrollInv, OneRequestInv, ReadyIsEnrolled
<1> QED BY Zenon, <1>4, <1>6, <1>7, <1>8 DEF EnrollInv

LEMMA VerifiesKeeps ==
  ASSUME EnrollInv, NEW h \in Handlers, Verifies(h)
  PROVE  EnrollInv'
<1>1. Enrolling(h) /\ handler[h].pc = "verify" /\ UNCHANGED <<used, claimed, daemonRow, roomMeta>>
  BY Zenon DEF Verifies, At, Enrolling, EnrollPcs
<1>2. handler[h].grant \in Grants \cup {NoGrant}
  BY Zenon DEF EnrollInv, EnrollTypes, HandlerRec
<1>3. CASE Continues(h, [handler[h] EXCEPT !.pc = "finish"])
  <2> DEFINE r == [handler[h] EXCEPT !.pc = "finish"]
  <2>1. Proceeds(h, r)
    BY Zenon, <1>3, ContinuesProceeds
  <2>2. ~ overlapped => daemonRow.st # "none" /\ handler[h].grant = daemonRow.grant
    BY Zenon, <1>1 DEF EnrollInv, OneRequestInv
  <2>3. SameRequest(h, r) /\ r.pc = "finish" /\ r.grant = handler[h].grant
    BY Zenon, <1>1, <1>2, PcFields
  <2> HIDE DEF r
  <2> QED BY Zenon, <1>1, <2>1, <2>2, <2>3, ProceedOnly
<1>4. CASE RoomAccepts(h) /\ Answers(h, TRUE)
  <2>1. CASE comp.waits = h
    BY ZenonT(30), <1>1, <1>4, <2>1, EnrollSucceeds DEF RoomAccepts, EnrollInv, EnrollTypes
  <2>2. CASE comp.waits # h
    BY Zenon, <1>1, <1>4, <2>2, FailureProceeds, RestingFields, ProceedOnly
  <2> QED BY Zenon, <2>1, <2>2
<1> QED BY Zenon, <1>3, <1>4 DEF Verifies

(* The row of the room that an enrolment leaves.                           *)
LEMMA RoomEnrollsRow ==
  ASSUME EnrollInv, NEW h \in Handlers, Enrolling(h), RoomEnrolls(h) \/ UNCHANGED roomMeta,
         comp'.relay = comp.relay, comp'.pending = comp.pending, comp'.next = comp.next
  PROVE  /\ roomMeta' \in [st : {"none", "row"}, token : Nat, grant : Grants \cup {NoGrant}]
         /\ RoomTokenInv'
         /\ roomMeta' = roomMeta \/ roomMeta.st = "none"
<1>1. handler[h].token = 1 /\ (comp.relay = 0 => comp.pending = 1)
  BY Zenon DEF EnrollInv, CarriedInv, EnrollCarries
<1>2. handler[h].grant \in Grants \cup {NoGrant} /\ comp.relay \in Nat
  BY Zenon DEF EnrollInv, EnrollTypes, HandlerRec, FilesRec
<1>3. CASE UNCHANGED roomMeta
  BY Zenon, <1>3 DEF EnrollInv, EnrollTypes, RoomTokenInv
<1>4. CASE roomMeta.st = "none" /\ roomMeta' = [st |-> "row", token |-> 1, grant |-> handler[h].grant]
  BY <1>1, <1>2, <1>4 DEF EnrollInv, RoomTokenInv
<1> QED BY Zenon, <1>1, <1>3, <1>4 DEF RoomEnrolls

LEMMA EnrollsRoomKeeps ==
  ASSUME EnrollInv, NEW h \in Handlers, EnrollsRoom(h)
  PROVE  EnrollInv'
<1>1. /\ Enrolling(h) /\ handler[h].pc \in {"finish", "room"} /\ UNCHANGED <<used, claimed, daemonRow>>
      /\ RoomEnrolls(h) \/ UNCHANGED roomMeta
  BY ZenonT(30) DEF EnrollsRoom, At, Enrolling, EnrollPcs
<1>2. ASSUME NEW r, Proceeds(h, r), SameRequest(h, r), r.pc \in {"rest", "abort"} PROVE EnrollInv'
  <2>1. /\ RoomTokenInv'
        /\ roomMeta' \in [st : {"none", "row"}, token : Nat, grant : Grants \cup {NoGrant}]
    BY Zenon, <1>1, <1>2, RoomEnrollsRow DEF Proceeds
  <2>2. EnrollTypes'
    BY Zenon, <1>1, <1>2, <2>1, ProceedKeeps DEF EnrollInv, EnrollTypes
  <2>3. QuotaInv'
    <3>1. \A k \in Handlers : At(k, "insert")' => At(k, "insert") /\ handler'[k] = handler[k]
      BY Zenon, <1>2, ProceedKeeps DEF At
    <3> QED BY Zenon, <1>1, <3>1, QuotaStays
  <2> QED BY Zenon, <1>1, <1>2, <2>1, <2>2, <2>3, ProceedInv
<1>3. CASE Answers(h, FALSE)
  BY Zenon, <1>2, <1>3, FailureProceeds, RestingFields
<1>4. CASE Continues(h, [handler[h] EXCEPT !.pc = "abort"])
  <2> DEFINE r == [handler[h] EXCEPT !.pc = "abort"]
  <2>1. Proceeds(h, r)
    BY Zenon, <1>4, ContinuesProceeds
  <2>2. SameRequest(h, r) /\ r.pc = "abort"
    BY Zenon, <1>1, PcFields
  <2> HIDE DEF r
  <2> QED BY Zenon, <1>2, <2>1, <2>2
<1>5. CASE RoomEnrolls(h) /\ (roomMeta.st = "none" \/ RoomAccepts(h)) /\ Answers(h, TRUE)
  <2>1. CASE comp.waits # h
    BY Zenon, <1>2, <1>5, <2>1, FailureProceeds, RestingFields
  <2>2. CASE comp.waits = h
    <3>1. /\ handler[h].grant \in Grants \cup {NoGrant} /\ handler[h].token \in Nat
          /\ roomMeta \in [st : {"none", "row"}, token : Nat, grant : Grants \cup {NoGrant}]
      BY Zenon DEF EnrollInv, EnrollTypes, HandlerRec
    <3>2. /\ roomMeta' \in [st : {"none", "row"}, token : Nat, grant : Grants \cup {NoGrant}]
          /\ roomMeta'.st # "none" /\ roomMeta'.token = handler[h].token
          /\ roomMeta'.grant = handler[h].grant
      BY <1>5, <3>1 DEF RoomEnrolls, RoomAccepts
    <3> QED BY ZenonT(30), <1>1, <1>5, <2>2, <3>2, EnrollSucceeds
  <2> QED BY Zenon, <2>1, <2>2
<1> QED BY Zenon, <1>3, <1>4, <1>5 DEF EnrollsRoom

(* A grant that is minted has no slot in use.                              *)
LEMMA MintsKeeps ==
  ASSUME EnrollInv, NEW h \in Handlers, Mints(h)
  PROVE  EnrollInv'
<1>1. Enrolling(h) /\ UNCHANGED <<used, daemonRow, roomMeta>>
  BY ZenonT(30) DEF Mints, At, Enrolling, EnrollPcs
<1>2. CASE Answers(h, FALSE) /\ UNCHANGED claimed
  BY Zenon, <1>1, <1>2, FailureProceeds, RestingFields, ProceedOnly
<1>3. ASSUME NEW g \in Grants \ claimed, claimed' = claimed \cup {g}, Answers(h, FALSE)
      PROVE  EnrollInv'
  <2>1. Proceeds(h, Resting)
    BY Zenon, <1>3, FailureProceeds
  <2>2. EnrollTypes' /\ RoomTokenInv'
    BY Zenon, <1>1, <1>3, <2>1, RestingFields, ProceedKeeps DEF EnrollInv, EnrollTypes, RoomTokenInv, Proceeds
  <2>3. QuotaInv'
    <3>1. \A k \in Handlers : At(k, "insert")' => At(k, "insert") /\ handler'[k] = handler[k]
      BY Zenon, <2>1, RestingFields, ProceedKeeps DEF At
    <3> QED BY Zenon, <1>1, <1>3, <3>1, QuotaStays
  <2> QED BY Zenon, <1>1, <2>1, <2>2, <2>3, RestingFields, ProceedInv
<1>4. ASSUME NEW g \in Grants \ claimed, claimed' = claimed \cup {g},
             Continues(h, [handler[h] EXCEPT !.pc = "insert", !.grant = g])
      PROVE  EnrollInv'
  <2> DEFINE r == [handler[h] EXCEPT !.pc = "insert", !.grant = g]
  <2>1. Proceeds(h, r)
    BY Zenon, <1>4, ContinuesProceeds
  <2>2. SameRequest(h, r) /\ r.pc = "insert" /\ r.grant = g
    BY Zenon, <1>1, GrantFields
  <2> HIDE DEF r
  <2>3. EnrollTypes' /\ RoomTokenInv'
    BY Zenon, <1>1, <1>4, <2>1, <2>2, ProceedKeeps DEF EnrollInv, EnrollTypes, RoomTokenInv, Proceeds
  <2>4. QuotaInv'
    <3>1. /\ handler'[h] = r
          /\ \A k \in Handlers \ {h} : At(k, "insert")' => At(k, "insert") /\ handler'[k] = handler[k]
      BY Zenon, <2>1, <2>2, ProceedKeeps DEF At
    <3>2. \A k \in Handlers \ {h} : At(k, "insert")' => handler'[k].grant \in claimed
      BY Zenon, <3>1 DEF EnrollInv, QuotaInv
    <3>3. \A k \in Handlers : At(k, "insert")' => handler'[k].grant \in claimed' /\ used'[handler'[k].grant] = 0
      BY <1>1, <1>4, <2>2, <3>1 DEF EnrollInv, QuotaInv
    <3>4. \A k, l \in Handlers :
            At(k, "insert")' /\ At(l, "insert")' /\ handler'[k].grant = handler'[l].grant => k = l
      BY <2>2, <3>1, <3>2 DEF EnrollInv, QuotaInv
    <3> QED BY Zenon, <1>1, <1>4, <3>3, <3>4 DEF EnrollInv, QuotaInv
  <2> QED BY Zenon, <1>1, <2>1, <2>2, <2>3, <2>4, ProceedInv
<1> QED BY Zenon, <1>2, <1>3, <1>4 DEF Mints

(* The batch charges the slot and writes the row, or does neither.         *)
LEMMA InsertsKeeps ==
  ASSUME EnrollInv, NEW h \in Handlers, Inserts(h)
  PROVE  EnrollInv'
<1>1. Enrolling(h) /\ At(h, "insert") /\ UNCHANGED <<claimed, roomMeta>>
  BY Zenon DEF Inserts, At, Enrolling, EnrollPcs
<1>2. CASE Answers(h, FALSE) /\ UNCHANGED <<used, daemonRow>>
  BY Zenon, <1>1, <1>2, FailureProceeds, RestingFields, ProceedOnly
<1>3. ASSUME NEW r, Proceeds(h, r), SameRequest(h, r), r.pc \in {"rest", "room"},
             r.pc = "room" => r.grant = handler[h].grant,
             daemonRow.st = "none", used' = [used EXCEPT ![handler[h].grant] = @ + 1],
             daemonRow' = [st |-> "live", grant |-> handler[h].grant, released |-> FALSE]
      PROVE  EnrollInv'
  <2> DEFINE g == handler[h].grant
  <2>1. g \in Grants /\ g \in claimed /\ used[g] = 0
    BY Zenon, <1>1 DEF EnrollInv, EnrollTypes, QuotaInv
  <2>2. used' = [used EXCEPT ![g] = 1]
    BY <1>3, <2>1
  <2>3. daemonRow'.grant = g /\ daemonRow'.st = "live" /\ ~ daemonRow'.released
    BY Zenon, <1>3
  <2>4. EnrollTypes' /\ RoomTokenInv'
    <3>1. used' \in [Grants -> 0 .. 1]
      <4>1. used \in [Grants -> 0 .. 1] /\ 1 \in 0 .. 1
        BY DEF EnrollInv, EnrollTypes
      <4> HIDE DEF g
      <4> QED BY Zenon, <2>2, <4>1
    <3>2. daemonRow' \in [st : {"none", "live", "kicked"}, grant : Grants \cup {NoGrant},
                          released : BOOLEAN]
      BY Zenon, <1>3, <2>1
    <3> QED BY Zenon, <1>1, <1>3, <3>1, <3>2, ProceedKeeps DEF EnrollInv, EnrollTypes, RoomTokenInv, Proceeds
  <2>5. QuotaInv'
    <3>1. \A k \in Handlers : At(k, "insert")' => k # h /\ At(k, "insert") /\ handler'[k] = handler[k]
      BY Zenon, <1>3, ProceedKeeps DEF At
    <3>2. \A k \in Handlers : At(k, "insert")' => handler[k].grant # g
      BY Zenon, <1>1, <3>1 DEF EnrollInv, QuotaInv
    <3>3. \A k \in Handlers : At(k, "insert")' =>
            handler'[k].grant \in claimed' /\ used'[handler'[k].grant] = 0
      BY <1>1, <2>2, <3>1, <3>2 DEF EnrollInv, EnrollTypes, QuotaInv
    <3>4. \A k, l \in Handlers :
            At(k, "insert")' /\ At(l, "insert")' /\ handler'[k].grant = handler'[l].grant => k = l
      BY Zenon, <3>1 DEF EnrollInv, QuotaInv
    <3>5. \A x \in Grants : /\ x \notin claimed' => used'[x] = 0
                            /\ daemonRow'.grant = x /\ ~ daemonRow'.released => used'[x] = 1
      BY Zenon, <1>1, <2>1, <2>2, <2>3 DEF EnrollInv, EnrollTypes, QuotaInv
    <3> QED BY Zenon, <2>3, <3>3, <3>4, <3>5 DEF QuotaInv
  <2> QED BY Zenon, <1>1, <1>3, <2>3, <2>4, <2>5, ProceedInv
<1>4. CASE /\ daemonRow.st = "none" /\ used' = [used EXCEPT ![handler[h].grant] = @ + 1]
           /\ daemonRow' = [st |-> "live", grant |-> handler[h].grant, released |-> FALSE]
           /\ Answers(h, FALSE)
  BY Zenon, <1>3, <1>4, FailureProceeds, RestingFields
<1>5. CASE /\ daemonRow.st = "none" /\ used' = [used EXCEPT ![handler[h].grant] = @ + 1]
           /\ daemonRow' = [st |-> "live", grant |-> handler[h].grant, released |-> FALSE]
           /\ Continues(h, [handler[h] EXCEPT !.pc = "room"])
  <2> DEFINE r == [handler[h] EXCEPT !.pc = "room"]
  <2>1. Proceeds(h, r)
    BY Zenon, <1>5, ContinuesProceeds
  <2>2. SameRequest(h, r) /\ r.pc = "room" /\ r.grant = handler[h].grant
    BY Zenon, <1>1, PcFields
  <2> HIDE DEF r
  <2> QED BY Zenon, <1>3, <1>5, <2>1, <2>2
<1> QED BY Zenon, <1>2, <1>4, <1>5 DEF Inserts

LEMMA AbortsRoomKeeps ==
  ASSUME EnrollInv, NEW h \in Handlers, AbortsRoom(h)
  PROVE  EnrollInv'
<1> DEFINE r == [handler[h] EXCEPT !.pc = "undo"]
<1>1. Enrolling(h) /\ UNCHANGED <<used, claimed, daemonRow>> /\ Proceeds(h, r)
  BY Zenon, ContinuesProceeds DEF AbortsRoom, At, Enrolling, EnrollPcs
<1>2. SameRequest(h, r) /\ r.pc = "undo"
  BY Zenon, <1>1, PcFields
<1> HIDE DEF r
<1>3. RoomTokenInv' /\ roomMeta' \in [st : {"none", "row"}, token : Nat, grant : Grants \cup {NoGrant}]
  <2>1. CASE UNCHANGED roomMeta
    BY Zenon, <1>1, <2>1 DEF EnrollInv, EnrollTypes, RoomTokenInv, Proceeds
  <2>2. CASE RoomAccepts(h) /\ roomMeta' = NoMeta
    <3>1. roomMeta.token = 1
      BY Zenon, <1>1, <2>2 DEF RoomAccepts, EnrollInv, CarriedInv, EnrollCarries
    <3>2. comp.relay \in Nat /\ comp.next \in Nat
      BY Zenon DEF EnrollInv, EnrollTypes, FilesRec
    <3>3. ~ comp.relay > 1
      BY <3>1, <3>2 DEF EnrollInv, RoomTokenInv, FilesInv
    <3> QED BY <1>1, <2>2, <3>3 DEF RoomTokenInv, NoMeta, Proceeds
  <2> QED BY Zenon, <2>1, <2>2 DEF AbortsRoom
<1>4. EnrollTypes'
  BY Zenon, <1>1, <1>2, <1>3, ProceedKeeps DEF EnrollInv, EnrollTypes
<1>5. QuotaInv'
  <2>1. \A k \in Handlers : At(k, "insert")' => At(k, "insert") /\ handler'[k] = handler[k]
    BY Zenon, <1>1, <1>2, ProceedKeeps DEF At
  <2> QED BY Zenon, <1>1, <2>1, QuotaStays
<1> QED BY Zenon, <1>1, <1>2, <1>3, <1>4, <1>5, ProceedInv

(* Giving a slot back: the row of the grant held it, and no insert is      *)
(* waiting for it.                                                         *)
LEMMA SlotReturned ==
  ASSUME EnrollInv, NEW h \in Handlers, NEW r, Proceeds(h, r), SameRequest(h, r), r.pc # "insert",
         UNCHANGED claimed,
         used' = IF daemonRow.grant = handler[h].grant /\ ~ daemonRow.released
                 THEN [used EXCEPT ![daemonRow.grant] = @ - 1] ELSE used,
         daemonRow' \in [st : {"none", "live", "kicked"}, grant : Grants \cup {NoGrant},
                         released : BOOLEAN],
         \A g \in Grants : daemonRow'.grant # g \/ daemonRow'.released,
         daemonRow'.st = "none" => daemonRow' = NoDaemonRow
  PROVE  QuotaInv' /\ used' \in [Grants -> 0 .. 1]
<1> DEFINE g == daemonRow.grant
<1>1. CASE used' = used
  <2>1. \A k \in Handlers : At(k, "insert")' => At(k, "insert") /\ handler'[k] = handler[k]
    BY Zenon, ProceedKeeps DEF At
  <2> QED BY Zenon, <1>1, <2>1 DEF EnrollInv, EnrollTypes, QuotaInv
<1>2. CASE used' # used
  <2>1. ~ daemonRow.released /\ used' = [used EXCEPT ![g] = @ - 1] /\ used \in [Grants -> 0 .. 1]
    BY Zenon, <1>2 DEF EnrollInv, EnrollTypes
  <2>2. g \in Grants
    BY <1>2, <2>1
  <2>3. used[g] = 1 /\ used' = [used EXCEPT ![g] = 0]
    <3>1. used[g] = 1
      BY Zenon, <2>1, <2>2 DEF EnrollInv, QuotaInv
    <3>2. used[g] - 1 = 0
      BY <3>1
    <3>3. used' = [used EXCEPT ![g] = used[g] - 1]
      BY Zenon, <2>1
    <3> QED BY Zenon, <3>1, <3>2, <3>3
  <2>4. \A k \in Handlers : At(k, "insert")' => At(k, "insert") /\ handler'[k] = handler[k]
    BY Zenon, ProceedKeeps DEF At
  <2>5. \A x \in Grants : used[x] = 0 => used'[x] = 0
    BY Zenon, <2>1, <2>3
  <2>6. \A k \in Handlers : At(k, "insert") => handler[k].grant \in claimed /\ handler[k].grant \in Grants
    BY Zenon DEF EnrollInv, EnrollTypes, QuotaInv
  <2>7. used' \in [Grants -> 0 .. 1]
    <3> HIDE DEF g
    <3>1. 0 \in 0 .. 1
      OBVIOUS
    <3> QED BY Zenon, <2>1, <2>3, <3>1
  <2>8. \A k \in Handlers : At(k, "insert")' =>
          handler'[k].grant \in claimed' /\ used'[handler'[k].grant] = 0
    BY Zenon, <2>4, <2>5, <2>6 DEF EnrollInv, QuotaInv
  <2> QED BY ZenonT(30), <2>4, <2>5, <2>7, <2>8 DEF EnrollInv, QuotaInv
<1> QED BY Zenon, <1>1, <1>2

LEMMA CompensatesKeeps ==
  ASSUME EnrollInv, NEW h \in Handlers, Compensates(h)
  PROVE  EnrollInv'
<1>1. Enrolling(h) /\ UNCHANGED <<claimed, roomMeta>> /\ Proceeds(h, Resting)
  BY Zenon, FailureProceeds DEF Compensates, At, Enrolling, EnrollPcs
<1>2. CASE UNCHANGED <<used, daemonRow>>
  BY Zenon, <1>1, <1>2, RestingFields, ProceedOnly
<1>3. CASE ~ UNCHANGED <<used, daemonRow>>
  <2>1. /\ daemonRow' = NoDaemonRow
        /\ used' = IF daemonRow.grant = handler[h].grant /\ ~ daemonRow.released
                   THEN [used EXCEPT ![daemonRow.grant] = @ - 1] ELSE used
    BY Zenon, <1>3 DEF Compensates
  <2>2. /\ daemonRow' \in [st : {"none", "live", "kicked"}, grant : Grants \cup {NoGrant},
                           released : BOOLEAN]
        /\ \A g \in Grants : daemonRow'.grant # g
    BY Zenon, <2>1, EnrollmentAssumption DEF NoDaemonRow
  <2>3. QuotaInv' /\ used' \in [Grants -> 0 .. 1]
    BY Zenon, <1>1, <2>1, <2>2, RestingFields, SlotReturned
  <2>4. EnrollTypes' /\ RoomTokenInv'
    BY Zenon, <1>1, <2>2, <2>3, RestingFields, ProceedKeeps DEF EnrollInv, EnrollTypes, RoomTokenInv, Proceeds
  <2> QED BY Zenon, <1>1, <2>3, <2>4, RestingFields, ProceedInv
<1> QED BY Zenon, <1>2, <1>3

(* The steps of a kick: they keep the rows and the grants in them.         *)
LEMMA KickFields ==
  ASSUME EnrollInv, NEW h \in Handlers,
         NEW pc \in {"rest", "kickroom", "kickread", "kickrow"}
  PROVE  /\ SameRequest(h, [Resting EXCEPT !.pc = pc]) /\ [Resting EXCEPT !.pc = pc].pc = pc
         /\ SameRequest(h, [handler[h] EXCEPT !.pc = pc]) /\ [handler[h] EXCEPT !.pc = pc].pc = pc
<1>1. handler[h] \in HandlerRec
  BY Zenon DEF EnrollInv, EnrollTypes
<1> QED BY Zenon, <1>1 DEF HandlerRec, SameRequest, EnrollPcs, RekeyPcs, Resting

LEMMA KickStepsKeep ==
  ASSUME EnrollInv, NEW h \in Handlers, KickBegins(h) \/ KickReads(h)
  PROVE  EnrollInv'
<1>1. UNCHANGED <<used, claimed, daemonRow, roomMeta>>
  BY Zenon DEF KickBegins, KickReads
<1>2. CASE KickBegins(h)
  BY Zenon, <1>1, <1>2, ContinuesProceeds, KickFields, ProceedOnly DEF KickBegins
<1>3. CASE KickReads(h)
  <2>1. CASE daemonRow.st = "none"
    BY Zenon, <1>1, <1>3, <2>1, ContinuesProceeds, RestingFields, ProceedOnly DEF KickReads
  <2>2. CASE daemonRow.st # "none"
    <3> DEFINE r == [Resting EXCEPT !.pc = "kickrow", !.grant = daemonRow.grant]
    <3>1. Proceeds(h, r)
      BY Zenon, <1>3, <2>2, ContinuesProceeds DEF KickReads
    <3>2. SameRequest(h, r) /\ r.pc = "kickrow"
      <4>1. daemonRow.grant \in Grants \cup {NoGrant}
        BY Zenon DEF EnrollInv, EnrollTypes
      <4> QED BY Zenon, <4>1 DEF HandlerRec, SameRequest, EnrollPcs, RekeyPcs, Resting
    <3> HIDE DEF r
    <3> QED BY Zenon, <1>1, <3>1, <3>2, ProceedOnly
  <2> QED BY Zenon, <2>1, <2>2
<1> QED BY Zenon, <1>2, <1>3

LEMMA KicksRoomKeeps ==
  ASSUME EnrollInv, NEW h \in Handlers, KicksRoom(h)
  PROVE  EnrollInv'
<1>1. PICK pc \in {"rest", "kickread"} : Goes(h, pc)
  BY Zenon DEF KicksRoom
<1> DEFINE r == [handler[h] EXCEPT !.pc = pc]
<1>2. Proceeds(h, r) /\ UNCHANGED <<used, claimed, daemonRow>>
  BY Zenon, <1>1 DEF KicksRoom, Goes, Proceeds, EnrollInv, EnrollTypes
<1>3. SameRequest(h, r) /\ r.pc = pc
  BY Zenon, KickFields
<1> HIDE DEF r
<1>4. /\ roomMeta' \in [st : {"none", "row"}, token : Nat, grant : Grants \cup {NoGrant}]
      /\ roomMeta'.st = roomMeta.st /\ roomMeta'.grant = roomMeta.grant
      /\ roomMeta'.token \in {0, roomMeta.token}
  BY Zenon DEF KicksRoom, EnrollInv, EnrollTypes
<1>5. EnrollTypes'
  BY Zenon, <1>2, <1>3, <1>4, ProceedKeeps DEF EnrollInv, EnrollTypes
<1>6. RoomTokenInv'
  <2>1. RoomTokenInv /\ comp'.relay = comp.relay /\ comp'.next = comp.next /\ comp'.pending = comp.pending
    BY Zenon, <1>2 DEF EnrollInv, Proceeds
  <2> QED BY <1>4, <2>1 DEF RoomTokenInv
<1>7. QuotaInv'
  <2>1. \A k \in Handlers : At(k, "insert")' => At(k, "insert") /\ handler'[k] = handler[k]
    BY Zenon, <1>2, <1>3, ProceedKeeps DEF At
  <2> QED BY Zenon, <1>2, <2>1, QuotaStays
<1> QED BY Zenon, <1>2, <1>3, <1>4, <1>5, <1>6, <1>7, ProceedInv

LEMMA KicksRowKeeps ==
  ASSUME EnrollInv, NEW h \in Handlers, KicksRow(h)
  PROVE  EnrollInv'
<1>1. UNCHANGED <<claimed, roomMeta>> /\ Proceeds(h, Resting)
  BY Zenon, ContinuesProceeds DEF KicksRow
<1>2. CASE daemonRow.st = "none"
  BY Zenon, <1>1, <1>2, RestingFields, ProceedOnly DEF KicksRow
<1>3. CASE daemonRow.st # "none"
  <2>1. /\ daemonRow' \in [st : {"none", "live", "kicked"}, grant : Grants \cup {NoGrant},
                           released : BOOLEAN]
        /\ daemonRow'.st = "kicked" /\ daemonRow'.released /\ daemonRow'.grant = daemonRow.grant
    BY Zenon, <1>3 DEF KicksRow, EnrollInv, EnrollTypes
  <2>2. QuotaInv' /\ used' \in [Grants -> 0 .. 1]
    BY Zenon, <1>1, <1>3, <2>1, RestingFields, SlotReturned DEF KicksRow
  <2>3. EnrollTypes' /\ RoomTokenInv'
    BY Zenon, <1>1, <2>1, <2>2, RestingFields, ProceedKeeps DEF EnrollInv, EnrollTypes, RoomTokenInv, Proceeds
  <2> QED BY Zenon, <1>1, <2>1, <2>2, <2>3, RestingFields, ProceedInv
<1> QED BY Zenon, <1>2, <1>3

LEMMA RekeyLooksKeeps ==
  ASSUME EnrollInv, NEW h \in Handlers, RekeyLooks(h)
  PROVE  EnrollInv'
<1>1. Rekeying(h) /\ UNCHANGED <<used, claimed, daemonRow, roomMeta>>
  BY Zenon DEF RekeyLooks, At, Rekeying, RekeyPcs
<1>2. CASE Answers(h, FALSE)
  BY Zenon, <1>1, <1>2, FailureProceeds, RestingFields, ProceedOnly
<1>3. CASE Continues(h, [handler[h] EXCEPT !.pc = "rekey"])
  <2> DEFINE r == [handler[h] EXCEPT !.pc = "rekey"]
  <2>1. Proceeds(h, r)
    BY Zenon, <1>3, ContinuesProceeds
  <2>2. SameRequest(h, r) /\ r.pc = "rekey"
    <3>1. handler[h] \in HandlerRec
      BY Zenon DEF EnrollInv, EnrollTypes
    <3> QED BY Zenon, <1>1, <3>1 DEF HandlerRec, SameRequest, EnrollPcs, RekeyPcs
  <2> HIDE DEF r
  <2> QED BY Zenon, <1>1, <2>1, <2>2, ProceedOnly
<1> QED BY ZenonT(30), <1>2, <1>3 DEF RekeyLooks

(* What RoomCore.rekey leaves: a handler whose new token was left behind   *)
(* finds neither of its tokens in the room.                                *)
LEMMA RekeyedRow ==
  ASSUME EnrollInv, NEW h \in Handlers, Rekeys(h)
  PROVE  /\ Rekeying(h) /\ handler[h].new > 0 /\ comp.relay > 0
         /\ roomMeta' \in [st : {"none", "row"}, token : Nat, grant : Grants \cup {NoGrant}]
         /\ roomMeta'.st = roomMeta.st /\ roomMeta'.grant = roomMeta.grant
         /\ roomMeta'.token > 0 => roomMeta'.token \in {comp.relay, comp.next} /\ roomMeta.token > 0
<1>1. Rekeying(h)
  BY Zenon DEF Rekeys, At, Rekeying, RekeyPcs
<1>2. /\ handler[h].token \in Nat /\ handler[h].new \in Nat /\ roomMeta.token \in Nat
      /\ comp.relay \in Nat /\ comp.next \in Nat
      /\ roomMeta \in [st : {"none", "row"}, token : Nat, grant : Grants \cup {NoGrant}]
  BY Zenon DEF EnrollInv, EnrollTypes, HandlerRec, FilesRec
<1>3. /\ 0 < handler[h].token /\ handler[h].token < handler[h].new
      /\ handler[h].token <= comp.relay
      /\ handler[h].new = comp.next \/ handler[h].new <= comp.relay
  BY Zenon, <1>1 DEF EnrollInv, CarriedInv, RekeyCarries
<1>4. /\ roomMeta.token > 0 => roomMeta.token \in {comp.relay, comp.next}
      /\ comp.next > 0 => comp.relay <= comp.next
  BY <1>2, <1>3 DEF EnrollInv, RoomTokenInv, FilesInv
<1>5. CASE roomMeta' = roomMeta
  BY <1>1, <1>2, <1>3, <1>4, <1>5
<1>6. CASE roomMeta' # roomMeta
  <2>1. /\ roomMeta' = [roomMeta EXCEPT !.token = handler[h].new] /\ roomMeta.token > 0
        /\ roomMeta.token = handler[h].token \/ roomMeta.token = handler[h].new
    BY Zenon, <1>6 DEF Rekeys
  <2>2. handler[h].new \in {comp.relay, comp.next}
    BY <1>2, <1>3, <1>4, <2>1
  <2>3. roomMeta'.token = handler[h].new
    BY Zenon, <1>2, <2>1
  <2> QED BY <1>1, <1>2, <1>3, <2>1, <2>2, <2>3
<1> QED BY Zenon, <1>5, <1>6

LEMMA RekeysKeeps ==
  ASSUME EnrollInv, NEW h \in Handlers, Rekeys(h)
  PROVE  EnrollInv'
<1>1. UNCHANGED <<used, claimed, daemonRow>>
  BY Zenon DEF Rekeys
<1>2. CASE Proceeds(h, Resting)
  <2>1. EnrollTypes'
    BY Zenon, <1>1, <1>2, RekeyedRow, RestingFields, ProceedKeeps DEF EnrollInv, EnrollTypes
  <2>2. RoomTokenInv'
    <3>1. roomMeta.token \in Nat /\ roomMeta'.token \in Nat /\ comp.relay \in Nat
      BY Zenon, <2>1 DEF EnrollInv, EnrollTypes, FilesRec
    <3>2. RoomTokenInv /\ comp'.relay = comp.relay /\ comp'.next = comp.next /\ comp'.pending = comp.pending
      BY Zenon, <1>2 DEF EnrollInv, Proceeds
    <3>3. /\ roomMeta'.st = roomMeta.st /\ comp.relay > 0
          /\ roomMeta'.token > 0 => roomMeta'.token \in {comp.relay, comp.next} /\ roomMeta.token > 0
      BY Zenon, RekeyedRow
    <3> QED BY <3>1, <3>2, <3>3 DEF RoomTokenInv
  <2>3. QuotaInv'
    <3>1. \A k \in Handlers : At(k, "insert")' => At(k, "insert") /\ handler'[k] = handler[k]
      BY Zenon, <1>2, RestingFields, ProceedKeeps DEF At
    <3> QED BY Zenon, <1>1, <3>1, QuotaStays
  <2> QED BY Zenon, <1>1, <1>2, <2>1, <2>2, <2>3, RekeyedRow, RestingFields, ProceedInv
<1>3. CASE ~ Proceeds(h, Resting)
  <2>1. /\ Answers(h, TRUE) /\ comp.waits = h /\ roomMeta.token > 0
        /\ roomMeta' = [roomMeta EXCEPT !.token = handler[h].new]
    <3>1. (roomMeta.token > 0 /\ (roomMeta.token = handler[h].token \/ roomMeta.token = handler[h].new))
            \in BOOLEAN
      OBVIOUS
    <3>2. ~ Answers(h, FALSE)
      BY Zenon, <1>3, FailureProceeds
    <3>3. /\ roomMeta.token > 0
          /\ roomMeta.token = handler[h].token \/ roomMeta.token = handler[h].new
      BY Zenon, <3>2 DEF Rekeys
    <3>4. Answers(h, TRUE)
      BY Zenon, <3>2, <3>3 DEF Rekeys
    <3> QED BY Zenon, <1>3, <3>3, <3>4, FailureProceeds DEF Rekeys
  <2>2. /\ Rekeying(h) /\ handler[h].new > 0 /\ comp.relay > 0 /\ handler[h].new = comp.next
        /\ comp.relay <= comp.next /\ comp.next <= tokens
    <3>1. Rekeying(h) /\ handler[h].new > 0 /\ comp.relay > 0
      BY Zenon, RekeyedRow
    <3>2. handler[h].new = comp.next
      BY Zenon, <2>1, <3>1 DEF EnrollInv, CarriedInv, RekeyCarries
    <3> QED BY Zenon, <3>1, <3>2 DEF EnrollInv, FilesInv
  <2>3. /\ comp' \in FilesRec /\ comp'.pending = comp.pending /\ comp'.relay = comp.next
        /\ comp'.next = comp.next /\ comp'.waits = NoHandler
        /\ handler' = [handler EXCEPT ![h] = Resting] /\ UNCHANGED <<tokens, overlapped>>
    <3>1. comp' = [comp EXCEPT !.waits = NoHandler, !.relay = comp.next]
      BY Zenon, <2>1, <2>2 DEF Answers
    <3>2. comp \in FilesRec
      BY Zenon DEF EnrollInv, EnrollTypes
    <3> QED BY Zenon, <2>1, <3>1, <3>2 DEF FilesRec, Answers
  <2>4. /\ handler' \in [Handlers -> HandlerRec] /\ handler'[h].pc = "rest"
        /\ \A k \in Handlers \ {h} : handler'[k] = handler[k]
    BY Zenon, <2>3, RestingFields DEF EnrollInv, EnrollTypes
  <2>5. EnrollTypes'
    BY Zenon, <1>1, <2>3, <2>4, RekeyedRow DEF EnrollInv, EnrollTypes
  <2>6. comp.relay \in Nat /\ comp.next \in Nat /\ comp.pending \in Nat /\ tokens \in Nat
    BY Zenon DEF EnrollInv, EnrollTypes, FilesRec
  <2>7. FilesInv'
    BY <2>2, <2>3, <2>6 DEF EnrollInv, FilesInv
  <2>8. RoomTokenInv'
    <3>1. roomMeta'.token = comp.next /\ roomMeta'.st # "none"
      BY <2>1, <2>2 DEF EnrollInv, EnrollTypes, RoomTokenInv
    <3> QED BY <2>2, <2>3, <2>6, <3>1 DEF RoomTokenInv
  <2>9. \A k \in Handlers : /\ Enrolling(k)' => k # h /\ Enrolling(k)
                            /\ Rekeying(k)' => k # h /\ Rekeying(k)
                            /\ At(k, "insert")' => k # h /\ At(k, "insert")
                            /\ handler'[k].pc \in {"verify", "finish", "room"} => k # h
    BY Zenon, <2>4 DEF Enrolling, Rekeying, At, EnrollPcs, RekeyPcs
  <2>10. CarriedInv'
    <3>1. \A k \in Handlers : handler[k].token \in Nat /\ handler[k].new \in Nat /\ comp'.waits # k
      BY Zenon, <2>3, EnrollmentAssumption DEF EnrollInv, EnrollTypes, HandlerRec
    <3>2. ASSUME NEW k \in Handlers, Enrolling(k)' PROVE EnrollCarries(k)'
      <4>1. handler'[k] = handler[k] /\ EnrollCarries(k)
        BY Zenon, <2>4, <2>9, <3>2, CarriedFacts
      <4> QED BY <2>2, <2>3, <2>6, <3>1, <4>1 DEF EnrollCarries
    <3>3. ASSUME NEW k \in Handlers, Rekeying(k)' PROVE RekeyCarries(k)'
      <4>1. handler'[k] = handler[k] /\ RekeyCarries(k)
        BY Zenon, <2>4, <2>9, <3>3, CarriedFacts
      <4>2. handler[k].token \in Nat /\ handler[k].new \in Nat /\ comp'.waits # k
        BY Zenon, <3>1
      <4>3. comp.relay <= comp.next /\ comp'.relay = comp.next /\ comp'.next = comp.next
        BY Zenon, <2>2, <2>3, <2>6
      <4> QED BY <2>6, <4>1, <4>2, <4>3 DEF RekeyCarries
    <3> QED BY Zenon, <3>2, <3>3 DEF CarriedInv
  <2>11. QuotaInv'
    BY ZenonT(30), <1>1, <2>4, <2>9, QuotaStays
  <2>12. OneRequestInv'
    BY Zenon, <1>1, <2>2, <2>3, <2>4, <2>9 DEF EnrollInv, OneRequestInv
  <2>13. ReadyIsEnrolled'
    BY Zenon, <1>1, <2>2, <2>3, RekeyedRow DEF EnrollInv, ReadyIsEnrolled
  <2> QED BY Zenon, <2>5, <2>7, <2>8, <2>10, <2>11, <2>12, <2>13 DEF EnrollInv
<1> QED BY Zenon, <1>2, <1>3

(* The first request sends the first token; a retry sends it again.        *)
LEMMA EnrollV2Keeps ==
  ASSUME EnrollInv, NEW h \in Handlers, EnrollV2(h)
  PROVE  EnrollInv'
<1> DEFINE first == [pc |-> "look", token |-> 1, new |-> 0, grant |-> NoGrant]
<1>1. /\ comp.relay = 0 /\ comp.next = 0 /\ tokens = comp.pending /\ comp.pending \in {0, 1}
      /\ comp \in FilesRec /\ comp.waits = NoHandler /\ At(h, "rest")
  BY DEF EnrollInv, EnrollTypes, FilesInv, FilesRec, EnrollV2, Asks
<1>2. /\ tokens' = 1 /\ comp' = [comp EXCEPT !.pending = 1, !.waits = h]
      /\ handler' = [handler EXCEPT ![h] = first]
      /\ overlapped' = (overlapped \/ \E k \in Handlers : ~ At(k, "rest"))
      /\ UNCHANGED <<used, claimed, daemonRow, roomMeta>>
  <2>1. (IF comp.pending = 0 THEN tokens + 1 ELSE comp.pending) = 1
    BY <1>1
  <2>2. tokens' = 1
    BY <1>1, <2>1 DEF EnrollV2
  <2>3. comp' = [comp EXCEPT !.pending = 1, !.waits = h] /\ UNCHANGED <<used, claimed, daemonRow, roomMeta>>
    BY Zenon, <2>1 DEF EnrollV2
  <2>4. Asks(h, first)
    BY Zenon, <2>1 DEF EnrollV2
  <2> QED BY Zenon, <2>2, <2>3, <2>4 DEF Asks
<1>3. /\ comp' \in FilesRec /\ comp'.pending = 1 /\ comp'.relay = 0 /\ comp'.next = 0 /\ comp'.waits = h
  BY Zenon, <1>1, <1>2 DEF FilesRec
<1>4. /\ handler' \in [Handlers -> HandlerRec] /\ handler'[h] = first
      /\ \A k \in Handlers \ {h} : handler'[k] = handler[k]
  <2>1. first \in HandlerRec
    BY Zenon DEF HandlerRec, EnrollPcs
  <2> HIDE DEF first
  <2> QED BY Zenon, <1>2, <2>1 DEF EnrollInv, EnrollTypes
<1>5. EnrollTypes' /\ FilesInv' /\ RoomTokenInv'
  <2>1. roomMeta.token \in {0, comp.pending} /\ roomMeta.token \in Nat
    BY <1>1 DEF EnrollInv, EnrollTypes, RoomTokenInv
  <2> QED BY <1>1, <1>2, <1>3, <1>4, <2>1 DEF EnrollInv, EnrollTypes, FilesInv, RoomTokenInv
<1>6. \A k \in Handlers : ~ Rekeying(k)
  <2> SUFFICES ASSUME NEW k \in Handlers, Rekeying(k) PROVE FALSE
    OBVIOUS
  <2>1. handler[k].token \in Nat
    BY DEF EnrollInv, EnrollTypes, HandlerRec
  <2>2. 0 < handler[k].token /\ handler[k].token <= comp.relay
    BY Zenon, CarriedFacts DEF RekeyCarries
  <2> QED BY <1>1, <2>1, <2>2
<1>7. first.pc = "look" /\ first.token = 1 /\ first.new = 0
  OBVIOUS
<1> HIDE DEF first
<1>8. CarriedInv'
  <2>1. \A k \in Handlers : ~ Rekeying(k)'
    BY <1>4, <1>6, <1>7 DEF Rekeying, RekeyPcs
  <2>2. \A k \in Handlers : Enrolling(k)' => EnrollCarries(k)'
    BY Zenon, <1>3, <1>4, <1>7 DEF EnrollInv, CarriedInv, EnrollCarries, Enrolling
  <2> QED BY Zenon, <2>1, <2>2 DEF CarriedInv
<1>9. QuotaInv'
  <2>1. \A k \in Handlers : At(k, "insert")' => At(k, "insert") /\ handler'[k] = handler[k]
    BY Zenon, <1>4, <1>7 DEF At
  <2> QED BY Zenon, <1>2, <2>1, QuotaStays
<1>10. OneRequestInv'
  <2> SUFFICES ASSUME ~ overlapped' PROVE OneRequestInv'
    BY Zenon DEF OneRequestInv
  <2>1. \A k \in Handlers \ {h} : handler'[k].pc = "rest"
    BY Zenon, <1>2, <1>4 DEF At
  <2>2. \A k \in Handlers : (Enrolling(k) \/ Rekeying(k))' => k = h
    BY <2>1 DEF Enrolling, Rekeying, EnrollPcs, RekeyPcs
  <2>3. \A k \in Handlers : handler'[k].pc \notin {"verify", "finish", "room"}
    BY Zenon, <1>4, <1>7, <2>1
  <2> QED BY <1>3, <2>2, <2>3 DEF OneRequestInv
<1>11. ReadyIsEnrolled'
  BY <1>3 DEF ReadyIsEnrolled
<1> QED BY Zenon, <1>5, <1>8, <1>9, <1>10, <1>11 DEF EnrollInv

(* A rekey sends the token the files hold and a later one.                 *)
LEMMA RekeyV2Keeps ==
  ASSUME EnrollInv, NEW h \in Handlers, RekeyV2(h)
  PROVE  EnrollInv'
<1> DEFINE t == IF comp.next = 0 THEN tokens + 1 ELSE comp.next
           first == [pc |-> "rekeylook", token |-> comp.relay, new |-> t, grant |-> NoGrant]
<1>1. /\ comp \in FilesRec /\ tokens \in Nat /\ comp.relay \in Nat /\ comp.next \in Nat /\ comp.pending \in Nat
      /\ comp.relay > 0 /\ comp.waits = NoHandler /\ At(h, "rest")
      /\ comp.relay <= tokens /\ comp.next <= tokens /\ comp.pending <= 1
  BY Zenon DEF EnrollInv, EnrollTypes, FilesInv, FilesRec, RekeyV2, Asks
<1>2. t \in Nat /\ comp.relay < t /\ (comp.next = 0 \/ t = comp.next)
  BY <1>1 DEF EnrollInv, FilesInv, RekeyV2
<1>3. /\ tokens' = (IF t > tokens THEN t ELSE tokens) /\ comp' = [comp EXCEPT !.next = t, !.waits = h]
      /\ handler' = [handler EXCEPT ![h] = first]
      /\ overlapped' = (overlapped \/ \E k \in Handlers : ~ At(k, "rest"))
      /\ UNCHANGED <<used, claimed, daemonRow, roomMeta>>
  BY Zenon DEF RekeyV2, Asks
<1>4. /\ first \in HandlerRec /\ first.pc = "rekeylook" /\ first.token = comp.relay /\ first.new = t
  BY Zenon, <1>1, <1>2 DEF HandlerRec, RekeyPcs
<1> HIDE DEF first, t
<1>5. /\ comp' \in FilesRec /\ comp'.pending = comp.pending /\ comp'.relay = comp.relay
      /\ comp'.next = t /\ comp'.waits = h
  BY ZenonT(30), <1>1, <1>2, <1>3 DEF FilesRec
<1>6. /\ handler' \in [Handlers -> HandlerRec] /\ handler'[h] = first
      /\ \A k \in Handlers \ {h} : handler'[k] = handler[k]
  BY Zenon, <1>3, <1>4 DEF EnrollInv, EnrollTypes
<1>7. tokens' \in Nat /\ tokens <= tokens' /\ t <= tokens'
  BY <1>1, <1>2, <1>3
<1>8. EnrollTypes' /\ FilesInv'
  BY <1>1, <1>2, <1>3, <1>5, <1>6, <1>7 DEF EnrollInv, EnrollTypes, FilesInv
<1>9. RoomTokenInv'
  <2>1. roomMeta.token \in Nat
    BY Zenon DEF EnrollInv, EnrollTypes
  <2> QED BY <1>1, <1>2, <1>3, <1>5, <2>1 DEF EnrollInv, RoomTokenInv
<1>10. CarriedInv'
  <2>1. \A k \in Handlers : handler[k].token \in Nat /\ handler[k].new \in Nat
    BY Zenon DEF EnrollInv, EnrollTypes, HandlerRec
  <2>2. ASSUME NEW k \in Handlers, Enrolling(k)' PROVE EnrollCarries(k)'
    <3>1. k # h /\ Enrolling(k)
      BY Zenon, <1>4, <1>6, <2>2 DEF Enrolling, EnrollPcs
    <3> QED BY Zenon, <1>5, <1>6, <3>1 DEF EnrollInv, CarriedInv, EnrollCarries
  <2>3. ASSUME NEW k \in Handlers, Rekeying(k)' PROVE RekeyCarries(k)'
    <3>1. CASE k = h
      <4>1. /\ handler'[k].token = comp.relay /\ handler'[k].new = t
            /\ comp'.relay = comp.relay /\ comp'.next = t
        BY Zenon, <1>4, <1>5, <1>6, <3>1
      <4>2. comp.relay \in Nat /\ t \in Nat /\ 0 < comp.relay /\ comp.relay < t
        BY Zenon, <1>1, <1>2
      <4> QED BY <4>1, <4>2 DEF RekeyCarries
    <3>2. CASE k # h
      <4>1. Rekeying(k) /\ handler'[k] = handler[k]
        BY Zenon, <1>6, <2>3, <3>2 DEF Rekeying
      <4>2. /\ 0 < handler[k].token /\ handler[k].token < handler[k].new
            /\ handler[k].token <= comp.relay
            /\ handler[k].new = comp.next \/ handler[k].new <= comp.relay
        BY Zenon, <4>1, CarriedFacts DEF RekeyCarries
      <4>3. comp'.relay = comp.relay /\ comp'.waits # k
        BY Zenon, <1>5, <3>2
      <4>4. handler[k].new = t \/ handler[k].new <= comp.relay
        <5>1. handler[k].new \in Nat /\ handler[k].token \in Nat
          BY Zenon, <2>1
        <5> QED BY <1>1, <1>2, <4>2, <5>1
      <4> QED BY Zenon, <1>5, <4>1, <4>2, <4>3, <4>4 DEF RekeyCarries
    <3> QED BY Zenon, <3>1, <3>2
  <2> QED BY Zenon, <2>2, <2>3 DEF CarriedInv
<1>11. QuotaInv'
  <2>1. \A k \in Handlers : At(k, "insert")' => At(k, "insert") /\ handler'[k] = handler[k]
    BY Zenon, <1>4, <1>6 DEF At
  <2> QED BY Zenon, <1>3, <2>1, QuotaStays
<1>12. OneRequestInv'
  <2> SUFFICES ASSUME ~ overlapped' PROVE OneRequestInv'
    BY Zenon DEF OneRequestInv
  <2>1. \A k \in Handlers \ {h} : handler'[k].pc = "rest"
    BY Zenon, <1>3, <1>6 DEF At
  <2>2. \A k \in Handlers : /\ (Enrolling(k) \/ Rekeying(k))' => k = h
                            /\ ~ Enrolling(k)'
    BY Zenon, <1>4, <1>6, <2>1 DEF Enrolling, Rekeying, EnrollPcs, RekeyPcs
  <2>3. \A k \in Handlers : handler'[k].pc \notin {"verify", "finish", "room"}
    BY Zenon, <1>4, <1>6, <2>1
  <2> QED BY Zenon, <2>2, <2>3 DEF OneRequestInv
<1>13. ReadyIsEnrolled'
  BY Zenon, <1>3, <1>5 DEF EnrollInv, EnrollTypes, ReadyIsEnrolled
<1> QED BY Zenon, <1>8, <1>9, <1>10, <1>11, <1>12, <1>13 DEF EnrollInv

(* Clearing a journal, giving up, and steps of others.                     *)
LEMMA FilesKeep ==
  ASSUME EnrollInv, ClearJournal \/ GivesUp \/ UNCHANGED enrollVars
  PROVE  EnrollInv'
<1>1. /\ comp \in FilesRec /\ comp.relay \in Nat /\ comp.next \in Nat /\ comp.pending \in Nat
      /\ tokens \in Nat /\ roomMeta.token \in Nat
  BY Zenon DEF EnrollInv, EnrollTypes, FilesRec
<1>2. /\ comp' \in FilesRec /\ comp'.relay = comp.relay /\ comp'.waits \in {comp.waits, NoHandler}
      /\ \/ comp'.pending = comp.pending
         \/ comp'.pending = 0 /\ comp.relay = comp.pending /\ comp.relay > 0
      /\ \/ comp'.next = comp.next
         \/ comp'.next = 0 /\ comp.relay = comp.next /\ comp.waits = NoHandler
      /\ UNCHANGED <<tokens, handler, used, claimed, daemonRow, roomMeta, overlapped>>
  <2>1. CASE UNCHANGED enrollVars
    BY Zenon, <1>1, <2>1 DEF enrollVars
  <2>2. CASE GivesUp
    BY Zenon, <1>1, <2>2 DEF GivesUp, FilesRec
  <2>3. CASE ClearJournal
    <3>1. comp.waits = NoHandler /\ UNCHANGED <<tokens, handler, used, claimed, daemonRow, roomMeta, overlapped>>
      BY Zenon, <2>3 DEF ClearJournal
    <3>2. CASE comp.pending > 0 /\ comp.relay = comp.pending /\ comp' = [comp EXCEPT !.pending = 0]
      BY Zenon, <1>1, <3>1, <3>2 DEF FilesRec
    <3>3. CASE comp.next > 0 /\ comp.relay = comp.next /\ comp' = [comp EXCEPT !.next = 0]
      BY Zenon, <1>1, <3>1, <3>3 DEF FilesRec
    <3> QED BY Zenon, <2>3, <3>2, <3>3 DEF ClearJournal
  <2> QED BY Zenon, <2>1, <2>2, <2>3
<1>3. EnrollTypes' /\ FilesInv' /\ RoomTokenInv'
  <2>1. EnrollTypes'
    BY Zenon, <1>2 DEF EnrollInv, EnrollTypes
  <2>2. FilesInv'
    BY <1>1, <1>2 DEF EnrollInv, FilesInv
  <2>3. RoomTokenInv'
    BY Zenon, <1>1, <1>2 DEF EnrollInv, RoomTokenInv
  <2> QED BY Zenon, <2>1, <2>2, <2>3
<1>4. CarriedInv'
  <2>1. \A k \in Handlers : /\ handler[k].token \in Nat /\ handler[k].new \in Nat
                            /\ comp'.waits = k => comp.waits = k /\ comp'.next = comp.next
    BY <1>2, EnrollmentAssumption DEF EnrollInv, EnrollTypes, HandlerRec
  <2>2. ASSUME NEW k \in Handlers, Enrolling(k)' PROVE EnrollCarries(k)'
    <3>1. EnrollCarries(k) /\ handler' = handler
      BY Zenon, <1>2, <2>2, CarriedFacts DEF Enrolling
    <3> QED BY Zenon, <1>1, <1>2, <2>1, <3>1 DEF EnrollCarries
  <2>3. ASSUME NEW k \in Handlers, Rekeying(k)' PROVE RekeyCarries(k)'
    <3>1. RekeyCarries(k) /\ handler' = handler
      BY Zenon, <1>2, <2>3, CarriedFacts DEF Rekeying
    <3>2. /\ comp'.relay = comp.relay
          /\ comp'.next = comp.next \/ comp.relay = comp.next
          /\ comp'.waits = k => comp.waits = k /\ comp'.next = comp.next
      BY Zenon, <1>2, <2>1
    <3>3. handler[k].new \in Nat /\ comp.relay \in Nat
      BY Zenon, <1>1, <2>1
    <3> QED BY <3>1, <3>2, <3>3 DEF RekeyCarries
  <2> QED BY Zenon, <2>2, <2>3 DEF CarriedInv
<1>5. QuotaInv'
  BY Zenon, <1>2, QuotaStays DEF At
<1>6. OneRequestInv' /\ ReadyIsEnrolled'
  BY Zenon, <1>2 DEF EnrollInv, OneRequestInv, ReadyIsEnrolled, Enrolling, Rekeying
<1> QED BY Zenon, <1>3, <1>4, <1>5, <1>6 DEF EnrollInv

LEMMA EnrollInvAlways == EnrollmentSpec => []EnrollInv
<1>1. EnrollInv /\ [EnrollmentNext]_enrollVars => EnrollInv'
  BY Zenon, RefusedKeeps, LooksKeeps, VerifiesKeeps, EnrollsRoomKeeps, MintsKeeps, InsertsKeeps,
     AbortsRoomKeeps, CompensatesKeeps, KickStepsKeep, KicksRoomKeeps, KicksRowKeeps,
     RekeyLooksKeeps, RekeysKeeps, EnrollV2Keeps, RekeyV2Keeps, FilesKeep DEF EnrollmentNext
<1> QED BY <1>1, EnrollInitInv, PTL DEF EnrollmentSpec

(* Lost answers, late handlers, crashes between two saves and kicks leave  *)
(* the files, the room and D1 with one story: enroll.go and rekey.go are   *)
(* never locked out, a computer that is told it is enrolled is, and a slot *)
(* of the quota is charged once.                                           *)
THEOREM EnrollmentHoldsAlways == EnrollmentSpec => []EnrollmentHolds
<1>1. EnrollInv => EnrollmentHolds
  <2> SUFFICES ASSUME EnrollInv PROVE EnrollmentHolds
    OBVIOUS
  <2>1. TokenIsHeld
    BY DEF EnrollInv, RoomTokenInv, TokenIsHeld
  <2>2. QuotaCoversDaemon
    BY Zenon DEF EnrollInv, EnrollTypes, QuotaInv, QuotaCoversDaemon
  <2> QED BY Zenon, <2>1, <2>2 DEF EnrollInv, EnrollmentHolds
<1> QED BY <1>1, EnrollInvAlways, PTL

(* RoomCore.enroll and RoomCore.rekey never give a kicked room a token.    *)
THEOREM KickIsFinalHolds == EnrollmentSpec => KickIsFinal
<1>1. EnrollInv /\ [EnrollmentNext]_enrollVars => [KickedStaysKicked]_enrollVars
  <2> SUFFICES ASSUME EnrollInv, EnrollmentNext, roomMeta.st # "none", roomMeta.token = 0
               PROVE  roomMeta'.token = 0
    BY Zenon DEF KickedStaysKicked
  <2>1. CASE UNCHANGED roomMeta
    BY Zenon, <2>1
  <2>2. CASE \E h \in Handlers : EnrollsRoom(h)
    BY Zenon, <2>2 DEF EnrollsRoom, RoomEnrolls
  <2>3. CASE \E h \in Handlers : AbortsRoom(h)
    BY <2>3 DEF AbortsRoom, NoMeta
  <2>4. CASE \E h \in Handlers : Rekeys(h)
    BY <2>4 DEF Rekeys
  <2>5. CASE \E h \in Handlers : KicksRoom(h)
    BY Zenon, <2>5 DEF KicksRoom, EnrollInv, EnrollTypes
  <2> QED BY Zenon, <2>1, <2>2, <2>3, <2>4, <2>5
          DEF EnrollmentNext, ClearJournal, GivesUp, EnrollV2, RekeyV2, Refused, Looks, Verifies,
              Mints, Inserts, Compensates, RekeyLooks, KickBegins, KickReads, KicksRow, HandlerDies
<1> QED BY <1>1, EnrollInvAlways, PTL DEF EnrollmentSpec, KickIsFinal

==============================================================================
