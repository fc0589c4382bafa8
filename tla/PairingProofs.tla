--------------------------- MODULE PairingProofs ----------------------------
(***************************************************************************)
(* Proofs about pairing: the form of the phone and its attempts, for any   *)
(* number of attempts, pages and decisions, and the slot of the room, for  *)
(* any daemons, codes and queue.                                           *)
(*                                                                         *)
(* The handle of the form is the key to the first: whatever runs unaborted *)
(* is behind it, and while the form says it is pairing the page, the       *)
(* transport and the generation of its attempt are the current ones.  The  *)
(* order of the queue is the key to the second.                            *)
(***************************************************************************)
EXTENDS PhonePairing, RoomPairing, SequenceTheorems, TLAPS

Tries ==
  [pc: InFlight \cup {"none", "done"}, work: Nat, page: Nat, aborted: BOOLEAN,
   pass: BOOLEAN, intent: Nat]

PairTypes ==
  /\ tries \in [Attempts -> Tries]
  /\ transport \in [abort: 0..MaxTries, owner: Nat]
  /\ pairAbort \in 0..MaxTries /\ awaiting \in BOOLEAN
  /\ pairingWork \in Nat /\ pairingPage \in Nat
  /\ mintedPages \in Nat /\ intents \in Nat /\ backTo # "pairing"

(* What runs is behind the form's handle, and so is its transport.         *)
HandleInv ==
  /\ \A a \in Attempts : Handshake(a) => pairAbort = a
  /\ pairAbort # 0 /\ tries[pairAbort].pc \in InFlight =>
       transport.abort = pairAbort /\ transport.owner = tries[pairAbort].page

(* Generations grow, and a decision of the person ends one.                *)
WorkInv ==
  /\ pairPhase = "pairing" => pairingWork > 0
  /\ \A a \in Attempts :
       /\ tries[a].work <= pairingWork
       /\ tries[a].pc \in InFlight /\ tries[a].work = pairingWork => tries[a].intent = intents

(* The attempt a page began is of the page that is mounted.                *)
PageInv ==
  pairPhase = "pairing" /\ pairAbort # 0 /\ tries[pairAbort].page # 0 =>
    tries[pairAbort].work = pairingWork /\ tries[pairAbort].page = pairingPage

UnderWay ==
  pairPhase = "pairing" /\ pairAbort # 0 /\ tries[pairAbort].work = pairingWork =>
    /\ tries[pairAbort].pc \in InFlight
    /\ awaiting => tries[pairAbort].pc \in {"approval", "saving"}

PairInv == PairTypes /\ HandleInv /\ WorkInv /\ PageInv /\ UnderWay

(* Two records of an attempt that differ in its abort at most.             *)
Same(t, u) == t.pc = u.pc /\ t.work = u.work /\ t.page = u.page /\ t.intent = u.intent

(* The handle is 0 or an attempt's.                                        *)
LEMMA HandleIs ==
  ASSUME PairTypes
  PROVE  pairAbort = 0 \/ pairAbort \in Attempts
BY PairAssumption DEF PairTypes, Attempts

LEMMA ZeroIsNoAttempt == \A a \in Attempts : a \in 0..MaxTries /\ a # 0
BY PairAssumption DEF Attempts

(* Aborting an attempt stops its handshake and changes nothing else.       *)
LEMMA AbortedIs ==
  ASSUME PairTypes, NEW a \in 0..MaxTries
  PROVE  /\ Aborted(a) \in [Attempts -> Tries]
         /\ \A b \in Attempts : /\ Same(Aborted(a)[b], tries[b])
                                /\ b # a => Aborted(a)[b] = tries[b]
         /\ \A b \in Attempts : b = a =>
              ~ (Aborted(a)[b].pc \in {"intent", "ws", "approval"} /\ ~ Aborted(a)[b].aborted)
<1>0. \A b \in Attempts : tries[b] \in Tries
  BY Zenon DEF PairTypes
<1>1. CASE a = 0
  <2>1. Aborted(a) = tries
    BY Zenon, <1>1 DEF Aborted
  <2> QED BY Zenon, <1>1, <2>1, ZeroIsNoAttempt DEF PairTypes, Same
<1>2. CASE a # 0 /\ tries[a].pc = "done"
  <2>1. Aborted(a) = tries
    BY Zenon, <1>2 DEF Aborted
  <2> QED BY Zenon, <1>2, <2>1 DEF PairTypes, Same
<1>3. CASE a # 0 /\ tries[a].pc # "done"
  <2>0. a \in Attempts
    BY <1>3, PairAssumption DEF Attempts
  <2> DEFINE t == [tries[a] EXCEPT !.aborted = TRUE]
  <2>1. Aborted(a) = [tries EXCEPT ![a] = t]
    BY Zenon, <1>3 DEF Aborted
  <2>2. t \in Tries /\ Same(t, tries[a]) /\ t.aborted = TRUE
    BY <1>0, <2>0 DEF Tries, Same
  <2> HIDE DEF t
  <2>3. Aborted(a)[a] = t /\ \A b \in Attempts : b # a => Aborted(a)[b] = tries[b]
    BY Zenon, <2>0, <2>1 DEF PairTypes
  <2>4. \A b \in Attempts : Same(tries[b], tries[b])
    BY Zenon DEF Same
  <2>5. \A b \in Attempts : Same(Aborted(a)[b], tries[b])
    BY Zenon, <2>2, <2>3, <2>4
  <2>6. Aborted(a) \in [Attempts -> Tries]
    BY Zenon, <2>1, <2>2 DEF PairTypes
  <2> QED BY Zenon, <2>2, <2>3, <2>5, <2>6
<1> QED BY Zenon, <1>1, <1>2, <1>3

(* A new attempt: the one before it is aborted, and everything is its own. *)
LEMMA StartStep ==
  ASSUME PairInv, NEW a \in Attempts, NEW scanned, NEW pass \in BOOLEAN,
         claimPairingAttempt, TransportStarts(a, scanned, pass),
         intents' = intents + 1, mintedPages' = mintedPages, backTo' = backTo
  PROVE  PairInv'
<1> DEFINE t == [pc |-> IF scanned THEN "ws" ELSE "intent", work |-> pairingWork + 1,
                 page |-> pairingPage, aborted |-> FALSE, pass |-> pass,
                 intent |-> intents + 1]
<1>1. /\ pairingWork \in Nat /\ pairingWork + 1 \in Nat /\ intents + 1 \in Nat
      /\ pairingWork + 1 > 0 /\ pairingWork + 1 <= pairingWork + 1
      /\ \A x \in Nat : x <= pairingWork => x <= pairingWork + 1 /\ x # pairingWork + 1
  BY DEF PairInv, PairTypes
<1>2. /\ pairingWork' = pairingWork + 1 /\ pairingPage' = pairingPage
      /\ tries' = [Aborted(pairAbort) EXCEPT ![a] = t]
      /\ transport' = [abort |-> a, owner |-> pairingPage]
      /\ pairAbort' = a /\ awaiting' = FALSE /\ pairPhase' = "pairing"
  BY Zenon DEF claimPairingAttempt, TransportStarts
<1>3. /\ t \in Tries /\ t.work = pairingWork + 1 /\ t.page = pairingPage
      /\ t.intent = intents + 1 /\ t.pc \in {"ws", "intent"} /\ t.aborted = FALSE
  BY <1>1 DEF Tries, InFlight, PairInv, PairTypes
<1> HIDE DEF t
<1>4. pairAbort \in 0..MaxTries /\ PairTypes /\ pairingPage \in Nat
  BY Zenon DEF PairInv, PairTypes
<1>5. /\ Aborted(pairAbort) \in [Attempts -> Tries]
      /\ \A b \in Attempts : /\ Same(Aborted(pairAbort)[b], tries[b])
                             /\ b # pairAbort => Aborted(pairAbort)[b] = tries[b]
      /\ \A b \in Attempts : b = pairAbort =>
           ~ (/\ Aborted(pairAbort)[b].pc \in {"intent", "ws", "approval"}
              /\ ~ Aborted(pairAbort)[b].aborted)
  BY Zenon, <1>4, AbortedIs
<1>6. tries'[a] = t /\ \A b \in Attempts : b # a => tries'[b] = Aborted(pairAbort)[b]
  BY Zenon, <1>2, <1>5
<1>7. PairTypes'
  <2>1. tries' \in [Attempts -> Tries]
    BY Zenon, <1>2, <1>3, <1>5
  <2>2. a \in 0..MaxTries /\ a # 0
    BY Zenon, ZeroIsNoAttempt
  <2>3. transport' \in [abort: 0..MaxTries, owner: Nat]
    BY Zenon, <1>2, <1>4, <2>2
  <2> QED BY Zenon, <1>1, <1>2, <2>1, <2>2, <2>3 DEF PairInv, PairTypes
<1>8. HandleInv'
  <2>1. \A b \in Attempts : Handshake(b)' => b = a
    BY Zenon, <1>5, <1>6 DEF PairInv, HandleInv, Handshake
  <2>2. transport'.abort = a /\ transport'.owner = pairingPage
    BY Zenon, <1>2
  <2> QED BY Zenon, <1>2, <1>3, <1>6, <2>1, <2>2 DEF HandleInv
<1>9. WorkInv'
  <2>1. \A b \in Attempts : tries[b].work \in Nat /\ tries[b].work <= pairingWork
    BY DEF PairInv, PairTypes, WorkInv, Tries
  <2>2. \A b \in Attempts : b # a => tries'[b].work = tries[b].work
    BY Zenon, <1>5, <1>6 DEF Same
  <2> QED BY Zenon, <1>1, <1>2, <1>3, <1>6, <2>1, <2>2 DEF WorkInv
<1>10. PageInv' /\ UnderWay'
  BY Zenon, <1>2, <1>3, <1>6 DEF PageInv, UnderWay, InFlight
<1> QED BY Zenon, <1>7, <1>8, <1>9, <1>10 DEF PairInv

(* Steps that start and end no attempt: handshakes may be aborted, the     *)
(* handle given up once nothing behind it runs, and a generation retired   *)
(* with the attempt that the form shows.                                   *)
LEMMA QuietStep ==
  ASSUME PairInv, tries' \in [Attempts -> Tries],
         \A b \in Attempts : Same(tries'[b], tries[b]) /\ (Handshake(b)' => Handshake(b)),
         \/ pairAbort' = pairAbort
         \/ pairAbort' = 0 /\ \A b \in Attempts : ~ Handshake(b)',
         transport' \in [abort: 0..MaxTries, owner: Nat],
         pairAbort' # 0 /\ tries[pairAbort].pc \in InFlight => transport' = transport,
         awaiting' \in BOOLEAN, awaiting' => awaiting,
         pairPhase' = "pairing" => pairPhase = "pairing", backTo' # "pairing",
         pairingPage' \in Nat, mintedPages' \in Nat, intents' \in Nat, pairingWork' \in Nat,
         \/ pairingWork' = pairingWork /\ intents' = intents
         \/ pairingWork' > pairingWork,
         pairPhase' = "pairing" /\ pairAbort' # 0 /\ tries[pairAbort].page # 0 =>
           pairingWork' = pairingWork /\ pairingPage' = pairingPage
  PROVE  PairInv'
<1>1. /\ pairingWork \in Nat /\ \A b \in Attempts : tries[b].work \in Nat
      /\ 0 \in 0..MaxTries
  BY PairAssumption DEF PairInv, PairTypes, Tries
<1>2. pairAbort' = pairAbort \/ pairAbort' = 0
  OBVIOUS
<1>3. PairTypes'
  BY Zenon, <1>1, <1>2 DEF PairInv, PairTypes
<1>4. pairAbort' # 0 => pairAbort' = pairAbort /\ pairAbort \in Attempts
  BY Zenon, <1>2, HandleIs DEF PairInv
<1>5. HandleInv'
  <2>1. \A b \in Attempts : Handshake(b)' => pairAbort' = b
    BY Zenon DEF PairInv, HandleInv
  <2> QED BY Zenon, <1>4, <2>1 DEF PairInv, HandleInv, Same
<1>6. WorkInv'
  <2>2. \A b \in Attempts : tries'[b].work = tries[b].work /\ tries'[b].pc = tries[b].pc
                            /\ tries'[b].intent = tries[b].intent
    BY Zenon DEF Same
  <2>3. CASE pairingWork' = pairingWork /\ intents' = intents
    BY Zenon, <2>2, <2>3 DEF PairInv, WorkInv
  <2>4. CASE pairingWork' > pairingWork
    <3>1. \A b \in Attempts : tries[b].work <= pairingWork
      BY Zenon DEF PairInv, WorkInv
    <3>2. /\ pairingWork' > 0
          /\ \A b \in Attempts : tries[b].work <= pairingWork' /\ tries[b].work # pairingWork'
      BY <1>1, <2>4, <3>1
    <3> QED BY Zenon, <2>2, <3>2 DEF WorkInv
  <2> QED BY Zenon, <2>3, <2>4
<1>7. PageInv'
  BY Zenon, <1>4 DEF PairInv, PageInv, Same
<1>8. UnderWay'
  <2>1. SUFFICES ASSUME pairPhase' = "pairing", pairAbort' # 0,
                        tries'[pairAbort].work = pairingWork'
                 PROVE  /\ tries'[pairAbort].pc \in InFlight
                        /\ awaiting' => tries'[pairAbort].pc \in {"approval", "saving"}
    BY Zenon, <1>4 DEF UnderWay
  <2>2. pairAbort \in Attempts /\ Same(tries'[pairAbort], tries[pairAbort])
    BY Zenon, <1>4, <2>1
  <2>3. tries[pairAbort].work = pairingWork'
    BY Zenon, <2>1, <2>2 DEF Same
  <2>4. tries[pairAbort].work <= pairingWork
    BY Zenon, <2>2 DEF PairInv, WorkInv
  <2>5. pairingWork' = pairingWork
    BY <1>1, <2>3, <2>4
  <2> QED BY Zenon, <1>4, <2>1, <2>2, <2>3, <2>5 DEF PairInv, UnderWay, Same
<1> QED BY Zenon, <1>3, <1>5, <1>6, <1>7, <1>8 DEF PairInv

(* The form and its page: pages come and go, the person retires an         *)
(* attempt or looks elsewhere.                                             *)
LEMMA DisposedIs ==
  ASSUME PairInv, Disposed(pairingPage)
  PROVE  /\ tries' \in [Attempts -> Tries]
         /\ \A b \in Attempts : Same(tries'[b], tries[b]) /\ (Handshake(b)' => Handshake(b))
         /\ \/ pairAbort' = pairAbort
            \/ pairAbort' = 0 /\ \A b \in Attempts : ~ Handshake(b)'
         /\ transport' \in [abort: 0..MaxTries, owner: Nat]
         /\ pairAbort' # 0 /\ tries[pairAbort].pc \in InFlight => transport' = transport
         /\ pairAbort' # 0 /\ tries[pairAbort].pc \in InFlight =>
              tries[pairAbort].page # pairingPage
<1> DEFINE mine == transport.owner = pairingPage /\ transport.abort # 0
<1>1. /\ transport' = IF mine THEN NoTransport ELSE transport
      /\ tries' = IF mine THEN Aborted(transport.abort) ELSE tries
      /\ pairAbort' = IF mine /\ pairAbort = transport.abort THEN 0 ELSE pairAbort
  BY Zenon DEF Disposed
<1>2. PairTypes /\ HandleInv /\ transport.abort \in 0..MaxTries
  BY DEF PairInv, PairTypes
<1>3. NoTransport \in [abort: 0..MaxTries, owner: Nat]
  BY PairAssumption DEF NoTransport
<1>4. CASE ~ mine
  <2>1. tries' = tries /\ transport' = transport /\ pairAbort' = pairAbort
    BY Zenon, <1>1, <1>4
  <2>2. \A b \in Attempts : Same(tries'[b], tries[b]) /\ (Handshake(b)' => Handshake(b))
    BY Zenon, <2>1 DEF Same, Handshake
  <2>3. pairAbort # 0 /\ tries[pairAbort].pc \in InFlight =>
          tries[pairAbort].page # pairingPage
    BY Zenon, <1>2, <1>4 DEF HandleInv
  <2> QED BY Zenon, <1>2, <2>1, <2>2, <2>3 DEF PairTypes
<1>5. CASE mine
  <2> DEFINE h == transport.abort
  <2>1. tries' = Aborted(h) /\ transport' = NoTransport
        /\ pairAbort' = IF pairAbort = h THEN 0 ELSE pairAbort
    BY Zenon, <1>1, <1>5
  <2>2. /\ Aborted(h) \in [Attempts -> Tries]
        /\ \A b \in Attempts : /\ Same(Aborted(h)[b], tries[b])
                               /\ b # h => Aborted(h)[b] = tries[b]
        /\ \A b \in Attempts : b = h =>
             ~ (Aborted(h)[b].pc \in {"intent", "ws", "approval"} /\ ~ Aborted(h)[b].aborted)
    BY Zenon, <1>2, AbortedIs
  <2>3. \A b \in Attempts : Handshake(b)' => Handshake(b) /\ b # h
    BY Zenon, <2>1, <2>2 DEF Handshake
  <2>4. pairAbort = h => \A b \in Attempts : ~ Handshake(b)'
    BY Zenon, <1>2, <2>3 DEF HandleInv
  <2>5. pairAbort' # 0 => ~ (tries[pairAbort].pc \in InFlight)
    BY Zenon, <1>2, <2>1 DEF HandleInv
  <2> QED BY Zenon, <1>3, <2>1, <2>2, <2>3, <2>4, <2>5
<1> QED BY Zenon, <1>4, <1>5

LEMMA PageSteps ==
  ASSUME PairInv, claimPairingPage \/ releasePairingPage \/ ReplayPage
  PROVE  PairInv'
<1>1. /\ PairTypes /\ HandleInv /\ PageInv /\ UnderWay /\ pairingWork + 1 > pairingWork
      /\ pairingWork + 1 \in Nat /\ mintedPages + 1 \in Nat /\ intents + 1 \in Nat
      /\ 0 \in Nat
  BY DEF PairInv, PairTypes
<1>2. pairPhase = "pairing" /\ pairAbort # 0 /\ tries[pairAbort].page # 0 =>
        /\ tries[pairAbort].page = pairingPage /\ tries[pairAbort].pc \in InFlight
  BY Zenon, <1>1 DEF PageInv, UnderWay
<1>3. \A b \in Attempts : Same(tries[b], tries[b])
  BY Zenon DEF Same
<1>4. CASE claimPairingPage
  <2>1. /\ pairingPage = 0 /\ pairingPage' = mintedPages + 1 /\ mintedPages' = mintedPages + 1
        /\ UNCHANGED <<pairingWork, transport, pairAbort, awaiting, pairPhase, backTo, tries,
                       intents>>
    BY Zenon, <1>4 DEF claimPairingPage, formVars
  <2>2. \A b \in Attempts : Handshake(b)' => Handshake(b)
    BY Zenon, <2>1 DEF Handshake
  <2> QED BY Zenon, <1>1, <1>2, <1>3, <2>1, <2>2, QuietStep DEF PairTypes
<1>5. CASE releasePairingPage
  <2>1. /\ pairingWork' = pairingWork + 1 /\ pairingPage' = 0 /\ intents' = intents + 1
        /\ UNCHANGED <<awaiting, pairPhase, backTo, mintedPages>> /\ Disposed(pairingPage)
    BY Zenon, <1>5 DEF releasePairingPage, Decided
  <2>2. ~ (pairPhase' = "pairing" /\ pairAbort' # 0 /\ tries[pairAbort].page # 0)
    BY Zenon, <1>2, <2>1, DisposedIs
  <2> QED BY Zenon, <1>1, <2>1, <2>2, DisposedIs, QuietStep DEF PairTypes
<1>6. CASE ReplayPage
  <2>1. /\ UNCHANGED <<pairingWork, pairingPage, intents, awaiting, pairPhase, backTo,
                       mintedPages>>
        /\ Disposed(pairingPage)
    BY Zenon, <1>6 DEF ReplayPage
  <2> QED BY Zenon, <1>1, <2>1, DisposedIs, QuietStep DEF PairTypes
<1> QED BY Zenon, <1>4, <1>5, <1>6

LEMMA FormSteps ==
  ASSUME PairInv,
         \/ rejectLocal \/ scanPairCode \/ ScanDropped \/ cancelPairing
         \/ leaveAddComputer \/ openAddComputer \/ resumeComputer
         \/ setAccountGate \/ syncAndLand
  PROVE  PairInv'
<1>1. /\ PairTypes /\ HandleInv /\ pairAbort \in 0..MaxTries
      /\ pairingWork + 1 > pairingWork /\ pairingWork + 2 > pairingWork
      /\ pairingWork + 1 \in Nat /\ pairingWork + 2 \in Nat /\ intents + 1 \in Nat
  BY DEF PairInv, PairTypes
<1>2. \A b \in Attempts : Same(tries[b], tries[b])
  BY Zenon DEF Same
<1>3. tries' = tries => \A b \in Attempts : Handshake(b)' => Handshake(b)
  BY Zenon DEF Handshake
<1>4. ASSUME tries' = Aborted(pairAbort)
      PROVE  /\ tries' \in [Attempts -> Tries]
             /\ \A b \in Attempts : Same(tries'[b], tries[b]) /\ ~ Handshake(b)'
  <2>1. /\ Aborted(pairAbort) \in [Attempts -> Tries]
        /\ \A b \in Attempts : /\ Same(Aborted(pairAbort)[b], tries[b])
                               /\ b # pairAbort => Aborted(pairAbort)[b] = tries[b]
        /\ \A b \in Attempts : b = pairAbort =>
             ~ (/\ Aborted(pairAbort)[b].pc \in {"intent", "ws", "approval"}
                /\ ~ Aborted(pairAbort)[b].aborted)
    BY Zenon, <1>1, AbortedIs
  <2> QED BY Zenon, <1>1, <1>4, <2>1 DEF HandleInv, Handshake
<1>5. CASE rejectLocal
  <2>1. /\ pairingWork' = pairingWork + 1 /\ intents' = intents + 1
        /\ pairPhase' = "connect"
        /\ UNCHANGED <<pairingPage, mintedPages, transport, pairAbort, awaiting, backTo, tries>>
    BY Zenon, <1>5 DEF rejectLocal, claimPairingAttempt, Decided
  <2> QED BY Zenon, <1>1, <1>2, <1>3, <2>1, QuietStep DEF PairTypes
<1>6. CASE scanPairCode \/ ScanDropped \/ setAccountGate
  <2>1. UNCHANGED <<pairingWork, pairingPage, intents, mintedPages, transport, pairAbort,
                    awaiting, pairPhase, backTo, tries>>
    BY Zenon, <1>6 DEF scanPairCode, ScanDropped, setAccountGate, workVars, formVars
  <2> QED BY Zenon, <1>1, <1>2, <1>3, <2>1, QuietStep DEF PairTypes
<1>7. CASE resumeComputer \/ syncAndLand
  <2>1. /\ pairPhase' # "pairing" /\ backTo' # "pairing"
        /\ UNCHANGED <<pairingWork, pairingPage, intents, mintedPages, transport, pairAbort,
                       awaiting, tries>>
    BY Zenon, <1>1, <1>7 DEF resumeComputer, syncAndLand, workVars, PairTypes
  <2> QED BY Zenon, <1>1, <1>2, <1>3, <2>1, QuietStep DEF PairTypes
<1>8. CASE openAddComputer
  <2>1. /\ pairPhase' = "connect" /\ tries' = Aborted(pairAbort)
        /\ UNCHANGED <<pairingWork, pairingPage, intents, mintedPages, transport, pairAbort,
                       awaiting, backTo>>
    BY Zenon, <1>8 DEF openAddComputer, workVars
  <2> QED BY Zenon, <1>1, <1>4, <2>1, QuietStep DEF PairTypes
<1>9. CASE leaveAddComputer
  <2>1. /\ pairPhase' = backTo /\ tries' = Aborted(pairAbort)
        /\ pairingWork' = pairingWork + 2 /\ intents' = intents + 1
        /\ UNCHANGED <<pairingPage, mintedPages, transport, pairAbort, awaiting, backTo>>
    BY Zenon, <1>9 DEF leaveAddComputer, retirePairingWork, Decided
  <2> QED BY Zenon, <1>1, <1>4, <2>1, QuietStep DEF PairTypes
<1>10. CASE cancelPairing
  <2>1. /\ tries' = Aborted(pairAbort) /\ pairAbort' = 0 /\ awaiting' = FALSE
        /\ transport' = NoTransport \/ transport' = transport
        /\ pairingWork' = pairingWork + 1 \/ pairingWork' = pairingWork + 2
        /\ intents' = intents + 1 /\ pairPhase = "pairing"
        /\ UNCHANGED <<pairingPage, mintedPages, backTo>>
    BY Zenon, <1>10 DEF cancelPairing, LandedCancelled, TransportWithout,
                        retirePairingWork, Decided
  <2>2. transport' \in [abort: 0..MaxTries, owner: Nat]
    BY <1>1, <2>1, PairAssumption DEF NoTransport, PairTypes
  <2> QED BY Zenon, <1>1, <1>4, <2>1, <2>2, QuietStep DEF PairTypes
<1> QED BY Zenon, <1>5, <1>6, <1>7, <1>8, <1>9, <1>10

(* An attempt ends.                                                        *)
LEMMA EndStep ==
  ASSUME PairInv, NEW a \in Attempts, AttemptOver(a),
         pairAbort' = pairAbort \/ (pairAbort' = 0 /\ pairAbort = a),
         transport' = transport \/ transport' = TransportWithout(a),
         awaiting' \in BOOLEAN, awaiting' => awaiting,
         pairPhase' = "pairing" => pairPhase = "pairing",
         UNCHANGED <<pairingPage, mintedPages, intents, backTo>>,
         \/ pairingWork' = pairingWork
         \/ pairingWork' = pairingWork + 1 /\ pairAbort' = 0
  PROVE  PairInv'
<1>1. /\ PairTypes /\ HandleInv /\ WorkInv /\ PageInv /\ UnderWay
  BY Zenon DEF PairInv
<1>2. /\ pairingWork \in Nat /\ pairingWork + 1 \in Nat /\ 0 \in 0..MaxTries
      /\ \A b \in Attempts : tries[b].work \in Nat
  BY <1>1, PairAssumption DEF PairTypes, Tries
<1>3. Over \in Tries /\ Over.pc = "done" /\ Over.work = 0 /\ Over.page = 0
  BY DEF Over, NoTry, Tries, InFlight
<1>4. /\ tries' = [tries EXCEPT ![a] = Over] /\ tries'[a] = Over
      /\ \A b \in Attempts : b # a => tries'[b] = tries[b]
  BY Zenon, <1>1 DEF AttemptOver, PairTypes
<1>5. NoTransport \in [abort: 0..MaxTries, owner: Nat]
  BY PairAssumption DEF NoTransport
<1>6. PairTypes'
  <2>1. tries' \in [Attempts -> Tries]
    BY Zenon, <1>1, <1>3, <1>4 DEF PairTypes
  <2>2. transport' \in [abort: 0..MaxTries, owner: Nat]
    BY Zenon, <1>1, <1>5 DEF PairTypes, TransportWithout
  <2>3. pairAbort' \in 0..MaxTries /\ pairingWork' \in Nat
    BY Zenon, <1>1, <1>2 DEF PairTypes
  <2> QED BY Zenon, <1>1, <2>1, <2>2, <2>3 DEF PairTypes
<1>7. Over.pc \notin InFlight /\ Over.pc \notin {"intent", "ws", "approval"}
  BY Zenon, <1>3 DEF InFlight
<1>8. HandleInv'
  <2>1. \A b \in Attempts : Handshake(b)' => b # a /\ Handshake(b)
    BY Zenon, <1>4, <1>7 DEF Handshake
  <2>2. \A b \in Attempts : Handshake(b)' => pairAbort' = b
    BY Zenon, <1>1, <2>1 DEF HandleInv
  <2>3. ASSUME pairAbort' # 0, tries'[pairAbort'].pc \in InFlight
        PROVE  transport'.abort = pairAbort' /\ transport'.owner = tries'[pairAbort'].page
    <3>1. pairAbort' = pairAbort /\ pairAbort \in Attempts
      BY Zenon, <1>1, <2>3, HandleIs
    <3>2. pairAbort # a /\ tries'[pairAbort] = tries[pairAbort]
      BY Zenon, <1>4, <1>7, <2>3, <3>1
    <3>3. transport.abort = pairAbort /\ transport.owner = tries[pairAbort].page
      BY Zenon, <1>1, <2>3, <3>1, <3>2 DEF HandleInv
    <3>4. transport' = transport
      BY Zenon, <3>2, <3>3 DEF TransportWithout
    <3> QED BY Zenon, <3>1, <3>2, <3>3, <3>4
  <2> QED BY Zenon, <2>2, <2>3 DEF HandleInv
<1>9. WorkInv'
  <2>1. pairPhase' = "pairing" => pairingWork' > 0
    BY <1>1, <1>2 DEF WorkInv
  <2>2. \A b \in Attempts : tries'[b].work <= pairingWork'
    <3>1. \A b \in Attempts : tries'[b].work = tries[b].work \/ tries'[b].work = 0
      BY Zenon, <1>3, <1>4
    <3>2. \A b \in Attempts : tries[b].work <= pairingWork
      BY Zenon, <1>1 DEF WorkInv
    <3> QED BY <1>2, <3>1, <3>2
  <2>3. ASSUME NEW b \in Attempts, tries'[b].pc \in InFlight, tries'[b].work = pairingWork'
        PROVE  tries'[b].intent = intents'
    <3>1. b # a /\ tries'[b] = tries[b]
      BY Zenon, <1>4, <1>7, <2>3
    <3>2. pairingWork' = pairingWork
      <4>1. tries[b].work <= pairingWork /\ tries[b].work = pairingWork'
        BY Zenon, <1>1, <2>3, <3>1 DEF WorkInv
      <4> QED BY <1>2, <4>1
    <3> QED BY Zenon, <1>1, <2>3, <3>1, <3>2 DEF WorkInv
  <2> QED BY Zenon, <2>1, <2>2, <2>3 DEF WorkInv
<1>10. PageInv' /\ UnderWay'
  <2>1. ASSUME pairPhase' = "pairing", pairAbort' # 0
        PROVE  /\ pairAbort' = pairAbort /\ pairAbort \in Attempts /\ pairingWork' = pairingWork
               /\ pairPhase = "pairing" /\ pairingWork # 0
    <3>1. pairingWork > 0
      BY Zenon, <1>1, <2>1 DEF WorkInv
    <3>2. pairingWork # 0
      BY <1>2, <3>1
    <3> QED BY Zenon, <1>1, <2>1, <3>2, HandleIs
  <2>2. PageInv'
    BY Zenon, <1>1, <1>3, <1>4, <2>1 DEF PageInv
  <2>3. UnderWay'
    BY Zenon, <1>1, <1>3, <1>4, <2>1 DEF UnderWay
  <2> QED BY Zenon, <2>2, <2>3
<1> QED BY Zenon, <1>6, <1>8, <1>9, <1>10 DEF PairInv

LEMMA RejectedStep ==
  ASSUME PairInv, NEW a \in Attempts, NEW c \in BOOLEAN, Rejected(a, c)
  PROVE  PairInv'
<1>1. AttemptOver(a) /\ UNCHANGED <<mintedPages, intents>> /\ PairTypes
  BY Zenon DEF Rejected, PairInv
<1>2. CASE ~ pairingErrorStillOwned(a)
  <2>1. UNCHANGED <<pairingWork, pairingPage, transport, pairAbort, awaiting, pairPhase, backTo>>
    BY Zenon, <1>2 DEF Rejected, workVars, formVars
  <2> QED BY Zenon, <1>1, <2>1, EndStep DEF PairTypes
<1>3. CASE pairingErrorStillOwned(a) /\ pairAbort # a
  <2>1. /\ awaiting' = (awaiting /\ c)
        /\ UNCHANGED <<pairingWork, pairingPage, transport, pairAbort, pairPhase, backTo>>
    BY Zenon, <1>3 DEF Rejected, workVars
  <2> QED BY Zenon, <1>1, <2>1, EndStep DEF PairTypes
<1>4. CASE pairingErrorStillOwned(a) /\ pairAbort = a /\ c
  <2>1. CancelledLanding(a) /\ a # 0
    BY Zenon, <1>4, ZeroIsNoAttempt DEF Rejected
  <2>2. /\ awaiting' = FALSE /\ pairAbort' = 0 /\ transport' = TransportWithout(a)
        /\ backTo' = backTo /\ pairingPage' = pairingPage
        /\ pairingWork' = pairingWork \/ pairingWork' = pairingWork + 1
        /\ pairPhase' \in {pairPhase, backTo, "connect"}
    BY Zenon, <2>1 DEF CancelledLanding, LandedCancelled, retirePairingWork, workVars
  <2> QED BY Zenon, <1>1, <1>4, <2>2, EndStep DEF PairTypes
<1>5. CASE pairingErrorStillOwned(a) /\ pairAbort = a /\ ~ c
  <2>1. FailedLanding(a)
    BY Zenon, <1>5 DEF Rejected
  <2>2. /\ awaiting' = FALSE /\ pairAbort' = 0 /\ transport' = TransportWithout(a)
        /\ UNCHANGED <<backTo, pairingPage, pairingWork>>
        /\ pairPhase' \in {pairPhase, "connect"}
    BY Zenon, <2>1 DEF FailedLanding, workVars
  <2> QED BY Zenon, <1>1, <1>5, <2>2, EndStep DEF PairTypes
<1> QED BY Zenon, <1>2, <1>3, <1>4, <1>5

(* An attempt moves on: it stays behind the handle, and the wait it shows  *)
(* is its own.                                                             *)
LEMMA AdvanceStep ==
  ASSUME PairInv, NEW a \in Attempts, NEW pc \in {"ws", "approval", "saving"},
         tries' = [tries EXCEPT ![a].pc = pc],
         \/ tries[a].pc = "intent" /\ pc = "ws" /\ awaiting' = awaiting
         \/ tries[a].pc = "ws" /\ pc = "approval" /\ awaiting' \in BOOLEAN
         \/ tries[a].pc = "approval" /\ pc = "saving" /\ awaiting' = awaiting,
         ~ tries[a].aborted,
         UNCHANGED <<workVars, transport, pairAbort, pairPhase, backTo, mintedPages, intents>>
  PROVE  PairInv'
<1>1. /\ PairTypes /\ HandleInv /\ WorkInv /\ PageInv /\ UnderWay
  BY Zenon DEF PairInv
<1>2. tries[a] \in Tries
  BY Zenon, <1>1 DEF PairTypes
<1> DEFINE t == [tries[a] EXCEPT !.pc = pc]
<1>3. /\ t \in Tries /\ t.pc = pc /\ t.work = tries[a].work /\ t.page = tries[a].page
      /\ t.intent = tries[a].intent /\ t.aborted = tries[a].aborted
  BY <1>2 DEF Tries, InFlight
<1>4. tries' = [tries EXCEPT ![a] = t]
  BY Zenon
<1> HIDE DEF t
<1>5. tries'[a] = t /\ \A b \in Attempts : b # a => tries'[b] = tries[b]
  BY Zenon, <1>1, <1>4 DEF PairTypes
<1>6. tries[a].pc \in InFlight /\ pc \in InFlight /\ Handshake(a)
  BY Zenon DEF InFlight, Handshake
<1>7. pairAbort = a /\ a # 0
  BY Zenon, <1>1, <1>6, ZeroIsNoAttempt DEF HandleInv
<1>8. PairTypes'
  <2>1. tries' \in [Attempts -> Tries]
    BY Zenon, <1>1, <1>3, <1>4 DEF PairTypes
  <2> QED BY Zenon, <1>1, <2>1 DEF PairTypes, workVars
<1>9. HandleInv'
  <2>1. \A b \in Attempts : Handshake(b)' => b = a
    BY Zenon, <1>1, <1>5, <1>7 DEF HandleInv, Handshake
  <2>2. transport.abort = a /\ transport.owner = tries[a].page
    BY Zenon, <1>1, <1>6, <1>7 DEF HandleInv
  <2> QED BY Zenon, <1>3, <1>5, <1>7, <2>1, <2>2 DEF HandleInv
<1>10. WorkInv'
  BY Zenon, <1>1, <1>3, <1>5, <1>6 DEF WorkInv, workVars
<1>11. PageInv'
  BY Zenon, <1>1, <1>3, <1>5, <1>7 DEF PageInv, workVars
<1>12. UnderWay'
  BY Zenon, <1>1, <1>3, <1>5, <1>6, <1>7 DEF UnderWay, workVars
<1> QED BY Zenon, <1>8, <1>9, <1>10, <1>11, <1>12 DEF PairInv

LEMMA AttemptSteps ==
  ASSUME PairInv, NEW a \in Attempts,
         \/ beginPairing(a) \/ beginPasswordPairing(a) \/ ScanFinds(a)
         \/ AttemptRejects(a) \/ requestPairIntent(a) \/ onAwaitApproval(a)
         \/ pairOverWS(a) \/ saveCredential(a) \/ SaveFails(a)
  PROVE  PairInv'
<1>1. PairTypes /\ tries[a].aborted \in BOOLEAN
  BY DEF PairInv, PairTypes, Tries
<1>3. CASE beginPairing(a)
  <2>1. /\ claimPairingAttempt /\ TransportStarts(a, fragment, FALSE)
        /\ intents' = intents + 1 /\ mintedPages' = mintedPages /\ backTo' = backTo
    BY Zenon, <1>3 DEF beginPairing, Decided
  <2> QED BY Zenon, <1>1, <2>1, StartStep DEF PairTypes
<1>4. CASE beginPasswordPairing(a)
  <2>1. /\ claimPairingAttempt /\ TransportStarts(a, FALSE, TRUE)
        /\ intents' = intents + 1 /\ mintedPages' = mintedPages /\ backTo' = backTo
    BY Zenon, <1>4 DEF beginPasswordPairing, Decided
  <2> QED BY Zenon, <2>1, StartStep
<1>5. CASE ScanFinds(a)
  <2>1. /\ claimPairingAttempt /\ TransportStarts(a, TRUE, FALSE)
        /\ intents' = intents + 1 /\ mintedPages' = mintedPages /\ backTo' = backTo
    BY Zenon, <1>5 DEF ScanFinds, Decided
  <2> QED BY Zenon, <2>1, StartStep
<1>6. CASE AttemptRejects(a) \/ SaveFails(a)
  BY Zenon, <1>1, <1>6, RejectedStep DEF AttemptRejects, SaveFails
<1>7. CASE requestPairIntent(a)
  <2>1. CASE Rejected(a, TRUE)
    BY Zenon, <2>1, RejectedStep
  <2>2. CASE ~ Rejected(a, TRUE)
    <3>1. /\ tries[a].pc = "intent" /\ ~ tries[a].aborted
          /\ tries' = [tries EXCEPT ![a].pc = "ws"]
          /\ UNCHANGED <<workVars, transport, awaiting, pairAbort, pairPhase, backTo,
                         mintedPages, intents>>
      BY Zenon, <1>7, <2>2 DEF requestPairIntent, formVars
    <3> QED BY Zenon, <3>1, AdvanceStep
  <2> QED BY Zenon, <2>1, <2>2
<1>8. CASE onAwaitApproval(a)
  <2>1. CASE Rejected(a, TRUE)
    BY Zenon, <2>1, RejectedStep
  <2>2. CASE ~ Rejected(a, TRUE)
    <3>1. /\ tries[a].pc = "ws" /\ ~ tries[a].aborted
          /\ tries' = [tries EXCEPT ![a].pc = "approval"]
          /\ awaiting' = (awaiting \/ tries[a].work = pairingWork)
          /\ UNCHANGED <<workVars, transport, pairAbort, pairPhase, backTo,
                         mintedPages, intents>>
      BY Zenon, <1>8, <2>2 DEF onAwaitApproval
    <3>2. awaiting' \in BOOLEAN
      BY Zenon, <3>1
    <3> QED BY Zenon, <3>1, <3>2, AdvanceStep
  <2> QED BY Zenon, <2>1, <2>2
<1>9. CASE pairOverWS(a)
  <2>1. /\ tries[a].pc = "approval" /\ ~ tries[a].aborted
        /\ UNCHANGED <<workVars, pairingWork, pairingPage, transport, awaiting, pairAbort,
                       pairPhase, backTo, mintedPages, intents>>
        /\ tries' = [tries EXCEPT ![a].pc = "saving"] \/ AttemptOver(a)
    BY Zenon, <1>9 DEF pairOverWS, workVars, formVars
  <2> QED BY Zenon, <1>1, <2>1, AdvanceStep, EndStep DEF PairTypes
<1>10. CASE saveCredential(a)
  <2>1. AttemptOver(a) /\ UNCHANGED <<pairingWork, pairingPage, mintedPages, intents>>
    BY Zenon, <1>10 DEF saveCredential, workVars
  <2>2. CASE UNCHANGED <<transport, formVars, pairedBy>>
    BY Zenon, <1>1, <2>1, <2>2, EndStep DEF PairTypes, formVars
  <2>3. CASE ~ UNCHANGED <<transport, formVars, pairedBy>>
    <3>1. /\ awaiting' = FALSE /\ transport' = TransportWithout(a) /\ backTo' = backTo
          /\ pairAbort' = IF pairAbort = a THEN 0 ELSE pairAbort
          /\ pairPhase' = "resuming"
      BY Zenon, <1>10, <2>3 DEF saveCredential
    <3> QED BY Zenon, <2>1, <3>1, EndStep
  <2> QED BY Zenon, <2>2, <2>3
<1> QED BY Zenon, <1>3, <1>4, <1>5, <1>6, <1>7, <1>8, <1>9, <1>10

LEMMA PairInvariant == PairSpec => []PairInv
<1>1. PairInit => PairInv
  <2> SUFFICES ASSUME PairInit PROVE PairInv
    OBVIOUS
  <2>1. \A a \in Attempts : tries[a] = NoTry
    BY Zenon DEF PairInit
  <2>2. /\ NoTry \in Tries /\ NoTry.pc = "none" /\ NoTry.work = 0
        /\ NoTransport \in [abort: 0..MaxTries, owner: Nat] /\ 0 \in 0..MaxTries
    BY PairAssumption DEF NoTry, NoTransport, Tries, InFlight
  <2>3. tries \in [Attempts -> Tries]
    BY Zenon, <2>2 DEF PairInit
  <2>4. PairTypes
    BY Zenon, <2>2, <2>3 DEF PairInit, PairTypes
  <2>5. \A a \in Attempts : ~ Handshake(a)
    BY Zenon, <2>1, <2>2 DEF Handshake
  <2>6. NoTry.pc \notin InFlight /\ 0 <= 0
    BY <2>2 DEF InFlight
  <2> QED BY Zenon, <2>1, <2>2, <2>4, <2>5, <2>6
          DEF PairInv, PairInit, HandleInv, WorkInv, PageInv, UnderWay
<1>2. PairInv /\ [PairNext]_pairVars => PairInv'
  <2>1. ASSUME PairInv, PairNext
        PROVE  PairInv'
    BY Zenon, <2>1, PageSteps, FormSteps, AttemptSteps DEF PairNext
  <2>2. ASSUME PairInv, UNCHANGED pairVars
        PROVE  PairInv'
    BY Zenon, <2>2 DEF pairVars, workVars, formVars, PairInv, PairTypes, HandleInv, WorkInv,
                       PageInv, UnderWay, Handshake
  <2> QED BY Zenon, <2>1, <2>2
<1> QED BY <1>1, <1>2, PTL DEF PairSpec

(* However many attempts are begun, scanned, cancelled, left and replaced  *)
(* while their answers are on the way, at most one handshake runs, and a   *)
(* form that says it is pairing has its attempt under way.                 *)
THEOREM PhonePairingHoldsAlways == PairSpec => []PhonePairingHolds
<1>1. PairInv => PhonePairingHolds
  <2> SUFFICES ASSUME PairInv PROVE PhonePairingHolds
    OBVIOUS
  <2>1. OneHandshake
    BY Zenon DEF PairInv, HandleInv, OneHandshake
  <2>2. PairingIsUnderWay
    BY Zenon DEF PairInv, PageInv, UnderWay, PairingIsUnderWay
  <2> QED BY Zenon, <2>1, <2>2 DEF PhonePairingHolds
<1> QED BY <1>1, PairInvariant, PTL

(* What the end of an attempt that is not the person's latest does.        *)
LEMMA LateEnds ==
  ASSUME PairInv, NEW a \in Attempts, tries[a].pc \in InFlight, tries[a].intent # intents
  PROVE  /\ \A c \in BOOLEAN : Rejected(a, c) => pairPhase' = pairPhase /\ pairedBy' = pairedBy
         /\ saveCredential(a) => pairPhase' = pairPhase /\ pairedBy' = pairedBy
<1>1. tries[a].work # pairingWork
  BY Zenon DEF PairInv, WorkInv
<1>2. ~ Owns(a)
  BY Zenon, <1>1 DEF Owns
<1>3. ASSUME NEW c \in BOOLEAN, Rejected(a, c)
      PROVE  pairPhase' = pairPhase /\ pairedBy' = pairedBy
  BY Zenon, <1>2, <1>3 DEF Rejected, formVars, CancelledLanding, LandedCancelled, FailedLanding
<1>4. saveCredential(a) => pairPhase' = pairPhase /\ pairedBy' = pairedBy
  BY Zenon, <1>1 DEF saveCredential, formVars
<1> QED BY Zenon, <1>3, <1>4

(* Only the end of an attempt makes it "done".                             *)
LEMMA NothingElseEnds ==
  ASSUME PairInv, PairNext, NEW a \in Attempts, tries[a].pc \in InFlight,
         tries'[a].pc = "done"
  PROVE  \/ \E c \in BOOLEAN : Rejected(a, c)
         \/ saveCredential(a)
         \/ pairPhase' = pairPhase /\ pairedBy' = pairedBy
<1>0. /\ PairTypes /\ "done" \notin InFlight
      /\ \A b \in Attempts : tries[b] \in Tries /\ tries[b].aborted \in BOOLEAN
  BY DEF PairInv, PairTypes, InFlight, Tries
<1>1. \A h \in 0..MaxTries : tries' = Aborted(h) => FALSE
  <2>1. \A h \in 0..MaxTries : Same(Aborted(h)[a], tries[a])
    BY Zenon, <1>0, AbortedIs
  <2> QED BY Zenon, <1>0, <2>1 DEF Same
<1>2. ASSUME NEW b \in Attempts, NEW s, NEW pass \in BOOLEAN, TransportStarts(b, s, pass)
      PROVE  FALSE
  <2> DEFINE t == [pc |-> IF s THEN "ws" ELSE "intent", work |-> pairingWork',
                   page |-> pairingPage, aborted |-> FALSE, pass |-> pass, intent |-> intents']
  <2>1. tries' = [Aborted(pairAbort) EXCEPT ![b] = t]
    BY Zenon, <1>2 DEF TransportStarts
  <2>2. t.pc \in {"ws", "intent"}
    BY Zenon
  <2> HIDE DEF t
  <2>3. Aborted(pairAbort) \in [Attempts -> Tries] /\ Same(Aborted(pairAbort)[a], tries[a])
    BY Zenon, <1>0, AbortedIs DEF PairTypes
  <2>4. tries'[a] = t \/ tries'[a] = Aborted(pairAbort)[a]
    BY Zenon, <2>1, <2>3
  <2> QED BY Zenon, <1>0, <2>2, <2>3, <2>4 DEF Same
<1>3. ASSUME NEW b \in Attempts, b # a, AttemptOver(b) \/ \E pc : tries' = [tries EXCEPT ![b].pc = pc]
      PROVE  FALSE
  <2>1. tries'[a] = tries[a]
    BY Zenon, <1>0, <1>3 DEF AttemptOver, PairTypes
  <2> QED BY Zenon, <1>0, <2>1
<1>4. ASSUME tries' = tries
      PROVE  FALSE
  BY Zenon, <1>0, <1>4
<1>5. ASSUME NEW pc \in InFlight, tries' = [tries EXCEPT ![a].pc = pc]
      PROVE  FALSE
  <2>1. tries'[a].pc = pc
    BY <1>0, <1>5 DEF Tries, PairTypes
  <2> QED BY Zenon, <1>0, <2>1
<1>6. pairAbort \in 0..MaxTries /\ transport.abort \in 0..MaxTries
  BY <1>0 DEF PairTypes
<1>7. CASE claimPairingPage \/ releasePairingPage \/ ReplayPage \/ rejectLocal \/ scanPairCode
           \/ ScanDropped
  BY Zenon, <1>1, <1>4, <1>6, <1>7
     DEF claimPairingPage, releasePairingPage, ReplayPage, Disposed, rejectLocal, scanPairCode,
         ScanDropped
<1>8. CASE cancelPairing \/ leaveAddComputer \/ openAddComputer \/ resumeComputer
           \/ setAccountGate \/ syncAndLand
  BY Zenon, <1>1, <1>4, <1>6, <1>8
     DEF cancelPairing, leaveAddComputer, openAddComputer, resumeComputer, setAccountGate,
         syncAndLand
<1>9. ASSUME NEW b \in Attempts, beginPairing(b) \/ beginPasswordPairing(b) \/ ScanFinds(b)
      PROVE  FALSE
  BY Zenon, <1>2, <1>9 DEF beginPairing, beginPasswordPairing, ScanFinds
<1>10. ASSUME NEW b \in Attempts, AttemptRejects(b) \/ SaveFails(b)
       PROVE  \E c \in BOOLEAN : Rejected(a, c)
  <2>1. (\E c \in BOOLEAN : Rejected(b, c)) /\ AttemptOver(b)
    BY Zenon, <1>0, <1>10 DEF AttemptRejects, SaveFails, Rejected
  <2> QED BY Zenon, <1>3, <2>1
<1>11. ASSUME NEW b \in Attempts, requestPairIntent(b) \/ onAwaitApproval(b)
       PROVE  \E c \in BOOLEAN : Rejected(a, c)
  <2>1. Rejected(b, TRUE) \/ \E pc \in {"ws", "approval"} : tries' = [tries EXCEPT ![b].pc = pc]
    BY Zenon, <1>11 DEF requestPairIntent, onAwaitApproval
  <2>2. Rejected(b, TRUE) => AttemptOver(b)
    BY Zenon DEF Rejected
  <2>3. {"ws", "approval"} \subseteq InFlight
    BY Zenon DEF InFlight
  <2> QED BY Zenon, <1>3, <1>5, <2>1, <2>2, <2>3
<1>12. ASSUME NEW b \in Attempts, saveCredential(b)
       PROVE  saveCredential(a)
  <2>1. AttemptOver(b)
    BY Zenon, <1>12 DEF saveCredential
  <2> QED BY Zenon, <1>3, <1>12, <2>1
<1>13. ASSUME NEW b \in Attempts, pairOverWS(b)
       PROVE  pairPhase' = pairPhase /\ pairedBy' = pairedBy
  BY Zenon, <1>13 DEF pairOverWS, formVars
<1> QED BY Zenon, <1>7, <1>8, <1>9, <1>10, <1>11, <1>12, <1>13 DEF PairNext

(* An attempt that the person has cancelled, left or replaced changes      *)
(* neither the screen nor the current computer when it ends, however late  *)
(* and at whatever await it was overtaken.                                 *)
THEOREM LateAttemptsAreSilentHolds == PairSpec => LateAttemptsAreSilent
<1>1. PairInv /\ [PairNext]_pairVars => [OutlivedAttemptIsSilent]_pairVars
  <2> SUFFICES ASSUME PairInv, PairNext, NEW a \in Attempts,
                      tries[a].pc \in InFlight, tries'[a].pc = "done",
                      tries[a].intent # intents
               PROVE  pairPhase' = pairPhase /\ pairedBy' = pairedBy
    BY Zenon DEF OutlivedAttemptIsSilent
  <2> QED BY Zenon, LateEnds, NothingElseEnds
<1> QED BY <1>1, PairInvariant, PTL DEF PairSpec, LateAttemptsAreSilent
-----------------------------------------------------------------------------
(* The pairing slot of the room.                                           *)
Slots == {NoSlot} \cup [ref: Refs, loc: Nat \ {0}, live: BOOLEAN]
Offers == {NoOffer} \cup [ref: Refs, loc: Nat \ {0}]
LockJobs ==
  [op: {"open", "close", "expire"}, who: Openers \cup {NoOpener}, ref: Refs,
   pc: {"queued", "refresh", "insert", "undo", "swap", "remove"}, old: Slots,
   loc: Nat, got: {"none", "ok", "fail", "conflict"}, tries: Nat]

OfferTypes ==
  /\ server \in served \cup {NoOpener} /\ served \subseteq Openers
  /\ minted \in Nat /\ slot \in Slots /\ slot.loc <= minted
  /\ jobs \in Seq(LockJobs)
  /\ offer \in [Openers -> Offers]
  /\ \A d \in Openers : offer[d] # NoOffer => d \in served

(* The queue: only its first job runs, the expiry is nobody's, and the     *)
(* jobs of the daemon that serves are behind those of earlier ones.        *)
QueueInv ==
  /\ \A i \in DOMAIN jobs :
       /\ jobs[i].who = NoOpener \/ jobs[i].who \in served
       /\ jobs[i].who = NoOpener <=> jobs[i].op = "expire"
       /\ i # 1 => jobs[i].pc = "queued"
       /\ jobs[i].old.loc <= minted
  /\ server # NoOpener =>
       \A i, j \in DOMAIN jobs :
         i < j /\ jobs[i].who = server => jobs[j].who \in {server, NoOpener}

RowOf(j) == [loc |-> j.loc, ref |-> j.ref]
SlotOf(j) == [ref |-> j.ref, loc |-> j.loc, live |-> TRUE]

(* The job that holds the lock, while its daemon serves.                   *)
HeadOK(j) ==
  /\ j.op = "open" /\ j.pc \in {"insert", "swap"} => j.old.loc < j.loc
  /\ j.op = "open" /\ j.pc \in {"refresh", "insert", "swap"} /\ server = j.who =>
       /\ slot = SlotOf(j)
       /\ j.got = "ok" => RowOf(j) \in index
  /\ j.op = "open" /\ j.pc = "swap" /\ server = j.who => j.got = "ok" /\ offer[server] = NoOffer
  /\ j.op = "open" /\ j.pc = "undo" => server # j.who
  /\ j.op = "close" /\ j.pc = "remove" /\ server = j.who => slot.ref = j.ref

HeadInv == jobs # <<>> => HeadOK(jobs[1])

(* While the serving daemon shows a code, nobody else's job is left, no    *)
(* close of it is queued, and its slot is stored, or is the one that comes *)
(* back should the insert under way fail.                                  *)
Showing == server # NoOpener /\ offer[server] # NoOffer
Closing(j, d, ref) == j.op = "close" /\ j.who = d /\ j.ref = ref

ShownInv ==
  Showing =>
    /\ \A i \in DOMAIN jobs : jobs[i].who \in {server, NoOpener}
    /\ \A i \in DOMAIN jobs : ~ Closing(jobs[i], server, offer[server].ref)
    /\ RowOf(offer[server]) \in index
    /\ ~ Running("open", "insert") => slot = SlotOf(offer[server])
    /\ Running("open", "insert") \/ Running("open", "refresh") =>
         jobs[1].old = SlotOf(offer[server])

OfferInv == OfferTypes /\ QueueInv /\ HeadInv /\ ShownInv

LEMMA SlotFacts ==
  /\ \A s \in Slots : /\ s.loc \in Nat
                      /\ s # NoSlot => s \in [ref: Refs, loc: Nat \ {0}, live: BOOLEAN]
                      /\ s.live => s # NoSlot
  /\ \A r \in Refs, n \in Nat \ {0} : [ref |-> r, loc |-> n, live |-> TRUE] \in Slots
  /\ NoSlot \in Slots /\ NoSlot.loc = 0
BY DEF Slots, NoSlot

LEMMA OfferFacts ==
  \A o \in Offers : o # NoOffer =>
    /\ o.ref \in Refs /\ o.loc \in Nat \ {0}
    /\ SlotOf(o) \in Slots /\ SlotOf(o) # NoSlot
    /\ SlotOf(o).ref = o.ref /\ SlotOf(o).loc = o.loc /\ SlotOf(o).live = TRUE
BY DEF Offers, NoOffer, SlotOf, Slots, NoSlot

LEMMA QueueIs ==
  ASSUME jobs \in Seq(LockJobs)
  PROVE  /\ DOMAIN jobs \subseteq Nat \ {0}
         /\ \A i \in DOMAIN jobs : jobs[i] \in LockJobs
         /\ jobs # <<>> <=> 1 \in DOMAIN jobs
BY EmptySeq, LenProperties, ElementOfSeq

(* The three things that happen to the queue.                              *)
LEMMA Released ==
  ASSUME jobs \in Seq(LockJobs), jobs # <<>>, Release
  PROVE  /\ jobs' \in Seq(LockJobs)
         /\ \A i \in DOMAIN jobs' : /\ i + 1 \in DOMAIN jobs /\ i + 1 # 1
                                    /\ jobs'[i] = jobs[i + 1]
         /\ \A i, k \in DOMAIN jobs' : i < k => i + 1 < k + 1
         /\ jobs' # <<>> => 1 \in DOMAIN jobs'
<1>1. jobs' = Tail(jobs)
  BY Zenon DEF Release
<1>2. Tail(jobs) \in Seq(LockJobs) /\ Len(Tail(jobs)) = Len(jobs) - 1
      /\ \A i \in 1..Len(Tail(jobs)) : Tail(jobs)[i] = jobs[i + 1]
  BY HeadTailProperties
<1>3. DOMAIN jobs = 1..Len(jobs) /\ DOMAIN Tail(jobs) = 1..Len(Tail(jobs))
      /\ Len(jobs) \in Nat /\ Len(Tail(jobs)) \in Nat
  BY <1>2, LenProperties
<1>4. Tail(jobs) # <<>> => 1 \in DOMAIN Tail(jobs)
  BY <1>2, <1>3, EmptySeq
<1> QED BY <1>1, <1>2, <1>3, <1>4

LEMMA Held ==
  ASSUME jobs \in Seq(LockJobs), jobs # <<>>, NEW j \in LockJobs, Hold(j)
  PROVE  /\ jobs' \in Seq(LockJobs) /\ DOMAIN jobs' = DOMAIN jobs
         /\ jobs' # <<>> /\ jobs'[1] = j
         /\ \A i \in DOMAIN jobs : i # 1 => jobs'[i] = jobs[i]
<1>1. jobs' = [jobs EXCEPT ![1] = j]
  BY Zenon DEF Hold
<1>2. 1 \in 1..Len(jobs) /\ DOMAIN jobs = 1..Len(jobs)
  BY EmptySeq, LenProperties
<1>3. jobs' \in Seq(LockJobs) /\ Len(jobs') = Len(jobs)
  BY <1>1, <1>2, ExceptSeq
<1>4. DOMAIN jobs' = DOMAIN jobs
  BY Zenon, <1>1
<1>5. jobs' # <<>>
  BY <1>2, <1>3, EmptySeq, LenProperties
<1> QED BY Zenon, <1>1, <1>2, <1>3, <1>4, <1>5

LEMMA Appended ==
  ASSUME jobs \in Seq(LockJobs), NEW j \in LockJobs, jobs' = Append(jobs, j)
  PROVE  /\ jobs' \in Seq(LockJobs) /\ jobs' # <<>>
         /\ DOMAIN jobs' = DOMAIN jobs \cup {Len(jobs) + 1}
         /\ jobs'[Len(jobs) + 1] = j
         /\ \A i \in DOMAIN jobs : i < Len(jobs) + 1 /\ jobs'[i] = jobs[i]
         /\ jobs = <<>> => jobs'[1] = j
         /\ jobs # <<>> => 1 \in DOMAIN jobs
         /\ Len(jobs) + 1 = 1 => jobs = <<>>
<1>1. /\ Append(jobs, j) \in Seq(LockJobs) /\ Len(Append(jobs, j)) = Len(jobs) + 1
      /\ \A i \in 1..Len(jobs) : Append(jobs, j)[i] = jobs[i]
      /\ Append(jobs, j)[Len(jobs) + 1] = j
  BY AppendProperties
<1>2. DOMAIN jobs = 1..Len(jobs) /\ DOMAIN Append(jobs, j) = 1..(Len(jobs) + 1)
      /\ Len(jobs) \in Nat
  BY <1>1, LenProperties
<1>3. (jobs = <<>> <=> Len(jobs) = 0) /\ Append(jobs, j) # <<>>
  BY <1>1, <1>2, EmptySeq
<1> QED BY <1>1, <1>2, <1>3
-----------------------------------------------------------------------------
(* The lock is released: what waits next has not begun.                    *)
LEMMA ReleaseStep ==
  ASSUME OfferInv, jobs # <<>>, Release,
         server' = server, served' = served, minted' = minted,
         slot' \in Slots, slot'.loc <= minted, offer' \in [Openers -> Offers],
         \A d \in Openers : offer'[d] # NoOffer => d \in served,
         Showing' =>
           /\ \A i \in DOMAIN jobs : jobs[i].who \in {server, NoOpener}
           /\ \A i \in DOMAIN jobs : i # 1 => ~ Closing(jobs[i], server, offer'[server].ref)
           /\ RowOf(offer'[server]) \in index'
           /\ slot' = SlotOf(offer'[server])
  PROVE  OfferInv'
<1>1. jobs \in Seq(LockJobs)
  BY Zenon DEF OfferInv, OfferTypes
<1>2. /\ jobs' \in Seq(LockJobs)
      /\ \A i \in DOMAIN jobs' : /\ i + 1 \in DOMAIN jobs /\ i + 1 # 1
                                 /\ jobs'[i] = jobs[i + 1]
      /\ \A i, k \in DOMAIN jobs' : i < k => i + 1 < k + 1
      /\ jobs' # <<>> => 1 \in DOMAIN jobs'
  BY Zenon, <1>1, Released
<1>3. \A i \in DOMAIN jobs' : jobs'[i].pc = "queued"
  BY Zenon, <1>2 DEF OfferInv, QueueInv
<1>4. OfferTypes'
  BY Zenon, <1>2 DEF OfferInv, OfferTypes
<1>5. QueueInv'
  <2>1. \A i \in DOMAIN jobs' :
          /\ jobs'[i].who = NoOpener \/ jobs'[i].who \in served'
          /\ jobs'[i].who = NoOpener <=> jobs'[i].op = "expire"
          /\ jobs'[i].old.loc <= minted'
    <3> TAKE i \in DOMAIN jobs'
    <3>1. i + 1 \in DOMAIN jobs /\ jobs'[i] = jobs[i + 1]
      BY Zenon, <1>2
    <3>2. /\ jobs[i + 1].who = NoOpener \/ jobs[i + 1].who \in served
          /\ jobs[i + 1].who = NoOpener <=> jobs[i + 1].op = "expire"
          /\ jobs[i + 1].old.loc <= minted
      BY Zenon, <3>1 DEF OfferInv, QueueInv
    <3> QED BY Zenon, <3>1, <3>2
  <2>2. ASSUME server' # NoOpener, NEW i \in DOMAIN jobs', NEW k \in DOMAIN jobs',
               i < k, jobs'[i].who = server'
        PROVE  jobs'[k].who \in {server', NoOpener}
    <3>1. /\ i + 1 \in DOMAIN jobs /\ jobs'[i] = jobs[i + 1]
          /\ k + 1 \in DOMAIN jobs /\ jobs'[k] = jobs[k + 1] /\ i + 1 < k + 1
      BY Zenon, <1>2, <2>2
    <3> QED BY Zenon, <2>2, <3>1 DEF OfferInv, QueueInv
  <2> QED BY Zenon, <1>3, <2>1, <2>2 DEF QueueInv
<1>6. HeadInv'
  BY Zenon, <1>2, <1>3 DEF HeadInv, HeadOK
<1>7. ~ Running("open", "insert")' /\ ~ Running("open", "refresh")'
  BY Zenon, <1>2, <1>3 DEF Running
<1>8. ShownInv'
  BY Zenon, <1>2, <1>7 DEF ShownInv
<1> QED BY Zenon, <1>4, <1>5, <1>6, <1>8 DEF OfferInv

(* The holder of the lock goes on to its next wait.                        *)
LEMMA HoldStep ==
  ASSUME OfferInv, jobs # <<>>, NEW j \in LockJobs, Hold(j),
         j.who = jobs[1].who, j.op = jobs[1].op, j.ref = jobs[1].ref,
         server' = server, served' = served,
         minted' \in Nat, minted <= minted', j.old.loc <= minted',
         slot' \in Slots, slot'.loc <= minted', offer' \in [Openers -> Offers],
         \A d \in Openers : offer'[d] # NoOffer => d \in served,
         HeadOK(j)',
         Showing' =>
           /\ Showing /\ offer'[server] = offer[server]
           /\ RowOf(offer[server]) \in index'
           /\ ~ (j.op = "open" /\ j.pc = "insert") => slot' = SlotOf(offer[server])
           /\ j.op = "open" /\ j.pc \in {"insert", "refresh"} =>
                j.old = SlotOf(offer[server])
  PROVE  OfferInv'
<1>1. jobs \in Seq(LockJobs)
  BY Zenon DEF OfferInv, OfferTypes
<1>2. /\ jobs' \in Seq(LockJobs) /\ DOMAIN jobs' = DOMAIN jobs
      /\ jobs' # <<>> /\ jobs'[1] = j
      /\ \A i \in DOMAIN jobs : i # 1 => jobs'[i] = jobs[i]
  BY Zenon, <1>1, Held
<1>3. \A i \in DOMAIN jobs : /\ jobs'[i].who = jobs[i].who /\ jobs'[i].op = jobs[i].op
                             /\ jobs'[i].ref = jobs[i].ref
  BY Zenon, <1>2
<1>4. OfferTypes'
  BY Zenon, <1>2 DEF OfferInv, OfferTypes
<1>5. \A i \in DOMAIN jobs : jobs'[i].old.loc <= minted'
  <2>1. \A i \in DOMAIN jobs : jobs[i].old.loc \in Nat /\ jobs[i].old.loc <= minted
    BY <1>1, QueueIs, SlotFacts DEF OfferInv, QueueInv, LockJobs
  <2>2. \A i \in DOMAIN jobs : jobs[i].old.loc <= minted'
    BY <2>1 DEF OfferInv, OfferTypes
  <2> QED BY Zenon, <1>2, <2>2
<1>6. QueueInv'
  <2>1. \A i \in DOMAIN jobs' :
          /\ jobs'[i].who = NoOpener \/ jobs'[i].who \in served'
          /\ jobs'[i].who = NoOpener <=> jobs'[i].op = "expire"
          /\ i # 1 => jobs'[i].pc = "queued"
    <3> TAKE i \in DOMAIN jobs'
    <3>1. /\ jobs[i].who = NoOpener \/ jobs[i].who \in served
          /\ jobs[i].who = NoOpener <=> jobs[i].op = "expire"
          /\ i # 1 => jobs[i].pc = "queued"
      BY Zenon, <1>2 DEF OfferInv, QueueInv
    <3> QED BY Zenon, <1>2, <1>3, <3>1
  <2>2. server' # NoOpener =>
          \A i, k \in DOMAIN jobs' :
            i < k /\ jobs'[i].who = server' => jobs'[k].who \in {server', NoOpener}
    BY Zenon, <1>2, <1>3 DEF OfferInv, QueueInv
  <2> QED BY Zenon, <1>2, <1>5, <2>1, <2>2 DEF QueueInv
<1>7. HeadInv'
  BY Zenon, <1>2 DEF HeadInv
<1>8. ShownInv'
  <2>1. Showing' => /\ \A i \in DOMAIN jobs' : jobs'[i].who \in {server, NoOpener}
                    /\ \A i \in DOMAIN jobs' : ~ Closing(jobs'[i], server, offer[server].ref)
    BY Zenon, <1>2, <1>3 DEF OfferInv, ShownInv, Closing
  <2>2. /\ Running("open", "insert")' <=> (j.op = "open" /\ j.pc = "insert")
        /\ Running("open", "refresh")' <=> (j.op = "open" /\ j.pc = "refresh")
    BY Zenon, <1>2 DEF Running
  <2> QED BY Zenon, <1>2, <2>1, <2>2 DEF ShownInv
<1> QED BY Zenon, <1>4, <1>6, <1>7, <1>8 DEF OfferInv

(* What the index may answer to an insert.                                 *)
LEMMA InsertOutcomesAre ==
  ASSUME NEW loc, NEW ref, NEW o \in InsertOutcomes(loc, ref)
  PROVE  /\ index \subseteq o.rows /\ o.got \in {"ok", "fail", "conflict"}
         /\ o.got = "ok" => [loc |-> loc, ref |-> ref] \in o.rows
BY DEF InsertOutcomes

LEMMA RowRemovedIs ==
  ASSUME NEW loc, NEW rows \in RowRemoved(loc)
  PROVE  \A r \in index : r.loc # loc => r \in rows
BY Zenon DEF RowRemoved

(* The job at the head of the queue.                                       *)
LEMMA HeadIs ==
  ASSUME OfferInv, jobs # <<>>
  PROVE  /\ 1 \in DOMAIN jobs /\ jobs[1] \in LockJobs /\ HeadOK(jobs[1])
         /\ jobs[1].old \in Slots /\ jobs[1].old.loc \in Nat /\ jobs[1].old.loc <= minted
         /\ jobs[1].op # "expire" => jobs[1].who \in Openers /\ jobs[1].who \in served
         /\ Showing => jobs[1].who \in {server, NoOpener}
<1>1. 1 \in DOMAIN jobs /\ jobs[1] \in LockJobs
  BY Zenon, QueueIs DEF OfferInv, OfferTypes
<1>2. jobs[1].old \in Slots
  BY <1>1 DEF LockJobs
<1> QED BY Zenon, <1>1, <1>2, SlotFacts DEF OfferInv, OfferTypes, QueueInv, HeadInv, ShownInv

(* One turn of the minting loop.                                           *)
LEMMA MintStep ==
  ASSUME OfferInv, jobs # <<>>, NEW j \in LockJobs, MintAndInsert(j),
         jobs[1].op = "open", j.who = jobs[1].who, j.op = "open", j.ref = jobs[1].ref,
         j.old.loc <= minted, Showing => j.old = SlotOf(offer[server]),
         UNCHANGED <<server, served, offer>>
  PROVE  OfferInv'
<1>1. minted \in Nat /\ j.old.loc \in Nat /\ j.ref \in Refs
  BY SlotFacts DEF OfferInv, OfferTypes, LockJobs
<1>2. PICK n : n = minted + 1
  OBVIOUS
<1>3. n \in Nat /\ minted <= n /\ n <= n /\ j.old.loc <= n /\ j.old.loc < n /\ n \in Nat \ {0}
  BY <1>1, <1>2
<1>4. PICK o \in InsertOutcomes(n, j.ref) :
        /\ minted' = n
        /\ slot' = [ref |-> j.ref, loc |-> n, live |-> TRUE]
        /\ index' = o.rows
        /\ Hold([j EXCEPT !.pc = "insert", !.loc = n, !.got = o.got])
  BY Zenon, <1>2 DEF MintAndInsert
<1>5. /\ index \subseteq o.rows /\ o.got \in {"ok", "fail", "conflict"}
      /\ o.got = "ok" => [loc |-> n, ref |-> j.ref] \in o.rows
  BY Zenon, InsertOutcomesAre
<1>6. PICK k : k = [j EXCEPT !.pc = "insert", !.loc = n, !.got = o.got]
  OBVIOUS
<1>7. /\ k \in LockJobs /\ k.who = j.who /\ k.op = j.op /\ k.ref = j.ref /\ k.old = j.old
      /\ k.pc = "insert" /\ k.loc = n /\ k.got = o.got
  BY <1>3, <1>5, <1>6 DEF LockJobs
<1>8. Hold(k)
  BY Zenon, <1>4, <1>6
<1>9. slot' \in Slots /\ slot'.loc = n
  BY <1>1, <1>3, <1>4, SlotFacts
<1>10. slot' = SlotOf(k) /\ (k.got = "ok" => RowOf(k) \in index')
  BY Zenon, <1>4, <1>5, <1>7 DEF SlotOf, RowOf
<1>11. HeadOK(k)'
  BY Zenon, <1>3, <1>7, <1>10 DEF HeadOK
<1>12. Showing' => /\ Showing /\ offer'[server] = offer[server]
                   /\ RowOf(offer[server]) \in index'
                   /\ k.old = SlotOf(offer[server])
  BY Zenon, <1>4, <1>5, <1>7 DEF Showing, OfferInv, ShownInv
<1>13. /\ offer' \in [Openers -> Offers] /\ server' = server /\ served' = served
       /\ \A d \in Openers : offer'[d] # NoOffer => d \in served
  BY Zenon DEF OfferInv, OfferTypes
<1> QED BY <1>3, <1>4, <1>7, <1>8, <1>9, <1>11, <1>12, <1>13, HoldStep

LEMMA OpenStartStep == ASSUME OfferInv, OpenStart PROVE OfferInv'
<1>1. /\ jobs # <<>> /\ jobs[1].op = "open" /\ jobs[1].pc = "queued"
      /\ UNCHANGED <<server, served, offer>>
      /\ ~ Running("open", "insert")
  BY Zenon DEF OpenStart, Running
<1>2. /\ jobs[1] \in LockJobs /\ slot \in Slots /\ slot.loc \in Nat /\ slot.loc <= minted
      /\ minted \in Nat
      /\ offer' \in [Openers -> Offers] /\ \A d \in Openers : offer'[d] # NoOffer => d \in served
  BY Zenon, <1>1, HeadIs, SlotFacts DEF OfferInv, OfferTypes
<1>3. Showing' <=> Showing
  BY Zenon, <1>1 DEF Showing
<1>4. Showing => slot = SlotOf(offer[server])
  BY Zenon, <1>1 DEF OfferInv, ShownInv
<1>5. CASE Release /\ UNCHANGED <<slot, index, minted>>
  <2>1. Showing' =>
           /\ \A i \in DOMAIN jobs : jobs[i].who \in {server, NoOpener}
           /\ \A i \in DOMAIN jobs : i # 1 => ~ Closing(jobs[i], server, offer'[server].ref)
           /\ RowOf(offer'[server]) \in index'
           /\ slot' = SlotOf(offer'[server])
    BY Zenon, <1>1, <1>3, <1>4, <1>5 DEF OfferInv, ShownInv
  <2>2. slot' \in Slots /\ slot'.loc <= minted /\ minted' = minted /\ server' = server
        /\ served' = served
    BY Zenon, <1>1, <1>2, <1>5
  <2> QED BY Zenon, <1>1, <1>2, <1>5, <2>1, <2>2, ReleaseStep
<1>6. CASE /\ server = jobs[1].who /\ slot # NoSlot /\ slot.ref = jobs[1].ref
           /\ \E o \in InsertOutcomes(slot.loc, slot.ref) :
                /\ slot' = [slot EXCEPT !.live = TRUE]
                /\ index' = o.rows
                /\ Hold([jobs[1] EXCEPT !.pc = "refresh", !.old = slot,
                                        !.loc = slot.loc, !.got = o.got])
           /\ UNCHANGED minted
  <2>1. PICK o \in InsertOutcomes(slot.loc, slot.ref) :
          /\ slot' = [slot EXCEPT !.live = TRUE]
          /\ index' = o.rows
          /\ Hold([jobs[1] EXCEPT !.pc = "refresh", !.old = slot,
                                  !.loc = slot.loc, !.got = o.got])
    BY Zenon, <1>6
  <2>2. /\ index \subseteq o.rows /\ o.got \in {"ok", "fail", "conflict"}
        /\ o.got = "ok" => [loc |-> slot.loc, ref |-> slot.ref] \in o.rows
    BY Zenon, InsertOutcomesAre
  <2>3. PICK k : k = [jobs[1] EXCEPT !.pc = "refresh", !.old = slot,
                                     !.loc = slot.loc, !.got = o.got]
    OBVIOUS
  <2>4. /\ k \in LockJobs /\ k.who = jobs[1].who /\ k.op = jobs[1].op /\ k.ref = jobs[1].ref
        /\ k.pc = "refresh" /\ k.old = slot /\ k.loc = slot.loc /\ k.got = o.got
    BY <1>2, <2>2, <2>3 DEF LockJobs
  <2>5. Hold(k)
    BY Zenon, <2>1, <2>3
  <2>6. slot' = [ref |-> slot.ref, loc |-> slot.loc, live |-> TRUE] /\ slot' \in Slots
        /\ slot'.loc = slot.loc
    BY <1>2, <1>6, <2>1, SlotFacts
  <2>7. slot' = SlotOf(k) /\ (k.got = "ok" => RowOf(k) \in index')
    BY Zenon, <1>6, <2>1, <2>2, <2>4, <2>6 DEF SlotOf, RowOf
  <2>8. HeadOK(k)'
    BY Zenon, <1>1, <2>4, <2>7 DEF HeadOK
  <2>9. Showing' =>
           /\ Showing /\ offer'[server] = offer[server]
           /\ RowOf(offer[server]) \in index'
           /\ slot' = SlotOf(offer[server])
           /\ k.old = SlotOf(offer[server])
    <3>1. Showing => slot = [ref |-> slot.ref, loc |-> slot.loc, live |-> TRUE]
      BY <1>4 DEF SlotOf
    <3>2. Showing => RowOf(offer[server]) \in index
      BY Zenon DEF OfferInv, ShownInv
    <3>3. Showing => slot' = slot
      BY Zenon, <2>6, <3>1
    <3>4. server' = server /\ offer' = offer /\ index \subseteq index'
      BY Zenon, <1>1, <2>1, <2>2
    <3> QED BY Zenon, <1>3, <1>4, <2>4, <3>2, <3>3, <3>4
  <2>10. minted' \in Nat /\ minted <= minted' /\ k.old.loc <= minted' /\ slot'.loc <= minted'
         /\ server' = server /\ served' = served
    BY <1>1, <1>2, <1>6, <2>4, <2>6
  <2> QED BY <1>1, <1>2, <2>4, <2>5, <2>6, <2>8, <2>9, <2>10, HoldStep
<1>7. CASE MintAndInsert([jobs[1] EXCEPT !.old = slot])
  <2>1. PICK k : k = [jobs[1] EXCEPT !.old = slot]
    OBVIOUS
  <2>2. /\ k \in LockJobs /\ k.who = jobs[1].who /\ k.op = "open" /\ k.ref = jobs[1].ref
        /\ k.old = slot
    BY <1>1, <1>2, <2>1 DEF LockJobs
  <2>3. MintAndInsert(k)
    BY Zenon, <1>7, <2>1
  <2> QED BY Zenon, <1>1, <1>2, <1>4, <2>2, <2>3, MintStep
<1> QED BY Zenon, <1>5, <1>6, <1>7 DEF OpenStart

(* The daemon that opened the slot is told, and the lock is released.      *)
LEMMA OfferMadeStep ==
  ASSUME OfferInv, jobs # <<>>, jobs[1].op = "open", server = jobs[1].who,
         OfferMade(jobs[1]), Release, slot = SlotOf(jobs[1]), RowOf(jobs[1]) \in index,
         Showing => slot = SlotOf(offer[server]),
         UNCHANGED <<server, served, slot, index, minted>>
  PROVE  OfferInv'
<1> DEFINE told == [ref |-> jobs[1].ref, loc |-> jobs[1].loc]
<1>1. /\ slot \in Slots /\ slot.loc <= minted /\ offer \in [Openers -> Offers]
      /\ \A d \in Openers : offer[d] # NoOffer => d \in served
  BY Zenon DEF OfferInv, OfferTypes
<1>2. /\ 1 \in DOMAIN jobs /\ jobs[1] \in LockJobs
      /\ server \in Openers /\ server \in served /\ server # NoOpener
  BY Zenon, HeadIs, PairingAssumption
<1>3. told \in Offers /\ told.ref = jobs[1].ref /\ SlotOf(told) = slot /\ RowOf(told) = RowOf(jobs[1])
  <2>1. jobs[1].ref \in Refs /\ jobs[1].loc = slot.loc /\ slot.live = TRUE
    BY <1>2 DEF SlotOf, LockJobs
  <2>2. slot.loc \in Nat \ {0}
    BY <1>1, <2>1, SlotFacts
  <2> QED BY <2>1, <2>2 DEF Offers, SlotOf, RowOf
<1> HIDE DEF told
<1>4. CASE offer' = offer
  <2>1. Showing' => Showing
    BY Zenon, <1>4 DEF Showing
  <2>2. Showing' =>
           /\ \A i \in DOMAIN jobs : jobs[i].who \in {server, NoOpener}
           /\ \A i \in DOMAIN jobs : i # 1 => ~ Closing(jobs[i], server, offer'[server].ref)
           /\ RowOf(offer'[server]) \in index'
           /\ slot' = SlotOf(offer'[server])
    BY Zenon, <1>4, <2>1 DEF OfferInv, ShownInv
  <2> QED BY Zenon, <1>1, <1>4, <2>2, ReleaseStep
<1>5. CASE /\ ~ \E i \in DOMAIN jobs : jobs[i].op = "close" /\ jobs[i].who = jobs[1].who
                                       /\ jobs[i].ref = jobs[1].ref
           /\ offer' = [offer EXCEPT ![jobs[1].who] = told]
  <2>1. offer'[server] = told /\ \A d \in Openers : d # server => offer'[d] = offer[d]
    BY Zenon, <1>1, <1>2, <1>5
  <2>2. offer' \in [Openers -> Offers]
    BY Zenon, <1>1, <1>3, <1>5
  <2>3. \A d \in Openers : offer'[d] # NoOffer => d \in served
    BY Zenon, <1>1, <1>2, <2>1
  <2>4. \A i \in DOMAIN jobs : i = 1 \/ 1 < i
    BY QueueIs DEF OfferInv, OfferTypes
  <2>5. \A i \in DOMAIN jobs : jobs[i].who \in {server, NoOpener}
    BY Zenon, <1>2, <2>4 DEF OfferInv, QueueInv
  <2>6. \A i \in DOMAIN jobs : ~ Closing(jobs[i], server, told.ref)
    BY Zenon, <1>3, <1>5 DEF Closing
  <2> QED BY Zenon, <1>1, <1>3, <2>1, <2>2, <2>3, <2>5, <2>6, ReleaseStep
<1> QED BY Zenon, <1>4, <1>5 DEF OfferMade, told

LEMMA RefreshReplyStep == ASSUME OfferInv, RefreshReply PROVE OfferInv'
<1>1. /\ jobs # <<>> /\ jobs[1].op = "open" /\ jobs[1].pc = "refresh" /\ Release
      /\ UNCHANGED <<server, served, minted>>
      /\ Running("open", "refresh") /\ ~ Running("open", "insert")
  BY Zenon DEF RefreshReply, Running
<1>2. /\ jobs[1].old \in Slots /\ jobs[1].old.loc <= minted /\ HeadOK(jobs[1])
      /\ jobs[1].who \in Openers /\ (Showing => jobs[1].who \in {server, NoOpener})
      /\ slot \in Slots /\ slot.loc <= minted /\ offer \in [Openers -> Offers]
      /\ \A d \in Openers : offer[d] # NoOffer => d \in served
  BY Zenon, <1>1, HeadIs DEF OfferInv, OfferTypes
<1>3. Showing => /\ \A i \in DOMAIN jobs : jobs[i].who \in {server, NoOpener}
                 /\ \A i \in DOMAIN jobs : ~ Closing(jobs[i], server, offer[server].ref)
                 /\ RowOf(offer[server]) \in index
                 /\ slot = SlotOf(offer[server]) /\ jobs[1].old = SlotOf(offer[server])
  BY Zenon, <1>1 DEF OfferInv, ShownInv
<1>4. CASE slot' = jobs[1].old /\ UNCHANGED <<index, offer>>
  <2>1. Showing' => Showing
    BY Zenon, <1>1, <1>4 DEF Showing
  <2>2. Showing' =>
           /\ \A i \in DOMAIN jobs : jobs[i].who \in {server, NoOpener}
           /\ \A i \in DOMAIN jobs : i # 1 => ~ Closing(jobs[i], server, offer'[server].ref)
           /\ RowOf(offer'[server]) \in index'
           /\ slot' = SlotOf(offer'[server])
    BY Zenon, <1>3, <1>4, <2>1
  <2>3. /\ slot' \in Slots /\ slot'.loc <= minted /\ offer' \in [Openers -> Offers]
        /\ \A d \in Openers : offer'[d] # NoOffer => d \in served
    BY Zenon, <1>2, <1>4
  <2> QED BY Zenon, <1>1, <2>2, <2>3, ReleaseStep
<1>5. CASE server # jobs[1].who /\ UNCHANGED <<slot, offer>>
  <2>1. ~ Showing'
    BY Zenon, <1>1, <1>2, <1>5, PairingAssumption DEF Showing
  <2>2. /\ slot' \in Slots /\ slot'.loc <= minted /\ offer' \in [Openers -> Offers]
        /\ \A d \in Openers : offer'[d] # NoOffer => d \in served
    BY Zenon, <1>2, <1>5
  <2> QED BY Zenon, <1>1, <2>1, <2>2, ReleaseStep
<1>6. CASE /\ jobs[1].got = "ok" /\ server = jobs[1].who
           /\ OfferMade(jobs[1])
           /\ UNCHANGED <<slot, index>>
  <2>1. slot = SlotOf(jobs[1]) /\ RowOf(jobs[1]) \in index
    BY Zenon, <1>1, <1>2, <1>6 DEF HeadOK
  <2>2. Showing => slot = SlotOf(offer[server])
    BY Zenon, <1>3
  <2> QED BY Zenon, <1>1, <1>6, <2>1, <2>2, OfferMadeStep
<1> QED BY Zenon, <1>4, <1>5, <1>6 DEF RefreshReply

LEMMA InsertRefusedStep == ASSUME OfferInv, InsertRefused PROVE OfferInv'
<1>1. /\ jobs # <<>> /\ jobs[1].op = "open" /\ jobs[1].pc = "insert"
      /\ UNCHANGED <<server, served, offer>> /\ Running("open", "insert")
  BY Zenon DEF InsertRefused, Running
<1>2. /\ jobs[1] \in LockJobs /\ jobs[1].old \in Slots /\ jobs[1].old.loc <= minted
      /\ offer \in [Openers -> Offers]
      /\ \A d \in Openers : offer[d] # NoOffer => d \in served
  BY Zenon, <1>1, HeadIs DEF OfferInv, OfferTypes
<1>3. Showing => /\ \A i \in DOMAIN jobs : jobs[i].who \in {server, NoOpener}
                 /\ \A i \in DOMAIN jobs : ~ Closing(jobs[i], server, offer[server].ref)
                 /\ RowOf(offer[server]) \in index
                 /\ jobs[1].old = SlotOf(offer[server])
  BY Zenon, <1>1 DEF OfferInv, ShownInv
<1>4. CASE MintAndInsert([jobs[1] EXCEPT !.tries = @ + 1])
  <2>1. PICK k : k = [jobs[1] EXCEPT !.tries = @ + 1]
    OBVIOUS
  <2>2. /\ k \in LockJobs /\ k.who = jobs[1].who /\ k.op = "open" /\ k.ref = jobs[1].ref
        /\ k.old = jobs[1].old
    BY <1>1, <1>2, <2>1 DEF LockJobs
  <2>3. MintAndInsert(k)
    BY Zenon, <1>4, <2>1
  <2> QED BY Zenon, <1>1, <1>2, <1>3, <2>2, <2>3, MintStep
<1>5. CASE slot' = jobs[1].old /\ Release /\ UNCHANGED <<index, minted>>
  <2>1. Showing' => Showing
    BY Zenon, <1>1 DEF Showing
  <2>2. Showing' =>
           /\ \A i \in DOMAIN jobs : jobs[i].who \in {server, NoOpener}
           /\ \A i \in DOMAIN jobs : i # 1 => ~ Closing(jobs[i], server, offer'[server].ref)
           /\ RowOf(offer'[server]) \in index'
           /\ slot' = SlotOf(offer'[server])
    BY Zenon, <1>1, <1>3, <1>5, <2>1
  <2>3. /\ slot' \in Slots /\ slot'.loc <= minted /\ offer' \in [Openers -> Offers]
        /\ \A d \in Openers : offer'[d] # NoOffer => d \in served
    BY Zenon, <1>1, <1>2, <1>5
  <2> QED BY Zenon, <1>1, <1>5, <2>2, <2>3, ReleaseStep
<1> QED BY Zenon, <1>4, <1>5 DEF InsertRefused

(* A daemon that no longer serves has its insert undone.                   *)
LEMMA OrphanSteps == ASSUME OfferInv, InsertOrphaned \/ UndoReply PROVE OfferInv'
<1>1. /\ jobs # <<>> /\ jobs[1].op = "open" /\ UNCHANGED <<server, served, minted, offer>>
  BY Zenon DEF InsertOrphaned, UndoReply, Running
<1>2. /\ jobs[1] \in LockJobs /\ jobs[1].old \in Slots /\ jobs[1].old.loc <= minted
      /\ jobs[1].who \in Openers /\ (Showing => jobs[1].who \in {server, NoOpener})
      /\ HeadOK(jobs[1]) /\ minted \in Nat
      /\ slot \in Slots /\ slot.loc <= minted /\ offer \in [Openers -> Offers]
      /\ \A d \in Openers : offer[d] # NoOffer => d \in served
  BY Zenon, <1>1, HeadIs DEF OfferInv, OfferTypes
<1>3. Showing' <=> Showing
  BY Zenon, <1>1 DEF Showing
<1>4. CASE InsertOrphaned
  <2>1. PICK k : k = [jobs[1] EXCEPT !.pc = "undo"]
    OBVIOUS
  <2>2. /\ k \in LockJobs /\ k.who = jobs[1].who /\ k.op = jobs[1].op /\ k.ref = jobs[1].ref
        /\ k.pc = "undo" /\ k.old = jobs[1].old
    BY <1>2, <2>1 DEF LockJobs
  <2>3. Hold(k) /\ slot' = slot /\ server # jobs[1].who
    BY Zenon, <1>4, <2>1 DEF InsertOrphaned
  <2>4. ~ Showing'
    BY Zenon, <1>2, <1>3, <2>3, PairingAssumption DEF Showing
  <2>5. HeadOK(k)'
    BY Zenon, <1>1, <2>2, <2>3 DEF HeadOK
  <2>6. minted' \in Nat /\ minted <= minted' /\ k.old.loc <= minted' /\ slot'.loc <= minted'
        /\ slot' \in Slots
    BY <1>1, <1>2, <2>2, <2>3
  <2> QED BY Zenon, <1>1, <1>2, <2>2, <2>3, <2>4, <2>5, <2>6, HoldStep
<1>5. CASE UndoReply
  <2>1. slot' = jobs[1].old /\ index' = index /\ Release /\ jobs[1].pc = "undo"
    BY Zenon, <1>5 DEF UndoReply, Running
  <2>2. ~ Showing'
    BY Zenon, <1>1, <1>2, <1>3, <2>1, PairingAssumption DEF HeadOK
  <2>3. slot' \in Slots /\ slot'.loc <= minted
    BY Zenon, <1>2, <2>1
  <2> QED BY Zenon, <1>1, <1>2, <2>1, <2>2, <2>3, ReleaseStep
<1> QED BY Zenon, <1>4, <1>5

LEMMA InsertTakenStep == ASSUME OfferInv, InsertTaken PROVE OfferInv'
<1>1. /\ jobs # <<>> /\ jobs[1].op = "open" /\ jobs[1].pc = "insert" /\ jobs[1].got = "ok"
      /\ server = jobs[1].who /\ Running("open", "insert")
      /\ UNCHANGED <<server, served, slot, minted>>
  BY Zenon DEF InsertTaken, Running
<1>2. /\ jobs[1] \in LockJobs /\ jobs[1].old \in Slots /\ jobs[1].old.loc <= minted
      /\ jobs[1].old.loc \in Nat /\ server \in Openers /\ HeadOK(jobs[1]) /\ minted \in Nat
      /\ slot \in Slots /\ slot.loc <= minted /\ offer \in [Openers -> Offers]
      /\ \A d \in Openers : offer[d] # NoOffer => d \in served
  BY Zenon, <1>1, HeadIs DEF OfferInv, OfferTypes
<1>3. slot = SlotOf(jobs[1]) /\ RowOf(jobs[1]) \in index /\ jobs[1].old.loc < jobs[1].loc
  BY Zenon, <1>1, <1>2 DEF HeadOK
<1>4. CASE jobs[1].old = NoSlot
  <2>1. OfferMade(jobs[1]) /\ Release /\ UNCHANGED index
    BY Zenon, <1>4 DEF InsertTaken
  <2>2. ~ Showing
    <3>1. Showing => jobs[1].old = SlotOf(offer[server])
      BY Zenon, <1>1 DEF OfferInv, ShownInv
    <3>2. Showing => SlotOf(offer[server]) # NoSlot
      BY Zenon, <1>2, OfferFacts DEF Showing
    <3> QED BY Zenon, <1>4, <3>1, <3>2
  <2> QED BY Zenon, <1>1, <1>3, <2>1, <2>2, OfferMadeStep
<1>5. CASE jobs[1].old # NoSlot
  <2>1. /\ offer' = [offer EXCEPT ![server] = NoOffer]
        /\ index' \in RowRemoved(jobs[1].old.loc)
        /\ Hold([jobs[1] EXCEPT !.pc = "swap"])
    BY Zenon, <1>5 DEF InsertTaken
  <2>2. PICK k : k = [jobs[1] EXCEPT !.pc = "swap"]
    OBVIOUS
  <2>3. /\ k \in LockJobs /\ k.who = jobs[1].who /\ k.op = jobs[1].op /\ k.ref = jobs[1].ref
        /\ k.pc = "swap" /\ k.old = jobs[1].old /\ k.loc = jobs[1].loc /\ k.got = "ok"
    BY <1>1, <1>2, <2>2 DEF LockJobs
  <2>4. Hold(k)
    BY Zenon, <2>1, <2>2
  <2>5. RowOf(jobs[1]) \in index'
    <3>1. RowOf(jobs[1]).loc # jobs[1].old.loc
      BY <1>2, <1>3 DEF RowOf, LockJobs
    <3> QED BY Zenon, <1>3, <2>1, <3>1, RowRemovedIs
  <2>6. RowOf(k) \in index' /\ slot' = SlotOf(k)
    BY Zenon, <1>1, <1>3, <2>3, <2>5 DEF RowOf, SlotOf
  <2>7. /\ offer'[server'] = NoOffer /\ offer' \in [Openers -> Offers]
        /\ \A d \in Openers : offer'[d] # NoOffer => d \in served
    BY Zenon, <1>1, <1>2, <2>1 DEF Offers
  <2>8. HeadOK(k)'
    BY Zenon, <1>1, <1>3, <2>3, <2>6, <2>7 DEF HeadOK
  <2>9. ~ Showing'
    BY Zenon, <2>7 DEF Showing
  <2>10. minted' \in Nat /\ minted <= minted' /\ k.old.loc <= minted' /\ slot'.loc <= minted'
         /\ slot' \in Slots
    BY <1>1, <1>2, <2>3
  <2> QED BY Zenon, <1>1, <2>3, <2>4, <2>7, <2>8, <2>9, <2>10, HoldStep
<1> QED BY Zenon, <1>4, <1>5

LEMMA SwapReplyStep == ASSUME OfferInv, SwapReply PROVE OfferInv'
<1>1. /\ jobs # <<>> /\ jobs[1].op = "open" /\ jobs[1].pc = "swap" /\ Release
      /\ OfferMade(jobs[1]) /\ UNCHANGED <<server, served, slot, index, minted>>
  BY Zenon DEF SwapReply, Running
<1>2. /\ jobs[1] \in LockJobs /\ HeadOK(jobs[1]) /\ jobs[1].who \in Openers
      /\ jobs[1].who \in served /\ (Showing => jobs[1].who \in {server, NoOpener})
      /\ slot \in Slots /\ slot.loc <= minted /\ offer \in [Openers -> Offers]
      /\ \A d \in Openers : offer[d] # NoOffer => d \in served
  BY Zenon, <1>1, HeadIs DEF OfferInv, OfferTypes
<1>3. CASE server = jobs[1].who
  <2>1. slot = SlotOf(jobs[1]) /\ RowOf(jobs[1]) \in index /\ offer[server] = NoOffer
    BY Zenon, <1>1, <1>2, <1>3 DEF HeadOK
  <2>2. ~ Showing
    BY Zenon, <2>1 DEF Showing
  <2> QED BY Zenon, <1>1, <1>3, <2>1, <2>2, OfferMadeStep
<1>4. CASE server # jobs[1].who
  <2> DEFINE told == [ref |-> jobs[1].ref, loc |-> jobs[1].loc]
  <2>1. offer' = offer \/ offer' = [offer EXCEPT ![jobs[1].who] = told]
    BY Zenon, <1>1 DEF OfferMade
  <2>2. told \in Offers
    <3>1. jobs[1].old.loc \in Nat /\ jobs[1].old.loc < jobs[1].loc
      BY Zenon, <1>1, <1>2, HeadIs DEF HeadOK
    <3> QED BY <1>2, <3>1 DEF LockJobs, Offers
  <2> HIDE DEF told
  <2>3. /\ offer' \in [Openers -> Offers]
        /\ \A d \in Openers : d # jobs[1].who => offer'[d] = offer[d]
    BY Zenon, <1>2, <2>1, <2>2
  <2>4. \A d \in Openers : offer'[d] # NoOffer => d \in served
    BY Zenon, <1>2, <2>3
  <2>5. ~ Showing'
    <3>1. server \in Openers \/ server = NoOpener
      BY Zenon DEF OfferInv, OfferTypes
    <3>2. Showing' => Showing
      BY Zenon, <1>1, <1>4, <2>3, <3>1 DEF Showing
    <3> QED BY Zenon, <1>2, <1>4, <3>2, PairingAssumption
  <2> QED BY Zenon, <1>1, <1>2, <2>3, <2>4, <2>5, ReleaseStep
<1> QED BY Zenon, <1>3, <1>4

LEMMA CloseSteps == ASSUME OfferInv, CloseStart \/ CloseReply PROVE OfferInv'
<1>1. /\ jobs # <<>> /\ jobs[1].op = "close" /\ UNCHANGED <<server, served, minted, offer>>
      /\ ~ Running("open", "insert")
  BY Zenon DEF CloseStart, CloseReply, Running
<1>2. /\ 1 \in DOMAIN jobs /\ jobs[1] \in LockJobs /\ jobs[1].old.loc <= minted
      /\ jobs[1].who \in Openers /\ (Showing => jobs[1].who \in {server, NoOpener})
      /\ HeadOK(jobs[1]) /\ minted \in Nat
      /\ slot \in Slots /\ slot.loc <= minted /\ offer \in [Openers -> Offers]
      /\ \A d \in Openers : offer[d] # NoOffer => d \in served
  BY Zenon, <1>1, HeadIs DEF OfferInv, OfferTypes
<1>3. Showing' <=> Showing
  BY Zenon, <1>1 DEF Showing
<1>4. Showing => /\ server = jobs[1].who /\ slot = SlotOf(offer[server])
                 /\ slot.ref # jobs[1].ref
  <2>1. Showing => server = jobs[1].who
    BY Zenon, <1>2, PairingAssumption
  <2>2. Showing => /\ slot = SlotOf(offer[server])
                   /\ ~ Closing(jobs[1], server, offer[server].ref)
    BY Zenon, <1>1, <1>2 DEF OfferInv, ShownInv
  <2>3. Showing => slot.ref = offer[server].ref
    BY <2>2 DEF SlotOf
  <2> QED BY Zenon, <1>1, <2>1, <2>2, <2>3 DEF Closing
<1>5. CASE CloseStart /\ server = jobs[1].who /\ slot # NoSlot /\ slot.ref = jobs[1].ref
  <2>1. slot' = slot /\ Hold([jobs[1] EXCEPT !.pc = "remove"])
    BY Zenon, <1>5 DEF CloseStart
  <2>2. PICK k : k = [jobs[1] EXCEPT !.pc = "remove"]
    OBVIOUS
  <2>3. /\ k \in LockJobs /\ k.who = jobs[1].who /\ k.op = jobs[1].op /\ k.ref = jobs[1].ref
        /\ k.old = jobs[1].old /\ k.pc = "remove"
    BY <1>2, <2>2 DEF LockJobs
  <2>4. Hold(k)
    BY Zenon, <2>1, <2>2
  <2>5. ~ Showing'
    BY Zenon, <1>3, <1>4, <1>5
  <2>6. HeadOK(k)'
    BY Zenon, <1>1, <1>5, <2>1, <2>3 DEF HeadOK
  <2>7. minted' \in Nat /\ minted <= minted' /\ k.old.loc <= minted' /\ slot'.loc <= minted'
        /\ slot' \in Slots
    BY <1>1, <1>2, <2>1, <2>3
  <2> QED BY Zenon, <1>1, <1>2, <2>3, <2>4, <2>5, <2>6, <2>7, HoldStep
<1>6. CASE CloseStart /\ ~ (server = jobs[1].who /\ slot # NoSlot /\ slot.ref = jobs[1].ref)
  <2>1. Release /\ index' = index /\ slot' = slot
    BY Zenon, <1>6 DEF CloseStart
  <2>2. Showing' =>
           /\ \A i \in DOMAIN jobs : jobs[i].who \in {server, NoOpener}
           /\ \A i \in DOMAIN jobs : i # 1 => ~ Closing(jobs[i], server, offer'[server].ref)
           /\ RowOf(offer'[server]) \in index'
           /\ slot' = SlotOf(offer'[server])
    BY Zenon, <1>1, <1>3, <1>4, <2>1 DEF OfferInv, ShownInv
  <2> QED BY Zenon, <1>1, <1>2, <2>1, <2>2, ReleaseStep
<1>7. CASE CloseReply
  <2>1. slot' = NoSlot /\ Release /\ jobs[1].pc = "remove"
    BY Zenon, <1>7 DEF CloseReply, Running
  <2>2. ~ Showing'
    BY Zenon, <1>1, <1>2, <1>3, <1>4, <2>1 DEF HeadOK
  <2>3. slot' \in Slots /\ slot'.loc <= minted
    BY <1>2, <2>1, SlotFacts
  <2> QED BY Zenon, <1>1, <1>2, <2>1, <2>2, <2>3, ReleaseStep
<1> QED BY Zenon, <1>5, <1>6, <1>7

LEMMA ExpireSteps == ASSUME OfferInv, ExpireStart \/ ExpireReply PROVE OfferInv'
<1>1. /\ jobs # <<>> /\ jobs[1].op = "expire" /\ UNCHANGED <<server, served, minted>>
      /\ ~ Running("open", "insert")
  BY Zenon DEF ExpireStart, ExpireReply, Running
<1>2. /\ jobs[1] \in LockJobs /\ jobs[1].old.loc <= minted /\ minted \in Nat
      /\ slot \in Slots /\ slot.loc <= minted /\ offer \in [Openers -> Offers]
      /\ \A d \in Openers : offer[d] # NoOffer => d \in served
  BY Zenon, <1>1, HeadIs DEF OfferInv, OfferTypes
<1>3. Showing => slot = SlotOf(offer[server])
  BY Zenon, <1>1 DEF OfferInv, ShownInv
<1>4. CASE ExpireStart /\ slot # NoSlot /\ slot.ref = jobs[1].ref /\ ~ slot.live
  <2>1. /\ offer' = IF server # NoOpener /\ offer[server].ref = slot.ref
                    THEN [offer EXCEPT ![server] = NoOffer] ELSE offer
        /\ slot' = NoSlot
        /\ Hold([jobs[1] EXCEPT !.pc = "remove"])
    BY Zenon, <1>4 DEF ExpireStart
  <2>2. PICK k : k = [jobs[1] EXCEPT !.pc = "remove"]
    OBVIOUS
  <2>3. /\ k \in LockJobs /\ k.who = jobs[1].who /\ k.op = jobs[1].op /\ k.ref = jobs[1].ref
        /\ k.old = jobs[1].old /\ k.pc = "remove"
    BY <1>2, <2>2 DEF LockJobs
  <2>4. Hold(k)
    BY Zenon, <2>1, <2>2
  <2>5. ~ Showing
    <3>1. Showing => slot.live = TRUE
      BY <1>3 DEF SlotOf
    <3> QED BY Zenon, <1>4, <3>1
  <2>6. /\ offer' \in [Openers -> Offers]
        /\ \A d \in Openers : offer'[d] # NoOffer => offer'[d] = offer[d]
    BY Zenon, <1>2, <2>1 DEF Offers
  <2>7. ~ Showing' /\ \A d \in Openers : offer'[d] # NoOffer => d \in served
    <3>1. server \in Openers \/ server = NoOpener
      BY Zenon DEF OfferInv, OfferTypes
    <3> QED BY Zenon, <1>1, <1>2, <2>5, <2>6, <3>1 DEF Showing
  <2>8. HeadOK(k)'
    BY Zenon, <1>1, <2>3 DEF HeadOK
  <2>9. minted' \in Nat /\ minted <= minted' /\ k.old.loc <= minted' /\ slot'.loc <= minted'
        /\ slot' \in Slots
    BY <1>1, <1>2, <2>1, <2>3, SlotFacts
  <2> QED BY Zenon, <1>1, <2>3, <2>4, <2>6, <2>7, <2>8, <2>9, HoldStep
<1>5. CASE Release /\ UNCHANGED <<offer, slot, index>>
  <2>1. Showing' <=> Showing
    BY Zenon, <1>1, <1>5 DEF Showing
  <2>2. Showing' =>
           /\ \A i \in DOMAIN jobs : jobs[i].who \in {server, NoOpener}
           /\ \A i \in DOMAIN jobs : i # 1 => ~ Closing(jobs[i], server, offer'[server].ref)
           /\ RowOf(offer'[server]) \in index'
           /\ slot' = SlotOf(offer'[server])
    BY Zenon, <1>3, <1>5, <2>1 DEF OfferInv, ShownInv
  <2> QED BY Zenon, <1>1, <1>2, <1>5, <2>2, ReleaseStep
<1> QED BY Zenon, <1>4, <1>5 DEF ExpireStart, ExpireReply

(* Daemons come and go.  One that has not registered has no offer and no   *)
(* job, and one that is gone does not come back.                           *)
LEMMA DaemonSteps ==
  ASSUME OfferInv,
         (\E d \in Openers : ServePairing(d)) \/ DropPairing \/ EvictPairing
  PROVE  OfferInv'
<1>1. slot' \in Slots /\ slot'.loc <= minted
  <2>1. slot \in Slots /\ slot.loc <= minted /\ minted \in Nat
    BY Zenon DEF OfferInv, OfferTypes
  <2>2. slot' = slot \/ slot' = NoSlot
    BY Zenon DEF ServePairing, DropPairing, EvictPairing, ForgetSlot
  <2> QED BY <2>1, <2>2, SlotFacts
<1>2. \A d \in Openers : d # NoOpener
  BY Zenon, PairingAssumption
<1>3. ASSUME NEW d \in Openers, ServePairing(d)
      PROVE  OfferInv'
  <2>1. /\ d \notin served /\ server' = d /\ served' = served \cup {d}
        /\ minted' = minted /\ jobs' = jobs /\ offer' = offer
    BY Zenon, <1>3 DEF ServePairing
  <2>2. OfferTypes'
    BY Zenon, <1>1, <2>1 DEF OfferInv, OfferTypes
  <2>3. \A i \in DOMAIN jobs : jobs[i].who # d
    BY Zenon, <1>2, <2>1 DEF OfferInv, QueueInv
  <2>4. QueueInv'
    BY Zenon, <2>1, <2>3 DEF OfferInv, QueueInv
  <2>5. HeadInv'
    <3>1. jobs # <<>> => 1 \in DOMAIN jobs
      BY Zenon, QueueIs DEF OfferInv, OfferTypes
    <3>2. jobs # <<>> => HeadOK(jobs[1])
      BY Zenon DEF OfferInv, HeadInv
    <3> QED BY Zenon, <2>1, <2>3, <3>1, <3>2 DEF HeadInv, HeadOK
  <2>6. ~ Showing'
    BY Zenon, <2>1 DEF Showing, OfferInv, OfferTypes
  <2> QED BY Zenon, <2>2, <2>4, <2>5, <2>6 DEF OfferInv, ShownInv
<1>4. CASE DropPairing
  <2>1. /\ server' = NoOpener /\ served' = served /\ minted' = minted
        /\ jobs' = jobs /\ offer' = offer
    BY Zenon, <1>4 DEF DropPairing
  <2>2. OfferTypes'
    BY Zenon, <1>1, <2>1 DEF OfferInv, OfferTypes
  <2>3. QueueInv'
    BY Zenon, <2>1 DEF OfferInv, QueueInv
  <2>4. HeadInv'
    <3>1. jobs # <<>> => /\ HeadOK(jobs[1])
                         /\ jobs[1].op # "expire" => jobs[1].who \in Openers
      BY Zenon, HeadIs
    <3> QED BY Zenon, <1>2, <2>1, <3>1 DEF HeadInv, HeadOK
  <2> QED BY Zenon, <2>1, <2>2, <2>3, <2>4 DEF OfferInv, ShownInv, Showing
<1>5. CASE EvictPairing
  <2>1. /\ server' = NoOpener /\ served' = served /\ minted' = minted
        /\ jobs' = <<>> /\ offer' = offer
    BY Zenon, <1>5 DEF EvictPairing
  <2>2. jobs' \in Seq(LockJobs) /\ DOMAIN jobs' = {}
    BY <2>1, EmptySeq
  <2>3. OfferTypes'
    BY Zenon, <1>1, <2>1, <2>2 DEF OfferInv, OfferTypes
  <2>4. QueueInv' /\ HeadInv'
    BY Zenon, <2>1, <2>2 DEF QueueInv, HeadInv
  <2> QED BY Zenon, <2>1, <2>3, <2>4 DEF OfferInv, ShownInv, Showing
<1> QED BY Zenon, <1>3, <1>4, <1>5

(* A request or an alarm joins the queue.                                  *)
LEMMA QueueSteps ==
  ASSUME OfferInv, NEW j \in LockJobs, jobs' = Append(jobs, j),
         j.pc = "queued", j.old.loc <= minted,
         j.who = NoOpener <=> j.op = "expire",
         j.who = NoOpener \/ (j.who = server /\ server \in served),
         UNCHANGED <<server, served, slot, index, minted>>,
         offer' \in [Openers -> Offers],
         \A d \in Openers : offer'[d] # NoOffer => offer'[d] = offer[d],
         Showing' => ~ Closing(j, server, offer[server].ref)
  PROVE  OfferInv'
<1>1. /\ jobs' \in Seq(LockJobs) /\ jobs' # <<>>
      /\ DOMAIN jobs' = DOMAIN jobs \cup {Len(jobs) + 1}
      /\ jobs'[Len(jobs) + 1] = j
      /\ \A i \in DOMAIN jobs : i < Len(jobs) + 1 /\ jobs'[i] = jobs[i]
      /\ jobs = <<>> => jobs'[1] = j
      /\ jobs # <<>> => 1 \in DOMAIN jobs
  BY Zenon, Appended DEF OfferInv, OfferTypes
<1>2. OfferTypes'
  BY Zenon, <1>1 DEF OfferInv, OfferTypes
<1>3. QueueInv'
  <2>1. \A i \in DOMAIN jobs' :
          /\ jobs'[i].who = NoOpener \/ jobs'[i].who \in served'
          /\ jobs'[i].who = NoOpener <=> jobs'[i].op = "expire"
          /\ i # 1 => jobs'[i].pc = "queued"
          /\ jobs'[i].old.loc <= minted'
    <3> TAKE i \in DOMAIN jobs'
    <3>1. CASE i \in DOMAIN jobs
      <4>1. /\ jobs[i].who = NoOpener \/ jobs[i].who \in served
            /\ jobs[i].who = NoOpener <=> jobs[i].op = "expire"
            /\ i # 1 => jobs[i].pc = "queued"
            /\ jobs[i].old.loc <= minted
        BY Zenon, <3>1 DEF OfferInv, QueueInv
      <4> QED BY Zenon, <1>1, <3>1, <4>1
    <3>2. CASE i = Len(jobs) + 1
      BY Zenon, <1>1, <3>2
    <3> QED BY Zenon, <1>1, <3>1, <3>2
  <2>2. \A i \in DOMAIN jobs : ~ (Len(jobs) + 1 < i) /\ ~ (Len(jobs) + 1 < Len(jobs) + 1)
    BY <1>1, QueueIs, LenProperties DEF OfferInv, OfferTypes
  <2>3. ~ (Len(jobs) + 1 < Len(jobs) + 1)
    BY LenProperties DEF OfferInv, OfferTypes
  <2>4. ASSUME server' # NoOpener, NEW i \in DOMAIN jobs', NEW k \in DOMAIN jobs',
               i < k, jobs'[i].who = server'
        PROVE  jobs'[k].who \in {server', NoOpener}
    <3>1. CASE k = Len(jobs) + 1
      BY Zenon, <1>1, <3>1
    <3>2. CASE k \in DOMAIN jobs /\ i \in DOMAIN jobs
      BY Zenon, <1>1, <2>4, <3>2 DEF OfferInv, QueueInv
    <3> QED BY Zenon, <1>1, <2>2, <2>3, <2>4, <3>1, <3>2
  <2> QED BY Zenon, <2>1, <2>4 DEF QueueInv
<1>4. server \in Openers \/ server = NoOpener
  BY Zenon DEF OfferInv, OfferTypes
<1>5. Showing' => Showing /\ offer'[server] = offer[server]
  BY Zenon, <1>4 DEF Showing
<1>6. HeadInv'
  <2>1. CASE jobs = <<>>
    BY Zenon, <1>1, <2>1 DEF HeadInv, HeadOK
  <2>2. CASE jobs # <<>>
    <3>1. jobs'[1] = jobs[1] /\ HeadOK(jobs[1])
      BY Zenon, <1>1, <2>2 DEF OfferInv, HeadInv
    <3>2. offer[server] = NoOffer /\ server \in Openers => offer'[server] = NoOffer
      BY Zenon
    <3>3. jobs[1].op # "expire" => jobs[1].who \in Openers
      BY Zenon, <2>2, HeadIs
    <3> QED BY Zenon, <3>1, <3>2, <3>3 DEF HeadInv, HeadOK
  <2> QED BY Zenon, <2>1, <2>2
<1>7. ShownInv'
  <2>1. \A pc \in {"insert", "refresh"} :
          /\ Running("open", pc)' => Running("open", pc) /\ jobs'[1] = jobs[1]
          /\ Running("open", pc) => Running("open", pc)'
    BY Zenon, <1>1 DEF Running
  <2>2. Showing' => /\ \A i \in DOMAIN jobs' : jobs'[i].who \in {server, NoOpener}
                    /\ \A i \in DOMAIN jobs' : ~ Closing(jobs'[i], server, offer'[server].ref)
    BY Zenon, <1>1, <1>5 DEF OfferInv, ShownInv
  <2>3. Showing' => RowOf(offer'[server]) \in index'
    BY Zenon, <1>5 DEF OfferInv, ShownInv
  <2>4. /\ ~ Running("open", "insert")' => ~ Running("open", "insert")
        /\ Running("open", "insert")' \/ Running("open", "refresh")' =>
             /\ Running("open", "insert") \/ Running("open", "refresh")
             /\ jobs'[1] = jobs[1]
    BY Zenon, <2>1
  <2>5. Showing' => /\ ~ Running("open", "insert")' => slot' = SlotOf(offer'[server])
                    /\ Running("open", "insert")' \/ Running("open", "refresh")' =>
                         jobs'[1].old = SlotOf(offer'[server])
    BY Zenon, <1>5, <2>4 DEF OfferInv, ShownInv
  <2> QED BY Zenon, <2>2, <2>3, <2>5 DEF ShownInv
<1> QED BY Zenon, <1>2, <1>3, <1>6, <1>7 DEF OfferInv

LEMMA RequestSteps ==
  ASSUME OfferInv, NEW ref \in Refs,
         (\E op \in {"open", "close"}, d \in Openers : PairRequest(op, d, ref)) \/ TtlAlarm(ref)
  PROVE  OfferInv'
<1>1. ASSUME NEW op \in {"open", "close", "expire"}, NEW d \in Openers \cup {NoOpener}
      PROVE  /\ Job(op, d, ref) \in LockJobs /\ Job(op, d, ref).op = op
             /\ Job(op, d, ref).who = d /\ Job(op, d, ref).ref = ref
             /\ Job(op, d, ref).pc = "queued" /\ Job(op, d, ref).old = NoSlot
  BY SlotFacts DEF Job, LockJobs
<1>2. offer \in [Openers -> Offers] /\ NoSlot.loc <= minted
      /\ (server \in served \/ server = NoOpener) /\ \A d \in Openers : d # NoOpener
  BY SlotFacts, PairingAssumption DEF OfferInv, OfferTypes
<1>3. ASSUME NEW op \in {"open", "close"}, NEW d \in Openers, PairRequest(op, d, ref)
      PROVE  OfferInv'
  <2>1. /\ server = d /\ jobs' = Append(jobs, Job(op, d, ref))
        /\ offer' = IF op = "close" /\ offer[d].ref = ref
                    THEN [offer EXCEPT ![d] = NoOffer] ELSE offer
        /\ UNCHANGED <<server, served, slot, index, minted>>
    BY Zenon, <1>3 DEF PairRequest
  <2>2. PICK j : j = Job(op, d, ref)
    OBVIOUS
  <2>3. /\ j \in LockJobs /\ j.op = op /\ j.who = d /\ j.ref = ref /\ j.pc = "queued"
        /\ j.old.loc <= minted
    <3>1. op \in {"open", "close", "expire"} /\ d \in Openers \cup {NoOpener}
      BY Zenon
    <3>2. /\ Job(op, d, ref) \in LockJobs /\ Job(op, d, ref).op = op
          /\ Job(op, d, ref).who = d /\ Job(op, d, ref).ref = ref
          /\ Job(op, d, ref).pc = "queued" /\ Job(op, d, ref).old = NoSlot
      BY Zenon, <1>1, <3>1
    <3> QED BY Zenon, <1>2, <2>2, <3>2
  <2>4. /\ offer' \in [Openers -> Offers]
        /\ \A e \in Openers : offer'[e] # NoOffer => offer'[e] = offer[e]
    BY Zenon, <1>2, <2>1 DEF Offers
  <2>5. Showing' => ~ Closing(j, server, offer[server].ref)
    <3>1. op = "close" /\ offer[d].ref = ref => offer'[d] = NoOffer
      BY Zenon, <1>2, <2>1
    <3> QED BY Zenon, <2>1, <2>3, <3>1 DEF Showing, Closing
  <2>6. j.who = NoOpener <=> j.op = "expire"
    BY Zenon, <1>2, <2>3
  <2> QED BY Zenon, <1>2, <2>1, <2>2, <2>3, <2>4, <2>5, <2>6, QueueSteps
<1>4. CASE TtlAlarm(ref)
  <2>1. /\ jobs' = Append(jobs, Job("expire", NoOpener, ref))
        /\ UNCHANGED <<server, served, slot, index, minted, offer>>
    BY Zenon, <1>4 DEF TtlAlarm
  <2>2. PICK j : j = Job("expire", NoOpener, ref)
    OBVIOUS
  <2>3. /\ j \in LockJobs /\ j.op = "expire" /\ j.who = NoOpener /\ j.pc = "queued"
        /\ j.old.loc <= minted
    BY Zenon, <1>1, <1>2, <2>2
  <2>4. Showing' => ~ Closing(j, server, offer[server].ref)
    BY Zenon, <2>3 DEF Closing
  <2> QED BY Zenon, <1>2, <2>1, <2>2, <2>3, <2>4, QueueSteps
<1> QED BY Zenon, <1>3, <1>4

(* Deadlines pass: an offer's first, then those of its slot and its row.   *)
LEMMA LapseSteps ==
  ASSUME OfferInv,
         \/ \E d \in Openers : OfferLapses(d)
         \/ SlotLapses \/ OldSlotLapses
         \/ \E r \in index : RowLapses(r)
  PROVE  OfferInv'
<1>1. /\ slot \in Slots /\ slot.loc \in Nat /\ slot.loc <= minted /\ minted \in Nat
      /\ offer \in [Openers -> Offers]
      /\ server \in Openers \/ server = NoOpener
      /\ \A d \in Openers : d # NoOpener
  BY Zenon, SlotFacts, PairingAssumption DEF OfferInv, OfferTypes
<1>2. Showing => /\ server \in Openers /\ Offered(offer[server].loc)
                 /\ SlotOf(offer[server]).loc = offer[server].loc
                 /\ RowOf(offer[server]).loc = offer[server].loc
  BY Zenon, <1>1, OfferFacts DEF Showing, Offered, RowOf
<1>3. jobs # <<>> => /\ HeadOK(jobs[1]) /\ jobs[1] \in LockJobs /\ jobs[1].old \in Slots
                     /\ jobs[1].old.loc \in Nat /\ jobs[1].old.loc <= minted
                     /\ jobs[1].op # "expire" => jobs[1].who \in Openers
  BY Zenon, HeadIs
<1>4. ASSUME NEW d \in Openers, OfferLapses(d)
      PROVE  OfferInv'
  <2>1. /\ offer' = [offer EXCEPT ![d] = NoOffer]
        /\ UNCHANGED <<server, served, slot, index, minted, jobs>>
    BY Zenon, <1>4 DEF OfferLapses
  <2>2. /\ offer' \in [Openers -> Offers]
        /\ \A e \in Openers : offer'[e] # NoOffer => offer'[e] = offer[e]
    BY Zenon, <1>1, <2>1 DEF Offers
  <2>3. OfferTypes'
    BY Zenon, <2>1, <2>2 DEF OfferInv, OfferTypes
  <2>4. QueueInv'
    BY Zenon, <2>1 DEF OfferInv, QueueInv
  <2>5. HeadInv'
    <3>1. server \in Openers /\ offer[server] = NoOffer => offer'[server] = NoOffer
      BY Zenon, <2>2
    <3> QED BY Zenon, <1>3, <2>1, <3>1 DEF HeadInv, HeadOK
  <2>6. Showing' => Showing /\ offer'[server] = offer[server]
    BY Zenon, <1>1, <2>1, <2>2 DEF Showing
  <2>7. ShownInv'
    <3>1. Running("open", "insert")' = Running("open", "insert")
          /\ Running("open", "refresh")' = Running("open", "refresh")
      BY Zenon, <2>1 DEF Running
    <3>2. Showing' => /\ \A i \in DOMAIN jobs : jobs[i].who \in {server, NoOpener}
                      /\ \A i \in DOMAIN jobs : ~ Closing(jobs[i], server, offer'[server].ref)
                      /\ RowOf(offer'[server]) \in index
                      /\ ~ Running("open", "insert") => slot = SlotOf(offer'[server])
                      /\ Running("open", "insert") \/ Running("open", "refresh") =>
                           jobs[1].old = SlotOf(offer'[server])
      BY Zenon, <2>6 DEF OfferInv, ShownInv
    <3> QED BY <2>1, <3>1, <3>2 DEF ShownInv
  <2> QED BY Zenon, <2>3, <2>4, <2>5, <2>7 DEF OfferInv
<1>5. CASE SlotLapses
  <2>1. /\ slot.live /\ ~ Offered(slot.loc) /\ ~ BeingOpened(slot.loc)
        /\ slot' = [slot EXCEPT !.live = FALSE]
        /\ UNCHANGED <<server, served, index, minted, jobs, offer>>
    BY Zenon, <1>5 DEF SlotLapses
  <2>2. slot' \in Slots /\ slot'.loc = slot.loc /\ slot'.ref = slot.ref
    <3>1. slot \in [ref: Refs, loc: Nat \ {0}, live: BOOLEAN]
      BY Zenon, <1>1, <2>1, SlotFacts
    <3> QED BY <2>1, <3>1 DEF Slots
  <2>3. OfferTypes'
    BY Zenon, <1>1, <2>1, <2>2 DEF OfferInv, OfferTypes
  <2>4. QueueInv'
    BY Zenon, <2>1 DEF OfferInv, QueueInv
  <2>5. HeadInv'
    <3>1. jobs # <<>> => SlotOf(jobs[1]).loc = jobs[1].loc
      BY Zenon DEF SlotOf
    <3>2. jobs # <<>> /\ jobs[1].op = "open" => slot # SlotOf(jobs[1])
      BY Zenon, <2>1, <3>1 DEF BeingOpened
    <3> QED BY Zenon, <1>3, <2>1, <2>2, <3>2 DEF HeadInv, HeadOK
  <2>6. Showing' => Showing
    BY Zenon, <2>1 DEF Showing
  <2>7. Showing => slot # SlotOf(offer[server])
    BY Zenon, <1>2, <2>1
  <2>8. ShownInv'
    BY Zenon, <2>1, <2>6, <2>7 DEF OfferInv, ShownInv, Running
  <2> QED BY Zenon, <2>3, <2>4, <2>5, <2>8 DEF OfferInv
<1>6. ASSUME NEW r \in index, RowLapses(r)
      PROVE  OfferInv'
  <2>1. /\ ~ Offered(r.loc) /\ ~ BeingOpened(r.loc) /\ index' = index \ {r}
        /\ UNCHANGED <<server, served, slot, minted, jobs, offer>>
    BY Zenon, <1>6 DEF RowLapses
  <2>2. OfferTypes' /\ QueueInv'
    BY Zenon, <2>1 DEF OfferInv, OfferTypes, QueueInv
  <2>3. HeadInv'
    <3>1. jobs # <<>> => RowOf(jobs[1]).loc = jobs[1].loc
      BY Zenon DEF RowOf
    <3>2. jobs # <<>> /\ jobs[1].op = "open" => r # RowOf(jobs[1])
      BY Zenon, <2>1, <3>1 DEF BeingOpened
    <3> QED BY Zenon, <1>3, <2>1, <3>2 DEF HeadInv, HeadOK
  <2>4. Showing' => Showing /\ r # RowOf(offer[server])
    BY Zenon, <1>2, <2>1 DEF Showing
  <2>5. ShownInv'
    BY Zenon, <2>1, <2>4 DEF OfferInv, ShownInv, Running
  <2> QED BY Zenon, <2>2, <2>3, <2>5 DEF OfferInv
<1>7. CASE OldSlotLapses
  <2>1. /\ jobs # <<>> /\ jobs[1].old.live /\ ~ Offered(jobs[1].old.loc)
        /\ jobs' = [jobs EXCEPT ![1].old.live = FALSE]
        /\ UNCHANGED <<server, served, slot, index, minted, offer>>
    BY Zenon, <1>7 DEF OldSlotLapses
  <2>2. PICK k : k = [jobs[1] EXCEPT !.old.live = FALSE]
    OBVIOUS
  <2>3. jobs[1].old \in [ref: Refs, loc: Nat \ {0}, live: BOOLEAN]
    BY Zenon, <1>3, <2>1, SlotFacts
  <2>4. /\ k \in LockJobs /\ k.who = jobs[1].who /\ k.op = jobs[1].op /\ k.ref = jobs[1].ref
        /\ k.old.loc = jobs[1].old.loc /\ k.pc = jobs[1].pc /\ k.loc = jobs[1].loc
        /\ k.got = jobs[1].got
    BY <1>3, <2>1, <2>2, <2>3 DEF LockJobs, Slots
  <2>5. Hold(k)
    BY Zenon, <2>1, <2>2 DEF Hold
  <2>6. HeadOK(k)'
    BY Zenon, <1>3, <2>1, <2>4 DEF HeadOK, SlotOf, RowOf
  <2>7. Showing' => Showing /\ jobs[1].old # SlotOf(offer[server])
    BY Zenon, <1>2, <2>1 DEF Showing
  <2>8. Showing' =>
           /\ Showing /\ offer'[server] = offer[server]
           /\ RowOf(offer[server]) \in index'
           /\ slot' = SlotOf(offer[server])
           /\ ~ (k.op = "open" /\ k.pc \in {"insert", "refresh"})
    BY Zenon, <2>1, <2>4, <2>7 DEF OfferInv, ShownInv, Running
  <2>9. minted' \in Nat /\ minted <= minted' /\ k.old.loc <= minted' /\ slot'.loc <= minted'
        /\ slot' \in Slots /\ offer' \in [Openers -> Offers]
        /\ \A d \in Openers : offer'[d] # NoOffer => d \in served
    BY <1>1, <1>3, <2>1, <2>4 DEF OfferInv, OfferTypes
  <2> QED BY Zenon, <2>1, <2>4, <2>5, <2>6, <2>8, <2>9, HoldStep
<1> QED BY Zenon, <1>4, <1>5, <1>6, <1>7

LEMMA OfferInvariant == PairingSpec => []OfferInv
<1>1. PairingInit => OfferInv
  <2> SUFFICES ASSUME PairingInit PROVE OfferInv
    OBVIOUS
  <2>1. jobs \in Seq(LockJobs) /\ jobs = <<>> /\ DOMAIN jobs = {}
    BY EmptySeq DEF PairingInit
  <2>2. OfferTypes
    <3>1. offer \in [Openers -> Offers] /\ \A d \in Openers : offer[d] = NoOffer
      BY Zenon DEF PairingInit, Offers
    <3>2. slot \in Slots /\ slot.loc <= minted /\ minted \in Nat
      BY SlotFacts DEF PairingInit
    <3> QED BY Zenon, <2>1, <3>1, <3>2 DEF PairingInit, OfferTypes
  <2>3. QueueInv /\ HeadInv
    BY Zenon, <2>1 DEF QueueInv, HeadInv
  <2>4. ~ Showing
    BY Zenon DEF PairingInit, Showing
  <2> QED BY Zenon, <2>2, <2>3, <2>4 DEF OfferInv, ShownInv
<1>2. OfferInv /\ [PairingNext]_pairingVars => OfferInv'
  <2> SUFFICES ASSUME OfferInv, [PairingNext]_pairingVars PROVE OfferInv'
    OBVIOUS
  <2>1. CASE UNCHANGED pairingVars
    <3>1. UNCHANGED <<server, served, slot, index, minted, jobs, offer>>
      BY Zenon, <2>1 DEF pairingVars
    <3>2. OfferTypes' /\ QueueInv' /\ HeadInv'
      BY Zenon, <3>1 DEF OfferInv, OfferTypes, QueueInv, HeadInv, HeadOK
    <3>3. ShownInv'
      BY Zenon, <3>1 DEF OfferInv, ShownInv, Showing, Running
    <3> QED BY Zenon, <3>2, <3>3 DEF OfferInv
  <2>2. CASE PairingNext
    BY Zenon, <2>2, DaemonSteps, RequestSteps, LapseSteps, OpenStartStep, RefreshReplyStep,
       InsertRefusedStep, OrphanSteps, InsertTakenStep, SwapReplyStep, CloseSteps,
       ExpireSteps DEF PairingNext
  <2> QED BY Zenon, <2>1, <2>2
<1> QED BY <1>1, <1>2, PTL DEF PairingSpec

(* room/pairing.ts: a code the serving daemon was told is open and has     *)
(* nothing under way for can be used, for any daemons, codes and queue.    *)
THEOREM OfferCanBeUsedAlways == PairingSpec => []OfferCanBeUsed
<1>1. OfferInv => OfferCanBeUsed
  <2> SUFFICES ASSUME OfferInv, NEW d \in Openers, server = d, offer[d] # NoOffer,
                      ~ \E i \in DOMAIN jobs : jobs[i].who = d
               PROVE  /\ slot = [ref |-> offer[d].ref, loc |-> offer[d].loc, live |-> TRUE]
                      /\ [loc |-> slot.loc, ref |-> slot.ref] \in index
    BY Zenon DEF OfferCanBeUsed
  <2>1. Showing
    BY Zenon, PairingAssumption DEF Showing
  <2>2. ~ Running("open", "insert")
    <3>1. jobs # <<>> => /\ 1 \in DOMAIN jobs /\ jobs[1].who \in {server, NoOpener}
                         /\ jobs[1].op # "expire" => jobs[1].who \in Openers
      BY Zenon, <2>1, HeadIs
    <3> QED BY Zenon, <3>1, PairingAssumption DEF Running
  <2>3. slot = SlotOf(offer[d]) /\ RowOf(offer[d]) \in index
    BY Zenon, <2>1, <2>2 DEF OfferInv, ShownInv
  <2>4. slot.loc = offer[d].loc /\ slot.ref = offer[d].ref
    BY <2>3 DEF SlotOf
  <2> QED BY Zenon, <2>3, <2>4 DEF SlotOf, RowOf
<1> QED BY <1>1, OfferInvariant, PTL
=============================================================================
