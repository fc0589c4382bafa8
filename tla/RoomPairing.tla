---------------------------- MODULE RoomPairing -----------------------------
(***************************************************************************)
(* The pairing slot of a room (room/pairing.ts, expireSlot in alarms.ts)   *)
(* and its row in the pairing index.  PAIR_OPEN, PAIR_CLOSE and the        *)
(* pair_ttl alarm queue for one lock and await the index while they hold   *)
(* it; a daemon that leaves or is replaced takes the slot with it and does *)
(* not ask for the lock.                                                   *)
(*                                                                         *)
(* A call to the index takes effect when it is made and is answered later; *)
(* one that fails may have taken effect.  Deadlines lapse in the order in  *)
(* which they were set.                                                    *)
(***************************************************************************)
EXTENDS Naturals, Sequences

CONSTANTS
  Openers,             \* the daemon's websockets, one registration each
  NoOpener,
  Refs, NoRef,         \* pair_ref, named by the daemon
  LOC_MINT_TRIES,
  MaxMinted, MaxQueue  \* bounds

VARIABLES
  server,    \* room.daemon
  served,    \* the sockets that have registered so far
  slot,      \* stored: the pairing slot
  index,     \* the rows of this room in the pairing index
  minted,    \* locations minted so far
  jobs,      \* who holds the lock, then who queues for it
  offer      \* daemon -> the location it was told of and still shows

pairingVars == <<server, served, slot, index, minted, jobs, offer>>

(* NoOpener is the name of no daemon.                                       *)
ASSUME PairingAssumption == NoOpener \notin Openers

NoSlot == [ref |-> NoRef, loc |-> 0, live |-> FALSE]
NoOffer == [ref |-> NoRef, loc |-> 0]

(* The remove of an index row is best effort.                              *)
RowRemoved(loc) == {index, {r \in index : r.loc # loc}}

ForgetSlot ==
  /\ slot' = NoSlot
  /\ index' \in IF slot = NoSlot THEN {index} ELSE RowRemoved(slot.loc)

PairingInit ==
  /\ server = NoOpener /\ served = {}
  /\ slot = NoSlot /\ index = {} /\ minted = 0
  /\ jobs = <<>>
  /\ offer = [d \in Openers |-> NoOffer]

(* A daemon registers, and replaces the one that served (notifyReplaced).  *)
ServePairing(d) ==
  /\ d \notin served
  /\ server' = d /\ served' = served \cup {d}
  /\ IF server = NoOpener THEN UNCHANGED <<slot, index>> ELSE ForgetSlot
  /\ UNCHANGED <<minted, jobs, offer>>

(* The daemon's socket closes, or the room is kicked (dropDaemon).         *)
DropPairing ==
  /\ server # NoOpener \/ slot # NoSlot
  /\ server' = NoOpener
  /\ ForgetSlot
  /\ UNCHANGED <<served, minted, jobs, offer>>

(* The platform drops the object: sockets and running handlers are lost.   *)
EvictPairing ==
  /\ jobs # <<>>
  /\ server' = NoOpener /\ jobs' = <<>>
  /\ UNCHANGED <<served, slot, index, minted, offer>>
-----------------------------------------------------------------------------
(* withPairingLock.                                                        *)
Job(op, d, ref) ==
  [op |-> op, who |-> d, ref |-> ref, pc |-> "queued", old |-> NoSlot,
   loc |-> 0, got |-> "none", tries |-> 0]

Running(op, pc) == jobs # <<>> /\ jobs[1].op = op /\ jobs[1].pc = pc
Release == jobs' = Tail(jobs)
Hold(j) == jobs' = [jobs EXCEPT ![1] = j]

(* The daemon sends PAIR_OPEN, or PAIR_CLOSE when it shows the code no     *)
(* longer.                                                                 *)
PairRequest(op, d, ref) ==
  /\ server = d
  /\ Len(jobs) < MaxQueue
  /\ op = "close" \/ minted + LOC_MINT_TRIES * (1 + Len(jobs)) <= MaxMinted
  /\ jobs' = Append(jobs, Job(op, d, ref))
  /\ offer' = IF op = "close" /\ offer[d].ref = ref
              THEN [offer EXCEPT ![d] = NoOffer] ELSE offer
  /\ UNCHANGED <<server, served, slot, index, minted>>

TtlAlarm(ref) ==
  /\ Len(jobs) < MaxQueue
  /\ \A i \in DOMAIN jobs : jobs[i].op # "expire"
  /\ jobs' = Append(jobs, Job("expire", NoOpener, ref))
  /\ UNCHANGED <<server, served, slot, index, minted, offer>>

(* The index answers an insert: a location another room holds conflicts.   *)
InsertOutcomes(loc, ref) ==
  LET row == [loc |-> loc, ref |-> ref] IN
  {[got |-> "ok", rows |-> index \cup {row}],
   [got |-> "fail", rows |-> index \cup {row}],
   [got |-> "fail", rows |-> index]}
  \cup IF row \in index THEN {} ELSE {[got |-> "conflict", rows |-> index]}

(* One turn of the minting loop: the slot is written before the index is   *)
(* asked.                                                                  *)
MintAndInsert(j) ==
  LET loc == minted + 1 IN
  \E o \in InsertOutcomes(loc, j.ref) :
    /\ minted' = loc
    /\ slot' = [ref |-> j.ref, loc |-> loc, live |-> TRUE]
    /\ index' = o.rows
    /\ Hold([j EXCEPT !.pc = "insert", !.loc = loc, !.got = o.got])

(* handlePairOpenLocked up to its first await.                             *)
OpenStart ==
  /\ Running("open", "queued")
  /\ \/ server # jobs[1].who /\ Release /\ UNCHANGED <<slot, index, minted>>
     \/ /\ server = jobs[1].who /\ slot # NoSlot /\ slot.ref = jobs[1].ref
        /\ \E o \in InsertOutcomes(slot.loc, slot.ref) :
             /\ slot' = [slot EXCEPT !.live = TRUE]
             /\ index' = o.rows
             /\ Hold([jobs[1] EXCEPT !.pc = "refresh", !.old = slot,
                                     !.loc = slot.loc, !.got = o.got])
        /\ UNCHANGED minted
     \/ /\ server = jobs[1].who /\ (slot = NoSlot \/ slot.ref # jobs[1].ref)
        /\ MintAndInsert([jobs[1] EXCEPT !.old = slot])
  /\ UNCHANGED <<server, served, offer>>

(* The daemon is told, and shows the code unless it has closed it since.   *)
OfferMade(j) ==
  offer' = IF \E i \in DOMAIN jobs : jobs[i].op = "close" /\ jobs[i].who = j.who
                                     /\ jobs[i].ref = j.ref
           THEN offer
           ELSE [offer EXCEPT ![j.who] = [ref |-> j.ref, loc |-> j.loc]]

(* A refresh: a failure writes the old deadline back.                      *)
RefreshReply ==
  /\ Running("open", "refresh")
  /\ \/ /\ jobs[1].got # "ok"
        /\ slot' = jobs[1].old
        /\ UNCHANGED <<index, offer>>
     \/ /\ jobs[1].got = "ok" /\ server # jobs[1].who
        /\ index' \in RowRemoved(jobs[1].loc)
        /\ UNCHANGED <<slot, offer>>
     \/ /\ jobs[1].got = "ok" /\ server = jobs[1].who
        /\ OfferMade(jobs[1])
        /\ UNCHANGED <<slot, index>>
  /\ Release
  /\ UNCHANGED <<server, served, minted>>

(* The index refused: the slot is put back, and a conflict mints again.    *)
InsertRefused ==
  /\ Running("open", "insert") /\ jobs[1].got # "ok"
  /\ IF jobs[1].got = "conflict" /\ jobs[1].tries + 1 < LOC_MINT_TRIES
     THEN MintAndInsert([jobs[1] EXCEPT !.tries = @ + 1])
     ELSE slot' = jobs[1].old /\ Release /\ UNCHANGED <<index, minted>>
  /\ UNCHANGED <<server, served, offer>>

(* The index took it, but the daemon that asked no longer serves.          *)
InsertOrphaned ==
  /\ Running("open", "insert") /\ jobs[1].got = "ok" /\ server # jobs[1].who
  /\ index' \in RowRemoved(jobs[1].loc)
  /\ Hold([jobs[1] EXCEPT !.pc = "undo"])
  /\ UNCHANGED <<server, served, slot, minted, offer>>

UndoReply ==
  /\ Running("open", "undo")
  /\ slot' = jobs[1].old
  /\ Release
  /\ UNCHANGED <<server, served, index, minted, offer>>

(* The index took it: the code shown before, if any, is withdrawn.         *)
InsertTaken ==
  /\ Running("open", "insert") /\ jobs[1].got = "ok" /\ server = jobs[1].who
  /\ IF jobs[1].old = NoSlot
     THEN OfferMade(jobs[1]) /\ Release /\ UNCHANGED index
     ELSE /\ offer' = [offer EXCEPT ![server] = NoOffer]
          /\ index' \in RowRemoved(jobs[1].old.loc)
          /\ Hold([jobs[1] EXCEPT !.pc = "swap"])
  /\ UNCHANGED <<server, served, slot, minted>>

SwapReply ==
  /\ Running("open", "swap")
  /\ OfferMade(jobs[1])
  /\ Release
  /\ UNCHANGED <<server, served, slot, index, minted>>

(* handlePairCloseLocked: the slot goes after the index has answered.      *)
CloseStart ==
  /\ Running("close", "queued")
  /\ IF server = jobs[1].who /\ slot # NoSlot /\ slot.ref = jobs[1].ref
     THEN /\ index' \in RowRemoved(slot.loc)
          /\ Hold([jobs[1] EXCEPT !.pc = "remove"])
     ELSE Release /\ UNCHANGED index
  /\ UNCHANGED <<server, served, slot, minted, offer>>

CloseReply ==
  /\ Running("close", "remove")
  /\ slot' = NoSlot
  /\ Release
  /\ UNCHANGED <<server, served, index, minted, offer>>

\* The deadline is not looked at again under the lock.
MutExpireStart ==
  /\ Running("expire", "queued")
  /\ IF slot # NoSlot /\ slot.ref = jobs[1].ref
     THEN /\ slot' = NoSlot
          /\ index' \in RowRemoved(slot.loc)
          /\ Hold([jobs[1] EXCEPT !.pc = "remove"])
     ELSE Release /\ UNCHANGED <<slot, index>>
  /\ UNCHANGED <<server, served, minted, offer>>

(* expireSlot looks again under the lock: the slot may have been refreshed *)
(* or replaced since its alarm was due.                                    *)
ExpireStart ==
  /\ Running("expire", "queued")
  /\ IF slot # NoSlot /\ slot.ref = jobs[1].ref /\ ~ slot.live
     THEN /\ offer' = IF server # NoOpener /\ offer[server].ref = slot.ref
                      THEN [offer EXCEPT ![server] = NoOffer] ELSE offer
          /\ slot' = NoSlot
          /\ index' \in RowRemoved(slot.loc)
          /\ Hold([jobs[1] EXCEPT !.pc = "remove"])
     ELSE Release /\ UNCHANGED <<offer, slot, index>>
  /\ UNCHANGED <<server, served, minted>>

ExpireReply ==
  /\ Running("expire", "remove")
  /\ Release
  /\ UNCHANGED <<server, served, slot, index, minted, offer>>
-----------------------------------------------------------------------------
(* Deadlines pass.  The daemon's own copy was set with the slot's and the  *)
(* row's, so it is the first of the three to lapse; a deadline is at least *)
(* 60 s away (MIN_TTL_S) when PAIR_OPEN sets it and outlives the call.     *)
Offered(loc) == \E d \in Openers : offer[d] # NoOffer /\ offer[d].loc = loc
BeingOpened(loc) == jobs # <<>> /\ jobs[1].op = "open" /\ jobs[1].loc = loc

OfferLapses(d) ==
  /\ offer[d] # NoOffer
  /\ offer' = [offer EXCEPT ![d] = NoOffer]
  /\ UNCHANGED <<server, served, slot, index, minted, jobs>>

SlotLapses ==
  /\ slot.live /\ ~ Offered(slot.loc) /\ ~ BeingOpened(slot.loc)
  /\ slot' = [slot EXCEPT !.live = FALSE]
  /\ UNCHANGED <<server, served, index, minted, jobs, offer>>

RowLapses(r) ==
  /\ ~ Offered(r.loc) /\ ~ BeingOpened(r.loc)
  /\ index' = index \ {r}
  /\ UNCHANGED <<server, served, slot, minted, jobs, offer>>

OldSlotLapses ==
  /\ jobs # <<>> /\ jobs[1].old.live /\ ~ Offered(jobs[1].old.loc)
  /\ jobs' = [jobs EXCEPT ![1].old.live = FALSE]
  /\ UNCHANGED <<server, served, slot, index, minted, offer>>

PairingNext ==
  \/ DropPairing \/ EvictPairing
  \/ \E d \in Openers : ServePairing(d) \/ OfferLapses(d)
  \/ \E op \in {"open", "close"}, d \in Openers, ref \in Refs : PairRequest(op, d, ref)
  \/ \E ref \in Refs : TtlAlarm(ref)
  \/ OpenStart \/ RefreshReply \/ InsertRefused \/ InsertOrphaned \/ UndoReply
  \/ InsertTaken \/ SwapReply \/ CloseStart \/ CloseReply \/ ExpireStart \/ ExpireReply
  \/ SlotLapses \/ OldSlotLapses
  \/ \E r \in index : RowLapses(r)

PairingSpec == PairingInit /\ [][PairingNext]_pairingVars
-----------------------------------------------------------------------------
(* Slot, index rows and offers only name locations that were minted.       *)
PairingTypeOK ==
  /\ server \in served \cup {NoOpener} /\ served \subseteq Openers
  /\ slot \in [ref: Refs \cup {NoRef}, loc: 0..minted, live: BOOLEAN]
  /\ index \subseteq [loc: 1..minted, ref: Refs]
  /\ minted \in 0..MaxMinted /\ Len(jobs) <= MaxQueue
  /\ offer \in [Openers -> [ref: Refs \cup {NoRef}, loc: 0..minted]]

(* While the serving daemon shows a code it was told is open, the code     *)
(* works: the index leads to this room and the slot still carries it.  No  *)
(* order of refresh, replacement, failed insert, expiry and close, queued  *)
(* or under way, leaves the user with a code that finds nothing.           *)
OfferCanBeUsed ==
  \A d \in Openers :
    /\ server = d /\ offer[d] # NoOffer
    /\ ~ \E i \in DOMAIN jobs : jobs[i].who = d
    => /\ slot = [ref |-> offer[d].ref, loc |-> offer[d].loc, live |-> TRUE]
       /\ [loc |-> slot.loc, ref |-> slot.ref] \in index
=============================================================================
