----------------------------- MODULE RoomAlarms -----------------------------
(***************************************************************************)
(* The timers of a room (room/alarms.ts, and the alarm table of            *)
(* cf-store.ts): every deadline is a row of one table, the platform's      *)
(* single alarm is kept at the earliest row, and harvestDue applies the    *)
(* rows that are due and then deletes them by id.                          *)
(*                                                                         *)
(* The platform delivers no event while a storage call is in flight, so a  *)
(* handler that only arms timers is one action.  The harvest lets events   *)
(* in where it waits for the pairing lock or for the pairing index.        *)
(***************************************************************************)
EXTENDS Naturals, FiniteSets, FiniteSetsExt

CONSTANTS
  Guests,                                    \* websockets, each connects once
  HELLO_GRACE_MS, RESUME_MS, PAIR_FIRST_MS, PAIR_CONFIRM_MS, DEFAULT_TTL_MS,
  MaxTime, MaxLate, MaxOpens   \* bounds: the clock, an alarm's delay, PAIR_OPENs

ASSUME AlarmAssumption ==
  {HELLO_GRACE_MS, RESUME_MS, PAIR_FIRST_MS, PAIR_CONFIRM_MS, DEFAULT_TTL_MS,
   MaxTime, MaxLate, MaxOpens} \subseteq Nat

NoWake == MaxTime + DEFAULT_TTL_MS + PAIR_CONFIRM_MS + 1
TtlRef == "ref"     \* the daemon refreshes one pair_ref

VARIABLES
  time,      \* room.now()
  rows,      \* the table alarms
  wake,      \* the platform's alarm, or NoWake
  guest,     \* socket -> [s: its state, t: since when, f: pair_frames]
  until,     \* the deadline of the pairing slot, 0 without one
  lock,      \* who holds the pairing lock and awaits the index
  before,    \* the deadline the holder of the lock would put back
  harvest,   \* [due, at]: the rows harvestDue still has to go through
  waited,    \* history: a harvest has let other events in
  opens      \* PAIR_OPENs so far

alarmVars == <<time, rows, wake, guest, until, lock, before, harvest, waited, opens>>
NoHarvest == [due |-> {}, at |-> 0]

(* upsertAlarm: an INTEGER PRIMARY KEY without AUTOINCREMENT takes the     *)
(* largest id in use plus one.                                             *)
Without(R, kind, ref) == {r \in R : ~ (r.kind = kind /\ r.ref = ref)}

Upsert(R, kind, ref, at) ==
  LET S == Without(R, kind, ref) IN
  S \cup {[id |-> 1 + Max({r.id : r \in S} \cup {0}), at |-> at, kind |-> kind, ref |-> ref]}

\* An alarm that is set is left where it is.
MutSync(R) ==
  rows' = R /\ wake' = IF wake < NoWake THEN wake ELSE Min({r.at : r \in R} \cup {NoWake})

(* syncHeapAlarm with setAlarmIfChanged.                                   *)
Sync(R) == rows' = R /\ wake' = Min({r.at : r \in R} \cup {NoWake})

(* closeExpiredHellos, closeExpiredResumes, timeoutPairing: what the rows  *)
(* R do to the sockets at time t.                                          *)
Apply(R, t, gs) ==
  LET expired(p) ==
        \/ gs[p].s \in {"silent", "hello"} /\ (\E r \in R : r.kind = "hello_5s")
           /\ t >= gs[p].t + HELLO_GRACE_MS
        \/ gs[p].s = "resumehello" /\ (\E r \in R : r.kind = "resume_15s")
           /\ t > gs[p].t + RESUME_MS
        \/ gs[p].s = "pairing" /\ (\E r \in R : r.kind = "pair_timeout" /\ r.ref = p)
  IN [p \in Guests |-> IF expired(p) THEN [gs[p] EXCEPT !.s = "closed"] ELSE gs[p]]

ClosePairing(gs) ==
  [p \in Guests |-> IF gs[p].s = "pairing" THEN [gs[p] EXCEPT !.s = "closed"] ELSE gs[p]]
-----------------------------------------------------------------------------
AlarmsInit ==
  /\ time = 1 /\ rows = {} /\ wake = NoWake
  /\ guest = [p \in Guests |-> [s |-> "new", t |-> 0, f |-> 0]]
  /\ until = 0 /\ lock = "free" /\ before = 0
  /\ harvest = NoHarvest /\ waited = FALSE /\ opens = 0

Tick ==
  /\ time < MaxTime /\ time < wake + MaxLate
  /\ time' = time + 1
  /\ UNCHANGED <<rows, wake, guest, until, lock, before, harvest, waited, opens>>

(* The upgrade arms a deadline under a random name.                        *)
Upgrade(p) ==
  /\ guest[p].s = "new"
  /\ guest' = [guest EXCEPT ![p] = [s |-> "silent", t |-> time, f |-> 0]]
  /\ Sync(Upsert(rows, "hello_5s", p, time + HELLO_GRACE_MS))
  /\ UNCHANGED <<time, until, lock, before, harvest, waited, opens>>

(* A HELLO arms one named after the millisecond.                           *)
HelloArms(p) ==
  /\ guest[p].s = "silent"
  /\ guest' = [guest EXCEPT ![p] = [s |-> "hello", t |-> time, f |-> 0]]
  /\ Sync(Upsert(rows, "hello_5s", time, time + HELLO_GRACE_MS))
  /\ UNCHANGED <<time, until, lock, before, harvest, waited, opens>>

ResumeArms(p) ==
  /\ guest[p].s = "hello" /\ time - guest[p].t <= HELLO_GRACE_MS
  /\ guest' = [guest EXCEPT ![p] = [s |-> "resumehello", t |-> time, f |-> 0]]
  /\ Sync(Upsert(rows, "resume_15s", p, time + RESUME_MS))
  /\ UNCHANGED <<time, until, lock, before, harvest, waited, opens>>

(* The timers pair_first_15s and pair_confirm_30s of a route do the same,  *)
(* and the second replaces the first.                                      *)
PairArms(p) ==
  /\ guest[p].s = "hello" /\ time - guest[p].t <= HELLO_GRACE_MS
  /\ until > time
  /\ guest' = [guest EXCEPT ![p] = [s |-> "pairing", t |-> time, f |-> 0]]
  /\ Sync(Upsert(rows, "pair_timeout", p, time + PAIR_FIRST_MS))
  /\ UNCHANGED <<time, until, lock, before, harvest, waited, opens>>

(* advancePairFrames: the first two frames of a route move its deadline.   *)
PairFrame(p) ==
  LET remaining == IF until = 0 THEN DEFAULT_TTL_MS
                   ELSE IF until > time THEN until - time ELSE 1
      next == IF guest[p].f = 0 THEN PAIR_CONFIRM_MS ELSE remaining
  IN
  /\ guest[p].s = "pairing" /\ guest[p].f < 2
  /\ guest' = [guest EXCEPT ![p].f = @ + 1]
  /\ Sync(Upsert(rows, "pair_timeout", p, time + next))
  /\ UNCHANGED <<time, until, lock, before, harvest, waited, opens>>

(* handleSessionEstablished clears the deadline of the route.              *)
EstablishedDisarms(p) ==
  /\ guest[p].s = "resumehello"
  /\ guest' = [guest EXCEPT ![p].s = "established"]
  /\ Sync(Without(rows, "resume_15s", p))
  /\ UNCHANGED <<time, until, lock, before, harvest, waited, opens>>

GuestLeaves(p) ==
  /\ guest[p].s \notin {"new", "closed"}
  /\ guest' = [guest EXCEPT ![p].s = "closed"]
  /\ UNCHANGED <<time, rows, wake, until, lock, before, harvest, waited, opens>>
-----------------------------------------------------------------------------
(* PAIR_OPEN stores its slot, arms pair_ttl and awaits the index; refused, *)
(* it puts the slot back that was there.                                   *)
OpenArms ==
  /\ lock = "free" /\ opens < MaxOpens
  /\ before' = until
  /\ until' = time + DEFAULT_TTL_MS
  /\ lock' = "open"
  /\ Sync(Upsert(rows, "pair_ttl", TtlRef, time + DEFAULT_TTL_MS))
  /\ opens' = opens + 1
  /\ UNCHANGED <<time, guest, harvest, waited>>

OpenAnswered ==
  /\ lock = "open"
  /\ until' \in {until, before}
  /\ lock' = "free" /\ before' = 0
  /\ UNCHANGED <<time, rows, wake, guest, harvest, waited, opens>>

CloseAsksIndex ==
  /\ lock = "free" /\ until > 0
  /\ lock' = "close"
  /\ guest' = ClosePairing(guest)
  /\ UNCHANGED <<time, rows, wake, until, before, harvest, waited, opens>>

CloseDisarms ==
  /\ lock = "close"
  /\ until' = 0 /\ lock' = "free"
  /\ Sync(Without(rows, "pair_ttl", TtlRef))
  /\ UNCHANGED <<time, guest, before, harvest, waited, opens>>

(* dropDaemon: sockets and slot go, the rows stay.                         *)
DaemonDrops ==
  /\ until > 0
  /\ until' = 0
  /\ guest' = [p \in Guests |-> IF guest[p].s = "new" THEN guest[p]
                                ELSE [guest[p] EXCEPT !.s = "closed"]]
  /\ UNCHANGED <<time, rows, wake, lock, before, harvest, waited, opens>>
-----------------------------------------------------------------------------
Due(t) == {r \in rows : r.at <= t}
TtlDue(R) == {r \in R : r.kind = "pair_ttl"}

(* The end of harvestDue: the rows left are applied, all are deleted by    *)
(* id, and alarm() sets the platform's alarm again.                        *)
Finish(due, left, t, gs) ==
  /\ guest' = Apply(left, t, gs)
  /\ Sync({r \in rows : r.id \notin {d.id : d \in due}})
  /\ harvest' = NoHarvest

(* The alarm strikes and no row has to wait.                               *)
AlarmStrikes ==
  /\ wake <= time /\ harvest = NoHarvest
  /\ TtlDue(Due(time)) = {} \/ (lock = "free" /\ (until = 0 \/ until > time))
  /\ Finish(Due(time), Due(time), time, guest)
  /\ UNCHANGED <<time, until, lock, before, waited, opens>>

(* The alarm strikes, and the pair_ttl row waits for the lock, or for the  *)
(* index once expireSlot has removed the slot.  Rows go by id.             *)
AlarmWaits ==
  LET ttl == CHOOSE r \in Due(time) : r.kind = "pair_ttl" IN
  /\ wake <= time /\ harvest = NoHarvest
  /\ TtlDue(Due(time)) # {} /\ ~ (lock = "free" /\ (until = 0 \/ until > time))
  /\ wake' = NoWake
  /\ guest' = LET gs == Apply({r \in Due(time) : r.id < ttl.id}, time, guest)
              IN IF lock = "free" THEN ClosePairing(gs) ELSE gs
  /\ harvest' = [due |-> Due(time), at |-> time]
  /\ IF lock = "free" THEN lock' = "expire" /\ until' = 0
                      ELSE UNCHANGED <<lock, until>>
  /\ waited' = TRUE
  /\ UNCHANGED <<time, rows, before, opens>>

(* The lock comes free: expireSlot looks at the slot again.                *)
AlarmResumes ==
  /\ harvest # NoHarvest /\ lock = "free"
  /\ IF until > 0 /\ until <= time
     THEN /\ lock' = "expire" /\ until' = 0 /\ guest' = ClosePairing(guest)
          /\ UNCHANGED <<rows, wake, harvest>>
     ELSE LET ttl == CHOOSE r \in harvest.due : r.kind = "pair_ttl" IN
          /\ Finish(harvest.due, {r \in harvest.due : r.id > ttl.id}, harvest.at, guest)
          /\ UNCHANGED <<lock, until>>
  /\ UNCHANGED <<time, before, waited, opens>>

ExpireAnswered ==
  LET ttl == CHOOSE r \in harvest.due : r.kind = "pair_ttl" IN
  /\ lock = "expire"
  /\ lock' = "free"
  /\ Finish(harvest.due, {r \in harvest.due : r.id > ttl.id}, harvest.at, guest)
  /\ UNCHANGED <<time, until, before, waited, opens>>

(* The platform drops the object; an alarm handler it cut off runs again.  *)
AlarmsEvict ==
  /\ harvest # NoHarvest \/ lock # "free"
  /\ guest' = [p \in Guests |-> IF guest[p].s = "new" THEN guest[p]
                                ELSE [guest[p] EXCEPT !.s = "closed"]]
  /\ wake' = IF harvest = NoHarvest THEN wake ELSE harvest.at
  /\ harvest' = NoHarvest /\ lock' = "free" /\ before' = 0
  /\ UNCHANGED <<time, rows, until, waited, opens>>

(* A handler that releases the lock hands it to the harvest that waits for *)
(* it before the next event.                                               *)
Event ==
  \/ Tick \/ AlarmStrikes \/ AlarmWaits \/ ExpireAnswered \/ AlarmsEvict
  \/ OpenArms \/ OpenAnswered \/ CloseAsksIndex \/ CloseDisarms \/ DaemonDrops
  \/ \E p \in Guests : Upgrade(p) \/ HelloArms(p) \/ ResumeArms(p) \/ PairArms(p)
  \/ \E p \in Guests : PairFrame(p) \/ EstablishedDisarms(p) \/ GuestLeaves(p)

AlarmsNext ==
  \/ AlarmResumes
  \/ ~ (harvest # NoHarvest /\ lock = "free") /\ Event

AlarmsSpec == AlarmsInit /\ [][AlarmsNext]_alarmVars
-----------------------------------------------------------------------------
(* Row ids are a key of the table and the clock is within its bound.       *)
AlarmsTypeOK ==
  /\ time \in 1..MaxTime /\ wake \in 1..NoWake /\ until \in 0..NoWake
  /\ \A r, s \in rows : r.id = s.id => r = s
  /\ guest \in [Guests -> [s: {"new", "silent", "hello", "resumehello", "pairing",
                               "established", "closed"}, t: 0..MaxTime, f: 0..2]]
  /\ lock \in {"free", "open", "close", "expire"} /\ waited \in BOOLEAN
  /\ opens \in 0..MaxOpens

(* The platform's alarm is due or never later than the earliest deadline,  *)
(* unless the harvest that will set it again still runs: no upsert,        *)
(* delete, harvest or eviction leaves a row that nothing will look at.     *)
WakeIsSet ==
  harvest = NoHarvest /\ rows # {} => wake <= time \/ wake <= Min({r.at : r \in rows})

(* Every socket that waits for something is watched by a row: one that has *)
(* not attached by a hello_5s row that finds its grace over, a pairing     *)
(* route by its own row.                                                   *)
Watched(p) ==
  /\ guest[p].s \in {"silent", "hello"} =>
       \E r \in rows : r.kind = "hello_5s" /\ r.at >= guest[p].t + HELLO_GRACE_MS
  /\ guest[p].s = "pairing" => \E r \in rows : r.kind = "pair_timeout" /\ r.ref = p

(* No socket loses its deadline as long as every harvest ran in one go.    *)
TimersAreArmed == ~ waited => \A p \in Guests : Watched(p)

(* No deadline is forgotten: the one platform alarm covers every row, and  *)
(* every waiting socket has its row.                                       *)
AlarmsHold == WakeIsSet /\ TimersAreArmed
=============================================================================
