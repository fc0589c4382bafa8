------------------------------ MODULE RoomGate ------------------------------
(* The passphrase gate of a relay room: the throttle that spaces out failed *)
(* pairing attempts, and the one-time tickets a pair intent hands out.      *)
(* Everything the throttle decides is recomputed from a ledger in SQLite,   *)
(* which is pruned as a side effect of recording an attempt.                *)
EXTENDS Integers, FiniteSets, FiniteSetsExt

CONSTANTS Tickets,
          GATE_WINDOW_MS, GATE_FREE_ATTEMPTS, GATE_COOLDOWN_BASE_MS,
          GATE_COOLDOWN_MAX_MS, GATE_PRUNE_INTERVAL_MS, TICKET_MS,
          MaxClock,      \* bound: the last instant
          MaxAttempts    \* bound: rows ever written to the ledger

VARIABLES clock,        \* room.now()
          attempts,     \* the gate_attempts table
          history,      \* ghost: every row ever written to it
          lastPruneAt,  \* GateThrottle.lastPruneAt, lost by hibernation
          tickets,      \* pair_tickets: the deadline of each, 0 when absent
          slotLive      \* whether the room has a live pairing slot

ASSUME GateAssumption ==
  {GATE_WINDOW_MS, GATE_FREE_ATTEMPTS, GATE_COOLDOWN_BASE_MS, GATE_COOLDOWN_MAX_MS,
   GATE_PRUNE_INTERVAL_MS, TICKET_MS, MaxClock, MaxAttempts} \subseteq Nat

(* Arithmetic: the powers of two the cooldown doubles through grow.        *)
ASSUME DoublingGrows ==
  \A m, n \in 0..30 : 2^m \in Nat /\ (m <= n => 2^m <= 2^n)

gateVars == <<clock, attempts, history, lastPruneAt, tickets, slotLive>>

GATE_RETAIN_MS == GATE_WINDOW_MS

-----------------------------------------------------------------------------
gateCooldownMs(failures) ==
  LET over == failures - GATE_FREE_ATTEMPTS IN
  IF over <= 0 THEN 0
  ELSE LET wait == GATE_COOLDOWN_BASE_MS * 2^(IF over - 1 < 30 THEN over - 1 ELSE 30)
       IN  IF wait < GATE_COOLDOWN_MAX_MS THEN wait ELSE GATE_COOLDOWN_MAX_MS

(* gateFailuresSince: the rows the decision is made from.                  *)
Failures(rows, since) == {r \in rows : r.at >= since /\ ~ r.ok}

(* GateThrottle.check: how long an attempt made now has to wait.           *)
RetryAfter(rows, now) ==
  LET failed   == Failures(rows, now - GATE_WINDOW_MS)
      cooldown == gateCooldownMs(Cardinality(failed))
      elapsed  == now - Max({r.at : r \in failed})
  IN  IF cooldown = 0 THEN 0
      ELSE IF elapsed >= cooldown THEN 0 ELSE cooldown - elapsed

gateAllowed == RetryAfter(attempts, clock) = 0

\* A sweep that keeps less than the window the decision is made from.
MutSwept(rows, before) == {r \in rows : r.at > before}

(* GateThrottle.record with its sweep.                                     *)
Swept(rows, before) == {r \in rows : r.at >= before}

record(ok) ==
  LET row   == [nr |-> Cardinality(history), at |-> clock, ok |-> ok]
      sweep == clock - lastPruneAt >= GATE_PRUNE_INTERVAL_MS
  IN  /\ Cardinality(history) < MaxAttempts
      /\ history' = history \cup {row}
      /\ attempts' = IF sweep THEN Swept(attempts \cup {row}, clock - GATE_RETAIN_MS)
                              ELSE attempts \cup {row}
      /\ lastPruneAt' = IF sweep THEN clock ELSE lastPruneAt

-----------------------------------------------------------------------------
GateInit ==
  /\ clock = GATE_PRUNE_INTERVAL_MS
  /\ attempts = {} /\ history = {} /\ lastPruneAt = 0
  /\ tickets = [t \in Tickets |-> 0]
  /\ slotLive = FALSE

GateTick ==
  /\ clock < MaxClock
  /\ clock' = clock + 1
  /\ UNCHANGED <<attempts, history, lastPruneAt, tickets, slotLive>>

GateHibernate ==
  /\ lastPruneAt' = 0
  /\ UNCHANGED <<clock, attempts, history, tickets, slotLive>>

(* PAIR_OPEN, PAIR_CLOSE and the slot's deadline (module RoomPairing).     *)
SlotChanges ==
  /\ slotLive' = ~ slotLive
  /\ UNCHANGED <<clock, attempts, history, lastPruneAt, tickets>>

(* issueTicket for a location that is the slot's, and for one that is not. *)
IssueTicket(t) ==
  /\ gateAllowed /\ slotLive
  /\ tickets[t] = 0
  /\ tickets' = [tickets EXCEPT ![t] = clock + TICKET_MS]
  /\ record(TRUE)
  /\ UNCHANGED <<clock, slotLive>>

IssueMiss ==
  /\ gateAllowed
  /\ record(FALSE)
  /\ UNCHANGED <<clock, tickets, slotLive>>

(* consumeUpgrade with a ticket: a live row is deleted, which is its use.  *)
ConsumeTicket(t) ==
  /\ gateAllowed
  /\ IF tickets[t] > clock
     THEN /\ tickets' = [tickets EXCEPT ![t] = 0]
          /\ record(TRUE)
     ELSE UNCHANGED tickets /\ record(FALSE)
  /\ UNCHANGED <<clock, slotLive>>

(* The ticket_15s alarm: expireTickets.                                    *)
TicketAlarm ==
  /\ \E t \in Tickets : tickets[t] \in 1..clock
  /\ tickets' = [t \in Tickets |-> IF tickets[t] <= clock THEN 0 ELSE tickets[t]]
  /\ UNCHANGED <<clock, attempts, history, lastPruneAt, slotLive>>

(* handlePairAttach on the live slot: the attempt is charged as a failure  *)
(* before the daemon has seen anything.                                    *)
ChargedAttach ==
  /\ slotLive /\ gateAllowed
  /\ record(FALSE)
  /\ UNCHANGED <<clock, tickets, slotLive>>

GateNext ==
  \/ GateTick \/ GateHibernate \/ SlotChanges
  \/ IssueMiss \/ TicketAlarm \/ ChargedAttach
  \/ \E t \in Tickets : IssueTicket(t) \/ ConsumeTicket(t)

GateSpec == GateInit /\ [][GateNext]_gateVars

-----------------------------------------------------------------------------
(* The ledger is a part of what was written to it, in time order.          *)
GateTypeOK ==
  /\ clock \in Nat /\ lastPruneAt \in 0..clock
  /\ history \subseteq [nr : Nat, at : 0..clock, ok : BOOLEAN]
  /\ attempts \subseteq history
  /\ tickets \in [Tickets -> Nat]
  /\ slotLive \in BOOLEAN

(* GateThrottle: sweeping the ledger never changes a decision, now or at   *)
(* any later time, whatever hibernation does to lastPruneAt.               *)
SweepingIsInvisible ==
  \A later \in clock..MaxClock :
    RetryAfter(attempts, later) = RetryAfter(history, later)

(* The sum of the first n cooldowns: how long n attempts past the free     *)
(* allowance take at least.                                                *)
CooldownSum(n) ==
  LET sum[k \in 0..n] ==
        IF k = 0 THEN 0 ELSE sum[k - 1] + gateCooldownMs(GATE_FREE_ATTEMPTS + k)
  IN  sum[n]

(* GateThrottle.check: however tickets, misses and attaches are mixed, one *)
(* window holds no more failed attempts than the free allowance, the one   *)
(* that starts the backoff, and those the doubling cooldowns leave room    *)
(* for.                                                                    *)
GuessesPerWindow ==
  LET failed == Cardinality(Failures(history, clock - GATE_WINDOW_MS))
      paced  == failed - GATE_FREE_ATTEMPTS - 1
  IN  paced > 0 => CooldownSum(paced) <= GATE_WINDOW_MS

(* Wrong guesses are paced whatever sweeps and hibernations come between:  *)
(* pruning changes no decision, and a window holds only what the           *)
(* cooldowns leave room for.                                               *)
GateHolds == SweepingIsInvisible /\ GuessesPerWindow
=============================================================================
