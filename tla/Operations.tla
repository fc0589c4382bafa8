----------------------------- MODULE Operations -----------------------------
(***************************************************************************)
(* The operation ledger of the daemon (internal/daemon/operations.go) and  *)
(* the file it is kept in (internal/state/store.go, operations.json).      *)
(*                                                                         *)
(* Every mutation a phone asks for carries an operation id.  The ledger    *)
(* makes the id replay-safe: a pending row is durable before the side      *)
(* effect starts, a repeated id is answered from the first execution, and  *)
(* a row left pending by a crash is answered "unknown" and never run       *)
(* again.                                                                  *)
(*                                                                         *)
(* Callers are the goroutines that execute RPCs.  operationMu makes        *)
(* admission and completion, each with its save, one step; run() and the   *)
(* wait on record.done happen outside the lock.                            *)
(***************************************************************************)
EXTENDS Integers, FiniteSets

CONSTANTS
  Keys,                     \* device id + operation id, as one key
  Fingerprints,             \* hashes of (session, intent)
  Callers,                  \* goroutines inside executeTrackedMutation
  MaxRememberedOperations,  \* capacity of the ledger
  OperationRetention,       \* how long a completed row is kept
  MaxTime                   \* bound: wall-clock readings are 1..MaxTime

ASSUME LedgerAssumption ==
  /\ MaxRememberedOperations \in Nat \ {0}
  /\ OperationRetention \in Nat
  /\ MaxTime \in Nat \ {0}
  /\ Fingerprints # {}
  /\ Keys # {}
  /\ IsFiniteSet(Keys)

VARIABLES
  up,     \* the daemon process is running
  mem,    \* e.operations
  disk,   \* operations.json
  now,    \* time.Now().Unix()
  pc,     \* where each caller is
  req,    \* the key and fingerprint it was called with
  res,    \* what it is about to return
  runs    \* history: side effects started per key since the key was pruned

vars == <<up, mem, disk, now, pc, req, res, runs>>

ClockRange == 1..MaxTime

(* What run() can return: a receipt, a runtime fault, or some other error. *)
RunResults == {"ok", "fault", "raw"}

(* persistedOperationError turns an error that is not a fault into an      *)
(* internal fault; receipts and faults are stored as they are.             *)
Persisted(r) == IF r = "raw" THEN "internal" ELSE r

Definite == {"ok", "fault", "raw", "internal"}
Recorded == Definite \cup {"unknown"}

(* Answers given without touching the runtime.                             *)
Refusals == {"conflict", "full", "unpersisted"}

NoFingerprint == CHOOSE f \in Fingerprints : TRUE
NoKey == CHOOSE k \in Keys : TRUE

Record ==
  [status : {"absent", "running", "done"}, fp : Fingerprints,
   createdAt : 0..MaxTime, completedAt : 0..MaxTime, result : Recorded]

AbsentRecord ==
  [status |-> "absent", fp |-> NoFingerprint, createdAt |-> 0,
   completedAt |-> 0, result |-> "unknown"]

Row ==
  [status : {"absent", "pending", "completed"}, fp : Fingerprints,
   createdAt : 0..MaxTime, completedAt : 0..MaxTime, result : Recorded]

AbsentRow == AbsentRecord

NoRequest == [key |-> NoKey, fp |-> NoFingerprint]

TypeOK ==
  /\ up \in BOOLEAN
  /\ mem \in [Keys -> Record]
  /\ disk \in [Keys -> Row]
  /\ now \in ClockRange
  /\ pc \in [Callers -> {"idle", "admitted", "running", "waiting", "ready"}]
  /\ req \in [Callers -> [key : Keys, fp : Fingerprints]]
  /\ res \in [Callers -> Recorded \cup Refusals]
  /\ runs \in [Keys -> Nat]

Init ==
  /\ up = TRUE
  /\ mem = [k \in Keys |-> AbsentRecord]
  /\ disk = [k \in Keys |-> AbsentRow]
  /\ now = 1
  /\ pc = [c \in Callers |-> "idle"]
  /\ req = [c \in Callers |-> NoRequest]
  /\ res = [c \in Callers |-> "unknown"]
  /\ runs = [k \in Keys |-> 0]

-----------------------------------------------------------------------------
(* Pruning, rows and the save.                                             *)

Expired(rec) ==
  rec.completedAt > 0 /\ rec.completedAt < now - OperationRetention

Pruned(m) == [k \in Keys |-> IF Expired(m[k]) THEN AbsentRecord ELSE m[k]]

RunsAfterPrune(m) == [k \in Keys |-> IF Expired(m[k]) THEN 0 ELSE runs[k]]

PersistedRow(rec) ==
  IF rec.status = "absent" THEN AbsentRow
  ELSE IF rec.completedAt > 0
       THEN [status |-> "completed", fp |-> rec.fp,
             createdAt |-> rec.createdAt, completedAt |-> rec.completedAt,
             result |-> Persisted(rec.result)]
       ELSE [status |-> "pending", fp |-> rec.fp,
             createdAt |-> rec.createdAt, completedAt |-> 0,
             result |-> "unknown"]

PersistedOperations(m) == [k \in Keys |-> PersistedRow(m[k])]

Present(m) == {k \in Keys : m[k].status # "absent"}

(* validateOperations: a completed row may not end before it began, and    *)
(* the file holds at most the capacity of the ledger.                      *)
ValidateOperations(rows) ==
  /\ Cardinality(Present(rows)) <= MaxRememberedOperations
  /\ \A k \in Present(rows) :
       /\ rows[k].createdAt > 0
       /\ rows[k].status = "pending" => rows[k].completedAt = 0
       /\ rows[k].status = "completed" =>
            rows[k].completedAt >= rows[k].createdAt

(* SaveOperations replaces the file atomically or reports an error.  The   *)
(* last thing atomicJSON does, after the rename, is a chmod: its error is  *)
(* reported although the new file is in place.                             *)
SaveSucceeds(rows) ==
  /\ ValidateOperations(rows)
  /\ disk' = rows

SaveFails(rows) ==
  \/ disk' = disk
  \/ ValidateOperations(rows) /\ disk' = rows

-----------------------------------------------------------------------------
(* executeTrackedMutation                                                  *)

Answer(c, k, f, r) ==
  /\ pc' = [pc EXCEPT ![c] = "ready"]
  /\ req' = [req EXCEPT ![c] = [key |-> k, fp |-> f]]
  /\ res' = [res EXCEPT ![c] = r]

(* The id is known but names another mutation.                             *)
RefuseConflict(c, k, f) ==
  /\ up /\ pc[c] = "idle"
  /\ mem[k].status # "absent" /\ mem[k].fp # f
  /\ Answer(c, k, f, "conflict")
  /\ UNCHANGED <<up, mem, disk, now, runs>>

(* The id is known and names this mutation: wait for record.done, or take  *)
(* the recorded answer if the channel is closed already.                   *)
Join(c, k, f) ==
  /\ up /\ pc[c] = "idle"
  /\ mem[k].status # "absent" /\ mem[k].fp = f
  /\ IF mem[k].status = "done"
     THEN Answer(c, k, f, mem[k].result)
     ELSE /\ pc' = [pc EXCEPT ![c] = "waiting"]
          /\ req' = [req EXCEPT ![c] = [key |-> k, fp |-> f]]
          /\ UNCHANGED res
  /\ UNCHANGED <<up, mem, disk, now, runs>>

MutRefuseFull(c, k, f) ==
  /\ up /\ pc[c] = "idle"
  /\ mem[k].status = "absent"
  /\ Cardinality(Present(Pruned(mem))) >= MaxRememberedOperations
  /\ \E old \in {o \in Keys : mem[o].status = "done"} :
       mem' = [Pruned(mem) EXCEPT ![old] = AbsentRecord]
  /\ runs' = RunsAfterPrune(mem)
  /\ Answer(c, k, f, "full")
  /\ UNCHANGED <<up, disk, now>>

RefuseFull(c, k, f) ==
  /\ up /\ pc[c] = "idle"
  /\ mem[k].status = "absent"
  /\ Cardinality(Present(Pruned(mem))) >= MaxRememberedOperations
  /\ mem' = Pruned(mem)
  /\ runs' = RunsAfterPrune(mem)
  /\ Answer(c, k, f, "full")
  /\ UNCHANGED <<up, disk, now>>

PendingRecord(f) ==
  [status |-> "running", fp |-> f, createdAt |-> now, completedAt |-> 0,
   result |-> "unknown"]

(* A new id: the pending row is saved before the lock is released and      *)
(* run() starts; if it cannot be saved the record is taken back.           *)
Admit(c, k, f) ==
  /\ up /\ pc[c] = "idle"
  /\ mem[k].status = "absent"
  /\ Cardinality(Present(Pruned(mem))) < MaxRememberedOperations
  /\ LET m == [Pruned(mem) EXCEPT ![k] = PendingRecord(f)]
     IN \/ /\ SaveSucceeds(PersistedOperations(m))
           /\ mem' = m
           /\ pc' = [pc EXCEPT ![c] = "admitted"]
           /\ req' = [req EXCEPT ![c] = [key |-> k, fp |-> f]]
           /\ UNCHANGED res
        \/ /\ SaveFails(PersistedOperations(m))
           /\ mem' = Pruned(mem)
           /\ Answer(c, k, f, "unpersisted")
  /\ runs' = RunsAfterPrune(mem)
  /\ UNCHANGED <<up, now>>

(* run(): the side effect reaches the runtime.                             *)
Run(c) ==
  /\ up /\ pc[c] = "admitted"
  /\ pc' = [pc EXCEPT ![c] = "running"]
  /\ runs' = [runs EXCEPT ![req[c].key] = @ + 1]
  /\ UNCHANGED <<up, mem, disk, now, req, res>>

(* run() returned: record the result and save it.  If the save fails the   *)
(* outcome is downgraded to unknown, and completedAt 0 keeps the row       *)
(* pending in every later save.  Closing record.done releases the waiters. *)
MutCompletedRecord(k, r) ==
  [mem[k] EXCEPT !.status = "done", !.completedAt = now + OperationRetention, !.result = r]

CompletedRecord(k, r) ==
  [mem[k] EXCEPT !.status = "done", !.completedAt = now, !.result = r]

UnknownRecord(k) ==
  [mem[k] EXCEPT !.status = "done", !.completedAt = 0, !.result = "unknown"]

MutRelease(c, k, r) ==
  /\ pc' = [pc EXCEPT ![c] = "ready"]
  /\ res' = [res EXCEPT ![c] = r]

Release(c, k, r) ==
  LET served == {c} \cup {d \in Callers : pc[d] = "waiting" /\ req[d].key = k}
  IN /\ pc' = [d \in Callers |-> IF d \in served THEN "ready" ELSE pc[d]]
     /\ res' = [d \in Callers |-> IF d \in served THEN r ELSE res[d]]

MutComplete(c, r) ==
  LET k == req[c].key
      m == [mem EXCEPT ![k] = CompletedRecord(k, r)]
  IN /\ up /\ pc[c] = "running"
     /\ SaveSucceeds(PersistedOperations(m)) \/ SaveFails(PersistedOperations(m))
     /\ mem' = m
     /\ Release(c, k, r)
     /\ UNCHANGED <<up, now, req, runs>>

Complete(c, r) ==
  LET k == req[c].key
      m == [mem EXCEPT ![k] = CompletedRecord(k, r)]
  IN /\ up /\ pc[c] = "running"
     /\ \/ /\ SaveSucceeds(PersistedOperations(m))
           /\ mem' = m
           /\ Release(c, k, r)
        \/ /\ SaveFails(PersistedOperations(m))
           /\ mem' = [mem EXCEPT ![k] = UnknownRecord(k)]
           /\ Release(c, k, "unknown")
     /\ UNCHANGED <<up, now, req, runs>>

(* The waiter's context ends first.                                        *)
CancelWait(c) ==
  /\ up /\ pc[c] = "waiting"
  /\ pc' = [pc EXCEPT ![c] = "ready"]
  /\ res' = [res EXCEPT ![c] = "unknown"]
  /\ UNCHANGED <<up, mem, disk, now, req, runs>>

Return(c) ==
  /\ up /\ pc[c] = "ready"
  /\ pc' = [pc EXCEPT ![c] = "idle"]
  /\ req' = [req EXCEPT ![c] = NoRequest]
  /\ res' = [res EXCEPT ![c] = "unknown"]
  /\ UNCHANGED <<up, mem, disk, now, runs>>

-----------------------------------------------------------------------------
(* The process dies with everything in memory; the file survives.          *)
Crash ==
  /\ up
  /\ up' = FALSE
  /\ mem' = [k \in Keys |-> AbsentRecord]
  /\ pc' = [c \in Callers |-> "idle"]
  /\ req' = [c \in Callers |-> NoRequest]
  /\ res' = [c \in Callers |-> "unknown"]
  /\ UNCHANGED <<disk, now, runs>>

(* restoreOperations: a pending row becomes a finished record with an      *)
(* unknown outcome.                                                        *)
MutRestoredRecord(row) ==
  IF row.status # "completed" THEN AbsentRecord
  ELSE [status |-> "done", fp |-> row.fp, createdAt |-> row.createdAt,
        completedAt |-> row.completedAt, result |-> row.result]

RestoredRecord(row) ==
  IF row.status = "absent" THEN AbsentRecord
  ELSE [status |-> "done", fp |-> row.fp, createdAt |-> row.createdAt,
        completedAt |-> row.completedAt,
        result |-> IF row.status = "completed" THEN row.result ELSE "unknown"]

Restored == [k \in Keys |-> RestoredRecord(disk[k])]

(* NewPersistentEngine refuses to start on a file that does not validate.  *)
Restart ==
  /\ ~up
  /\ ValidateOperations(disk)
  /\ up' = TRUE
  /\ mem' = Pruned(Restored)
  /\ runs' = RunsAfterPrune(Restored)
  /\ UNCHANGED <<disk, now, pc, req, res>>

(* The wall clock advances, or is stepped in either direction.             *)
ClockStep ==
  /\ now' \in ClockRange \ {now}
  /\ UNCHANGED <<up, mem, disk, pc, req, res, runs>>

Begin(c) ==
  \E k \in Keys, f \in Fingerprints :
    RefuseConflict(c, k, f) \/ Join(c, k, f) \/ RefuseFull(c, k, f) \/ Admit(c, k, f)

Finish(c) == \E r \in RunResults : Complete(c, r)

Next ==
  \/ \E c \in Callers : Begin(c) \/ Run(c) \/ Finish(c) \/ CancelWait(c) \/ Return(c)
  \/ Crash \/ Restart \/ ClockStep

Spec == Init /\ [][Next]_vars

(* Every goroutine is scheduled, and run() returns: the runtime bounds     *)
(* every command with a deadline.                                          *)
Fairness == \A c \in Callers : WF_vars(Run(c)) /\ WF_vars(Finish(c)) /\ WF_vars(Return(c))

FairSpec == Spec /\ Fairness

-----------------------------------------------------------------------------
(* The side effect of an operation id is started at most once while the    *)
(* id is remembered, whatever retries, failed saves and crashes happen     *)
(* (operations.go: "after a crash they resolve to an unknown outcome and   *)
(* are never sent to Herdr again").                                        *)
AtMostOnce == \A k \in Keys : runs[k] <= 1

(* An answer other than "unknown" that executeTrackedMutation can give for *)
(* an id is already on disk in the form a restart would give it.           *)
DefiniteIsDurable ==
  \A k \in Keys :
    mem[k].status = "done" /\ mem[k].result \in Definite =>
      /\ disk[k].status = "completed"
      /\ disk[k].fp = mem[k].fp
      /\ disk[k].result = Persisted(mem[k].result)

(* The file always passes the validation of the next start, and the ledger *)
(* in memory always passes the validation of the next save: no completed   *)
(* operation, whatever the clock did, poisons the ones after it.           *)
LedgerStaysValid ==
  /\ ValidateOperations(disk)
  /\ ValidateOperations(PersistedOperations(mem))

(* A goroutine inside run() or waiting for one holds a record that is      *)
(* still in the ledger, unfinished and of its own fingerprint, and exactly *)
(* one goroutine runs an unfinished record: nobody waits on a channel that *)
(* no one will close.                                                      *)
WaitersHaveARunner ==
  /\ \A c \in Callers :
       pc[c] \in {"admitted", "running", "waiting"} =>
         mem[req[c].key].status = "running" /\ mem[req[c].key].fp = req[c].fp
  /\ \A k \in Keys :
       mem[k].status = "running" =>
         \E c \in Callers : /\ pc[c] \in {"admitted", "running"}
                            /\ req[c].key = k
                            /\ \A d \in Callers :
                                 pc[d] \in {"admitted", "running"} /\ req[d].key = k
                                   => d = c

(* While the process runs, a finished record leaves the ledger only when   *)
(* it completed longer ago than the retention, and its answer never        *)
(* changes (pruneExpiredOperationsLocked).                                 *)
AnswersAreKept ==
  [][\A k \in Keys :
       up /\ up' /\ mem[k].status = "done" =>
         \/ mem'[k] = mem[k]
         \/ /\ mem'[k].status = "absent"
            /\ mem[k].completedAt > 0
            /\ mem[k].completedAt + OperationRetention < now]_vars

(* Every call of executeTrackedMutation returns, unless the process dies   *)
(* under it: record.done is closed on every path.                          *)
EveryCallReturns == \A c \in Callers : pc[c] # "idle" ~> pc[c] = "idle"

(* The ledger in memory, the one on disk and the goroutines agree in      *)
(* every state: definite answers are durable, the file passes validation, *)
(* and whoever waits waits for a goroutine that will finish.              *)
LedgerIsSound ==
  /\ DefiniteIsDurable
  /\ LedgerStaysValid
  /\ WaitersHaveARunner

-----------------------------------------------------------------------------
(* The ledger as its clients know it: the one in memory or, while the      *)
(* process is down, the one the next start would restore.                  *)
View == IF up THEN mem ELSE Restored

LifeOf(status, run) ==
  CASE status = "absent" -> "free"
    [] status = "done" -> "answered"
    [] status = "running" /\ run = 0 -> "claimed"
    [] OTHER -> "started"

Life == [k \in Keys |-> LifeOf(View[k].status, runs[k])]

AnswerFor ==
  [k \in Keys |-> IF View[k].status = "done" THEN Persisted(View[k].result) ELSE "unknown"]

Ids == INSTANCE OperationIds
         WITH Answers <- {"ok", "fault", "internal"}, Unknown <- "unknown",
              life <- Life, answer <- AnswerFor, effects <- runs

(* The ledger, with its failing saves, crashes, restarts and clock steps,  *)
(* implements the life of an operation id: claimed before it starts,       *)
(* started at most once, answered only after it started or with the        *)
(* unknown outcome, and never answered in two ways (operations.go: a       *)
(* repeated id is answered from the first execution).                      *)
ReplaySafe == Ids!Spec

=============================================================================
