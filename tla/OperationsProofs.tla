-------------------------- MODULE OperationsProofs --------------------------
(***************************************************************************)
(* Proofs about the operation ledger, for every set of ids, fingerprints   *)
(* and goroutines and every capacity and retention.                        *)
(*                                                                         *)
(* AtMostOnce is not inductive.  IInv adds where the evidence of a run is: *)
(* in memory while the process runs, and on disk while it does not; that   *)
(* what is in memory is on disk; and who owns an unfinished record.        *)
(***************************************************************************)
EXTENDS Operations, FiniteSetTheorems, TLAPS

Owning == {"admitted", "running"}
Holding == {"admitted", "running", "waiting"}

(* A goroutine inside the call holds an unfinished record of its id and    *)
(* fingerprint, at most one goroutine owns it, and an owned record whose   *)
(* side effect has not started has no run on the books.                    *)
HoldersInv ==
  \A c \in Callers :
    /\ pc[c] \in Holding =>
         mem[req[c].key].status = "running" /\ mem[req[c].key].fp = req[c].fp
    /\ pc[c] = "admitted" => runs[req[c].key] = 0

UniqueOwnerInv ==
  \A c, d \in Callers :
    pc[c] \in Owning /\ pc[d] \in Owning /\ req[c].key = req[d].key => c = d

RunnerExistsInv ==
  \A k \in Keys :
    mem[k].status = "running" =>
      \E c \in Callers : pc[c] \in Owning /\ req[c].key = k

(* An unfinished record has no completion time, so pruning never takes it. *)
UnfinishedInv ==
  \A k \in Keys : mem[k].status \in {"running", "absent"} => mem[k].completedAt = 0

(* Every run is remembered by whatever survives the next step.             *)
EvidenceInv ==
  \A k \in Keys :
    /\ runs[k] <= 1
    /\ runs[k] > 0 /\ up => mem[k].status # "absent"
    /\ runs[k] > 0 /\ ~up => disk[k].status # "absent"
    /\ mem[k].status # "absent" => disk[k].status # "absent"

DownInv ==
  ~up => /\ \A c \in Callers : pc[c] = "idle"
         /\ \A k \in Keys : mem[k].status = "absent"

(* A completed row carries its completion time and no raw error.           *)
RowsInv ==
  \A k \in Keys :
    /\ disk[k].status = "completed" => disk[k].completedAt > 0
    /\ disk[k].status # "completed" => disk[k].completedAt = 0
    /\ disk[k].result # "raw"

(* A definite answer in memory has a completion time, so every save writes *)
(* it as completed, and it is on disk already.                             *)
DurableInv ==
  \A k \in Keys :
    mem[k].status = "done" /\ mem[k].result \in Definite =>
      /\ mem[k].completedAt > 0
      /\ disk[k].status = "completed"
      /\ disk[k].fp = mem[k].fp
      /\ disk[k].result = Persisted(mem[k].result)

IInv ==
  /\ TypeOK
  /\ HoldersInv
  /\ UniqueOwnerInv
  /\ RunnerExistsInv
  /\ UnfinishedInv
  /\ EvidenceInv
  /\ DownInv
  /\ RowsInv
  /\ DurableInv

-----------------------------------------------------------------------------
(* The defaults of a record and of a row are of their types.               *)
LEMMA DefaultsType ==
  /\ NoFingerprint \in Fingerprints
  /\ NoKey \in Keys
  /\ AbsentRecord \in Record
  /\ AbsentRow \in Row
  /\ NoRequest \in [key : Keys, fp : Fingerprints]
<1>1. NoFingerprint \in Fingerprints
  BY Zenon, LedgerAssumption DEF NoFingerprint
<1>2. NoKey \in Keys
  BY Zenon, LedgerAssumption DEF NoKey
<1>3. AbsentRecord \in Record /\ AbsentRow \in Row
  BY <1>1, LedgerAssumption DEF AbsentRecord, AbsentRow, Record, Row, Recorded, Definite
<1>4. NoRequest \in [key : Keys, fp : Fingerprints]
  BY Zenon, <1>1, <1>2 DEF NoRequest
<1> QED BY Zenon, <1>1, <1>2, <1>3, <1>4

(* pruneExpiredOperationsLocked returns a table of records.                *)
LEMMA PrunedType ==
  ASSUME NEW m \in [Keys -> Record], TypeOK
  PROVE  /\ Pruned(m) \in [Keys -> Record]
         /\ RunsAfterPrune(m) \in [Keys -> Nat]
BY Zenon, DefaultsType DEF Pruned, RunsAfterPrune, TypeOK

(* persistedOperationsLocked writes rows of the file format.               *)
LEMMA RowsType ==
  ASSUME NEW m \in [Keys -> Record]
  PROVE  PersistedOperations(m) \in [Keys -> Row]
<1> SUFFICES ASSUME NEW k \in Keys PROVE PersistedRow(m[k]) \in Row
  BY Zenon DEF PersistedOperations
<1>1. m[k] \in Record
  OBVIOUS
<1>2. Persisted(m[k].result) \in Recorded
  BY <1>1 DEF Persisted, Record, Recorded, Definite
<1> QED BY <1>1, <1>2, DefaultsType, LedgerAssumption
    DEF PersistedRow, Record, Row, Recorded, Definite

(* What the save writes for a key: an absent row exactly for an absent     *)
(* record, and a completed one exactly for a record that has its time.     *)
LEMMA RowOf ==
  ASSUME NEW m \in [Keys -> Record], NEW k \in Keys,
         m[k].status = "absent" => m[k].completedAt = 0
  PROVE  LET row == PersistedOperations(m)[k]
         IN /\ row.status = "absent" <=> m[k].status = "absent"
            /\ row.status = "completed" <=> m[k].completedAt > 0
            /\ row.status = "completed" =>
                 /\ row.completedAt = m[k].completedAt
                 /\ row.fp = m[k].fp
                 /\ row.result = Persisted(m[k].result)
            /\ row.status # "completed" => row.completedAt = 0 /\ row.result = "unknown"
<1>1. m[k] \in Record
  OBVIOUS
<1>2. PersistedOperations(m)[k] = PersistedRow(m[k])
  BY DEF PersistedOperations
<1> QED BY <1>1, <1>2, LedgerAssumption
    DEF PersistedRow, AbsentRow, AbsentRecord, Record

(* An error written to the file is no longer a raw Go error.               *)
LEMMA PersistedNotRaw ==
  ASSUME NEW r \in Recorded
  PROVE  /\ Persisted(r) # "raw"
         /\ r # "raw" => Persisted(r) = r
         /\ Persisted(r) \in Recorded
BY Zenon DEF Persisted, Recorded, Definite

(* A daemon started on an empty ledger satisfies the invariant.            *)
LEMMA InitIInv == Init => IInv
<1> SUFFICES ASSUME Init PROVE IInv
  OBVIOUS
<1>1. TypeOK
  BY DefaultsType, LedgerAssumption DEF Init, TypeOK, ClockRange, Recorded, Definite, Refusals
<1>2. HoldersInv /\ UniqueOwnerInv /\ DownInv
  BY Zenon DEF Init, HoldersInv, UniqueOwnerInv, DownInv, Holding, Owning
<1>3. RunnerExistsInv /\ UnfinishedInv /\ EvidenceInv /\ RowsInv /\ DurableInv
  BY DEF Init, RunnerExistsInv, UnfinishedInv, EvidenceInv, RowsInv, DurableInv,
         AbsentRecord, AbsentRow, Definite
<1> QED BY Zenon, <1>1, <1>2, <1>3 DEF IInv

-----------------------------------------------------------------------------
(* Type correctness is inductive on its own.                               *)

(* A save, successful or not, leaves a well-typed file.                    *)
LEMMA SaveType ==
  ASSUME TypeOK, NEW rows \in [Keys -> Row],
         SaveSucceeds(rows) \/ SaveFails(rows)
  PROVE  disk' \in [Keys -> Row]
BY Zenon DEF SaveSucceeds, SaveFails, TypeOK

(* An answered call leaves a well-typed state.                             *)
LEMMA AnswerType ==
  ASSUME TypeOK, NEW c \in Callers, NEW k \in Keys, NEW f \in Fingerprints,
         NEW r \in Recorded \cup Refusals, Answer(c, k, f, r)
  PROVE  /\ pc' \in [Callers -> {"idle", "admitted", "running", "waiting", "ready"}]
         /\ req' \in [Callers -> [key : Keys, fp : Fingerprints]]
         /\ res' \in [Callers -> Recorded \cup Refusals]
BY Zenon DEF Answer, TypeOK

(* The locked first half of executeTrackedMutation keeps the types.        *)
LEMMA BeginType ==
  ASSUME TypeOK, NEW c \in Callers, NEW k \in Keys, NEW f \in Fingerprints,
         RefuseConflict(c, k, f) \/ Join(c, k, f) \/ RefuseFull(c, k, f) \/ Admit(c, k, f)
  PROVE  TypeOK'
<1>1. CASE RefuseConflict(c, k, f)
  <2>1. Answer(c, k, f, "conflict") /\ "conflict" \in Recorded \cup Refusals
    BY Zenon, <1>1 DEF RefuseConflict, Refusals
  <2> QED BY Zenon, <1>1, <2>1, AnswerType DEF RefuseConflict, TypeOK
<1>2. CASE Join(c, k, f)
  <2>1. CASE mem[k].status = "done"
    <3>1. mem[k].result \in Recorded \cup Refusals
      BY Zenon DEF TypeOK, Record
    <3>2. Answer(c, k, f, mem[k].result)
      BY Zenon, <1>2, <2>1 DEF Join
    <3> QED BY Zenon, <1>2, <3>1, <3>2, AnswerType DEF Join, TypeOK
  <2>2. CASE mem[k].status # "done"
    <3>1. /\ pc' = [pc EXCEPT ![c] = "waiting"]
          /\ req' = [req EXCEPT ![c] = [key |-> k, fp |-> f]]
          /\ UNCHANGED <<up, mem, disk, now, res, runs>>
      BY Zenon, <1>2, <2>2 DEF Join
    <3>2. [key |-> k, fp |-> f] \in [key : Keys, fp : Fingerprints]
      OBVIOUS
    <3> QED BY <3>1, <3>2 DEF TypeOK
  <2> QED BY Zenon, <2>1, <2>2
<1>3. CASE RefuseFull(c, k, f)
  <2>1. Answer(c, k, f, "full") /\ "full" \in Recorded \cup Refusals
    BY Zenon, <1>3 DEF RefuseFull, Refusals
  <2>2. mem' \in [Keys -> Record] /\ runs' \in [Keys -> Nat]
    BY Zenon, <1>3, PrunedType DEF RefuseFull, TypeOK
  <2> QED BY Zenon, <1>3, <2>1, <2>2, AnswerType DEF RefuseFull, TypeOK
<1>4. CASE Admit(c, k, f)
  <2> DEFINE m == [Pruned(mem) EXCEPT ![k] = PendingRecord(f)]
  <2>1. PendingRecord(f) \in Record
    BY LedgerAssumption DEF PendingRecord, TypeOK, Record, Recorded, Definite, ClockRange
  <2>2. Pruned(mem) \in [Keys -> Record] /\ runs' \in [Keys -> Nat]
    BY Zenon, <1>4, PrunedType DEF Admit, TypeOK
  <2>3. m \in [Keys -> Record]
    BY Zenon, <2>1, <2>2
  <2>4. PersistedOperations(m) \in [Keys -> Row]
    BY Zenon, <2>3, RowsType
  <2>5. CASE /\ SaveSucceeds(PersistedOperations(m))
             /\ mem' = m
             /\ pc' = [pc EXCEPT ![c] = "admitted"]
             /\ req' = [req EXCEPT ![c] = [key |-> k, fp |-> f]]
             /\ UNCHANGED res
    <3>1. disk' \in [Keys -> Row]
      BY Zenon, <2>4, <2>5, SaveType
    <3> QED BY Zenon, <1>4, <2>2, <2>3, <2>5, <3>1 DEF Admit, TypeOK
  <2>6. CASE /\ SaveFails(PersistedOperations(m))
             /\ mem' = Pruned(mem)
             /\ Answer(c, k, f, "unpersisted")
    <3>1. disk' \in [Keys -> Row]
      BY Zenon, <2>4, <2>6, SaveType
    <3>2. "unpersisted" \in Recorded \cup Refusals
      BY Zenon DEF Refusals
    <3> QED BY Zenon, <1>4, <2>2, <2>6, <3>1, <3>2, AnswerType DEF Admit, TypeOK
  <2> QED BY Zenon, <1>4, <2>5, <2>6 DEF Admit
<1> QED BY Zenon, <1>1, <1>2, <1>3, <1>4

(* The locked second half of executeTrackedMutation keeps the types.       *)
LEMMA CompleteType ==
  ASSUME TypeOK, NEW c \in Callers, NEW r \in RunResults, Complete(c, r)
  PROVE  TypeOK'
<1> DEFINE k == req[c].key
           m == [mem EXCEPT ![k] = CompletedRecord(k, r)]
<1>0. k \in Keys /\ r \in Recorded
  BY Zenon DEF TypeOK, RunResults, Recorded, Definite
<1>1. CompletedRecord(k, r) \in Record /\ UnknownRecord(k) \in Record
  <2>1. mem[k] \in Record /\ now \in 0..MaxTime /\ 0 \in 0..MaxTime /\ "unknown" \in Recorded
    BY <1>0, LedgerAssumption DEF TypeOK, Recorded, ClockRange
  <2>2. CompletedRecord(k, r) \in Record
    BY Zenon, <1>0, <2>1 DEF CompletedRecord, Record
  <2>3. UnknownRecord(k) \in Record
    BY Zenon, <1>0, <2>1 DEF UnknownRecord, Record
  <2> QED BY Zenon, <2>2, <2>3
<1>2. m \in [Keys -> Record]
  BY Zenon, <1>0, <1>1 DEF TypeOK
<1>3. disk' \in [Keys -> Row]
  BY Zenon, <1>2, RowsType, SaveType DEF Complete
<1>4. mem' \in [Keys -> Record]
  BY Zenon, <1>0, <1>1, <1>2 DEF Complete, TypeOK
<1>5. /\ pc' \in [Callers -> {"idle", "admitted", "running", "waiting", "ready"}]
      /\ res' \in [Callers -> Recorded \cup Refusals]
  <2>1. PICK q \in Recorded : Release(c, k, q)
    BY Zenon, <1>0 DEF Complete, Recorded
  <2> QED BY Zenon, <2>1 DEF Release, TypeOK
<1> QED BY Zenon, <1>3, <1>4, <1>5 DEF Complete, TypeOK

(* Every step keeps the types.                                             *)
LEMMA TypeStep == TypeOK /\ [Next]_vars => TypeOK'
<1> SUFFICES ASSUME TypeOK, [Next]_vars PROVE TypeOK'
  OBVIOUS
<1>1. ASSUME NEW c \in Callers, Begin(c) PROVE TypeOK'
  BY <1>1, BeginType DEF Begin
<1>2. ASSUME NEW c \in Callers, Run(c) PROVE TypeOK'
  <2>1. req[c].key \in Keys /\ runs[req[c].key] + 1 \in Nat
    BY DEF TypeOK
  <2>2. runs' \in [Keys -> Nat]
    BY Zenon, <1>2, <2>1 DEF Run, TypeOK
  <2> QED BY Zenon, <1>2, <2>2 DEF Run, TypeOK
<1>3. ASSUME NEW c \in Callers, Finish(c) PROVE TypeOK'
  BY Zenon, <1>3, CompleteType DEF Finish
<1>4. ASSUME NEW c \in Callers, CancelWait(c) \/ Return(c) PROVE TypeOK'
  <2>1. CASE CancelWait(c)
    BY Zenon, <2>1 DEF CancelWait, TypeOK, Recorded
  <2>2. CASE Return(c)
    BY Zenon, <2>2, DefaultsType DEF Return, TypeOK, Recorded
  <2> QED BY Zenon, <1>4, <2>1, <2>2
<1>5. CASE Crash
  BY Zenon, <1>5, DefaultsType DEF Crash, TypeOK, Recorded
<1>6. CASE Restart
  <2>1. Restored \in [Keys -> Record]
    BY Zenon, DefaultsType DEF Restored, RestoredRecord, TypeOK, Row, Record, Recorded
  <2> QED BY Zenon, <1>6, <2>1, PrunedType DEF Restart, TypeOK
<1>7. CASE ClockStep
  BY Zenon, <1>7 DEF ClockStep, TypeOK
<1>8. CASE UNCHANGED vars
  BY Zenon, <1>8 DEF vars, TypeOK
<1> QED BY Zenon, <1>1, <1>2, <1>3, <1>4, <1>5, <1>6, <1>7, <1>8 DEF Next

(* Type correctness of the ledger, the file and the callers' states: every *)
(* step of executeTrackedMutation, crash and restoreOperations keeps it.   *)
THEOREM TypeCorrect == Spec => []TypeOK
<1>1. Init => TypeOK
  BY Zenon, InitIInv DEF IInv
<1> QED BY <1>1, TypeStep, PTL DEF Spec

-----------------------------------------------------------------------------
(* The strengthening, one lemma per kind of step.                          *)

(* A step that touches neither table, file nor counts keeps IInv.          *)
LEMMA QuietStep ==
  ASSUME IInv, UNCHANGED <<up, mem, disk, runs>>
  PROVE  UnfinishedInv' /\ EvidenceInv' /\ RowsInv' /\ DurableInv'
BY Zenon DEF IInv, UnfinishedInv, EvidenceInv, RowsInv, DurableInv

(* Pruning leaves a key alone or forgets it, record and run count both;    *)
(* it forgets only finished records.                                       *)
LEMMA PruneFacts ==
  ASSUME TypeOK, NEW m \in [Keys -> Record], NEW k \in Keys,
         m[k].status \in {"running", "absent"} => m[k].completedAt = 0
  PROVE  \/ /\ Pruned(m)[k] = m[k]
            /\ RunsAfterPrune(m)[k] = runs[k]
         \/ /\ m[k].status = "done"
            /\ Pruned(m)[k] = AbsentRecord
            /\ RunsAfterPrune(m)[k] = 0
<1>1. m[k] \in Record
  OBVIOUS
<1> QED BY <1>1 DEF Pruned, RunsAfterPrune, Expired, Record

(* Saving any ledger that contains the current records keeps the file's    *)
(* rows well formed.                                                       *)
LEMMA SaveRows ==
  ASSUME TypeOK, RowsInv, NEW m \in [Keys -> Record],
         \A k \in Keys : m[k].status = "absent" => m[k].completedAt = 0,
         disk' = disk \/ disk' = PersistedOperations(m)
  PROVE  RowsInv'
<1>1. CASE disk' = disk
  BY Zenon, <1>1 DEF RowsInv
<1>2. CASE disk' = PersistedOperations(m)
  <2> SUFFICES ASSUME NEW k \in Keys
               PROVE  /\ disk'[k].status = "completed" => disk'[k].completedAt > 0
                      /\ disk'[k].status # "completed" => disk'[k].completedAt = 0
                      /\ disk'[k].result # "raw"
    BY Zenon DEF RowsInv
  <2>1. m[k] \in Record /\ m[k].result \in Recorded
    BY Zenon DEF Record
  <2> QED BY <1>2, <2>1, RowOf, PersistedNotRaw
<1> QED BY Zenon, <1>1, <1>2

(* Pruning alone keeps everything except what is said of the file.         *)
LEMMA PrunedLedger ==
  ASSUME IInv, up, NEW j \in Keys
  PROVE  LET p == Pruned(mem)[j]
             n == RunsAfterPrune(mem)[j]
         IN /\ \/ p = mem[j] /\ n = runs[j]
               \/ p = AbsentRecord /\ n = 0 /\ mem[j].status = "done"
            /\ p.status \in {"running", "absent"} => p.completedAt = 0
            /\ n <= 1
            /\ n > 0 => p.status # "absent"
            /\ p.status # "absent" => p = mem[j] /\ disk[j].status # "absent"
            /\ mem[j].status = "running" => p = mem[j] /\ n = runs[j]
<1>1. \/ Pruned(mem)[j] = mem[j] /\ RunsAfterPrune(mem)[j] = runs[j]
      \/ /\ mem[j].status = "done"
         /\ Pruned(mem)[j] = AbsentRecord
         /\ RunsAfterPrune(mem)[j] = 0
  BY Zenon, PruneFacts DEF IInv, TypeOK, UnfinishedInv
<1>2. AbsentRecord.status = "absent" /\ AbsentRecord.completedAt = 0
  BY Zenon DEF AbsentRecord
<1> QED BY <1>1, <1>2 DEF IInv, UnfinishedInv, EvidenceInv

(* A call answered without a record leaves the other calls as they were,   *)
(* and pruning drops none of the records they hold.                        *)
LEMMA RefusedCall ==
  ASSUME IInv, up, NEW c \in Callers, pc[c] = "idle", pc'[c] = "ready",
         \A d \in Callers \ {c} : pc'[d] = pc[d] /\ req'[d] = req[d],
         mem' = Pruned(mem), runs' = RunsAfterPrune(mem)
  PROVE  HoldersInv' /\ UniqueOwnerInv' /\ RunnerExistsInv'
<1>1. ASSUME NEW d \in Callers, pc'[d] \in Holding
      PROVE  d # c /\ pc[d] = pc'[d] /\ req[d] = req'[d]
  BY Zenon, <1>1 DEF Holding
<1>2. HoldersInv'
  <2> SUFFICES ASSUME NEW d \in Callers, pc'[d] \in Holding
               PROVE  /\ mem'[req'[d].key].status = "running"
                      /\ mem'[req'[d].key].fp = req'[d].fp
                      /\ pc'[d] = "admitted" => runs'[req'[d].key] = 0
    BY Zenon DEF HoldersInv, Holding
  <2>1. pc[d] = pc'[d] /\ req[d] = req'[d]
    BY Zenon, <1>1
  <2>2. req[d].key \in Keys
    BY Zenon DEF IInv, TypeOK
  <2>3. /\ mem[req[d].key].status = "running" /\ mem[req[d].key].fp = req[d].fp
        /\ pc[d] = "admitted" => runs[req[d].key] = 0
    BY <2>1, Zenon DEF IInv, HoldersInv
  <2>4. mem'[req[d].key] = mem[req[d].key] /\ runs'[req[d].key] = runs[req[d].key]
    BY Zenon, <2>2, <2>3, PrunedLedger
  <2> QED BY <2>1, <2>3, <2>4, Zenon
<1>3. UniqueOwnerInv'
  <2> SUFFICES ASSUME NEW d \in Callers, NEW e \in Callers, pc'[d] \in Owning,
                      pc'[e] \in Owning, req'[d].key = req'[e].key
               PROVE  d = e
    BY Zenon DEF UniqueOwnerInv
  <2>1. pc'[d] \in Holding /\ pc'[e] \in Holding
    BY Zenon DEF Owning, Holding
  <2>2. pc[d] = pc'[d] /\ req[d] = req'[d] /\ pc[e] = pc'[e] /\ req[e] = req'[e]
    BY Zenon, <1>1, <2>1
  <2> QED BY <2>2, Zenon DEF IInv, UniqueOwnerInv
<1>4. RunnerExistsInv'
  <2> SUFFICES ASSUME NEW j \in Keys, mem'[j].status = "running"
               PROVE  \E d \in Callers : pc'[d] \in Owning /\ req'[d].key = j
    BY Zenon DEF RunnerExistsInv
  <2>1. mem[j].status = "running"
    BY Zenon, PrunedLedger
  <2>2. PICK d \in Callers : pc[d] \in Owning /\ req[d].key = j
    BY <2>1, Zenon DEF IInv, RunnerExistsInv
  <2>3. d # c
    BY Zenon, <2>2 DEF Owning
  <2> QED BY <2>2, <2>3, Zenon
<1> QED BY Zenon, <1>2, <1>3, <1>4

(* A new id, its save successful or not, keeps IInv.                       *)
LEMMA AdmitStep ==
  ASSUME IInv, NEW c \in Callers, NEW k \in Keys, NEW f \in Fingerprints,
         Admit(c, k, f)
  PROVE  IInv'
<1> DEFINE m == [Pruned(mem) EXCEPT ![k] = PendingRecord(f)]
<1>0. up /\ pc[c] = "idle" /\ mem[k].status = "absent" /\ TypeOK
  BY Zenon DEF Admit, IInv
<1>t. TypeOK'
  BY Zenon, <1>0, BeginType
<1>1. Pruned(mem) \in [Keys -> Record] /\ m \in [Keys -> Record]
  <2>1. PendingRecord(f) \in Record
    BY <1>0, LedgerAssumption DEF PendingRecord, TypeOK, Record, Recorded, Definite, ClockRange
  <2> QED BY Zenon, <1>0, <2>1, PrunedType DEF TypeOK
<1>2. runs' = RunsAfterPrune(mem) /\ up'
  BY Zenon, <1>0 DEF Admit
<1>3. runs'[k] = 0
  <2>1. runs[k] = 0
    BY <1>0 DEF IInv, EvidenceInv, TypeOK
  <2> QED BY Zenon, <1>0, <1>2, <2>1, PrunedLedger
<1>5. m[k] = PendingRecord(f) /\ \A j \in Keys \ {k} : m[j] = Pruned(mem)[j]
  BY Zenon, <1>1
<1> HIDE DEF m
<1>4. \A j \in Keys : m[j].status \in {"running", "absent"} => m[j].completedAt = 0
  <2>1. m[k].completedAt = 0
    BY <1>5 DEF PendingRecord
  <2> QED BY Zenon, <1>0, <1>5, <2>1, PrunedLedger
<1>6. CASE /\ SaveSucceeds(PersistedOperations(m))
           /\ mem' = m
           /\ pc' = [pc EXCEPT ![c] = "admitted"]
           /\ req' = [req EXCEPT ![c] = [key |-> k, fp |-> f]]
           /\ UNCHANGED res
  <2>1. disk' = PersistedOperations(m) /\ mem' = m
    BY Zenon, <1>6 DEF SaveSucceeds
  <2>2. pc'[c] = "admitted" /\ req'[c].key = k /\ req'[c].fp = f
    BY Zenon, <1>0, <1>6 DEF TypeOK
  <2>3. \A d \in Callers \ {c} : pc'[d] = pc[d] /\ req'[d] = req[d]
    BY Zenon, <1>0, <1>6 DEF TypeOK
  <2>4. ASSUME NEW d \in Callers \ {c}, pc[d] \in Holding
        PROVE  /\ req[d].key \in Keys \ {k}
               /\ mem'[req[d].key] = mem[req[d].key]
               /\ runs'[req[d].key] = runs[req[d].key]
    <3>1. req[d].key \in Keys
      BY Zenon, <1>0 DEF TypeOK
    <3>2. mem[req[d].key].status = "running"
      BY <2>4, Zenon DEF IInv, HoldersInv
    <3>3. req[d].key # k
      BY Zenon, <1>0, <3>2
    <3>4. /\ Pruned(mem)[req[d].key] = mem[req[d].key]
          /\ RunsAfterPrune(mem)[req[d].key] = runs[req[d].key]
      BY Zenon, <1>0, <3>1, <3>2, PrunedLedger
    <3> QED BY Zenon, <1>2, <1>5, <2>1, <3>1, <3>3, <3>4
  <2>5. HoldersInv'
    <3> SUFFICES ASSUME NEW d \in Callers, pc'[d] \in Holding
                 PROVE  /\ mem'[req'[d].key].status = "running"
                        /\ mem'[req'[d].key].fp = req'[d].fp
                        /\ pc'[d] = "admitted" => runs'[req'[d].key] = 0
      BY Zenon DEF HoldersInv, Holding
    <3>1. CASE d = c
      <4>1. m[k].status = "running" /\ m[k].fp = f
        BY <1>5 DEF PendingRecord
      <4> QED BY <1>3, <2>1, <2>2, <3>1, <4>1, Zenon
    <3>2. CASE d # c
      <4>1. pc'[d] = pc[d] /\ req'[d] = req[d]
        BY Zenon, <2>3, <3>2
      <4>2. /\ mem[req[d].key].status = "running" /\ mem[req[d].key].fp = req[d].fp
            /\ pc[d] = "admitted" => runs[req[d].key] = 0
        BY <4>1, Zenon DEF IInv, HoldersInv
      <4>3. mem'[req[d].key] = mem[req[d].key] /\ runs'[req[d].key] = runs[req[d].key]
        BY Zenon, <2>4, <3>2, <4>1
      <4> QED BY <4>1, <4>2, <4>3, Zenon
    <3> QED BY Zenon, <3>1, <3>2
  <2>6. UniqueOwnerInv'
    <3>1. \A d \in Callers \ {c} : pc[d] \in Owning => req[d].key # k
      BY Zenon, <2>4 DEF Owning, Holding
    <3> QED BY Zenon, <2>2, <2>3, <3>1 DEF IInv, UniqueOwnerInv
  <2>7. RunnerExistsInv'
    <3> SUFFICES ASSUME NEW j \in Keys, mem'[j].status = "running"
                 PROVE  \E d \in Callers : pc'[d] \in Owning /\ req'[d].key = j
      BY Zenon DEF RunnerExistsInv
    <3>1. CASE j = k
      BY Zenon, <2>2, <3>1 DEF Owning
    <3>2. CASE j # k
      <4>1. mem[j].status = "running"
        BY Zenon, <1>0, <1>5, <2>1, <3>2, PrunedLedger
      <4>2. PICK d \in Callers : pc[d] \in Owning /\ req[d].key = j
        BY Zenon, <4>1 DEF IInv, RunnerExistsInv
      <4>3. d # c
        BY Zenon, <1>0, <4>2 DEF Owning
      <4> QED BY Zenon, <2>3, <4>2, <4>3
    <3> QED BY Zenon, <3>1, <3>2
  <2>8. UnfinishedInv' /\ RowsInv'
    BY Zenon, <1>0, <1>1, <1>4, <2>1, SaveRows DEF UnfinishedInv, IInv
  <2>9. EvidenceInv'
    <3> SUFFICES ASSUME NEW j \in Keys
                 PROVE  /\ runs'[j] <= 1
                        /\ runs'[j] > 0 => mem'[j].status # "absent"
                        /\ mem'[j].status # "absent" => disk'[j].status # "absent"
      BY Zenon, <1>2 DEF EvidenceInv
    <3>1. runs'[j] <= 1 /\ (runs'[j] > 0 => mem'[j].status # "absent")
      BY Zenon, <1>0, <1>2, <1>3, <1>5, <2>1, PrunedLedger DEF PendingRecord
    <3>2. mem'[j].status # "absent" => disk'[j].status # "absent"
      BY Zenon, <1>1, <1>4, <2>1, RowOf
    <3> QED BY Zenon, <3>1, <3>2
  <2>10. DurableInv'
    <3> SUFFICES ASSUME NEW j \in Keys, mem'[j].status = "done", mem'[j].result \in Definite
                 PROVE  /\ mem'[j].completedAt > 0
                        /\ disk'[j].status = "completed"
                        /\ disk'[j].fp = mem'[j].fp
                        /\ disk'[j].result = Persisted(mem'[j].result)
      BY Zenon DEF DurableInv
    <3>1. j # k
      BY <1>5, <2>1 DEF PendingRecord
    <3>2. mem'[j] = mem[j]
      BY Zenon, <1>0, <1>5, <2>1, <3>1, PrunedLedger
    <3>3. mem[j].completedAt > 0
      BY Zenon, <3>2 DEF IInv, DurableInv
    <3> QED BY Zenon, <1>1, <1>4, <2>1, <3>2, <3>3, RowOf
  <2> QED BY <1>t, <1>2, <2>5, <2>6, <2>7, <2>8, <2>9, <2>10, Zenon DEF IInv, DownInv
<1>7. CASE /\ SaveFails(PersistedOperations(m))
           /\ mem' = Pruned(mem)
           /\ Answer(c, k, f, "unpersisted")
  <2>0. mem' = Pruned(mem)
    BY Zenon, <1>7
  <2>1. disk' = disk \/ disk' = PersistedOperations(m)
    BY Zenon, <1>7 DEF SaveFails
  <2>2. pc'[c] = "ready" /\ \A d \in Callers \ {c} : pc'[d] = pc[d] /\ req'[d] = req[d]
    BY Zenon, <1>0, <1>7 DEF TypeOK, Answer
  <2>3. HoldersInv' /\ UniqueOwnerInv' /\ RunnerExistsInv'
    BY Zenon, <1>0, <1>2, <2>0, <2>2, RefusedCall
  <2>6. UnfinishedInv' /\ RowsInv'
    BY Zenon, <1>0, <1>1, <1>4, <2>0, <2>1, SaveRows, PrunedLedger DEF UnfinishedInv, IInv
  <2>7. \A j \in Keys : mem'[j].status # "absent" =>
          j # k /\ mem'[j] = mem[j] /\ m[j] = mem[j] /\ disk[j].status # "absent"
    BY Zenon, <1>0, <1>5, <2>0, PrunedLedger
  <2>8. EvidenceInv'
    <3> SUFFICES ASSUME NEW j \in Keys
                 PROVE  /\ runs'[j] <= 1
                        /\ runs'[j] > 0 => mem'[j].status # "absent"
                        /\ mem'[j].status # "absent" => disk'[j].status # "absent"
      BY Zenon, <1>2 DEF EvidenceInv
    <3>1. runs'[j] <= 1 /\ (runs'[j] > 0 => mem'[j].status # "absent")
      BY Zenon, <1>0, <1>2, <2>0, PrunedLedger
    <3>2. mem'[j].status # "absent" => disk'[j].status # "absent"
      BY <1>1, <1>4, <2>1, <2>7, RowOf
    <3> QED BY Zenon, <3>1, <3>2
  <2>9. DurableInv'
    <3> SUFFICES ASSUME NEW j \in Keys, mem'[j].status = "done", mem'[j].result \in Definite
                 PROVE  /\ mem'[j].completedAt > 0
                        /\ disk'[j].status = "completed"
                        /\ disk'[j].fp = mem'[j].fp
                        /\ disk'[j].result = Persisted(mem'[j].result)
      BY Zenon DEF DurableInv
    <3>1. mem'[j] = mem[j] /\ m[j] = mem[j]
      BY Zenon, <2>7
    <3>2. /\ mem[j].completedAt > 0 /\ disk[j].status = "completed"
          /\ disk[j].fp = mem[j].fp /\ disk[j].result = Persisted(mem[j].result)
      BY Zenon, <3>1 DEF IInv, DurableInv
    <3> QED BY <1>1, <1>4, <2>1, <3>1, <3>2, RowOf
  <2> QED BY <1>t, <1>2, <2>3, <2>6, <2>8, <2>9, Zenon DEF IInv, DownInv
<1> QED BY Zenon, <1>6, <1>7 DEF Admit, m

(* A refusal at capacity, with the pruning before it, keeps IInv.          *)
LEMMA RefuseFullStep ==
  ASSUME IInv, NEW c \in Callers, NEW k \in Keys, NEW f \in Fingerprints,
         RefuseFull(c, k, f)
  PROVE  IInv'
<1>0. up /\ up' /\ pc[c] = "idle" /\ TypeOK /\ disk' = disk
  BY Zenon DEF RefuseFull, IInv
<1>t. TypeOK'
  BY Zenon, <1>0, BeginType
<1>1. mem' = Pruned(mem) /\ runs' = RunsAfterPrune(mem)
  BY Zenon DEF RefuseFull
<1>2. pc'[c] = "ready" /\ \A d \in Callers \ {c} : pc'[d] = pc[d] /\ req'[d] = req[d]
  BY Zenon, <1>0 DEF RefuseFull, TypeOK, Answer
<1>3. HoldersInv' /\ UniqueOwnerInv' /\ RunnerExistsInv'
  BY Zenon, <1>0, <1>1, <1>2, RefusedCall
<1>4. UnfinishedInv' /\ RowsInv'
  BY Zenon, <1>0, <1>1, PrunedLedger DEF UnfinishedInv, RowsInv, IInv
<1>6. EvidenceInv'
  BY Zenon, <1>0, <1>1, PrunedLedger DEF EvidenceInv, IInv
<1>7. DurableInv'
  BY Zenon, <1>0, <1>1, PrunedLedger DEF DurableInv, IInv
<1> QED BY <1>t, <1>0, <1>3, <1>4, <1>6, <1>7, Zenon DEF IInv, DownInv

(* Steps that touch no record: only the caller moves.                      *)
LEMMA QuietCallStep ==
  ASSUME IInv, NEW c \in Callers, NEW k \in Keys, NEW f \in Fingerprints,
         RefuseConflict(c, k, f) \/ Join(c, k, f) \/ CancelWait(c) \/ Return(c)
  PROVE  IInv'
<1>0. TypeOK /\ UNCHANGED <<up, mem, disk, runs>> /\ up
  BY Zenon DEF IInv, RefuseConflict, Join, CancelWait, Return
<1>t. TypeOK'
  BY Zenon, <1>0, TypeStep DEF Next, Begin
<1>1. UnfinishedInv' /\ EvidenceInv' /\ RowsInv' /\ DurableInv' /\ DownInv'
  BY Zenon, <1>0, QuietStep DEF DownInv
<1>2. \A d \in Callers \ {c} : pc'[d] = pc[d] /\ req'[d] = req[d]
  BY Zenon, <1>0 DEF RefuseConflict, Join, CancelWait, Return, Answer, TypeOK
<1>3. /\ pc[c] \notin Owning
      /\ \/ pc'[c] \in {"ready", "idle"}
         \/ /\ pc'[c] = "waiting" /\ req'[c].key = k /\ req'[c].fp = f
            /\ mem[k].status = "running" /\ mem[k].fp = f
  <2>1. CASE RefuseConflict(c, k, f) \/ CancelWait(c) \/ Return(c)
    BY Zenon, <1>0, <2>1 DEF RefuseConflict, CancelWait, Return, Answer, TypeOK, Owning
  <2>2. CASE Join(c, k, f)
    <3>1. mem[k].status \in {"absent", "running", "done"}
      BY Zenon, <1>0 DEF TypeOK, Record
    <3>2. CASE mem[k].status = "done"
      <4>1. Answer(c, k, f, mem[k].result) /\ pc[c] = "idle"
        BY Zenon, <2>2, <3>2 DEF Join
      <4> QED BY Zenon, <1>0, <4>1 DEF Answer, TypeOK, Owning
    <3>3. CASE mem[k].status = "running"
      <4>1. /\ pc[c] = "idle" /\ mem[k].fp = f
            /\ pc' = [pc EXCEPT ![c] = "waiting"]
            /\ req' = [req EXCEPT ![c] = [key |-> k, fp |-> f]]
        BY ZenonT(30), <2>2, <3>3 DEF Join
      <4> QED BY Zenon, <1>0, <3>3, <4>1 DEF TypeOK, Owning
    <3> QED BY Zenon, <2>2, <3>1, <3>2, <3>3 DEF Join
  <2> QED BY Zenon, <2>1, <2>2
<1>4. HoldersInv' /\ UniqueOwnerInv'
  BY ZenonT(30), <1>0, <1>2, <1>3 DEF IInv, HoldersInv, UniqueOwnerInv, Owning, Holding
<1>5. RunnerExistsInv'
  BY <1>0, <1>2, <1>3 DEF IInv, RunnerExistsInv
<1> QED BY Zenon, <1>t, <1>1, <1>4, <1>5 DEF IInv

(* The start of the side effect keeps IInv: its row is on disk.            *)
LEMMA RunStep ==
  ASSUME IInv, NEW c \in Callers, Run(c)
  PROVE  IInv'
<1>0. TypeOK /\ UNCHANGED <<up, mem, disk, now, req, res>> /\ up /\ pc[c] = "admitted"
  BY Zenon DEF IInv, Run
<1>t. TypeOK'
  BY Zenon, <1>0, TypeStep DEF Next
<1>1. pc'[c] = "running" /\ \A d \in Callers \ {c} : pc'[d] = pc[d]
  BY Zenon, <1>0 DEF Run, TypeOK
<1>2. req[c].key \in Keys /\ runs[req[c].key] = 0 /\ mem[req[c].key].status = "running"
  BY Zenon, <1>0 DEF IInv, HoldersInv, TypeOK, Holding
<1>3. runs'[req[c].key] = 1 /\ \A j \in Keys \ {req[c].key} : runs'[j] = runs[j]
  BY <1>0, <1>2 DEF Run, TypeOK
<1>4. \A d \in Callers \ {c} : pc[d] = "admitted" => req[d].key \in Keys \ {req[c].key}
  BY Zenon, <1>0 DEF IInv, UniqueOwnerInv, Owning, TypeOK
<1>5. HoldersInv'
  BY <1>0, <1>1, <1>3, <1>4 DEF IInv, HoldersInv, Holding
<1>5a. UniqueOwnerInv'
  BY Zenon, <1>0, <1>1 DEF IInv, UniqueOwnerInv, Owning
<1>6. RunnerExistsInv'
  BY Zenon, <1>0, <1>1 DEF IInv, RunnerExistsInv, Owning
<1>7. EvidenceInv'
  BY <1>0, <1>2, <1>3 DEF IInv, EvidenceInv
<1>8. UnfinishedInv' /\ RowsInv' /\ DurableInv' /\ DownInv'
  BY Zenon, <1>0 DEF IInv, UnfinishedInv, RowsInv, DurableInv, DownInv
<1> QED BY Zenon, <1>t, <1>5, <1>5a, <1>6, <1>7, <1>8 DEF IInv

(* Recording a result, or its failed save, keeps IInv.                     *)
LEMMA CompleteStep ==
  ASSUME IInv, NEW c \in Callers, NEW r \in RunResults, Complete(c, r)
  PROVE  IInv'
<1> DEFINE k == req[c].key
           m == [mem EXCEPT ![k] = CompletedRecord(k, r)]
<1>0. TypeOK /\ up /\ pc[c] = "running" /\ UNCHANGED <<up, now, req, runs>>
  BY Zenon DEF IInv, Complete
<1>t. TypeOK'
  BY Zenon, <1>0, CompleteType
<1>1. k \in Keys /\ mem[k].status = "running" /\ mem[k] \in Record
  BY Zenon, <1>0 DEF IInv, HoldersInv, TypeOK, Holding
<1>2. /\ CompletedRecord(k, r).status = "done"
      /\ CompletedRecord(k, r).completedAt = now /\ now > 0
      /\ CompletedRecord(k, r).result = r
      /\ CompletedRecord(k, r).fp = mem[k].fp
      /\ CompletedRecord(k, r) \in Record
  <2>1. now \in 1..MaxTime /\ 1..MaxTime \subseteq 0..MaxTime /\ now > 0
    BY <1>0, LedgerAssumption DEF TypeOK, ClockRange
  <2>2. r \in Recorded
    BY Zenon DEF RunResults, Recorded, Definite
  <2> HIDE DEF k, m
  <2> QED BY Zenon, <1>1, <2>1, <2>2 DEF CompletedRecord, Record
<1>3. UnknownRecord(k).status = "done" /\ UnknownRecord(k).result = "unknown"
  BY Zenon, <1>1 DEF UnknownRecord, Record
<1>4. m \in [Keys -> Record] /\ m[k] = CompletedRecord(k, r)
      /\ \A j \in Keys \ {k} : m[j] = mem[j]
  BY Zenon, <1>0, <1>1, <1>2 DEF TypeOK
<1>5. \A j \in Keys : m[j].status \in {"running", "absent"} => m[j].completedAt = 0
  BY Zenon, <1>2, <1>4 DEF IInv, UnfinishedInv
<1>6. disk[k].status # "absent"
  BY Zenon, <1>1 DEF IInv, EvidenceInv
<1>7. PICK q : Release(c, k, q)
  BY Zenon DEF Complete
<1>8. /\ pc'[c] = "ready"
      /\ \A d \in Callers : \/ pc'[d] = "ready"
                            \/ pc'[d] = pc[d] /\ (pc[d] = "waiting" => req[d].key # k)
  BY Zenon, <1>0, <1>7 DEF Release, TypeOK
<1>9. /\ disk' = disk \/ disk' = PersistedOperations(m)
      /\ mem'[k].status = "done"
      /\ \A j \in Keys \ {k} : mem'[j] = mem[j]
      /\ \/ mem' = m /\ disk' = PersistedOperations(m)
         \/ mem'[k].result = "unknown"
  <2>1. CASE SaveSucceeds(PersistedOperations(m)) /\ mem' = m
    BY Zenon, <1>2, <1>4, <2>1 DEF SaveSucceeds
  <2>2. CASE SaveFails(PersistedOperations(m)) /\ mem' = [mem EXCEPT ![k] = UnknownRecord(k)]
    BY Zenon, <1>0, <1>1, <1>3, <2>2 DEF SaveFails, TypeOK
  <2> QED BY Zenon, <2>1, <2>2 DEF Complete
<1> HIDE DEF m, k
<1>10. \A d \in Callers : pc'[d] \in Holding =>
         d # c /\ pc'[d] = pc[d] /\ req'[d] = req[d] /\ req[d].key \in Keys \ {k}
  <2> SUFFICES ASSUME NEW d \in Callers, pc'[d] \in Holding
               PROVE  d # c /\ pc'[d] = pc[d] /\ req'[d] = req[d] /\ req[d].key \in Keys \ {k}
    OBVIOUS
  <2>1. d # c /\ pc'[d] = pc[d] /\ req'[d] = req[d] /\ req[d].key \in Keys
    BY <1>0, <1>8 DEF Holding, TypeOK
  <2>2. pc[d] \in Owning => req[d].key # k
    BY Zenon, <1>0, <2>1 DEF IInv, UniqueOwnerInv, Owning, k
  <2> QED BY Zenon, <1>8, <2>1, <2>2 DEF Holding, Owning
<1>11. HoldersInv'
  BY <1>0, <1>9, <1>10 DEF IInv, HoldersInv, Holding
<1>12. UniqueOwnerInv'
  BY Zenon, <1>10 DEF IInv, UniqueOwnerInv, Owning, Holding
<1>13. RunnerExistsInv'
  <2> SUFFICES ASSUME NEW j \in Keys, mem'[j].status = "running"
               PROVE  \E d \in Callers : pc'[d] \in Owning /\ req'[d].key = j
    BY Zenon DEF RunnerExistsInv
  <2>1. j # k /\ mem[j].status = "running"
    BY Zenon, <1>9
  <2>2. PICK d \in Callers : pc[d] \in Owning /\ req[d].key = j
    BY Zenon, <2>1 DEF IInv, RunnerExistsInv
  <2>3. pc'[d] = pc[d]
    BY Zenon, <1>0, <1>1, <1>7, <2>1, <2>2 DEF Release, Owning, TypeOK, k
  <2> QED BY Zenon, <1>0, <2>2, <2>3
<1>14. UnfinishedInv' /\ RowsInv'
  BY Zenon, <1>0, <1>4, <1>5, <1>9, SaveRows DEF IInv, UnfinishedInv
<1>15. EvidenceInv'
  <2> SUFFICES ASSUME NEW j \in Keys, mem'[j].status # "absent"
               PROVE  disk'[j].status # "absent"
    BY Zenon, <1>0, <1>9 DEF IInv, EvidenceInv
  <2>1. m[j].status # "absent" /\ disk[j].status # "absent"
    BY Zenon, <1>2, <1>4, <1>6, <1>9 DEF IInv, EvidenceInv
  <2> QED BY <1>4, <1>5, <1>9, <2>1, RowOf
<1>16. DurableInv'
  <2> SUFFICES ASSUME NEW j \in Keys, mem'[j].status = "done", mem'[j].result \in Definite
               PROVE  /\ mem'[j].completedAt > 0
                      /\ disk'[j].status = "completed"
                      /\ disk'[j].fp = mem'[j].fp
                      /\ disk'[j].result = Persisted(mem'[j].result)
    BY Zenon DEF DurableInv
  <2>1. CASE j = k
    <3>1. mem' = m /\ disk' = PersistedOperations(m)
      BY Zenon, <1>9, <2>1 DEF Definite
    <3>2. m[j].completedAt > 0
      BY Zenon, <1>2, <1>4, <2>1
    <3> QED BY Zenon, <1>4, <1>5, <3>1, <3>2, RowOf
  <2>2. CASE j # k
    <3>1. mem'[j] = mem[j] /\ m[j] = mem[j]
      BY Zenon, <1>4, <1>9, <2>2
    <3>2. /\ mem[j].completedAt > 0 /\ disk[j].status = "completed"
          /\ disk[j].fp = mem[j].fp /\ disk[j].result = Persisted(mem[j].result)
      BY Zenon, <3>1 DEF IInv, DurableInv
    <3>3. CASE disk' = disk
      BY Zenon, <3>1, <3>2, <3>3
    <3>4. CASE disk' = PersistedOperations(m)
      <4>1. m \in [Keys -> Record] /\ m[j].status # "absent" /\ m[j].completedAt > 0
        BY Zenon, <1>4, <1>5, <3>1, <3>2
      <4>2. m[j] = mem'[j]
        BY Zenon, <3>1
      <4> HIDE DEF m
      <4> QED BY <3>4, <4>1, <4>2, RowOf
    <3> QED BY Zenon, <1>9, <3>3, <3>4
  <2> QED BY Zenon, <2>1, <2>2
<1> QED BY Zenon, <1>t, <1>0, <1>11, <1>12, <1>13, <1>14, <1>15, <1>16 DEF IInv, DownInv

(* A crash keeps IInv: the file tells what memory told.                    *)
LEMMA CrashStep ==
  ASSUME IInv, Crash
  PROVE  IInv'
<1>0. TypeOK /\ up /\ ~up' /\ UNCHANGED <<disk, runs>>
  BY Zenon DEF IInv, Crash
<1>t. TypeOK'
  BY Zenon, <1>0, TypeStep DEF Next
<1>1. (\A c \in Callers : pc'[c] = "idle") /\ (\A k \in Keys : mem'[k] = AbsentRecord)
  BY Zenon DEF Crash
<1>2. AbsentRecord.status = "absent" /\ AbsentRecord.completedAt = 0
  BY Zenon DEF AbsentRecord
<1>3. HoldersInv' /\ UniqueOwnerInv' /\ RunnerExistsInv' /\ DownInv' /\ UnfinishedInv' /\ DurableInv'
  BY Zenon, <1>1, <1>2
    DEF HoldersInv, UniqueOwnerInv, RunnerExistsInv, DownInv, UnfinishedInv, DurableInv,
        Owning, Holding
<1>4. EvidenceInv' /\ RowsInv'
  BY Zenon, <1>0, <1>1, <1>2 DEF IInv, EvidenceInv, RowsInv
<1> QED BY Zenon, <1>t, <1>3, <1>4 DEF IInv

(* restoreOperations rebuilds a table that satisfies IInv.                 *)
LEMMA RestartStep ==
  ASSUME IInv, Restart
  PROVE  IInv'
<1>0. TypeOK /\ ~up /\ up' /\ UNCHANGED <<disk, now, pc, req, res>>
  BY Zenon DEF IInv, Restart
<1>t. TypeOK'
  BY Zenon, <1>0, TypeStep DEF Next
<1>1. mem' = Pruned(Restored) /\ runs' = RunsAfterPrune(Restored)
  BY Zenon DEF Restart
<1>2. Restored \in [Keys -> Record]
  BY Zenon, <1>0, DefaultsType DEF Restored, RestoredRecord, TypeOK, Row, Record, Recorded
<1>3. ASSUME NEW j \in Keys
      PROVE  /\ Restored[j].status = "absent" <=> disk[j].status = "absent"
             /\ Restored[j].status # "running"
             /\ Restored[j].status = "absent" => Restored[j].completedAt = 0
             /\ Restored[j].status = "done" =>
                  /\ Restored[j].completedAt = disk[j].completedAt
                  /\ Restored[j].fp = disk[j].fp
                  /\ Restored[j].result = IF disk[j].status = "completed"
                                          THEN disk[j].result ELSE "unknown"
  <2>1. Restored[j] = RestoredRecord(disk[j]) /\ disk[j] \in Row
    BY Zenon, <1>0 DEF Restored, TypeOK
  <2>2. CASE disk[j].status = "absent"
    BY <2>1, <2>2 DEF RestoredRecord, AbsentRecord
  <2>3. CASE disk[j].status # "absent"
    BY <2>1, <2>3 DEF RestoredRecord
  <2> QED BY Zenon, <2>2, <2>3
<1>4. ASSUME NEW j \in Keys
      PROVE  \/ mem'[j] = Restored[j] /\ runs'[j] = runs[j]
             \/ mem'[j] = AbsentRecord /\ runs'[j] = 0
  BY <1>0, <1>1, <1>2, <1>3, PruneFacts
<1>5. AbsentRecord.status = "absent" /\ AbsentRecord.completedAt = 0
  BY Zenon DEF AbsentRecord
<1>6. \A j \in Keys : mem'[j].status # "running"
  BY Zenon, <1>3, <1>4, <1>5
<1>7. \A c \in Callers : pc'[c] = "idle"
  BY Zenon, <1>0 DEF IInv, DownInv
<1>8. HoldersInv' /\ UniqueOwnerInv' /\ RunnerExistsInv' /\ DownInv'
  BY Zenon, <1>0, <1>6, <1>7 DEF HoldersInv, UniqueOwnerInv, RunnerExistsInv, DownInv, Owning, Holding
<1>9. UnfinishedInv' /\ RowsInv'
  BY Zenon, <1>0, <1>3, <1>4, <1>5 DEF IInv, UnfinishedInv, RowsInv
<1>10. EvidenceInv'
  BY <1>0, <1>3, <1>4, <1>5 DEF IInv, EvidenceInv
<1>11. DurableInv'
  <2> SUFFICES ASSUME NEW j \in Keys, mem'[j].status = "done", mem'[j].result \in Definite
               PROVE  /\ mem'[j].completedAt > 0
                      /\ disk'[j].status = "completed"
                      /\ disk'[j].fp = mem'[j].fp
                      /\ disk'[j].result = Persisted(mem'[j].result)
    BY Zenon DEF DurableInv
  <2>1. mem'[j] = Restored[j] /\ Restored[j].status = "done"
    BY Zenon, <1>4, <1>5
  <2>2. disk[j].status = "completed" /\ mem'[j].result = disk[j].result
    BY Zenon, <1>3, <2>1 DEF Definite
  <2>3. disk[j].result \in Recorded
    BY Zenon, <1>0 DEF TypeOK, Row
  <2> QED BY <1>0, <1>3, <2>1, <2>2, <2>3, PersistedNotRaw DEF IInv, RowsInv
<1> QED BY Zenon, <1>t, <1>8, <1>9, <1>10, <1>11 DEF IInv

(* IInv is inductive.                                                      *)
LEMMA IInvStep == IInv /\ [Next]_vars => IInv'
<1> SUFFICES ASSUME IInv, [Next]_vars PROVE IInv'
  OBVIOUS
<1>1. ASSUME NEW c \in Callers, Begin(c) PROVE IInv'
  BY <1>1, AdmitStep, RefuseFullStep, QuietCallStep DEF Begin
<1>2. ASSUME NEW c \in Callers, Run(c) PROVE IInv'
  BY Zenon, <1>2, RunStep
<1>3. ASSUME NEW c \in Callers, Finish(c) PROVE IInv'
  BY Zenon, <1>3, CompleteStep DEF Finish
<1>4. ASSUME NEW c \in Callers, CancelWait(c) \/ Return(c) PROVE IInv'
  BY Zenon, <1>4, QuietCallStep, DefaultsType
<1>5. CASE ClockStep \/ UNCHANGED vars
  <2>1. UNCHANGED <<up, mem, disk, pc, req, res, runs>>
    BY Zenon, <1>5 DEF ClockStep, vars
  <2>2. TypeOK'
    BY Zenon, TypeStep DEF IInv
  <2> QED BY <2>1, <2>2
        DEF IInv, HoldersInv, UniqueOwnerInv, RunnerExistsInv, UnfinishedInv, EvidenceInv,
            DownInv, RowsInv, DurableInv
<1> QED BY Zenon, <1>1, <1>2, <1>3, <1>4, <1>5, CrashStep, RestartStep DEF Next

(* IInv holds in every reachable state of the ledger.                      *)
LEMMA IInvAlways == Spec => []IInv
BY InitIInv, IInvStep, PTL DEF Spec

-----------------------------------------------------------------------------
(* A record is saved as a row that is absent, pending or completed as the  *)
(* record has no status, no completion time or one.                        *)
LEMMA RowTimes ==
  ASSUME NEW m \in [Keys -> Record], NEW k \in Keys
  PROVE  LET row == PersistedOperations(m)[k]
         IN /\ m[k].status = "absent" => row.status = "absent"
            /\ m[k].status # "absent" =>
                 /\ row.status = IF m[k].completedAt > 0 THEN "completed" ELSE "pending"
                 /\ row.createdAt = m[k].createdAt
                 /\ row.completedAt = IF m[k].completedAt > 0 THEN m[k].completedAt ELSE 0
<1>1. m[k] \in Record /\ PersistedOperations(m)[k] = PersistedRow(m[k])
  BY Zenon DEF PersistedOperations
<1> QED BY <1>1 DEF PersistedRow, AbsentRow, AbsentRecord

(* Two facts beyond IInv that the refinement of OperationIds needs: a      *)
(* goroutine inside run() has started the side effect, and an unfinished   *)
(* record is pending on disk.                                              *)
StartedInv == \A c \in Callers : pc[c] = "running" => runs[req[c].key] = 1

PendingInv == \A k \in Keys : mem[k].status = "running" => disk[k].status = "pending"

(* No step but Run changes the run count of an unfinished record, and no   *)
(* step changes the key of a goroutine inside run().                       *)
LEMMA StartedStep == IInv /\ StartedInv /\ [Next]_vars => StartedInv'
<1> SUFFICES ASSUME IInv, StartedInv, [Next]_vars, NEW c \in Callers, pc'[c] = "running"
             PROVE  runs'[req'[c].key] = 1
  BY Zenon DEF StartedInv
<1>0. TypeOK
  BY Zenon DEF IInv
<1>1. ASSUME NEW d \in Callers, Run(d) PROVE runs'[req'[c].key] = 1
  <2>0. req' = req /\ req[c].key \in Keys /\ req[d].key \in Keys
    BY Zenon, <1>0, <1>1 DEF Run, TypeOK
  <2>1. CASE c = d
    <3>1. runs[req[d].key] = 0
      BY Zenon, <1>1 DEF Run, IInv, HoldersInv
    <3> QED BY <1>0, <1>1, <2>0, <2>1, <3>1 DEF Run, TypeOK
  <2>2. CASE c # d
    <3>1. pc[c] = "running" /\ runs[req[c].key] = 1
      BY Zenon, <1>0, <1>1, <2>2 DEF Run, TypeOK, StartedInv
    <3>2. req[c].key # req[d].key
      BY Zenon, <1>1, <2>2, <3>1 DEF Run, IInv, UniqueOwnerInv, Owning
    <3> QED BY Zenon, <1>0, <1>1, <2>0, <3>1, <3>2 DEF Run, TypeOK
  <2> QED BY Zenon, <2>1, <2>2
<1>2. ASSUME pc[c] = "running", req'[c] = req[c],
             runs' = runs \/ (up /\ runs' = RunsAfterPrune(mem))
      PROVE  runs'[req'[c].key] = 1
  <2>1. /\ req[c].key \in Keys /\ mem[req[c].key].status = "running"
        /\ runs[req[c].key] = 1
    BY Zenon, <1>0, <1>2 DEF IInv, HoldersInv, Holding, TypeOK, StartedInv
  <2> QED BY Zenon, <1>2, <2>1, PrunedLedger
<1>3. ASSUME NEW d \in Callers, Begin(d) PROVE runs'[req'[c].key] = 1
  <2> PICK k \in Keys, f \in Fingerprints :
        RefuseConflict(d, k, f) \/ Join(d, k, f) \/ RefuseFull(d, k, f) \/ Admit(d, k, f)
    BY Zenon, <1>3 DEF Begin
  <2>1. /\ up /\ pc[d] = "idle" /\ pc'[d] # "running"
        /\ \A e \in Callers \ {d} : pc'[e] = pc[e] /\ req'[e] = req[e]
        /\ runs' = runs \/ runs' = RunsAfterPrune(mem)
    BY Zenon, <1>0 DEF RefuseConflict, Join, RefuseFull, Admit, Answer, TypeOK
  <2> QED BY Zenon, <1>2, <2>1
<1>4. ASSUME NEW d \in Callers, NEW r \in RunResults, Complete(d, r)
      PROVE  runs'[req'[c].key] = 1
  <2>1. PICK q : Release(d, req[d].key, q)
    BY Zenon, <1>4 DEF Complete
  <2>2. pc[c] = "running" /\ req' = req /\ runs' = runs
    BY Zenon, <1>0, <1>4, <2>1 DEF Complete, Release, TypeOK
  <2> QED BY Zenon, <1>2, <2>2
<1>5. ASSUME NEW d \in Callers, CancelWait(d) \/ Return(d) PROVE runs'[req'[c].key] = 1
  <2>1. pc[c] = "running" /\ req'[c] = req[c] /\ runs' = runs
    BY Zenon, <1>0, <1>5 DEF CancelWait, Return, TypeOK
  <2> QED BY Zenon, <1>2, <2>1
<1>6. CASE ClockStep \/ UNCHANGED vars
  BY Zenon, <1>2, <1>6 DEF ClockStep, vars
<1>7. ~ Crash
  BY Zenon DEF Crash
<1>8. ~ Restart
  BY Zenon DEF Restart, IInv, DownInv
<1> QED BY Zenon, <1>1, <1>3, <1>4, <1>5, <1>6, <1>7, <1>8 DEF Next, Finish

(* Every save writes an unfinished record as a pending row.                *)
LEMMA PendingStep == IInv /\ PendingInv /\ [Next]_vars => PendingInv'
<1> SUFFICES ASSUME IInv, PendingInv, [Next]_vars, NEW k \in Keys, mem'[k].status = "running"
             PROVE  disk'[k].status = "pending"
  BY Zenon DEF PendingInv
<1>0. TypeOK /\ mem \in [Keys -> Record]
  BY Zenon DEF IInv, TypeOK
<1>1. ASSUME mem'[k] = mem[k] \/ (up /\ mem' = Pruned(mem)), disk' = disk
      PROVE  disk'[k].status = "pending"
  <2>1. mem[k].status = "running"
    BY Zenon, <1>1, PrunedLedger
  <2> QED BY Zenon, <1>1, <2>1 DEF PendingInv
<1>2. ASSUME NEW m \in [Keys -> Record], m[k].status = "running", m[k].completedAt = 0,
             disk' = PersistedOperations(m)
      PROVE  disk'[k].status = "pending"
  BY <1>2, RowTimes
<1>3. ASSUME NEW c \in Callers, NEW j \in Keys, NEW f \in Fingerprints, Admit(c, j, f)
      PROVE  disk'[k].status = "pending"
  <2> DEFINE m == [Pruned(mem) EXCEPT ![j] = PendingRecord(f)]
  <2>0. up /\ mem[j].status = "absent" /\ (mem' = m \/ mem' = Pruned(mem))
        /\ (disk' = disk \/ disk' = PersistedOperations(m))
        /\ (disk' = disk => mem' = Pruned(mem) \/ disk' = PersistedOperations(m))
    BY Zenon, <1>3 DEF Admit, SaveSucceeds, SaveFails
  <2>1. m \in [Keys -> Record] /\ m[j] = PendingRecord(f)
        /\ \A i \in Keys \ {j} : m[i] = Pruned(mem)[i]
    <3>1. PendingRecord(f) \in Record
      BY <1>0, LedgerAssumption DEF PendingRecord, TypeOK, Record, Recorded, Definite, ClockRange
    <3> QED BY <1>0, <3>1, PrunedType
  <2> HIDE DEF m
  <2>2. m[k].status = "running" /\ m[k].completedAt = 0
    <3>1. CASE k = j
      BY <2>1, <3>1 DEF PendingRecord
    <3>2. CASE k # j
      <4>1. m[k] = Pruned(mem)[k] /\ mem'[k] = Pruned(mem)[k]
        BY Zenon, <2>0, <2>1, <3>2
      <4> QED BY Zenon, <2>0, <4>1, PrunedLedger
    <3> QED BY Zenon, <3>1, <3>2
  <2>3. CASE disk' = PersistedOperations(m)
    BY Zenon, <1>2, <2>1, <2>2, <2>3
  <2>4. CASE disk' # PersistedOperations(m)
    BY Zenon, <1>1, <2>0, <2>4
  <2> QED BY Zenon, <2>3, <2>4
<1>4. ASSUME NEW c \in Callers, Begin(c) PROVE disk'[k].status = "pending"
  BY Zenon, <1>1, <1>3, <1>4 DEF Begin, RefuseConflict, Join, RefuseFull
<1>5. ASSUME NEW c \in Callers, NEW r \in RunResults, Complete(c, r)
      PROVE  disk'[k].status = "pending"
  <2> DEFINE j == req[c].key
             m == [mem EXCEPT ![j] = CompletedRecord(j, r)]
  <2>0. j \in Keys /\ mem[j].status = "running" /\ mem[j] \in Record
    BY Zenon, <1>0, <1>5 DEF Complete, IInv, HoldersInv, Holding, TypeOK
  <2>1. /\ disk' = disk \/ disk' = PersistedOperations(m)
        /\ mem'[j].status = "done" /\ \A i \in Keys \ {j} : mem'[i] = mem[i] /\ m[i] = mem[i]
    <3>1. \A i \in Keys \ {j} : m[i] = mem[i]
      BY Zenon, <1>0, <2>0
    <3>2. CASE SaveSucceeds(PersistedOperations(m)) /\ mem' = m
      BY Zenon, <1>0, <2>0, <3>1, <3>2 DEF SaveSucceeds, CompletedRecord, Record
    <3>3. CASE SaveFails(PersistedOperations(m)) /\ mem' = [mem EXCEPT ![j] = UnknownRecord(j)]
      BY Zenon, <1>0, <2>0, <3>1, <3>3 DEF SaveFails, UnknownRecord, Record
    <3> QED BY Zenon, <1>5, <3>2, <3>3 DEF Complete
  <2>2. m \in [Keys -> Record]
    <3>1. CompletedRecord(j, r) \in Record
      <4>1. now \in 0..MaxTime /\ r \in Recorded
        BY <1>0, LedgerAssumption DEF TypeOK, ClockRange, RunResults, Recorded, Definite
      <4> HIDE DEF j
      <4> QED BY Zenon, <2>0, <4>1 DEF CompletedRecord, Record
    <3> QED BY Zenon, <1>0, <2>0, <3>1
  <2>3. k # j /\ m[k].status = "running" /\ m[k].completedAt = 0 /\ mem'[k] = mem[k]
    BY Zenon, <2>1 DEF IInv, UnfinishedInv
  <2> QED BY Zenon, <1>1, <1>2, <2>1, <2>2, <2>3
<1>6. ASSUME NEW c \in Callers, Run(c) \/ CancelWait(c) \/ Return(c)
      PROVE  disk'[k].status = "pending"
  BY Zenon, <1>1, <1>6 DEF Run, CancelWait, Return
<1>7. CASE ClockStep \/ UNCHANGED vars
  BY Zenon, <1>1, <1>7 DEF ClockStep, vars
<1>8. ~ Crash
  BY DEF Crash, AbsentRecord
<1>9. ~ Restart
  <2>1. \A j \in Keys : Pruned(Restored)[j].status # "running"
    BY Zenon DEF Pruned, Restored, RestoredRecord, AbsentRecord
  <2> QED BY Zenon, <2>1 DEF Restart
<1> QED BY Zenon, <1>4, <1>5, <1>6, <1>7, <1>8, <1>9 DEF Next, Finish

-----------------------------------------------------------------------------
(* validateOperations depends on a row's status and times only, and a file *)
(* with fewer rows passes when the larger one does.                        *)
LEMMA FewerRowsValidate ==
  ASSUME NEW rows, NEW fewer, ValidateOperations(rows),
         \A k \in Keys : fewer[k].status # "absent" =>
           /\ fewer[k].status = rows[k].status
           /\ fewer[k].createdAt = rows[k].createdAt
           /\ fewer[k].completedAt = rows[k].completedAt
  PROVE  ValidateOperations(fewer)
<1>1. Present(fewer) \subseteq Present(rows)
  BY Zenon DEF Present
<1>2. IsFiniteSet(Present(rows))
  <2>1. Present(rows) \subseteq Keys
    BY Zenon DEF Present
  <2> QED BY Zenon, <2>1, LedgerAssumption, FS_Subset
<1>3. IsFiniteSet(Present(fewer)) /\ Cardinality(Present(fewer)) <= Cardinality(Present(rows))
  BY Zenon, <1>1, <1>2, FS_Subset
<1>4. Cardinality(Present(fewer)) \in Nat /\ Cardinality(Present(rows)) \in Nat
  BY Zenon, <1>2, <1>3, FS_CardinalityType
<1>5. Cardinality(Present(fewer)) <= MaxRememberedOperations
  BY <1>3, <1>4, LedgerAssumption DEF ValidateOperations
<1>6. ASSUME NEW k \in Present(fewer)
      PROVE  /\ fewer[k].createdAt > 0
             /\ fewer[k].status = "pending" => fewer[k].completedAt = 0
             /\ fewer[k].status = "completed" => fewer[k].completedAt >= fewer[k].createdAt
  <2>1. k \in Keys /\ fewer[k].status # "absent" /\ k \in Present(rows)
    BY Zenon, <1>1 DEF Present
  <2> QED BY Zenon, <2>1 DEF ValidateOperations
<1> QED BY Zenon, <1>5, <1>6 DEF ValidateOperations

(* pruneExpiredOperationsLocked cannot make the next save fail.            *)
LEMMA PrunedValidates ==
  ASSUME TypeOK, NEW m \in [Keys -> Record], ValidateOperations(PersistedOperations(m))
  PROVE  ValidateOperations(PersistedOperations(Pruned(m)))
<1>1. Pruned(m) \in [Keys -> Record]
  BY Zenon, PrunedType
<1>2. ASSUME NEW k \in Keys, PersistedOperations(Pruned(m))[k].status # "absent"
      PROVE  PersistedOperations(Pruned(m))[k] = PersistedOperations(m)[k]
  <2>1. Pruned(m)[k].status # "absent"
    BY Zenon, <1>1, <1>2, RowTimes
  <2>2. Pruned(m)[k] = m[k]
    BY Zenon, <2>1 DEF Pruned, AbsentRecord
  <2> QED BY Zenon, <2>2 DEF PersistedOperations
<1> QED BY Zenon, <1>2, FewerRowsValidate

(* A row whose save failed is written as it was before the completion.     *)
LEMMA UnknownKeepsRows ==
  ASSUME IInv, NEW k \in Keys, mem[k].status = "running"
  PROVE  PersistedOperations([mem EXCEPT ![k] = UnknownRecord(k)]) = PersistedOperations(mem)
<1>1. mem \in [Keys -> Record] /\ mem[k] \in Record /\ mem[k].completedAt = 0
  BY Zenon DEF IInv, TypeOK, UnfinishedInv
<1>2. PersistedRow(UnknownRecord(k)) = PersistedRow(mem[k])
  BY <1>1 DEF PersistedRow, UnknownRecord, Record
<1>3. \A j \in Keys : [mem EXCEPT ![k] = UnknownRecord(k)][j] =
                         IF j = k THEN UnknownRecord(k) ELSE mem[j]
  BY Zenon, <1>1
<1> QED BY <1>2, <1>3 DEF PersistedOperations

(* LedgerStaysValid is inductive next to IInv: a save writes only rows     *)
(* that validate, and what changes the ledger without a save can only drop *)
(* rows.                                                                   *)
LEMMA ValidStep == IInv /\ LedgerStaysValid /\ [Next]_vars => LedgerStaysValid'
<1> SUFFICES ASSUME IInv, LedgerStaysValid, [Next]_vars PROVE LedgerStaysValid'
  OBVIOUS
<1>0. /\ TypeOK /\ mem \in [Keys -> Record]
      /\ ValidateOperations(disk) /\ ValidateOperations(PersistedOperations(mem))
      /\ ValidateOperations(PersistedOperations(Pruned(mem)))
  BY PrunedValidates DEF IInv, TypeOK, LedgerStaysValid
<1>1. ASSUME disk' = disk, mem' = mem \/ mem' = Pruned(mem) PROVE LedgerStaysValid'
  BY Zenon, <1>0, <1>1 DEF LedgerStaysValid
<1>2. ASSUME NEW c \in Callers, NEW k \in Keys, NEW f \in Fingerprints, Admit(c, k, f)
      PROVE  LedgerStaysValid'
  <2> DEFINE m == [Pruned(mem) EXCEPT ![k] = PendingRecord(f)]
  <2>1. CASE SaveSucceeds(PersistedOperations(m)) /\ mem' = m
    BY Zenon, <2>1 DEF SaveSucceeds, LedgerStaysValid
  <2>2. CASE SaveFails(PersistedOperations(m)) /\ mem' = Pruned(mem)
    <3>1. disk' = disk \/ (disk' = PersistedOperations(m)
                            /\ ValidateOperations(PersistedOperations(m)))
      BY Zenon, <2>2 DEF SaveFails
    <3>2. ValidateOperations(disk')
      BY Zenon, <1>0, <3>1
    <3> QED BY Zenon, <1>0, <2>2, <3>2 DEF LedgerStaysValid
  <2> QED BY Zenon, <1>2, <2>1, <2>2 DEF Admit
<1>3. ASSUME NEW c \in Callers, Begin(c) PROVE LedgerStaysValid'
  BY Zenon, <1>1, <1>2, <1>3 DEF Begin, RefuseConflict, Join, RefuseFull
<1>4. ASSUME NEW c \in Callers, NEW r \in RunResults, Complete(c, r) PROVE LedgerStaysValid'
  <2> DEFINE k == req[c].key
             m == [mem EXCEPT ![k] = CompletedRecord(k, r)]
  <2>1. CASE SaveSucceeds(PersistedOperations(m)) /\ mem' = m
    BY Zenon, <2>1 DEF SaveSucceeds, LedgerStaysValid
  <2>2. CASE SaveFails(PersistedOperations(m)) /\ mem' = [mem EXCEPT ![k] = UnknownRecord(k)]
    <3>1. k \in Keys /\ mem[k].status = "running"
      BY Zenon, <1>0, <1>4 DEF Complete, IInv, HoldersInv, TypeOK, Holding
    <3>2. PersistedOperations(mem') = PersistedOperations(mem)
      BY Zenon, <2>2, <3>1, UnknownKeepsRows
    <3>3. disk' = disk \/ (disk' = PersistedOperations(m)
                            /\ ValidateOperations(PersistedOperations(m)))
      BY Zenon, <2>2 DEF SaveFails
    <3>4. ValidateOperations(disk')
      BY Zenon, <1>0, <3>3
    <3> QED BY Zenon, <1>0, <3>2, <3>4 DEF LedgerStaysValid
  <2> QED BY Zenon, <1>4, <2>1, <2>2 DEF Complete
<1>5. ASSUME NEW c \in Callers, Run(c) \/ CancelWait(c) \/ Return(c) PROVE LedgerStaysValid'
  BY Zenon, <1>1, <1>5 DEF Run, CancelWait, Return
<1>6. CASE Crash
  <2>1. disk' = disk /\ mem' = [k \in Keys |-> AbsentRecord]
    BY Zenon, <1>6 DEF Crash
  <2>2. mem' \in [Keys -> Record] /\ \A k \in Keys : mem'[k].status = "absent"
    BY Zenon, <2>1, DefaultsType DEF AbsentRecord
  <2>3. \A k \in Keys : PersistedOperations(mem')[k].status = "absent"
    BY Zenon, <2>2, RowTimes
  <2>4. ValidateOperations(PersistedOperations(mem'))
    BY Zenon, <1>0, <2>3, FewerRowsValidate
  <2> QED BY Zenon, <1>0, <2>1, <2>4 DEF LedgerStaysValid
<1>7. CASE Restart
  <2>1. disk' = disk /\ mem' = Pruned(Restored)
    BY Zenon, <1>7 DEF Restart
  <2>2. Restored \in [Keys -> Record]
    BY Zenon, <1>0, DefaultsType DEF Restored, RestoredRecord, TypeOK, Row, Record, Recorded
  <2>3. ASSUME NEW k \in Keys, PersistedOperations(Restored)[k].status # "absent"
        PROVE  /\ PersistedOperations(Restored)[k].status = disk[k].status
               /\ PersistedOperations(Restored)[k].createdAt = disk[k].createdAt
               /\ PersistedOperations(Restored)[k].completedAt = disk[k].completedAt
    <3>1. Restored[k] = RestoredRecord(disk[k]) /\ disk[k] \in Row
      BY Zenon, <1>0 DEF Restored, TypeOK
    <3>2. Restored[k].status # "absent"
      BY Zenon, <2>2, <2>3, RowTimes
    <3>3. /\ disk[k].status # "absent"
          /\ Restored[k].createdAt = disk[k].createdAt
          /\ Restored[k].completedAt = disk[k].completedAt
      BY <3>1, <3>2 DEF RestoredRecord, AbsentRecord
    <3>4. /\ disk[k].status \in {"pending", "completed"} /\ disk[k].completedAt \in Nat
          /\ disk[k].status = "completed" <=> disk[k].completedAt > 0
      BY <3>1, <3>3 DEF IInv, RowsInv, Row
    <3> QED BY <2>2, <3>2, <3>3, <3>4, RowTimes
  <2>4. ValidateOperations(PersistedOperations(Restored))
    BY Zenon, <1>0, <2>3, FewerRowsValidate
  <2>5. ValidateOperations(PersistedOperations(mem'))
    BY Zenon, <1>0, <2>1, <2>2, <2>4, PrunedValidates
  <2> QED BY Zenon, <1>0, <2>1, <2>5 DEF LedgerStaysValid
<1>8. CASE ClockStep \/ UNCHANGED vars
  BY Zenon, <1>1, <1>8 DEF ClockStep, vars
<1> QED BY Zenon, <1>3, <1>4, <1>5, <1>6, <1>7, <1>8 DEF Next, Finish
-----------------------------------------------------------------------------
(* executeTrackedMutation starts the side effect of a remembered id at     *)
(* most once, through retries, failing saves, crashes and restarts.        *)
THEOREM AtMostOnceHolds == Spec => []AtMostOnce
<1>1. IInv => AtMostOnce
  BY Zenon DEF IInv, EvidenceInv, AtMostOnce
<1> QED BY <1>1, IInvAlways, PTL

(* Any definite answer the ledger gives is already what a restart gives.   *)
THEOREM DefiniteIsDurableHolds == Spec => []DefiniteIsDurable
<1>1. IInv => DefiniteIsDurable
  BY Zenon DEF IInv, DurableInv, DefiniteIsDurable
<1> QED BY <1>1, IInvAlways, PTL

(* Every goroutine waiting on record.done waits for an unfinished record   *)
(* that exactly one goroutine will finish.                                 *)
THEOREM WaitersHaveARunnerHolds == Spec => []WaitersHaveARunner
<1>1. IInv => WaitersHaveARunner
  <2> SUFFICES ASSUME IInv PROVE WaitersHaveARunner
    OBVIOUS
  <2>1. \A c \in Callers :
          pc[c] \in {"admitted", "running", "waiting"} =>
            mem[req[c].key].status = "running" /\ mem[req[c].key].fp = req[c].fp
    BY DEF IInv, HoldersInv, Holding
  <2>2. ASSUME NEW k \in Keys, mem[k].status = "running"
        PROVE  \E c \in Callers : /\ pc[c] \in {"admitted", "running"}
                                  /\ req[c].key = k
                                  /\ \A d \in Callers :
                                       pc[d] \in {"admitted", "running"} /\ req[d].key = k
                                         => d = c
    <3>1. PICK c \in Callers : pc[c] \in Owning /\ req[c].key = k
      BY Zenon, <2>2 DEF IInv, RunnerExistsInv
    <3>2. \A d \in Callers : pc[d] \in Owning /\ req[d].key = k => d = c
      BY Zenon, <3>1 DEF IInv, UniqueOwnerInv
    <3> QED BY Zenon, <3>1, <3>2 DEF Owning
  <2> QED BY Zenon, <2>1, <2>2 DEF WaitersHaveARunner
<1> QED BY <1>1, IInvAlways, PTL

(* The three promises of the ledger together: what executeTrackedMutation  *)
(* answers definitely is on disk, SaveOperations and the next start accept *)
(* what there is, and whoever waits on record.done waits for a goroutine   *)
(* that will close it.                                                     *)
THEOREM LedgerIsSoundHolds == Spec => []LedgerIsSound
<1>1. Init => LedgerStaysValid
  <2> SUFFICES ASSUME Init PROVE LedgerStaysValid
    OBVIOUS
  <2>1. mem \in [Keys -> Record] /\ \A k \in Keys : disk[k] = AbsentRow /\ mem[k] = AbsentRecord
    BY DefaultsType DEF Init
  <2>2. \A k \in Keys : PersistedOperations(mem)[k].status = "absent" /\ disk[k].status = "absent"
    BY <2>1, RowTimes DEF AbsentRecord, AbsentRow
  <2>3. Present(disk) = {} /\ Present(PersistedOperations(mem)) = {}
    BY Zenon, <2>2 DEF Present
  <2>4. Cardinality({}) = 0
    BY Zenon, FS_EmptySet
  <2> QED BY <2>3, <2>4, LedgerAssumption DEF LedgerStaysValid, ValidateOperations
<1>2. Spec => []LedgerStaysValid
  BY <1>1, IInvAlways, ValidStep, PTL DEF Spec
<1> QED BY <1>2, DefiniteIsDurableHolds, WaitersHaveARunnerHolds, PTL DEF LedgerIsSound

(* No step of a live process changes the answer of a finished record, and  *)
(* the record is dropped only after the retention                          *)
(* (pruneExpiredOperationsLocked).                                         *)
THEOREM AnswersAreKeptHolds == Spec => AnswersAreKept
<1> DEFINE Kept(k) == \/ mem'[k] = mem[k]
                      \/ /\ mem'[k].status = "absent"
                         /\ mem[k].completedAt > 0
                         /\ mem[k].completedAt + OperationRetention < now
<1>1. ASSUME IInv, [Next]_vars, NEW k \in Keys, up, up', mem[k].status = "done"
      PROVE  Kept(k)
  <2>0. TypeOK /\ mem \in [Keys -> Record] /\ now \in Int /\ OperationRetention \in Int
    BY <1>1, LedgerAssumption DEF IInv, TypeOK, ClockRange
  <2>1. Pruned(mem)[k] = mem[k]
        \/ (/\ Pruned(mem)[k].status = "absent"
            /\ mem[k].completedAt > 0
            /\ mem[k].completedAt + OperationRetention < now)
    <3>1. mem[k].completedAt \in Int
      BY <2>0 DEF Record
    <3> QED BY <2>0, <3>1 DEF Pruned, Expired, AbsentRecord
  <2>2. ASSUME NEW c \in Callers, Begin(c) PROVE Kept(k)
    <3> PICK j \in Keys, f \in Fingerprints :
          RefuseConflict(c, j, f) \/ Join(c, j, f) \/ RefuseFull(c, j, f) \/ Admit(c, j, f)
      BY Zenon, <2>2 DEF Begin
    <3>1. CASE RefuseConflict(c, j, f) \/ Join(c, j, f)
      BY Zenon, <3>1 DEF RefuseConflict, Join
    <3>2. CASE RefuseFull(c, j, f)
      BY Zenon, <3>2, <2>1 DEF RefuseFull
    <3>3. CASE Admit(c, j, f)
      <4>1. j # k
        BY Zenon, <1>1, <3>3 DEF Admit
      <4>2. mem' = Pruned(mem) \/ mem' = [Pruned(mem) EXCEPT ![j] = PendingRecord(f)]
        BY Zenon, <3>3 DEF Admit
      <4>3. mem'[k] = Pruned(mem)[k]
        BY Zenon, <4>1, <4>2 DEF Pruned
      <4> QED BY Zenon, <2>1, <4>3
    <3> QED BY Zenon, <3>1, <3>2, <3>3
  <2>3. ASSUME NEW c \in Callers, NEW r \in RunResults, Complete(c, r) PROVE Kept(k)
    <3>1. pc[c] = "running" /\ req[c].key \in Keys
      BY Zenon, <2>0, <2>3 DEF Complete, TypeOK
    <3>2. mem[req[c].key].status = "running"
      BY Zenon, <1>1, <3>1 DEF IInv, HoldersInv, Holding
    <3>3. req[c].key # k
      BY Zenon, <1>1, <3>2
    <3> QED BY Zenon, <2>0, <2>3, <3>1, <3>3 DEF Complete
  <2>4. ASSUME NEW c \in Callers, Run(c) \/ CancelWait(c) \/ Return(c) PROVE Kept(k)
    BY Zenon, <2>4 DEF Run, CancelWait, Return
  <2>5. CASE ClockStep \/ UNCHANGED vars
    BY Zenon, <2>5 DEF ClockStep, vars
  <2>6. ~Crash /\ ~Restart
    BY Zenon, <1>1 DEF Crash, Restart
  <2> QED BY Zenon, <1>1, <2>2, <2>3, <2>4, <2>5, <2>6 DEF Next, Finish
<1>2. IInv /\ [Next]_vars =>
        [\A k \in Keys :
           up /\ up' /\ mem[k].status = "done" =>
             \/ mem'[k] = mem[k]
             \/ /\ mem'[k].status = "absent"
                /\ mem[k].completedAt > 0
                /\ mem[k].completedAt + OperationRetention < now]_vars
  BY Zenon, <1>1
<1> QED BY <1>2, IInvAlways, PTL DEF Spec, AnswersAreKept

-----------------------------------------------------------------------------
(* The ledger implements the life of an operation id.                      *)

(* What clients see of an id before and after a step.                      *)
LEMMA IdSeen ==
  ASSUME NEW k \in Keys
  PROVE  /\ Life[k] = LifeOf(View[k].status, runs[k])
         /\ Life'[k] = LifeOf(View'[k].status, runs'[k])
         /\ AnswerFor[k] = IF View[k].status = "done" THEN Persisted(View[k].result) ELSE "unknown"
         /\ AnswerFor'[k] = IF View'[k].status = "done" THEN Persisted(View'[k].result) ELSE "unknown"
         /\ up => View = mem
         /\ up' => View' = mem'
         /\ ~ up => View = Restored
         /\ ~ up' => View' = Restored'
BY Zenon DEF Life, AnswerFor, View

(* The four places of an id.                                               *)
LEMMA LifeFacts ==
  /\ \A n : LifeOf("absent", n) = "free" /\ LifeOf("done", n) = "answered"
  /\ LifeOf("running", 0) = "claimed"
  /\ LifeOf("running", 1) = "started"
BY DEF LifeOf

(* While the process runs, an id whose record and count are untouched      *)
(* stays, and one that is pruned is forgotten.                             *)
LEMMA PrunedId ==
  ASSUME IInv, up, up', NEW k \in Keys,
         \/ mem'[k] = mem[k] /\ runs'[k] = runs[k]
         \/ mem'[k] = Pruned(mem)[k] /\ runs'[k] = RunsAfterPrune(mem)[k]
  PROVE  Ids!Stays(k) \/ Ids!Forget(k)
<1>1. CASE mem'[k] = mem[k] /\ runs'[k] = runs[k]
  <2>1. Ids!Stays(k)
    BY Zenon, <1>1, IdSeen DEF Ids!Stays
  <2> QED BY Zenon, <2>1
<1>2. CASE mem'[k] = AbsentRecord /\ runs'[k] = 0 /\ mem[k].status = "done"
  <2>1. Ids!Forget(k)
    BY <1>2, IdSeen, LifeFacts DEF Ids!Forget, AbsentRecord
  <2> QED BY Zenon, <2>1
<1> QED BY Zenon, <1>1, <1>2, PrunedLedger

(* A goroutine's way through executeTrackedMutation takes its id from free *)
(* to claimed, to started, to answered; every other id stays or is pruned. *)
LEMMA CallIds ==
  ASSUME IInv, StartedInv, NEW c \in Callers,
         Begin(c) \/ Run(c) \/ Finish(c) \/ CancelWait(c) \/ Return(c)
  PROVE  Ids!Next
<1> SUFFICES ASSUME NEW k \in Keys
             PROVE  \/ Ids!Stays(k) \/ Ids!Claim(k) \/ Ids!Start(k) \/ Ids!Answered(k)
                    \/ Ids!Lose(k) \/ Ids!Learn(k) \/ Ids!Forget(k) \/ Ids!Recall(k)
  BY Zenon DEF Ids!Next
<1>0. up /\ up' /\ TypeOK
  <2>1. ASSUME NEW j \in Keys, NEW f \in Fingerprints,
               RefuseConflict(c, j, f) \/ Join(c, j, f) \/ RefuseFull(c, j, f) \/ Admit(c, j, f)
        PROVE  up /\ up'
    BY <2>1 DEF RefuseConflict, Join, RefuseFull, Admit
  <2>2. ASSUME Run(c) \/ CancelWait(c) \/ Return(c) PROVE up /\ up'
    BY <2>2 DEF Run, CancelWait, Return
  <2>3. ASSUME NEW r \in RunResults, Complete(c, r) PROVE up /\ up'
    BY Zenon, <2>3 DEF Complete
  <2>4. TypeOK
    BY Zenon DEF IInv
  <2> QED BY Zenon, <2>1, <2>2, <2>3, <2>4 DEF Begin, Finish
<1>1. ASSUME \/ mem'[k] = mem[k] /\ runs'[k] = runs[k]
             \/ mem'[k] = Pruned(mem)[k] /\ runs'[k] = RunsAfterPrune(mem)[k]
      PROVE  Ids!Stays(k) \/ Ids!Forget(k)
  BY Zenon, <1>0, <1>1, PrunedId
<1>2. ASSUME NEW j \in Keys, NEW f \in Fingerprints, Admit(c, j, f)
      PROVE  Ids!Stays(k) \/ Ids!Forget(k) \/ Ids!Claim(k)
  <2>1. CASE k = j /\ mem'[k] = PendingRecord(f)
    <3>1. mem[k].status = "absent" /\ runs[k] = 0 /\ runs'[k] = 0
      <4>1. mem[k].status = "absent" /\ runs' = RunsAfterPrune(mem)
        BY Zenon, <1>2, <2>1 DEF Admit
      <4>2. runs[k] = 0
        BY <1>0, <4>1 DEF IInv, EvidenceInv, TypeOK
      <4> QED BY Zenon, <1>0, <4>1, <4>2, PrunedLedger
    <3>2. mem'[k].status = "running"
      BY <2>1 DEF PendingRecord
    <3>3. Ids!Claim(k)
      <4>1. Life[k] = "free" /\ Life'[k] = "claimed"
        BY <1>0, <3>1, <3>2, IdSeen, LifeFacts
      <4>2. AnswerFor'[k] = "unknown"
        BY Zenon, <1>0, <3>2, IdSeen
      <4> QED BY Zenon, <3>1, <4>1, <4>2 DEF Ids!Claim
    <3> QED BY Zenon, <3>3
  <2>2. CASE mem'[k] = Pruned(mem)[k]
    BY Zenon, <1>1, <1>2, <2>2 DEF Admit
  <2>3. mem'[k] = Pruned(mem)[k] \/ (k = j /\ mem'[k] = PendingRecord(f))
    BY Zenon, <1>2 DEF Admit, Pruned
  <2> QED BY Zenon, <2>1, <2>2, <2>3
<1>3. CASE Begin(c)
  BY Zenon, <1>1, <1>2, <1>3 DEF Begin, RefuseConflict, Join, RefuseFull
<1>4. CASE Run(c)
  <2>1. req[c].key \in Keys /\ mem' = mem /\ runs[req[c].key] = 0
        /\ mem[req[c].key].status = "running"
    BY Zenon, <1>0, <1>4 DEF Run, IInv, HoldersInv, Holding, TypeOK
  <2>2. runs'[req[c].key] = 1 /\ \A j \in Keys \ {req[c].key} : runs'[j] = runs[j]
    BY <1>0, <1>4, <2>1 DEF Run, TypeOK
  <2>3. CASE k = req[c].key
    <3>1. Ids!Start(k)
      <4>1. Life[k] = "claimed" /\ Life'[k] = "started"
        BY <1>0, <2>1, <2>2, <2>3, IdSeen, LifeFacts
      <4>2. AnswerFor'[k] = "unknown"
        BY Zenon, <1>0, <2>1, <2>3, IdSeen
      <4> QED BY <2>1, <2>2, <2>3, <4>1, <4>2 DEF Ids!Start
    <3> QED BY Zenon, <3>1
  <2> QED BY Zenon, <1>1, <2>1, <2>2, <2>3
<1>5. ASSUME NEW r \in RunResults, Complete(c, r)
      PROVE  Ids!Stays(k) \/ Ids!Forget(k) \/ Ids!Answered(k) \/ Ids!Lose(k)
  <2> DEFINE j == req[c].key
  <2>1. j \in Keys /\ mem[j].status = "running" /\ mem[j] \in Record /\ runs[j] = 1 /\ runs' = runs
    BY Zenon, <1>0, <1>5 DEF Complete, IInv, HoldersInv, Holding, TypeOK, StartedInv
  <2>2. /\ \A i \in Keys \ {j} : mem'[i] = mem[i]
        /\ mem'[j].status = "done" /\ mem'[j].result \in {r, "unknown"}
    <3>1. CASE mem' = [mem EXCEPT ![j] = CompletedRecord(j, r)]
      BY Zenon, <1>0, <2>1, <3>1 DEF TypeOK, CompletedRecord, Record
    <3>2. CASE mem' = [mem EXCEPT ![j] = UnknownRecord(j)]
      BY Zenon, <1>0, <2>1, <3>2 DEF TypeOK, UnknownRecord, Record
    <3> QED BY Zenon, <1>5, <3>1, <3>2 DEF Complete
  <2>3. CASE k = j /\ mem'[j].result = r
    <3>1. Persisted(r) \in {"ok", "fault", "internal"}
      BY Zenon DEF Persisted, RunResults
    <3>2. Ids!Answered(k)
      <4>0. mem[k].status = "running" /\ runs[k] = 1 /\ mem'[k].status = "done"
            /\ mem'[k].result = r
        BY Zenon, <2>1, <2>2, <2>3
      <4>1. Life[k] = "started" /\ Life'[k] = "answered"
        BY <1>0, <4>0, IdSeen, LifeFacts
      <4>2. AnswerFor'[k] = Persisted(r)
        BY Zenon, <1>0, <4>0, IdSeen
      <4> QED BY Zenon, <2>1, <3>1, <4>1, <4>2 DEF Ids!Answered
    <3> QED BY Zenon, <3>2
  <2>4. CASE k = j /\ mem'[j].result = "unknown"
    <3>1. Ids!Lose(k)
      <4>0. mem[k].status = "running" /\ runs[k] = 1 /\ mem'[k].status = "done"
            /\ mem'[k].result = "unknown"
        BY Zenon, <2>1, <2>2, <2>4
      <4>1. Life[k] = "started" /\ Life'[k] = "answered"
        BY <1>0, <4>0, IdSeen, LifeFacts
      <4>2. AnswerFor'[k] = "unknown"
        BY Zenon, <1>0, <4>0, IdSeen DEF Persisted
      <4> QED BY Zenon, <2>1, <4>1, <4>2 DEF Ids!Lose
    <3> QED BY Zenon, <3>1
  <2> QED BY Zenon, <1>1, <2>1, <2>2, <2>3, <2>4
<1>6. CASE CancelWait(c) \/ Return(c)
  BY Zenon, <1>1, <1>6 DEF CancelWait, Return
<1> QED BY Zenon, <1>3, <1>4, <1>5, <1>6 DEF Finish

(* The crash turns unfinished ids into unknown outcomes and reads every    *)
(* other answer from the file; it may find one that memory had dropped or  *)
(* did not know to be saved.                                               *)
LEMMA CrashIds ==
  ASSUME IInv, PendingInv, Crash
  PROVE  Ids!Next
<1> SUFFICES ASSUME NEW k \in Keys
             PROVE  \/ Ids!Stays(k) \/ Ids!Claim(k) \/ Ids!Start(k) \/ Ids!Answered(k)
                    \/ Ids!Lose(k) \/ Ids!Learn(k) \/ Ids!Forget(k) \/ Ids!Recall(k)
  BY Zenon DEF Ids!Next
<1>0. up /\ ~ up' /\ disk' = disk /\ runs' = runs /\ TypeOK
  BY Zenon DEF Crash, IInv
<1>1. View[k] = mem[k] /\ mem[k] \in Record /\ disk[k] \in Row /\ runs[k] \in Nat
  BY Zenon, <1>0, IdSeen DEF TypeOK
<1>2. View'[k] = RestoredRecord(disk[k])
  BY Zenon, <1>0, IdSeen DEF Restored
<1>3. CASE mem[k].status = "running"
  <2>1. disk[k].status = "pending"
    BY Zenon, <1>3 DEF PendingInv
  <2>2. View'[k].status = "done" /\ View'[k].result = "unknown"
    BY <1>2, <2>1 DEF RestoredRecord
  <2>3. runs[k] \in {0, 1}
    BY <1>1 DEF IInv, EvidenceInv
  <2>4. Ids!Lose(k)
    <3>1. Life[k] \in {"claimed", "started"} /\ Life'[k] = "answered"
      BY <1>1, <1>3, <2>2, <2>3, IdSeen, LifeFacts
    <3>2. AnswerFor'[k] = "unknown"
      BY Zenon, <2>2, IdSeen DEF Persisted
    <3> QED BY Zenon, <1>0, <3>1, <3>2 DEF Ids!Lose
  <2> QED BY Zenon, <2>4
<1>4. CASE mem[k].status = "absent"
  <2>1. runs[k] = 0
    BY <1>0, <1>1, <1>4 DEF IInv, EvidenceInv
  <2>2. CASE disk[k].status = "absent"
    <3>1. View'[k].status = "absent"
      BY <1>2, <2>2 DEF RestoredRecord, AbsentRecord
    <3>2. Ids!Stays(k)
      <4>1. Life[k] = "free" /\ Life'[k] = "free"
        BY <1>1, <1>4, <3>1, IdSeen, LifeFacts
      <4>2. AnswerFor[k] = "unknown" /\ AnswerFor'[k] = "unknown"
        BY Zenon, <1>1, <1>4, <3>1, IdSeen
      <4> QED BY Zenon, <1>0, <4>1, <4>2 DEF Ids!Stays
    <3> QED BY Zenon, <3>2
  <2>3. CASE disk[k].status # "absent"
    <3>1. View'[k].status = "done" /\ View'[k].result \in Recorded
      BY <1>1, <1>2, <2>3 DEF RestoredRecord, Row, Recorded
    <3>2. Persisted(View'[k].result) \in {"ok", "fault", "internal"} \cup {"unknown"}
      BY Zenon, <3>1 DEF Persisted, Recorded, Definite
    <3>3. Ids!Recall(k)
      <4>1. Life[k] = "free" /\ Life'[k] = "answered"
        BY <1>1, <1>4, <3>1, IdSeen, LifeFacts
      <4>2. AnswerFor'[k] = Persisted(View'[k].result)
        BY Zenon, <3>1, IdSeen
      <4> QED BY Zenon, <1>0, <2>1, <3>2, <4>1, <4>2 DEF Ids!Recall
    <3> QED BY Zenon, <3>3
  <2> QED BY Zenon, <2>2, <2>3
<1>5. CASE mem[k].status = "done"
  <2>1. disk[k].status # "absent"
    BY Zenon, <1>5 DEF IInv, EvidenceInv
  <2>2. View'[k].status = "done"
    BY <1>2, <2>1 DEF RestoredRecord
  <2>3. mem[k].result \in Recorded /\ View'[k].result \in Recorded
    BY <1>1, <1>2, <2>1 DEF RestoredRecord, Record, Row, Recorded
  <2>4. CASE mem[k].result = "unknown" /\ Persisted(View'[k].result) # "unknown"
    <3>1. Persisted(View'[k].result) \in {"ok", "fault", "internal"}
      BY Zenon, <2>3, <2>4 DEF Persisted, Recorded, Definite
    <3>2. Persisted(mem[k].result) = "unknown"
      BY Zenon, <2>4 DEF Persisted
    <3>3. Ids!Learn(k)
      <4>1. Life[k] = "answered" /\ Life'[k] = "answered"
        BY <1>1, <1>5, <2>2, IdSeen, LifeFacts
      <4>2. AnswerFor[k] = "unknown" /\ AnswerFor'[k] = Persisted(View'[k].result)
        BY Zenon, <1>1, <1>5, <2>2, <3>2, IdSeen
      <4> QED BY Zenon, <1>0, <3>1, <4>1, <4>2 DEF Ids!Learn
    <3> QED BY Zenon, <3>3
  <2>5. CASE Persisted(View'[k].result) = Persisted(mem[k].result)
    <3>1. Ids!Stays(k)
      BY <1>0, <1>1, <1>5, <2>2, <2>5, IdSeen, LifeFacts DEF Ids!Stays
    <3> QED BY Zenon, <3>1
  <2>6. CASE mem[k].result \in Definite
    <3>1. disk[k].status = "completed" /\ disk[k].result = Persisted(mem[k].result)
      BY Zenon, <1>5, <2>6 DEF IInv, DurableInv
    <3>2. View'[k].result = Persisted(mem[k].result)
      BY <1>2, <3>1 DEF RestoredRecord
    <3>3. Persisted(View'[k].result) = Persisted(mem[k].result)
      BY Zenon, <3>2 DEF Persisted
    <3> QED BY Zenon, <2>5, <3>3
  <2> QED BY Zenon, <2>3, <2>4, <2>5, <2>6 DEF Persisted, Recorded
<1> QED BY Zenon, <1>1, <1>3, <1>4, <1>5 DEF Record

(* restoreOperations publishes the file as it is, less what has expired.   *)
LEMMA RestartIds ==
  ASSUME IInv, Restart
  PROVE  Ids!Next
<1> SUFFICES ASSUME NEW k \in Keys PROVE Ids!Stays(k) \/ Ids!Forget(k)
  BY Zenon DEF Ids!Next
<1>0. ~ up /\ up' /\ mem' = Pruned(Restored) /\ runs' = RunsAfterPrune(Restored) /\ TypeOK
  BY Zenon DEF Restart, IInv
<1>1. View[k] = Restored[k] /\ View'[k] = Pruned(Restored)[k]
  BY Zenon, <1>0, IdSeen
<1>2. Restored \in [Keys -> Record]
  BY Zenon, <1>0, DefaultsType DEF Restored, RestoredRecord, TypeOK, Row, Record, Recorded
<1>3. Restored[k].status \in {"running", "absent"} => Restored[k].completedAt = 0
  BY Zenon DEF Restored, RestoredRecord, AbsentRecord
<1>4. CASE Pruned(Restored)[k] = Restored[k] /\ RunsAfterPrune(Restored)[k] = runs[k]
  <2>1. Ids!Stays(k)
    BY Zenon, <1>0, <1>1, <1>4, IdSeen DEF Ids!Stays
  <2> QED BY Zenon, <2>1
<1>5. CASE /\ Restored[k].status = "done"
           /\ Pruned(Restored)[k] = AbsentRecord
           /\ RunsAfterPrune(Restored)[k] = 0
  <2>1. Ids!Forget(k)
    <3>1. Life[k] = "answered" /\ Life'[k] = "free"
      BY <1>1, <1>5, IdSeen, LifeFacts DEF AbsentRecord
    <3>2. AnswerFor'[k] = "unknown"
      BY <1>1, <1>5, IdSeen DEF AbsentRecord
    <3> QED BY Zenon, <1>0, <1>5, <3>1, <3>2 DEF Ids!Forget
  <2> QED BY Zenon, <2>1
<1> QED BY Zenon, <1>0, <1>2, <1>3, <1>4, <1>5, PruneFacts

(* The daemon's ledger implements the life of an operation id: the initial *)
(* ledger is empty, and each step of executeTrackedMutation, the crash,    *)
(* restoreOperations and the clock is a step of the ids or none.           *)
THEOREM ReplaySafeHolds == Spec => ReplaySafe
<1>1. Init => Ids!Init
  BY IdSeen DEF Init, Ids!Init, Life, AnswerFor, View, LifeOf, AbsentRecord
<1>2. Init => StartedInv /\ PendingInv
  BY DEF Init, StartedInv, PendingInv, AbsentRecord
<1>3. IInv /\ StartedInv /\ PendingInv /\ [Next]_vars => [Ids!Next]_(Ids!lifeVars)
  <2> SUFFICES ASSUME IInv, StartedInv, PendingInv, [Next]_vars
               PROVE  Ids!Next \/ UNCHANGED Ids!lifeVars
    OBVIOUS
  <2>1. CASE ClockStep \/ UNCHANGED vars
    <3>1. UNCHANGED <<up, mem, disk, runs>>
      BY <2>1 DEF ClockStep, vars
    <3>2. UNCHANGED Restored
      BY Zenon, <3>1 DEF Restored
    <3>3. UNCHANGED View
      BY Zenon, <3>1, <3>2 DEF View
    <3> QED BY Zenon, <3>1, <3>3 DEF Ids!lifeVars, Life, AnswerFor
  <2> QED BY Zenon, <2>1, CallIds, CrashIds, RestartIds DEF Next
<1> QED BY <1>1, <1>2, <1>3, IInvAlways, StartedStep, PendingStep, PTL DEF Spec, ReplaySafe, Ids!Spec

=============================================================================
