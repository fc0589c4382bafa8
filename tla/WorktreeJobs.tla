---------------------------- MODULE WorktreeJobs ----------------------------
(***************************************************************************)
(* CreateWorktree on the phone (lib/worktree-jobs.ts and the driver of     *)
(* operations/controller.ts): a job card per call instead of the global    *)
(* busy lock.  A card is dropped by the reader at any time, there is no    *)
(* cancel call, and the computer on the screen may change under a job.     *)
(* A run is one runWorktreeJob; runs outlive their cards.  Job ids are a   *)
(* serial in the code; here a free name is one no card and no run uses.    *)
(***************************************************************************)
EXTENDS Naturals, FiniteSets

CONSTANTS JobIds, WORKTREE_JOB_LIMIT, MaxRuns

VARIABLES
  cards,    \* the jobs: status, and whether the driver's session is live
  jobRuns,  \* runs between their awaits
  late      \* effects of runs whose card or computer was gone

worktreeVars == <<cards, jobRuns, late>>

NoCard == [status |-> "none", sess |-> FALSE]
OnScreen == {j \in JobIds : cards[j] # NoCard}
RunsOf(j) == {r \in jobRuns : r.job = j}
Run(j, n) == [job |-> j, n |-> n, at |-> "create", sess |-> cards[j].sess]
FreshRun(j) == CHOOSE n \in 1..(MaxRuns + 1) : \A r \in RunsOf(j) : r.n # n

WorktreeInit == cards = [j \in JobIds |-> NoCard] /\ jobRuns = {} /\ late = {}

startWorktreeJob(j) ==
  /\ Cardinality(OnScreen) < WORKTREE_JOB_LIMIT
  /\ cards[j] = NoCard /\ RunsOf(j) = {}
  /\ cards' = [cards EXCEPT ![j] = [status |-> "working", sess |-> TRUE]]
  /\ jobRuns' = jobRuns \cup {[job |-> j, n |-> 1, at |-> "create", sess |-> TRUE]}
  /\ UNCHANGED late

(* A retry is a new call.                                                  *)
retryWorktreeJob(j) ==
  /\ cards[j].status = "failed"
  /\ cards' = [cards EXCEPT ![j].status = "working"]
  /\ jobRuns' = jobRuns \cup {Run(j, FreshRun(j))}
  /\ UNCHANGED late

dismissWorktreeJob(j) ==
  /\ j \in OnScreen
  /\ cards' = [cards EXCEPT ![j] = NoCard]
  /\ UNCHANGED <<jobRuns, late>>
-----------------------------------------------------------------------------
jobIsLive(r) == r.job \in OnScreen

Goes(r, at) == jobRuns' = (jobRuns \ {r}) \cup {[r EXCEPT !.at = at]}
Stops(r) == jobRuns' = jobRuns \ {r}

(* The worktree exists: the card goes, the herd is refreshed.              *)
Created(r) ==
  /\ r.at = "create" /\ r.sess /\ jobIsLive(r)
  /\ cards' = [cards EXCEPT ![r.job] = NoCard]
  /\ Goes(r, "refresh")
  /\ late' = late \cup {x \in {"dropped"} : ~ jobIsLive(r)}

(* Cancelled while in flight, or the session closed under it.              *)
IgnoredLate(r) ==
  /\ r.at \in {"create", "reconcile"} /\ ~ jobIsLive(r)
  /\ Stops(r)
  /\ UNCHANGED <<cards, late>>

(* settleSuccess opens the pane if the session of the job is still live.   *)
OpensWorktree(r) ==
  /\ r.at = "refresh" /\ r.sess
  /\ Goes(r, "open")
  /\ late' = late \cup {x \in {"elsewhere"} : ~ r.sess}
  /\ UNCHANGED cards

Succeeded(r) ==
  /\ r.at = "open" \/ (r.at = "refresh" /\ ~ r.sess)
  /\ Stops(r)
  /\ UNCHANGED <<cards, late>>

CreateFailed(r) ==
  /\ r.at = "create" /\ jobIsLive(r)
  /\ Goes(r, "reconcile")
  /\ UNCHANGED <<cards, late>>

(* settleFailure after the reconciling reads.                              *)
settleFailure(r) ==
  /\ r.at = "reconcile" /\ jobIsLive(r)
  /\ cards' = [cards EXCEPT ![r.job].status = "failed"]
  /\ Stops(r)
  /\ late' = late \cup {x \in {"dropped"} : ~ jobIsLive(r)}

(* Another computer, or none: every driver's session is an old one.        *)
ComputerChanges ==
  /\ cards' = [j \in JobIds |-> [cards[j] EXCEPT !.sess = FALSE]]
  /\ jobRuns' = {[r EXCEPT !.sess = FALSE] : r \in jobRuns}
  /\ UNCHANGED late

WorktreeNext ==
  \/ \E j \in JobIds : startWorktreeJob(j) \/ retryWorktreeJob(j) \/ dismissWorktreeJob(j)
  \/ \E r \in jobRuns : \/ Created(r) \/ IgnoredLate(r) \/ OpensWorktree(r) \/ Succeeded(r)
                        \/ CreateFailed(r) \/ settleFailure(r)
  \/ ComputerChanges
-----------------------------------------------------------------------------
(* worktree-jobs.ts: a working card waits for exactly one CreateWorktree,  *)
(* a failed one for none.  Two at once would create two worktrees for one  *)
(* request; none would leave the card working for ever.                    *)
CardHasOneRun ==
  \A j \in OnScreen :
    Cardinality(RunsOf(j)) = IF cards[j].status = "working" THEN 1 ELSE 0

(* "Cancel is local only: the card is dropped and a late result is         *)
(* ignored", and "a computer switch mid-create must not open a pane from   *)
(* the old herd".                                                          *)
LateResultsAreIgnored == late = {}
=============================================================================
