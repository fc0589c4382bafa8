----------------------------- MODULE HerdActions -----------------------------
(***************************************************************************)
(* Mutations asked for on the phone (features/operations/controller.ts,    *)
(* run.ts, owner.ts; the prompt lock of session/drafts; file-actions.ts):  *)
(* a dialog, the owner captured before it, the one lock behind the busy    *)
(* marker, the pending notice, the call, what follows an answer, and the   *)
(* read-only reconciliation of an ambiguous failure.  A task is one such   *)
(* call.  Generations and scopes are compared for equality only, so a task *)
(* carries whether its session and its view are still the current ones;    *)
(* a lock is named by the task that took it.                               *)
(***************************************************************************)
EXTENDS Naturals, FiniteSets

CONSTANTS Tasks, NoOne

VARIABLES
  asked,    \* the tasks
  lock,     \* heldLock, and whether busyOwner is the held lock
  opBusy,   \* operationBusy of the capabilities domain
  toast,    \* the notice: a task's pending one, another, or none
  granted,  \* GetConfig advertised the capability
  wrongs    \* what was done without the right to do it

actionVars == <<asked, lock, opBusy, toast, granted, wrongs>>

Locked == {"create", "prompt", "layout", "close"}
NeedsGrant == {"create", "prompt", "layout", "file"}
Unlocked == {"rename", "device", "revoke", "worktree"}
OpKinds == Locked \cup Unlocked \cup {"file"}

NoTaskYet == [op |-> "none", at |-> "none", sess |-> FALSE, view |-> FALSE, locked |-> FALSE]
NoLock == [held |-> NoOne, busy |-> FALSE]

HerdActionsInit ==
  /\ asked = [k \in Tasks |-> NoTaskYet]
  /\ lock = NoLock /\ opBusy = FALSE
  /\ toast = "none" /\ granted = TRUE /\ wrongs = {}
-----------------------------------------------------------------------------
(* Owners.                                                                 *)
operationOwner(op) == [op |-> op, at |-> "asking", sess |-> TRUE, view |-> TRUE, locked |-> FALSE]

ownsComputer(k) == asked[k].sess

promptLockHeld(k) == lock.held = k

ownsOperationView(k) ==
  ownsComputer(k) /\ asked[k].view /\ (asked[k].locked => promptLockHeld(k))

(* The prompt lock.  A view that ends takes the busy marker from the lock  *)
(* it leaves held.                                                         *)
acquirePromptLock(k) == lock' = [held |-> k, busy |-> TRUE] /\ opBusy' = TRUE

releasePromptLock(k) ==
  /\ lock' = IF lock.held = k THEN NoLock ELSE lock
  /\ opBusy' = (opBusy /\ ~ (lock.held = k /\ lock.busy))

unstickPromptBusy ==
  /\ lock' = [lock EXCEPT !.busy = FALSE]
  /\ opBusy' = (opBusy /\ ~ lock.busy)

(* bumpViewIncarnation, seen by the tasks; own is the one it moves along.  *)
ViewEnds(f, own) == [k \in Tasks |-> [f[k] EXCEPT !.view = @ /\ k = own]]

Set(k, at) == [asked EXCEPT ![k].at = at]
Ended(k) == [asked EXCEPT ![k] = NoTaskYet]

clearPendingNotice(k) == IF toast = k THEN "none" ELSE toast

Wrong(what, bad) == wrongs' = wrongs \cup {x \in {what} : bad}
-----------------------------------------------------------------------------
(* The reader asks: guards, owner, dialog.                                 *)
Asks(k, op) ==
  /\ asked[k] = NoTaskYet
  /\ op \in NeedsGrant => granted
  /\ asked' = [asked EXCEPT ![k] = operationOwner(op)]
  /\ UNCHANGED <<lock, opBusy, toast, granted, wrongs>>

(* Dismissed, or answered when the view it was asked in is gone.           *)
Dismissed(k) ==
  /\ asked[k].at = "asking"
  /\ asked' = Ended(k)
  /\ UNCHANGED <<lock, opBusy, toast, granted, wrongs>>

(* runHerdOperation up to its pending notice and paint, during which       *)
(* subscribers run.                                                        *)
runHerdOperation(k) ==
  /\ asked[k].at = "asking" /\ asked[k].op \in Locked
  /\ ownsOperationView(k) /\ ~ opBusy
  /\ asked[k].op \in NeedsGrant => granted
  /\ acquirePromptLock(k)
  /\ asked' = [asked EXCEPT ![k].at = "begun", ![k].locked = TRUE]
  /\ toast' = k
  /\ UNCHANGED <<granted, wrongs>>

canSend(k) == ownsOperationView(k) /\ (asked[k].op \in NeedsGrant => granted)

Unauthorised(k) ==
  ~ asked[k].sess \/ (asked[k].op \in NeedsGrant /\ ~ granted)

SendRefused(k) ==
  /\ asked[k].at = "begun" /\ asked[k].op \in Locked /\ ~ canSend(k)
  /\ toast' = clearPendingNotice(k)
  /\ releasePromptLock(k)
  /\ asked' = Ended(k)
  /\ UNCHANGED <<granted, wrongs>>

(* The irreversible call.  Closing the pane of a full terminal leaves the  *)
(* terminal first.                                                         *)
Sends(k) ==
  /\ asked[k].at = "begun" /\ asked[k].op \in Locked /\ canSend(k)
  /\ \E at \in {"rpc"} \cup {x \in {"leaving"} : asked[k].op = "close"} :
       /\ asked' = Set(k, at)
       /\ Wrong("send", at = "rpc" /\ Unauthorised(k))
  /\ UNCHANGED <<lock, opBusy, toast, granted>>

(* leaveFullTerminalWithTransition ends the view it leaves, ...            *)
LeavesTerminal(k) ==
  /\ asked[k].at = "leaving"
  /\ asked' = ViewEnds(Set(k, "left"), k)
  /\ unstickPromptBusy
  /\ UNCHANGED <<toast, granted, wrongs>>

(* ... and closePane follows the transition if it is still the last one,   *)
(* renewing its lock; the call itself only needs the computer.             *)
ClosesLeftPane(k) ==
  /\ asked[k].at = "left" /\ ownsComputer(k)
  /\ IF asked[k].view /\ ~ opBusy THEN acquirePromptLock(k) ELSE UNCHANGED <<lock, opBusy>>
  /\ asked' = Set(k, "rpc")
  /\ Wrong("send", ~ asked[k].sess)
  /\ UNCHANGED <<toast, granted>>
-----------------------------------------------------------------------------
(* The end of runHerdOperation: its message where its view still is, else  *)
(* its pending notice is withdrawn; then the finally block.                *)
Finishes(k, shown) ==
  /\ toast' = IF ownsOperationView(k) THEN shown ELSE clearPendingNotice(k)
  /\ releasePromptLock(k)
  /\ asked' = Ended(k)

(* The answer to an operation that is no longer owned, or closePane's      *)
(* computer gone while the terminal was left.                              *)
LateAnswer(k) ==
  /\ asked[k].at \in {"rpc", "left"} /\ asked[k].op \in Locked
  /\ IF asked[k].at = "left" THEN ~ ownsComputer(k) ELSE ~ ownsOperationView(k)
  /\ Finishes(k, "other")
  /\ UNCHANGED <<granted, wrongs>>

(* after: prompts and layouts refresh; closing a pane that is open (or a   *)
(* tab or workspace around it) drops it, and the operation moves to the    *)
(* view that leaves.                                                       *)
Answered(k) ==
  /\ asked[k].at = "rpc" /\ asked[k].op \in Locked /\ ownsOperationView(k)
  /\ \/ /\ asked' = Set(k, "after")
        /\ UNCHANGED <<lock, opBusy>>
     \/ /\ asked[k].op = "close"
        /\ asked' = ViewEnds(Set(k, "after"), k)
        /\ unstickPromptBusy
  /\ UNCHANGED <<toast, granted, wrongs>>

RefreshedAfter(k) ==
  /\ asked[k].at = "after"
  /\ Finishes(k, "other")
  /\ UNCHANGED <<granted, wrongs>>

(* selectCreatedPane after its refresh opens the pane: a navigation, which *)
(* the owner follows while it is the last one.                             *)
selectCreatedPane(k) ==
  /\ asked[k].at = "after" /\ asked[k].op = "create" /\ ownsOperationView(k)
  /\ asked' = ViewEnds(Set(k, "opening"), k)
  /\ unstickPromptBusy
  /\ Wrong("jump", ~ asked[k].view)
  /\ UNCHANGED <<toast, granted>>

PaneOpened(k) ==
  /\ asked[k].at = "opening"
  /\ Finishes(k, "other")
  /\ UNCHANGED <<granted, wrongs>>

(* A failure: ambiguous ones are reconciled by a Snapshot, which may show  *)
(* that the open pane is gone.                                             *)
Fails(k) ==
  /\ asked[k].at \in {"rpc", "after", "opening"} /\ asked[k].op # "file"
  /\ asked' = Set(k, "reconcile")
  /\ UNCHANGED <<lock, opBusy, toast, granted, wrongs>>

refreshSnapshotOnly(k) ==
  /\ asked[k].at = "reconcile" /\ ownsOperationView(k)
  /\ asked' = ViewEnds(Set(k, "reconciled"), NoOne)
  /\ UNCHANGED <<lock, opBusy, toast, granted, wrongs>>

ReportsError(k) ==
  /\ asked[k].at \in {"reconcile", "reconciled"} /\ asked[k].op \in Locked
  /\ Finishes(k, "other")
  /\ UNCHANGED <<granted, wrongs>>

reportOwnedError(k) ==
  /\ asked[k].at \in {"reconcile", "reconciled"} /\ asked[k].op \in Unlocked
  /\ toast' = IF ownsOperationView(k) THEN "other" ELSE toast
  /\ asked' = Ended(k)
  /\ UNCHANGED <<lock, opBusy, granted, wrongs>>
-----------------------------------------------------------------------------
(* Renames, device management and opening a listed worktree take no lock.  *)
SendsUnlocked(k) ==
  /\ asked[k].at = "asking" /\ asked[k].op \in Unlocked /\ ownsOperationView(k)
  /\ asked' = Set(k, "rpc")
  /\ Wrong("send", Unauthorised(k))
  /\ UNCHANGED <<lock, opBusy, toast, granted>>

(* A rename's answer is followed by a refresh, a device's by a new list.   *)
AnsweredUnlocked(k) ==
  /\ asked[k].at = "rpc" /\ asked[k].op \in {"rename", "device"}
  /\ toast' = IF ownsOperationView(k) THEN "other" ELSE toast
  /\ asked' = Ended(k)
  /\ UNCHANGED <<lock, opBusy, granted, wrongs>>

AnsweredWorktree(k) ==
  /\ asked[k].at = "rpc" /\ asked[k].op = "worktree"
  /\ IF ownsOperationView(k)
     THEN /\ asked' = ViewEnds(Ended(k), k) /\ unstickPromptBusy
          /\ toast' = "other"
     ELSE asked' = Ended(k) /\ UNCHANGED <<lock, opBusy, toast>>
  /\ UNCHANGED <<granted, wrongs>>

(* resetLiveConnection: the session and every view of it end.              *)
SessionEnds(f) == [k \in Tasks |-> [f[k] EXCEPT !.sess = FALSE, !.view = FALSE]]

Retires(f, next) ==
  /\ asked' = SessionEnds(f)
  /\ lock' = [lock EXCEPT !.busy = FALSE] /\ opBusy' = FALSE
  /\ toast' = next /\ granted' = FALSE

(* revokeSelf: the daemon forgot this phone, the phone forgets it too.     *)
revokeSelf(k) ==
  /\ asked[k].at = "rpc" /\ asked[k].op = "revoke"
  /\ IF ownsOperationView(k) THEN Retires(Ended(k), "other")
     ELSE asked' = Ended(k) /\ UNCHANGED <<lock, opBusy, toast, granted>>
  /\ UNCHANGED wrongs
-----------------------------------------------------------------------------
(* A file mutation sets the busy marker without a lock, and looks again    *)
(* after the publication.                                                  *)
startFileMutation(k) ==
  /\ asked[k].at = "asking" /\ asked[k].op = "file" /\ canSend(k) /\ ~ opBusy
  /\ opBusy' = TRUE
  /\ asked' = Set(k, "begun")
  /\ UNCHANGED <<lock, toast, granted, wrongs>>

SendsFileMutation(k) ==
  /\ asked[k].at = "begun" /\ asked[k].op = "file"
  /\ IF canSend(k)
     THEN asked' = Set(k, "rpc") /\ Wrong("send", Unauthorised(k)) /\ UNCHANGED opBusy
     ELSE /\ asked' = Ended(k) /\ opBusy' = (opBusy /\ ~ asked[k].sess)
          /\ UNCHANGED wrongs
  /\ UNCHANGED <<lock, toast, granted>>

\* Mutant: a file mutation whose view is gone leaves the marker on.
MutFileMutationEnds(k) ==
  /\ asked[k].at = "rpc" /\ asked[k].op = "file"
  /\ opBusy' = (opBusy /\ ~ (asked[k].sess /\ asked[k].view))
  /\ asked' = Ended(k)
  /\ UNCHANGED <<lock, toast, granted, wrongs>>

FileMutationEnds(k) ==
  /\ asked[k].at = "rpc" /\ asked[k].op = "file"
  /\ opBusy' = (opBusy /\ ~ asked[k].sess)
  /\ asked' = Ended(k)
  /\ UNCHANGED <<lock, toast, granted, wrongs>>
-----------------------------------------------------------------------------
(* Around them: the reader moves to another pane, mode or screen; another  *)
(* computer takes over; GetConfig is read again; another notice is shown.  *)
Navigates ==
  /\ asked' = ViewEnds(asked, NoOne)
  /\ unstickPromptBusy
  /\ UNCHANGED <<toast, granted, wrongs>>

SwitchesComputer == Retires(asked, toast) /\ UNCHANGED wrongs

Reconfigured(g) == granted' = g /\ UNCHANGED <<asked, lock, opBusy, toast, wrongs>>

OtherNotice == toast' = "other" /\ UNCHANGED <<asked, lock, opBusy, granted, wrongs>>

HerdActionsNext ==
  \/ \E k \in Tasks :
       \/ \E op \in OpKinds : Asks(k, op)
       \/ Dismissed(k) \/ runHerdOperation(k) \/ SendRefused(k) \/ Sends(k)
       \/ LeavesTerminal(k) \/ ClosesLeftPane(k) \/ LateAnswer(k) \/ Answered(k)
       \/ RefreshedAfter(k) \/ selectCreatedPane(k) \/ PaneOpened(k)
       \/ Fails(k) \/ refreshSnapshotOnly(k) \/ ReportsError(k) \/ reportOwnedError(k)
       \/ SendsUnlocked(k) \/ AnsweredUnlocked(k) \/ AnsweredWorktree(k) \/ revokeSelf(k)
       \/ startFileMutation(k) \/ SendsFileMutation(k) \/ FileMutationEnds(k)
  \/ Navigates \/ SwitchesComputer \/ OtherNotice
  \/ \E g \in BOOLEAN : Reconfigured(g)
-----------------------------------------------------------------------------
(* The busy marker of the shell (compose-drafts.ts acquirePromptLock) is   *)
(* on only while some running operation of this session will take it off:  *)
(* the holder of the lock, or a file mutation.  Without one every later    *)
(* mutation would be refused for good.                                     *)
BusyHasAnOwner ==
  opBusy =>
    \/ lock.busy /\ \E k \in Tasks : lock.held = k /\ asked[k].locked
    \/ \E k \in Tasks : asked[k].op = "file" /\ asked[k].at \in {"begun", "rpc"} /\ asked[k].sess

(* A pending notice has no timeout (showStatus(pending, true)): it is on   *)
(* the screen only while its operation runs.                               *)
PendingNoticeHasItsTask == toast \in Tasks => asked[toast].locked

(* No mutation is sent to a computer that is not the one on the screen, or *)
(* without the capability it needs, and no answer opens a pane in a view   *)
(* other than the one the operation was asked in.                          *)
SendsAreOwned == wrongs = {}
=============================================================================
