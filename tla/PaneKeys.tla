------------------------------ MODULE PaneKeys ------------------------------
(* What a guided pane shows of keys that are under way: the PageUp/PageDown *)
(* marks with the reads that confirm a page (keys.ts sendPage,              *)
(* pane-change-confirmation.ts), and the predicted characters (echo.ts).    *)
(* A hash is the number of a screen; a prediction is how many characters.   *)
EXTENDS Integers, FiniteSets

CONSTANTS
  EchoPanes,
  NoEchoPane,
  PageTasks,     \* bound: presses of a page key
  RETRIES,       \* Len(PANE_CHANGE_RETRY_DELAYS_MS)
  MaxHash,       \* bound: screens a pane runs through
  MaxGhost       \* bound: predicted characters

VARIABLES
  viewing,       \* the pane open in the guided view, none at first
  shownHash,     \* livePaneHash()
  pageTask,      \* the running sendPage calls
  pagePending,   \* the marks, per pane and direction
  pageSent,      \* how often each task wrote its sequence
  echo,
  expiry,        \* is the timer of the prediction running?
  rollbackTimer

paneKeyVars == <<viewing, shownHash, pageTask, pagePending, pageSent, echo, expiry, rollbackTimer>>

NoPageTask == [pane |-> NoEchoPane, dir |-> "up", step |-> "none", index |-> 0, base |-> 0]
emptyEcho == [pane |-> NoEchoPane, pending |-> 0, rollback |-> 0, base |-> 0]

PaneKeysInit ==
  /\ viewing = NoEchoPane /\ shownHash = 1
  /\ pageTask = [t \in PageTasks |-> NoPageTask]
  /\ pagePending = [p \in EchoPanes |-> [up |-> 0, down |-> 0]]
  /\ pageSent = [t \in PageTasks |-> 0]
  /\ echo = emptyEcho /\ expiry = FALSE /\ rollbackTimer = FALSE

EchoUnchanged == UNCHANGED <<echo, expiry, rollbackTimer>>
PagesUnchanged == UNCHANGED <<pageTask, pagePending, pageSent>>
-----------------------------------------------------------------------------
beginPagePending(p, dir) == pagePending' = [pagePending EXCEPT ![p][dir] = @ + 1]

(* The finally clause of sendPage.                                          *)
finishPending(t) ==
  /\ pageTask' = [pageTask EXCEPT ![t] = NoPageTask]
  /\ pagePending' = [pagePending EXCEPT ![pageTask[t].pane][pageTask[t].dir] =
                       IF @ > 0 THEN @ - 1 ELSE 0]

PressPage(t, dir) ==
  /\ viewing # NoEchoPane /\ pageTask[t] = NoPageTask /\ pageSent[t] = 0
  /\ pageTask' = [pageTask EXCEPT ![t] = [NoPageTask EXCEPT !.pane = viewing, !.dir = dir,
                                                           !.step = "flush"]]
  /\ beginPagePending(viewing, dir)
  /\ EchoUnchanged /\ UNCHANGED <<viewing, shownHash, pageSent>>

(* flushKeys is done: the page is sent once, unless the pane was left.      *)
PageFlushed(t) ==
  /\ pageTask[t].step = "flush"
  /\ IF pageTask[t].pane # viewing
     THEN finishPending(t) /\ UNCHANGED pageSent
     ELSE /\ pageSent' = [pageSent EXCEPT ![t] = @ + 1]
          /\ pageTask' = [pageTask EXCEPT ![t].step = "sent", ![t].base = shownHash]
          /\ UNCHANGED pagePending
  /\ EchoUnchanged /\ UNCHANGED <<viewing, shownHash>>

(* The mutation is answered; an error is reported and ends the task.        *)
PageAnswered(t) ==
  /\ pageTask[t].step = "sent"
  /\ \/ pageTask' = [pageTask EXCEPT ![t].step = "confirm"] /\ UNCHANGED pagePending
     \/ finishPending(t)
  /\ EchoUnchanged /\ UNCHANGED <<viewing, shownHash, pageSent>>

(* One turn of confirmPaneChange: a read that never comes, or one of        *)
(* another pane, cancels; a changed screen ends it, and so does the last    *)
(* retry.                                                                   *)
confirmPaneChange(t, hash) ==
  /\ pageTask[t].step = "confirm"
  /\ IF pageTask[t].pane = viewing /\ hash = pageTask[t].base /\ pageTask[t].index < RETRIES
     THEN pageTask' = [pageTask EXCEPT ![t].index = @ + 1] /\ UNCHANGED pagePending
     ELSE finishPending(t)
  /\ EchoUnchanged /\ UNCHANGED <<viewing, shownHash, pageSent>>
-----------------------------------------------------------------------------
(* arm for the echo that follows.                                           *)
arm(e) == expiry' = TRUE

Ours == IF echo.pane = viewing THEN echo
        ELSE [emptyEcho EXCEPT !.pane = viewing, !.base = shownHash]

PredictCharacter ==
  /\ viewing # NoEchoPane /\ Ours.pending < MaxGhost
  /\ echo' = [Ours EXCEPT !.pending = @ + 1]
  /\ arm(echo')
  /\ PagesUnchanged /\ UNCHANGED <<viewing, shownHash, rollbackTimer>>

PredictBackspace ==
  /\ echo.pane = viewing /\ echo.pending > 0
  /\ echo' = [echo EXCEPT !.pending = @ - 1]
  /\ arm(echo')
  /\ PagesUnchanged /\ UNCHANGED <<viewing, shownHash, rollbackTimer>>

(* discard: a key nobody can predict, or a queue that was dropped.          *)
ForgetEcho == echo' = emptyEcho /\ expiry' = FALSE /\ rollbackTimer' = FALSE

Discard == ForgetEcho /\ PagesUnchanged /\ UNCHANGED <<viewing, shownHash>>

EchoExpires ==
  /\ expiry /\ expiry' = FALSE
  /\ echo' = [echo EXCEPT !.pending = 0]
  /\ PagesUnchanged /\ UNCHANGED <<viewing, shownHash, rollbackTimer>>

RollbackEnds ==
  /\ rollbackTimer /\ rollbackTimer' = FALSE
  /\ echo' = [echo EXCEPT !.rollback = 0]
  /\ PagesUnchanged /\ UNCHANGED <<viewing, shownHash, expiry>>

(* A read of the open pane is applied; settleEcho looks at it.              *)
settleEcho(hash) ==
  /\ hash \in {shownHash, shownHash + 1} /\ hash <= MaxHash
  /\ shownHash' = hash
  /\ IF echo.pane # viewing \/ echo.pending = 0 \/ hash = echo.base
     THEN EchoUnchanged
     ELSE \E confirmed \in BOOLEAN :
            /\ expiry' = FALSE
            /\ echo' = [echo EXCEPT !.pending = 0, !.base = hash,
                                    !.rollback = IF confirmed THEN 0 ELSE echo.pending]
            /\ rollbackTimer' = (rollbackTimer \/ ~ confirmed)
  /\ PagesUnchanged /\ UNCHANGED viewing

(* openPaneWithOwner drops the key queue, and the prediction with it.       *)
ViewPane(p) ==
  /\ p # viewing /\ viewing' = p
  /\ ForgetEcho /\ PagesUnchanged /\ UNCHANGED shownHash

PaneKeysNext ==
  \/ PredictCharacter \/ PredictBackspace \/ Discard \/ EchoExpires \/ RollbackEnds
  \/ \E t \in PageTasks :
       \/ \E dir \in {"up", "down"} : PressPage(t, dir)
       \/ PageFlushed(t) \/ PageAnswered(t)
       \/ \E hash \in 1 .. MaxHash : confirmPaneChange(t, hash)
  \/ \E hash \in 1 .. MaxHash : settleEcho(hash)
  \/ \E p \in EchoPanes : ViewPane(p)

PaneKeysSpec == PaneKeysInit /\ [][PaneKeysNext]_paneKeyVars
-----------------------------------------------------------------------------
(* A page mark is lit exactly while its key is under way, for its pane and  *)
(* direction, however the presses overlap, fail or outlive a move to        *)
(* another pane; and no press is replayed (beginPagePending, sendPage).     *)
PageMarksAreTrue ==
  /\ \A p \in EchoPanes, dir \in {"up", "down"} :
       pagePending[p][dir] =
         Cardinality({t \in PageTasks : pageTask[t].pane = p /\ pageTask[t].dir = dir})
  /\ \A t \in PageTasks : pageSent[t] <= 1

(* A predicted character never outlives its timer, nor a contradicted one   *)
(* its rollback: each is due to disappear ("expires on its own if no read   *)
(* arrives", echo.ts).                                                      *)
GhostsFade ==
  /\ echo.pending > 0 => expiry
  /\ echo.rollback > 0 => rollbackTimer
=============================================================================
