----------------------------- MODULE LiveReads -----------------------------
(***************************************************************************)
(* Reading the open pane (pwa/src/features/connection: pane-read.ts,       *)
(* polling.ts, controller.ts) and typing into it (session/guided/keys.ts). *)
(* One read is in flight and one waits behind it; a timer loop, the pad    *)
(* keys and navigation all ask for reads.  Frames of a session are         *)
(* answered in the order they were sent.  Clock readings are abstracted to *)
(* order: a read started before a mutation was sent is too old for it.     *)
(***************************************************************************)
EXTENDS Naturals, Sequences, FiniteSets

CONSTANTS Panes, NoPane, MAX_BATCH, MaxPending

VARIABLES
  openPane,   \* the guided pane on the screen
  paneText,   \* the pane whose text is on the screen, NoPane when empty
  paneReadFlight, queuedPaneRead,
  carried,    \* the queued read a finishing one carries through its callbacks
  frames,     \* the session's unanswered frames: "keys", "read"
  stray,      \* a read dropped by reset has not returned yet
  padKeys,    \* the key queue: pending, timer, flushing, sent, read
  pollLoop,   \* the pane loop's active, timer and inFlight
  loopRuns,   \* its runs that are waiting or reading
  due,        \* promises resolved whose continuation has not run
  linkUp

readVars == <<openPane, paneText, paneReadFlight, queuedPaneRead, carried,
              frames, stray, padKeys, pollLoop, loopRuns, due, linkUp>>
lane == <<paneReadFlight, queuedPaneRead, carried, frames, stray>>

NoRead == [pane |-> NoPane, cur |-> FALSE, at |-> "none", waiters |-> {}]
Readers == {"loop", "keys"}
Reads == [pane : Panes, cur : BOOLEAN, waiters : SUBSET Readers,
          at : {"rpc", "snapshot", "void", "queued"}]
NoKeys == [n |-> 0, pane |-> NoPane, timer |-> FALSE, flushing |-> FALSE,
           sent |-> "none", read |-> FALSE]
NoLoop == [active |-> FALSE, timer |-> FALSE, inFlight |-> FALSE]

LiveReadsInit ==
  /\ openPane = NoPane /\ paneText = NoPane
  /\ paneReadFlight = NoRead /\ queuedPaneRead = NoRead /\ carried = NoRead
  /\ frames = <<>> /\ stray = FALSE
  /\ padKeys = NoKeys
  /\ pollLoop = [active |-> TRUE, timer |-> TRUE, inFlight |-> FALSE]
  /\ loopRuns = {} /\ due = {} /\ linkUp = TRUE

NotPublishing == carried = NoRead
-----------------------------------------------------------------------------
(* The lane.  A read that finds its owner gone, or no connection, returns  *)
(* without asking.                                                         *)
startPaneRead(q) ==
  LET sends == q.cur /\ linkUp IN
  /\ paneReadFlight' = [q EXCEPT !.at = IF sends THEN "rpc" ELSE "void"]
  /\ frames' = IF sends THEN Append(frames, "read") ELSE frames

sameOwner(q) == q.cur /\ q.pane = openPane

NewRead(who) == [pane |-> openPane, cur |-> TRUE, at |-> "queued", waiters |-> {who}]

(* queuePaneRead: the same owner's request shares the queued read, another *)
(* replaces it, and the readers it displaces are answered.                 *)
queuePaneRead(who) ==
  IF sameOwner(queuedPaneRead)
  THEN [queuedPaneRead EXCEPT !.waiters = @ \cup {who}] ELSE NewRead(who)

Displaced == IF sameOwner(queuedPaneRead) THEN {} ELSE queuedPaneRead.waiters

\* Mutant: a read already in flight is good enough for a key press.
MutReusable(who) == IF sameOwner(paneReadFlight) THEN {who} ELSE {}

(* A flight is shared by its owner's requests, except that a key press     *)
(* wants a read started after it.                                          *)
Reusable(who) == IF sameOwner(paneReadFlight) THEN {who} \ {"keys"} ELSE {}

(* request, after the frames out were written.                             *)
request(who, out) ==
  IF paneReadFlight = NoRead
  THEN /\ paneReadFlight' = [NewRead(who) EXCEPT !.at = "rpc"]
       /\ frames' = (frames \o out) \o <<"read">>
       /\ UNCHANGED <<queuedPaneRead, due>>
  ELSE /\ paneReadFlight' = [paneReadFlight EXCEPT !.waiters = @ \cup Reusable(who)]
       /\ frames' = frames \o out
       /\ queuedPaneRead' = IF Reusable(who) = {} THEN queuePaneRead(who) ELSE queuedPaneRead
       /\ due' = due \cup (IF Reusable(who) = {} THEN Displaced ELSE {})

(* finishPaneRead of a read that reset dropped.                            *)
strayFinishes ==
  /\ stray /\ NotPublishing /\ stray' = FALSE
  /\ UNCHANGED <<openPane, paneText, paneReadFlight, queuedPaneRead, carried, frames,
                 padKeys, pollLoop, loopRuns, due, linkUp>>

(* finishPaneRead: the slots are emptied and the promise settled; what was *)
(* queued continues once the busy and pending flags are published.         *)
finishPaneRead ==
  /\ due' = due \cup paneReadFlight.waiters
  /\ carried' = queuedPaneRead
  /\ queuedPaneRead' = NoRead /\ paneReadFlight' = NoRead

continueAfterFinish ==
  /\ carried # NoRead
  /\ \/ /\ paneReadFlight # NoRead
        /\ due' = due \cup carried.waiters
        /\ UNCHANGED <<paneReadFlight, frames>>
     \/ /\ paneReadFlight = NoRead
        /\ startPaneRead(carried) /\ due' = due
  /\ carried' = NoRead
  /\ UNCHANGED <<openPane, paneText, queuedPaneRead, stray, padKeys, pollLoop, loopRuns, linkUp>>

(* A subscriber of the busy flag asks for a read during the publication.   *)
Reenters ==
  /\ carried # NoRead /\ paneReadFlight = NoRead
  /\ linkUp /\ openPane # NoPane
  /\ paneReadFlight' = [pane |-> openPane, cur |-> TRUE, at |-> "rpc", waiters |-> {}]
  /\ frames' = Append(frames, "read")
  /\ UNCHANGED <<openPane, paneText, queuedPaneRead, carried, stray, padKeys, pollLoop,
                 loopRuns, due, linkUp>>
-----------------------------------------------------------------------------
(* performPaneRead after its await.                                        *)
Applies == paneReadFlight.cur

ReadAnswered ==
  /\ NotPublishing /\ frames # <<>> /\ Head(frames) = "read"
  /\ frames' = Tail(frames)
  /\ \/ /\ paneText' = IF Applies THEN paneReadFlight.pane ELSE paneText
        /\ finishPaneRead
     \/ /\ Applies
        /\ paneText' = NoPane
        /\ paneReadFlight' = [paneReadFlight EXCEPT !.at = "snapshot"]
        /\ UNCHANGED <<due, carried, queuedPaneRead>>
  /\ UNCHANGED <<openPane, stray, padKeys, pollLoop, loopRuns, linkUp>>

(* pane_not_found: the agents are refreshed and a pane that is really gone *)
(* is left.  A read that is not sent or fails ends here as well.           *)
Retired(q) == IF q = NoRead THEN q ELSE [q EXCEPT !.cur = FALSE]

PerformReturns ==
  /\ NotPublishing /\ paneReadFlight.at \in {"snapshot", "void"}
  /\ due' = due \cup paneReadFlight.waiters
  /\ paneReadFlight' = NoRead /\ queuedPaneRead' = NoRead
  /\ \/ /\ carried' = queuedPaneRead
        /\ UNCHANGED <<openPane, paneText>>
     \/ /\ paneReadFlight.at = "snapshot" /\ paneReadFlight.cur
        /\ carried' = Retired(queuedPaneRead)
        /\ openPane' = NoPane /\ paneText' = NoPane
  /\ UNCHANGED <<frames, stray, padKeys, pollLoop, loopRuns, linkUp>>
-----------------------------------------------------------------------------
(* The pane loop.                                                          *)
Reading == {r \in loopRuns : r.at = "reading"}

(* A run that may read does; the loop arms itself again when it ends.      *)
RunReads ==
  IF linkUp /\ openPane # NoPane
  THEN /\ request("loop", <<>>)
       /\ loopRuns' = Reading \cup {[cur |-> TRUE, at |-> "reading"]}
       /\ pollLoop' = [pollLoop EXCEPT !.timer = FALSE, !.inFlight = TRUE]
  ELSE /\ loopRuns' = Reading
       /\ pollLoop' = [pollLoop EXCEPT !.timer = TRUE, !.inFlight = FALSE]
       /\ UNCHANGED <<paneReadFlight, queuedPaneRead, frames, due>>

(* The timer: a run already in flight makes this one return, a read still  *)
(* out makes it wait.                                                      *)
PollTimer ==
  /\ NotPublishing /\ pollLoop.timer
  /\ \/ /\ pollLoop.inFlight \/ Reading # {}
        /\ pollLoop' = [pollLoop EXCEPT !.timer = FALSE, !.inFlight = TRUE]
        /\ loopRuns' = loopRuns \cup {[cur |-> TRUE, at |-> "waiting"] : x \in {~ pollLoop.inFlight} \cap {TRUE}}
        /\ UNCHANGED <<paneReadFlight, queuedPaneRead, frames, due>>
     \/ /\ ~ pollLoop.inFlight /\ Reading = {}
        /\ RunReads
  /\ UNCHANGED <<openPane, paneText, carried, stray, padKeys, linkUp>>

(* wake and defer: while a run is in flight they only choose its next      *)
(* delay.                                                                  *)
RunReturns ==
  /\ NotPublishing /\ "loop" \in due
  /\ due' = due \ {"loop"}
  /\ loopRuns' = loopRuns \ Reading
  /\ pollLoop' = IF \E r \in Reading : r.cur
                 THEN [pollLoop EXCEPT !.inFlight = FALSE, !.timer = TRUE] ELSE pollLoop
  /\ UNCHANGED <<openPane, paneText, lane, padKeys, linkUp>>

WaitOver ==
  /\ NotPublishing /\ Reading = {} /\ loopRuns # {}
  /\ RunReads
  /\ UNCHANGED <<openPane, paneText, carried, stray, padKeys, linkUp>>

(* stop, and start on top of it: older runs see another generation, one    *)
(* that was only waiting is over.                                          *)
LoopStop(active) ==
  /\ pollLoop' = [active |-> active, timer |-> active, inFlight |-> FALSE]
  /\ loopRuns' = {[r EXCEPT !.cur = FALSE] : r \in Reading}

startPolling ==
  /\ NotPublishing /\ LoopStop(linkUp)
  /\ UNCHANGED <<openPane, paneText, lane, padKeys, due, linkUp>>

stopPolling ==
  /\ NotPublishing /\ LoopStop(FALSE)
  /\ UNCHANGED <<openPane, paneText, lane, padKeys, due, linkUp>>
-----------------------------------------------------------------------------
(* Pad keys.                                                               *)
Dropped == [padKeys EXCEPT !.n = 0, !.pane = NoPane, !.timer = FALSE]

flushKeys(k) ==
  IF k.flushing \/ k.n = 0
  THEN /\ padKeys' = [k EXCEPT !.timer = FALSE]
       /\ UNCHANGED <<paneReadFlight, queuedPaneRead, frames, due>>
  ELSE IF k.pane # openPane \/ ~ linkUp
  THEN /\ padKeys' = [k EXCEPT !.n = 0, !.pane = NoPane, !.timer = FALSE]
       /\ UNCHANGED <<paneReadFlight, queuedPaneRead, frames, due>>
  ELSE /\ padKeys' = [k EXCEPT !.n = IF k.n > MAX_BATCH THEN k.n - MAX_BATCH ELSE 0,
                               !.timer = FALSE, !.flushing = TRUE,
                               !.sent = "sent", !.read = FALSE]
       /\ request("keys", <<"keys">>)

queueKey ==
  /\ NotPublishing /\ openPane # NoPane /\ padKeys.n < MaxPending
  /\ LET had == IF padKeys.pane = openPane THEN padKeys.n ELSE 0
         k == [padKeys EXCEPT !.n = had + 1, !.pane = openPane] IN
     IF k.n >= MAX_BATCH \/ (had = 0 /\ ~ k.flushing) THEN flushKeys(k)
     ELSE /\ padKeys' = [k EXCEPT !.timer = TRUE]
          /\ UNCHANGED <<paneReadFlight, queuedPaneRead, frames, due>>
  /\ UNCHANGED <<openPane, paneText, carried, stray, pollLoop, loopRuns, linkUp>>

(* A swipe's repeats always wait for the batch timer.                      *)
queueRepeats ==
  /\ NotPublishing /\ openPane # NoPane /\ padKeys.n < MaxPending
  /\ LET had == IF padKeys.pane = openPane THEN padKeys.n ELSE 0
         k == [padKeys EXCEPT !.n = had + 1, !.pane = openPane] IN
     IF k.n >= MAX_BATCH THEN flushKeys(k)
     ELSE /\ padKeys' = [k EXCEPT !.timer = TRUE]
          /\ UNCHANGED <<paneReadFlight, queuedPaneRead, frames, due>>
  /\ UNCHANGED <<openPane, paneText, carried, stray, pollLoop, loopRuns, linkUp>>

BatchTimer ==
  /\ NotPublishing /\ padKeys.timer
  /\ flushKeys(padKeys)
  /\ UNCHANGED <<openPane, paneText, carried, stray, pollLoop, loopRuns, linkUp>>

KeysAcked ==
  /\ NotPublishing /\ frames # <<>> /\ Head(frames) = "keys"
  /\ frames' = Tail(frames)
  /\ padKeys' = [padKeys EXCEPT !.sent = "acked"]
  /\ UNCHANGED <<openPane, paneText, paneReadFlight, queuedPaneRead, carried, stray,
                 pollLoop, loopRuns, due, linkUp>>

KeysReadBack ==
  /\ NotPublishing /\ "keys" \in due /\ padKeys.sent # "failed"
  /\ due' = due \ {"keys"}
  /\ padKeys' = IF padKeys.flushing THEN [padKeys EXCEPT !.read = TRUE] ELSE padKeys
  /\ UNCHANGED <<openPane, paneText, lane, pollLoop, loopRuns, linkUp>>

(* The finally of flushKeys: what was typed meanwhile follows.             *)
FlushEnds ==
  /\ NotPublishing /\ padKeys.sent = "acked" /\ padKeys.read
  /\ flushKeys([padKeys EXCEPT !.flushing = FALSE, !.sent = "none", !.read = FALSE])
  /\ UNCHANGED <<openPane, paneText, carried, stray, pollLoop, loopRuns, linkUp>>

(* The mutation failed: queued keys are dropped and its read is nobody's.  *)
FlushFails ==
  /\ NotPublishing /\ padKeys.sent = "failed"
  /\ padKeys' = NoKeys
  /\ due' = due \ {"keys"}
  /\ paneReadFlight' = [paneReadFlight EXCEPT !.waiters = @ \ {"keys"}]
  /\ queuedPaneRead' = [queuedPaneRead EXCEPT !.waiters = @ \ {"keys"}]
  /\ UNCHANGED <<openPane, paneText, carried, frames, stray, pollLoop, loopRuns, linkUp>>
-----------------------------------------------------------------------------
(* Navigation: opening a pane retires the reads of the view before it,     *)
(* drops queued keys, and asks for its own read.                           *)
refreshPaneFor(p) ==
  LET f == Retired(paneReadFlight) IN
  IF ~ linkUp THEN paneReadFlight' = f /\ queuedPaneRead' = Retired(queuedPaneRead) /\ UNCHANGED <<frames, due>>
  ELSE IF paneReadFlight = NoRead
  THEN /\ paneReadFlight' = [pane |-> p, cur |-> TRUE, at |-> "rpc", waiters |-> {}]
       /\ frames' = Append(frames, "read")
       /\ UNCHANGED <<queuedPaneRead, due>>
  ELSE /\ paneReadFlight' = f
       /\ queuedPaneRead' = [pane |-> p, cur |-> TRUE, at |-> "queued", waiters |-> {}]
       /\ due' = due \cup queuedPaneRead.waiters
       /\ UNCHANGED frames

openPaneWithOwner(p) ==
  /\ NotPublishing
  /\ openPane' = p /\ paneText' = NoPane
  /\ padKeys' = Dropped
  /\ refreshPaneFor(p)
  /\ UNCHANGED <<carried, stray, pollLoop, loopRuns, linkUp>>

leavePane ==
  /\ NotPublishing /\ openPane # NoPane
  /\ openPane' = NoPane /\ paneText' = NoPane
  /\ paneReadFlight' = Retired(paneReadFlight)
  /\ queuedPaneRead' = Retired(queuedPaneRead)
  /\ UNCHANGED <<carried, frames, stray, padKeys, pollLoop, loopRuns, due, linkUp>>

(* invalidateReads: another computer takes the screen; the old session's   *)
(* answers no longer count.                                                *)
Reset ==
  /\ NotPublishing
  /\ openPane' = NoPane /\ paneText' = NoPane
  /\ stray' = (stray \/ paneReadFlight # NoRead)
  /\ due' = due \cup paneReadFlight.waiters \cup queuedPaneRead.waiters
  /\ paneReadFlight' = NoRead /\ queuedPaneRead' = NoRead
  /\ frames' = <<>>
  /\ padKeys' = [Dropped EXCEPT !.sent = IF @ = "sent" THEN "failed" ELSE @]
  /\ LoopStop(FALSE)
  /\ UNCHANGED <<carried, linkUp>>

(* The socket goes: every unanswered frame is rejected.                    *)
LinkDrops ==
  /\ NotPublishing /\ linkUp /\ linkUp' = FALSE
  /\ frames' = <<>>
  /\ paneReadFlight' = IF paneReadFlight.at = "rpc"
                       THEN [paneReadFlight EXCEPT !.at = "void"] ELSE paneReadFlight
  /\ padKeys' = [padKeys EXCEPT !.sent = IF @ = "sent" THEN "failed" ELSE @]
  /\ LoopStop(FALSE)
  /\ UNCHANGED <<openPane, paneText, queuedPaneRead, carried, stray, due>>

LinkReturns ==
  /\ NotPublishing /\ ~ linkUp /\ linkUp' = TRUE
  /\ LoopStop(TRUE)
  /\ UNCHANGED <<openPane, paneText, lane, padKeys, due>>

LiveReadsNext ==
  \/ strayFinishes \/ continueAfterFinish \/ Reenters
  \/ ReadAnswered \/ PerformReturns
  \/ PollTimer \/ RunReturns \/ WaitOver \/ startPolling \/ stopPolling
  \/ queueKey \/ queueRepeats \/ BatchTimer \/ KeysAcked \/ KeysReadBack \/ FlushEnds \/ FlushFails
  \/ \E p \in Panes : openPaneWithOwner(p)
  \/ leavePane \/ Reset \/ LinkDrops \/ LinkReturns
-----------------------------------------------------------------------------
(* A read that a key press waits for was sent behind those keys: every     *)
(* unanswered batch of keys is ahead of the flight's own read frame.       *)
ReadsSeeTheirKeys ==
  "keys" \in paneReadFlight.waiters /\ paneReadFlight.at = "rpc" =>
    \E i \in DOMAIN frames : /\ frames[i] = "read"
                             /\ \A j \in DOMAIN frames : frames[j] = "keys" => j < i

(* Whoever waits for a read is waiting for one that exists: the key queue  *)
(* and the loop are among the waiters of the flight, of the queued or the  *)
(* carried read, or are due to continue (pane-read.ts resolves every       *)
(* promise it replaces, resets or carries).                                *)
Served == paneReadFlight.waiters \cup queuedPaneRead.waiters \cup carried.waiters \cup due

NoReaderIsStranded ==
  /\ padKeys.flushing /\ ~ padKeys.read => "keys" \in Served \/ padKeys.sent = "failed"
  /\ Reading # {} => "loop" \in Served

(* The fallback loop owns one read at a time across restarts, and while it *)
(* is active it always has a timer or a run that will arm one              *)
(* (createOwnedLoop).                                                      *)
LoopOwnsOneRead ==
  /\ Cardinality({q \in {paneReadFlight, queuedPaneRead, carried} :
                    "loop" \in q.waiters}) <= 1
  /\ pollLoop.active => pollLoop.timer \/ \E r \in loopRuns : r.cur

(* The text on the screen is the open pane's, whatever reads of earlier    *)
(* panes are still returning (performPaneRead).                            *)
TextIsTheOpenPanes == paneText \in {openPane, NoPane}

LiveReadsTypeOK ==
  /\ openPane \in Panes \cup {NoPane} /\ paneText \in Panes \cup {NoPane}
  /\ {paneReadFlight, queuedPaneRead, carried} \subseteq Reads \cup {NoRead}
  /\ due \subseteq Readers /\ padKeys.n \in 0..MaxPending
=============================================================================
