---------------------------- MODULE FullTerminal ----------------------------
(* The complete terminal of the phone (features/session/full-terminal): a   *)
(* renderer that is loaded and mounted, and a bridge, one terminal that the *)
(* daemon serves for the open pane.  Opening a bridge, closing it, loading  *)
(* the renderer and leaving the view all wait on promises; in between the   *)
(* page is hidden and shown, the session drops and returns, the pane goes   *)
(* away and the reader leaves.                                              *)
(*                                                                          *)
(* bridgeVersion and rendererVersion are only ever compared with the value  *)
(* a continuation captured: "no bump since" is kept as a flag of the        *)
(* continuation (cur, rcur).  Terminal ids are reused once nobody holds     *)
(* them.                                                                    *)
EXTENDS Naturals, FiniteSets

CONSTANTS Terms,      \* ids the daemon gives its terminals
          NoTerm,
          MaxSuspends \* bound: suspensions at a time

VARIABLES full,       \* isFullTerminal()
          hidden,     \* the page is hidden
          online,     \* session.isConnected()
          stage,      \* FullTerminalStatus.stage
          retry,      \* FullTerminalStatus.retryAvailable
          load,       \* the renderer's mount: its step for the current version
          term,       \* terminal # null
          mounting,
          bridge,     \* bridgeId
          opening,
          opened,     \* the task openTracker holds
          suspends,   \* suspendBridge calls that have not returned
          leaving,
          resuming,   \* a resumeFullTerminal that waits for the tracker
          served,     \* daemon: terminals it serves on this session
          swallowed   \* openTracker.run handed back an older task

rendererVars == <<load, term, mounting>>
bridgeVars == <<bridge, opening, opened, suspends>>
statusVars == <<stage, retry>>
fullVars == <<full, hidden, online, statusVars, rendererVars, bridgeVars,
              leaving, resuming, served, swallowed>>

NoTask == [pc |-> "none", id |-> NoTerm, cur |-> FALSE, takeover |-> FALSE,
           gone |-> FALSE]

FullInit ==
  /\ full = FALSE /\ hidden = FALSE /\ online = TRUE
  /\ stage = "loading" /\ retry = FALSE
  /\ load = "none" /\ term = FALSE /\ mounting = FALSE
  /\ bridge = NoTerm /\ opening = FALSE /\ opened = NoTask /\ suspends = {}
  /\ leaving = FALSE /\ resuming = FALSE
  /\ served = {} /\ swallowed = FALSE

-----------------------------------------------------------------------------
(* Status, versions and the pieces handlers share.                          *)
fail == stage' = "error" /\ retry' = TRUE
wait == stage' = "waiting" /\ retry' = FALSE
start(to) == stage' = to /\ retry' = FALSE

Stale(task) == [task EXCEPT !.cur = FALSE]

(* A suspension with nothing left to do is dropped where it stands.         *)
Pending(ss) ==
  {s \in ss : s.id # NoTerm \/ s.leave = "yes" \/ (s.show /\ s.cur /\ s.rcur)}
StaleSuspends == Pending({Stale(s) : s \in suspends})
Unrendered(ss) == Pending({[s EXCEPT !.rcur = FALSE] : s \in ss})

(* Everyone who waited for the tracker's task goes on when it ends.         *)
Woken(ss) ==
  {[s EXCEPT !.pc = IF s.pc # "wait" THEN s.pc
                    ELSE IF s.id = NoTerm THEN "done" ELSE "close"] : s \in ss}

disposeRenderer(ss) ==
  load' = "none" /\ term' = FALSE /\ suspends' = Unrendered(ss)
  /\ UNCHANGED mounting

scheduleMount == load' = "paint"

(* suspendBridge up to its first await.                                     *)
Suspension(show, leave) ==
  [id |-> bridge, cur |-> TRUE, rcur |-> TRUE, show |-> show, leave |-> leave,
   pc |-> IF opened # NoTask THEN "wait"
          ELSE IF bridge # NoTerm THEN "close" ELSE "done"]

Forget(ss) ==
  /\ bridge' = NoTerm /\ opening' = FALSE
  /\ opened' = IF opened = NoTask THEN NoTask ELSE Stale(opened)
  /\ suspends' = ss

suspendBridge(show, leave) ==
  /\ Cardinality(suspends) < MaxSuspends
  /\ Forget(StaleSuspends \cup {Suspension(show, leave)})

(* openBridge up to its request.                                            *)
askOpen ==
  \/ /\ ~ online
     /\ wait
     /\ UNCHANGED <<bridgeVars, swallowed>>
  \/ /\ online
     /\ opened' = [NoTask EXCEPT !.pc = "asked", !.cur = TRUE]
     /\ opening' = TRUE /\ start("opening")
     /\ suspends' = StaleSuspends
     /\ swallowed' = FALSE
     /\ UNCHANGED bridge

(* resumeFullTerminal: its guards, asked again once the tracker is idle.    *)
MayResume(hid) == ~ opening /\ bridge = NoTerm /\ ~ leaving /\ ~ hid

resumeFullTerminal == resuming' = (resuming \/ MayResume(hidden'))

ResumeGoesOn ==
  LET may == MayResume(hidden) /\ full IN
  /\ resuming /\ opened = NoTask
  /\ resuming' = FALSE
  /\ \/ /\ ~ may \/ (~ term /\ mounting)
        /\ UNCHANGED <<statusVars, rendererVars, bridgeVars, swallowed>>
     \/ /\ may /\ ~ term /\ ~ mounting
        /\ scheduleMount
        /\ suspends' = StaleSuspends
        /\ UNCHANGED <<statusVars, term, mounting, bridge, opening, opened, swallowed>>
     \/ /\ may /\ term
        /\ askOpen
        /\ UNCHANGED rendererVars
  /\ UNCHANGED <<full, hidden, online, leaving, served>>

-----------------------------------------------------------------------------
(* The renderer: the shell paints, xterm is loaded, the terminal is built   *)
(* and, once fonts and a frame are there, the bridge is asked for.          *)
mount ==
  /\ load = "paint"
  /\ load' = "loading" /\ mounting' = TRUE
  /\ stage' = "loading" /\ retry' = FALSE
  /\ suspends' = Unrendered(suspends)
  /\ UNCHANGED <<full, hidden, online, term, bridge, opening, opened, leaving,
                 resuming, served, swallowed>>

LoadEnds ==
  /\ load = "loading"
  /\ mounting' = FALSE
  /\ \/ load' = "starting" /\ term' = TRUE /\ UNCHANGED <<statusVars, suspends>>
     \/ load' = "none" /\ fail /\ UNCHANGED <<term, suspends>>
     \/ load' = "none" /\ term' = FALSE /\ fail /\ suspends' = Unrendered(suspends)
  /\ UNCHANGED <<full, hidden, online, bridge, opening, opened, leaving,
                 resuming, served, swallowed>>

(* The tracker hands back a task it still holds instead of opening.         *)
StartEnds ==
  LET ready == ~ opening /\ bridge = NoTerm /\ ~ hidden IN
  /\ load = "starting"
  /\ load' = "none"
  /\ \/ /\ opened # NoTask \/ ~ ready
        /\ swallowed' = (opened # NoTask /\ ready)
        /\ UNCHANGED <<statusVars, bridgeVars>>
     \/ opened = NoTask /\ ready /\ askOpen
  /\ UNCHANGED <<full, hidden, online, term, mounting, leaving, resuming,
                 served>>

handleRendererContextLoss ==
  /\ term /\ full /\ Cardinality(suspends) < MaxSuspends
  /\ Forget(Unrendered(StaleSuspends \cup {Suspension(TRUE, "no")}))
  /\ load' = "none" /\ term' = FALSE /\ fail
  /\ UNCHANGED <<full, hidden, online, mounting, leaving, resuming,
                 served, swallowed>>

-----------------------------------------------------------------------------
(* The daemon answers terminalOpen; openBridge goes on with the answer.     *)
Free == Terms \ (served \cup {bridge, opened.id}
                   \cup {s.id : s \in suspends})

DaemonOpens ==
  /\ opened.pc = "asked" /\ ~ opened.gone
  /\ \E t \in Free :
       /\ opened' = [opened EXCEPT !.pc = "opened", !.id = t]
       /\ served' = served \cup {t}
  /\ UNCHANGED <<full, hidden, online, statusVars, rendererVars, bridge,
                 opening, suspends, leaving, resuming, swallowed>>

DaemonRefuses ==
  /\ opened.pc = "asked"
  /\ \E r \in {"conflict", "failed"} : opened' = [opened EXCEPT !.pc = r]
  /\ UNCHANGED <<full, hidden, online, statusVars, rendererVars, bridge,
                 opening, suspends, leaving, resuming, served, swallowed>>

TaskEnds == opened' = NoTask /\ suspends' = Woken(suspends)

\* A controller that was superseded drops the answer it waited for.
MutOpenBridge ==
  /\ opened.pc = "opened"
  /\ TaskEnds
  /\ IF ~ opened.cur
     THEN UNCHANGED <<bridge, opening, statusVars>>
     ELSE bridge' = opened.id /\ opening' = FALSE /\ start("live")
  /\ UNCHANGED <<full, hidden, online, rendererVars, leaving, resuming,
                 served, swallowed>>

openBridge ==
  /\ opened.pc = "opened"
  /\ IF ~ opened.cur
     THEN /\ opened' = [opened EXCEPT !.pc = "cleanup"]
          /\ UNCHANGED <<bridge, opening, statusVars, suspends>>
     ELSE /\ bridge' = opened.id /\ opening' = FALSE /\ start("live")
          /\ TaskEnds
  /\ UNCHANGED <<full, hidden, online, rendererVars, leaving, resuming,
                 served, swallowed>>

OpenCleanedUp ==
  /\ opened.pc = "cleanup"
  /\ served' = served \ {opened.id}
  /\ TaskEnds
  /\ UNCHANGED <<full, hidden, online, statusVars, rendererVars, bridge,
                 opening, leaving, resuming, swallowed>>

(* A conflict may be taken over when the reader confirms it.                *)
OpenFails ==
  /\ opened.pc \in {"conflict", "failed"}
  /\ \/ /\ ~ opened.cur
        /\ TaskEnds
        /\ UNCHANGED <<opening, statusVars>>
     \/ /\ opened.cur /\ opened.pc = "conflict" /\ ~ opened.takeover
        /\ opened' = [opened EXCEPT !.pc = "asked", !.takeover = TRUE]
        /\ suspends' = StaleSuspends
        /\ start("opening")
        /\ UNCHANGED opening
     \/ /\ opened.cur
        /\ opening' = FALSE /\ fail
        /\ TaskEnds
  /\ UNCHANGED <<full, hidden, online, rendererVars, bridge, leaving,
                 resuming, served, swallowed>>

-----------------------------------------------------------------------------
(* suspendBridge goes on once the tracker is idle: it closes the bridge it  *)
(* took down and, if nothing happened since, reports why.                   *)
SuspendEnds(s) ==
  /\ s \in suspends /\ s.pc \in {"close", "done"}
  /\ served' = served \ {s.id}
  /\ IF s.leave = "yes"
     THEN /\ full' = FALSE /\ leaving' = FALSE
          /\ disposeRenderer(suspends \ {s})
          /\ UNCHANGED statusVars
     ELSE /\ IF s.show /\ s.cur /\ s.rcur /\ full THEN fail ELSE UNCHANGED statusVars
          /\ suspends' = suspends \ {s}
          /\ UNCHANGED <<full, leaving, rendererVars>>
  /\ UNCHANGED <<hidden, online, bridge, opening, opened, resuming, swallowed>>

leaveFullTerminal ==
  /\ full /\ ~ leaving
  /\ leaving' = TRUE
  /\ suspendBridge(FALSE, "yes")
  /\ UNCHANGED <<full, hidden, online, statusVars, rendererVars, resuming,
                 served, swallowed>>

(* The pane is gone from the computer: its terminals end with it, and the   *)
(* view is disposed of without waiting for anything.                        *)
disposeFullTerminal ==
  /\ full
  /\ full' = FALSE /\ leaving' = FALSE /\ retry' = FALSE
  /\ load' = "none" /\ term' = FALSE
  /\ bridge' = NoTerm /\ opening' = FALSE
  /\ opened' = IF opened = NoTask THEN NoTask
               ELSE [Stale(opened) EXCEPT !.gone = TRUE]
  /\ suspends' = Unrendered({[s EXCEPT !.leave = "no"] : s \in StaleSuspends})
  /\ served' = {} /\ swallowed' = FALSE
  /\ UNCHANGED <<hidden, online, stage, mounting, resuming>>

(* enterFullTerminal, the frame it commits and the host that the frame      *)
(* attaches.                                                                *)
prepareFullTerminal ==
  stage' = "loading" /\ retry' = FALSE
  /\ term' = FALSE /\ suspends' = Unrendered(suspends)

attachFullTerminalHost == scheduleMount

enterFullTerminal ==
  /\ ~ full
  /\ full' = TRUE
  /\ prepareFullTerminal /\ attachFullTerminalHost
  /\ UNCHANGED <<hidden, online, mounting, bridge, opening, opened, leaving,
                 resuming, served, swallowed>>

-----------------------------------------------------------------------------
(* Events of the session and of the page.                                   *)

(* A gap or a flood of frames, a frame that cannot be assembled, a command  *)
(* that failed.                                                             *)
BridgeBreaks ==
  /\ full /\ bridge # NoTerm
  /\ suspendBridge(TRUE, "no")
  /\ UNCHANGED <<full, hidden, online, statusVars, rendererVars, leaving,
                 resuming, served, swallowed>>

DaemonCloses ==
  /\ bridge \in served
  /\ served' = served \ {bridge}
  /\ UNCHANGED <<full, hidden, online, statusVars, rendererVars, bridgeVars,
                 leaving, resuming, swallowed>>

(* Its terminal_closed arrives; one of another terminal changes nothing.    *)
terminalClosed ==
  /\ full /\ bridge # NoTerm /\ bridge \notin served
  /\ Forget(StaleSuspends) /\ fail
  /\ UNCHANGED <<full, hidden, online, rendererVars, leaving, resuming,
                 served, swallowed>>

(* The session drops: its calls are rejected and the daemon ends what it    *)
(* served on it.                                                            *)
disconnected ==
  /\ online
  /\ online' = FALSE
  /\ served' = {}
  /\ bridge' = NoTerm
  /\ opening' = IF full THEN FALSE ELSE opening
  /\ opened' = IF opened = NoTask THEN NoTask
               ELSE [opened EXCEPT !.pc = "failed", !.cur = @ /\ ~ full]
  /\ IF full THEN wait /\ suspends' = StaleSuspends
             ELSE UNCHANGED <<statusVars, suspends>>
  /\ UNCHANGED <<full, hidden, rendererVars, leaving, resuming, swallowed>>

connected ==
  /\ ~ online
  /\ online' = TRUE
  /\ UNCHANGED hidden
  /\ IF full THEN stage' = "opening" /\ resumeFullTerminal /\ UNCHANGED retry
             ELSE UNCHANGED <<statusVars, resuming>>
  /\ UNCHANGED <<full, rendererVars, bridgeVars, leaving, served, swallowed>>

handleFullTerminalVisibility ==
  /\ hidden' = ~ hidden
  /\ \/ ~ full /\ UNCHANGED <<bridgeVars, resuming>>
     \/ full /\ hidden' /\ suspendBridge(TRUE, "no") /\ UNCHANGED resuming
     \/ full /\ ~ hidden' /\ resumeFullTerminal /\ UNCHANGED bridgeVars
  /\ UNCHANGED <<full, online, statusVars, rendererVars, leaving, served,
                 swallowed>>

retryFullTerminal ==
  /\ full /\ retry /\ ~ opening /\ bridge = NoTerm
  /\ UNCHANGED hidden /\ resumeFullTerminal
  /\ UNCHANGED <<full, online, statusVars, rendererVars, bridgeVars, leaving,
                 served, swallowed>>

FullNext ==
  \/ ResumeGoesOn \/ mount \/ LoadEnds \/ StartEnds
  \/ handleRendererContextLoss
  \/ DaemonOpens \/ DaemonRefuses
  \/ openBridge \/ OpenCleanedUp \/ OpenFails
  \/ \E s \in suspends : SuspendEnds(s)
  \/ leaveFullTerminal \/ disposeFullTerminal \/ enterFullTerminal
  \/ BridgeBreaks
  \/ DaemonCloses \/ terminalClosed
  \/ disconnected \/ connected
  \/ handleFullTerminalVisibility \/ retryFullTerminal

-----------------------------------------------------------------------------
(* A terminal that the daemon serves is the bridge, or an open, a close or  *)
(* a cleanup that is still under way knows of it: whatever the reader, the  *)
(* page and the session do meanwhile, none is left running unattended.      *)
NoTerminalIsForgotten ==
  \A t \in served : \/ t = bridge \/ t = opened.id
                    \/ \E s \in suspends : s.id = t

(* The view is never at a dead end: when it is shown, the session is up and *)
(* nothing is under way, either the bridge is there or the reader is        *)
(* offered to retry.  The exception is a bridge asked for while the tracker *)
(* still held a task of the view before it (full-terminal-open-tracker.ts). *)
ThereIsAWayOn ==
  /\ full /\ ~ hidden /\ online /\ ~ leaving
  /\ opened = NoTask /\ load = "none" /\ suspends = {} /\ ~ resuming
  /\ ~ swallowed
  => bridge # NoTerm \/ retry
=============================================================================
