--------------------------- MODULE TerminalFrames --------------------------
(* The picture of the complete terminal: the grid xterm is fitted to, the   *)
(* resize commands, the frames of the daemon's terminal with the assembler  *)
(* and the gate that keep deltas behind a full frame (full-terminal.ts,     *)
(* full-terminal-fit-controller.ts, full-terminal-frame-gate.ts,            *)
(* lib/protocol/terminal.ts).  A grid is one number, its columns and rows   *)
(* together: fitting and displayGrid treat the two alike.  0: none.         *)
EXTENDS Naturals, Sequences, FiniteSetsExt

CONSTANTS Sizes,        \* grids that the host can have
          MaxFrames,    \* bound: sequence numbers of one terminal
          MaxWire,      \* bound: frame parts under way
          MAX_RENDER_QUEUE  \* frames xterm may still have to paint

VARIABLES fittedSize,   \* what the visible host has room for
          remoteGrid,   \* what the daemon is believed to paint
          xterm,        \* xterm's own grid
          layout,       \* panePtySize: the pane's size in the last snapshot
          bridgeIs,     \* off, opening, live
          openSize,     \* the size terminalOpen was called with
          queuedSize,   \* enqueueResize: not sent yet
          sentSize,     \* sent, not confirmed
          applied,      \* daemon: it has been carried out
          pinchResizeTimer,
          pty,          \* daemon: the terminal's size
          repaint,      \* daemon: resized, no full frame since
          sequence,     \* daemon: its last frame
          wire,         \* frame parts on their way
          partial,      \* TerminalFrameAssembler: the frame so far
          lastSequence, needsFullFrame,  \* FullTerminalFrameGate
          painted,      \* the last frame xterm was given, 0: torn or none
          pendingWrites,
          missed        \* the host shrank unnoticed while the terminal opened

hostVars == <<fittedSize, remoteGrid, xterm>>
resizeVars == <<queuedSize, sentSize, applied, pinchResizeTimer>>
daemonVars == <<pty, repaint, sequence>>
gateVars == <<partial, lastSequence, needsFullFrame, painted, pendingWrites>>
frameVars == <<hostVars, layout, bridgeIs, openSize, resizeVars, daemonVars,
               wire, gateVars, missed>>

NoFrame == [seq |-> 0, size |-> 0, full |-> FALSE, count |-> 1]

FramesInit ==
  /\ fittedSize \in Sizes /\ xterm = fittedSize /\ remoteGrid = 0
  /\ layout = 0 /\ bridgeIs = "off" /\ openSize = 0
  /\ queuedSize = 0 /\ sentSize = 0 /\ applied = FALSE /\ pinchResizeTimer = FALSE
  /\ pty = 0 /\ repaint = FALSE /\ sequence = 0 /\ wire = <<>>
  /\ partial = NoFrame /\ lastSequence = 0 /\ needsFullFrame = TRUE
  /\ painted = 0 /\ pendingWrites = 0 /\ missed = FALSE

-----------------------------------------------------------------------------
displayGrid(fitted, remote) == IF remote = 0 THEN fitted ELSE Min({fitted, remote})

(* fitFullTerminal: without a frame the layout of the last snapshot stands  *)
(* in for the remote grid.                                                  *)
fit(size, remote) ==
  /\ fittedSize' = size
  /\ remoteGrid' = IF remote = 0 THEN layout ELSE remote
  /\ xterm' = displayGrid(size, remoteGrid')

(* enqueueResize: an unsent resize is replaced, and an idle pump sends.     *)
enqueueResize(size) ==
  /\ IF sentSize = 0
     THEN sentSize' = size /\ UNCHANGED queuedSize
     ELSE queuedSize' = size /\ UNCHANGED sentSize
  /\ missed' = FALSE
  /\ UNCHANGED applied

stopCommandPump == queuedSize' = 0 /\ sentSize' = 0 /\ applied' = FALSE

(* The host changes: observeHostResize, setTermFit.                         *)
Resized(size) ==
  /\ size # fittedSize
  /\ fit(size, remoteGrid)
  /\ IF bridgeIs = "live" /\ size # xterm
     THEN enqueueResize(size)
     ELSE UNCHANGED <<queuedSize, sentSize, applied, missed>>
  /\ UNCHANGED <<layout, bridgeIs, openSize, pinchResizeTimer, daemonVars, wire,
                 gateVars>>

(* bindFontPinch: the grid follows at once, the command when the fingers    *)
(* rest.  It carries xterm's grid, not the fitted one.                      *)
Pinched(size) ==
  /\ size # fittedSize
  /\ fit(size, remoteGrid)
  /\ pinchResizeTimer' = TRUE
  /\ UNCHANGED <<layout, bridgeIs, openSize, queuedSize, sentSize, applied,
                 daemonVars, wire, gateVars, missed>>

PinchRests ==
  /\ pinchResizeTimer
  /\ pinchResizeTimer' = FALSE
  /\ IF bridgeIs = "live" THEN enqueueResize(xterm)
     ELSE UNCHANGED <<queuedSize, sentSize, applied, missed>>
  /\ UNCHANGED <<hostVars, layout, bridgeIs, openSize, daemonVars, wire, gateVars>>

ResizeApplied ==
  /\ sentSize # 0 /\ ~ applied
  /\ applied' = TRUE
  /\ pty' = sentSize /\ repaint' = (repaint \/ pty # sentSize)
  /\ UNCHANGED <<hostVars, layout, bridgeIs, openSize, queuedSize, sentSize,
                 pinchResizeTimer, sequence, wire, gateVars, missed>>

ResizeSettles ==
  /\ applied
  /\ applied' = FALSE
  /\ sentSize' = queuedSize /\ queuedSize' = 0
  /\ UNCHANGED <<hostVars, layout, bridgeIs, openSize, pinchResizeTimer, daemonVars,
                 wire, gateVars, missed>>

SnapshotArrives ==
  /\ pty # 0 /\ layout # pty
  /\ layout' = pty
  /\ UNCHANGED <<hostVars, bridgeIs, openSize, resizeVars, daemonVars, wire,
                 gateVars, missed>>

-----------------------------------------------------------------------------
askForBridge ==
  /\ bridgeIs = "off"
  /\ fit(fittedSize, remoteGrid)
  /\ bridgeIs' = "opening" /\ openSize' = fittedSize
  /\ UNCHANGED <<layout, resizeVars, daemonVars, wire, gateVars, missed>>

Opened ==
  /\ bridgeIs = "opening"
  /\ bridgeIs' = "live" /\ openSize' = 0
  /\ pty' = openSize /\ repaint' = TRUE /\ sequence' = 0
  /\ missed' = (fittedSize < openSize /\ remoteGrid = openSize)
  /\ UNCHANGED <<hostVars, layout, resizeVars, wire, gateVars>>

(* suspendBridge, and the terminal closed by the daemon or with the         *)
(* session.                                                                 *)
Suspend ==
  /\ stopCommandPump
  /\ bridgeIs' = "off" /\ openSize' = 0 /\ remoteGrid' = 0
  /\ partial' = NoFrame /\ lastSequence' = 0 /\ needsFullFrame' = TRUE
  /\ painted' = 0 /\ pendingWrites' = 0 /\ missed' = FALSE
  /\ wire' = <<>> /\ repaint' = FALSE /\ sequence' = 0
  /\ UNCHANGED <<fittedSize, xterm, layout, pty, pinchResizeTimer>>

bridgeGone == bridgeIs # "off" /\ Suspend

(* The daemon paints: a full frame after a resize, a full one or a delta    *)
(* otherwise, in one part or two.  Frames it could not queue are left out,  *)
(* which shows in the numbers.                                              *)
DaemonPaints ==
  /\ bridgeIs = "live" /\ Len(wire) < MaxWire
  /\ \E skip \in 0..1, full \in BOOLEAN, count \in 1..2 :
       /\ sequence + 1 + skip <= MaxFrames
       /\ repaint => full
       /\ sequence' = sequence + 1 + skip
       /\ repaint' = FALSE
       /\ LET f == [seq |-> sequence', size |-> pty, full |-> full, count |-> count] IN
          wire' = wire \o [i \in 1..count |-> [f |-> f, index |-> i - 1]]
  /\ UNCHANGED <<hostVars, layout, bridgeIs, openSize, resizeVars, pty, gateVars, missed>>

(* TerminalFrameAssembler.push: the parts of one frame arrive in order.     *)
FirstPart ==
  /\ wire # <<>> /\ Head(wire).f.count > Head(wire).index + 1
  /\ partial' = Head(wire).f
  /\ wire' = Tail(wire)
  /\ UNCHANGED <<hostVars, layout, bridgeIs, openSize, resizeVars, daemonVars,
                 lastSequence, needsFullFrame, painted, pendingWrites, missed>>

gatePreflight(f) ==
  IF lastSequence # 0 /\ f.seq <= lastSequence THEN "stale"
  ELSE IF ~ f.full /\ lastSequence # 0 /\ f.seq # lastSequence + 1 THEN "gap"
  ELSE "accept"

LastPart ==
  /\ wire # <<>> /\ Head(wire).f.count = Head(wire).index + 1
  /\ wire' = Tail(wire)
  /\ partial' = NoFrame
  /\ UNCHANGED <<layout, bridgeIs, openSize, pinchResizeTimer, daemonVars>>

(* A frame of another size than the last: xterm is fitted again and the     *)
(* daemon told.                                                             *)
adoptRemote(f) ==
  IF remoteGrid # f.size
  THEN fit(fittedSize, f.size) /\ enqueueResize(fittedSize)
  ELSE UNCHANGED <<hostVars, queuedSize, sentSize, applied, missed>>

gateSettle(f, matches) ==
  /\ lastSequence' = f.seq
  /\ needsFullFrame' = (~ matches \/ (needsFullFrame /\ ~ f.full))

FrameTaken ==
  /\ LastPart
  /\ LET f == Head(wire).f IN
     /\ gatePreflight(f) = "accept" /\ pendingWrites < MAX_RENDER_QUEUE
     /\ adoptRemote(f)
     /\ gateSettle(f, f.size = xterm')
     /\ IF f.size = xterm' /\ ~ needsFullFrame'
        THEN /\ painted' = IF f.full \/ painted = f.seq - 1 THEN f.seq ELSE 0
             /\ pendingWrites' = pendingWrites + 1
        ELSE UNCHANGED <<painted, pendingWrites>>

(* The numbers skip, or xterm is behind: the bridge is given up.            *)
FrameRefused ==
  /\ wire # <<>> /\ Head(wire).f.count = Head(wire).index + 1
  /\ \/ gatePreflight(Head(wire).f) = "gap"
     \/ gatePreflight(Head(wire).f) = "accept" /\ pendingWrites = MAX_RENDER_QUEUE
  /\ Suspend

Painted ==
  /\ pendingWrites > 0
  /\ pendingWrites' = pendingWrites - 1
  /\ UNCHANGED <<hostVars, layout, bridgeIs, openSize, resizeVars, daemonVars, wire,
                 partial, lastSequence, needsFullFrame, painted, missed>>

FramesNext ==
  \/ \E size \in Sizes : Resized(size) \/ Pinched(size)
  \/ PinchRests \/ ResizeApplied \/ ResizeSettles \/ SnapshotArrives
  \/ askForBridge \/ Opened \/ bridgeGone \/ DaemonPaints
  \/ FirstPart \/ FrameTaken \/ FrameRefused \/ Painted

-----------------------------------------------------------------------------
(* ANSI deltas are drawn on what they are deltas of: xterm never gets one   *)
(* unless it was given the frame before it, whatever frames were left out,  *)
(* did not fit the grid, or were cut off by a new bridge.                   *)
DeltasHaveTheirBase ==
  bridgeIs = "live" /\ ~ needsFullFrame => painted = lastSequence

(* The picture does not freeze: when everything asked for has happened and  *)
(* every frame has arrived, the daemon paints the grid that xterm has, so   *)
(* the next full frame is shown.  (A host that shrinks while the terminal   *)
(* is being opened is left out: see `missed'.)                              *)
PictureSettled ==
  /\ bridgeIs = "live" /\ sentSize = 0 /\ ~ pinchResizeTimer
  /\ wire = <<>> /\ ~ repaint /\ ~ missed

NotFrozen == PictureSettled => xterm = pty
=============================================================================
