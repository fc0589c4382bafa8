-------------------------- MODULE MCSessionWorlds --------------------------
(* Two small daemons side by side, of which the initial state lets one     *)
(* move: one device with a relay route and direct candidates, and several  *)
(* devices on relay routes only, where the operation ledger fails as well. *)
EXTENDS Session, TLC

CONSTANTS RelayDevices, ManyRoutes

VARIABLES world, devices2, sess2, sessions2, byDevice2, links2, thread2, offer2,
          commit2, revoke2

vars2 == <<devices2, sess2, sessions2, byDevice2, links2, thread2, offer2, commit2,
           revoke2>>

Relay == INSTANCE Session WITH
  Devices <- RelayDevices, RelayRoutes <- ManyRoutes, DirectRoutes <- {},
  SavesMayFail <- FALSE, LedgerMayFail <- TRUE,
  devices <- devices2, sess <- sess2, sessions <- sessions2,
  byDevice <- byDevice2, links <- links2, thread <- thread2, offer <- offer2,
  commit <- commit2, revoke <- revoke2

WorldsInit == Init /\ Relay!Init /\ world \in {"direct", "relay"}

DirectMoves == world = "direct" /\ Next /\ UNCHANGED <<world, vars2>>
RelayMoves == world = "relay" /\ Relay!Next /\ UNCHANGED <<world, vars>>

WorldsSpec == WorldsInit /\ [][DirectMoves \/ RelayMoves]_<<world, vars, vars2>>

Names == Permutations(RelayRoutes) \cup Permutations(DirectRoutes)
         \cup Permutations(ManyRoutes) \cup Permutations(RelayDevices)


(* Several devices on relay routes: when kickSessions is done a device    *)
(* has one session, and FinishHello3 never admits more than MaxDevices.   *)
RelayDevicesSettle ==
  /\ Relay!OneSessionPerDevice
  /\ Relay!DeviceCap

=============================================================================
