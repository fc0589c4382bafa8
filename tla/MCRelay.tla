------------------------------ MODULE MCRelay -------------------------------
(* The parts of the relay, and the pairing form of the phone that meets   *)
(* it, side by side on small instances. They do not share state: the      *)
(* initial state chooses the one part that moves; the others stay where   *)
(* they begin.                                                            *)
EXTENDS Room, RoomPairing, RoomAlarms, RoomGate, Enrollment, Accounts,
        Claims, PhonePairing, TLC

VARIABLE part

MCStrikes == [d \in Domains |-> 2]

(* The parts that do not move.                                            *)
Still(p) ==
  /\ UNCHANGED part
  /\ IF p = "sockets" THEN TRUE ELSE UNCHANGED roomVars
  /\ IF p = "pairing" THEN TRUE ELSE UNCHANGED pairingVars
  /\ IF p = "alarms" THEN TRUE ELSE UNCHANGED alarmVars
  /\ IF p = "gate" THEN TRUE ELSE UNCHANGED gateVars
  /\ IF p = "enrollment" THEN TRUE ELSE UNCHANGED enrollVars
  /\ IF p = "accounts" THEN TRUE ELSE UNCHANGED authVars
  /\ IF p = "claims" THEN TRUE ELSE UNCHANGED claimVars
  /\ IF p = "form" THEN TRUE ELSE UNCHANGED pairVars

SocketsMoves == part = "sockets" /\ RoomNext /\ Still("sockets")
PairingMoves == part = "pairing" /\ PairingNext /\ Still("pairing")
AlarmsMoves == part = "alarms" /\ AlarmsNext /\ Still("alarms")
GateMoves == part = "gate" /\ GateNext /\ Still("gate")
EnrollmentMoves == part = "enrollment" /\ EnrollmentNext /\ Still("enrollment")
AccountsMoves == part = "accounts" /\ AccountsNext /\ Still("accounts")
ClaimsMoves == part = "claims" /\ ClaimsNext /\ Still("claims")
FormMoves == part = "form" /\ PairNext /\ Still("form")

Init ==
  /\ part \in {"sockets", "pairing", "alarms", "gate", "enrollment",
               "accounts", "claims", "form"}
  /\ RoomInit
  /\ PairingInit
  /\ AlarmsInit
  /\ GateInit
  /\ EnrollmentInit
  /\ AccountsInit
  /\ part # "accounts" => asked = CHOOSE mix \in Mixes : TRUE
  /\ ClaimsInit
  /\ PairInit
  /\ part # "form" => accountForm = FALSE /\ backTo = "connect"

Next ==
  \/ SocketsMoves \/ PairingMoves \/ AlarmsMoves \/ GateMoves
  \/ EnrollmentMoves \/ AccountsMoves \/ ClaimsMoves \/ FormMoves

vars == <<part, roomVars, pairingVars, alarmVars, gateVars, enrollVars,
          authVars, claimVars, pairVars>>

Spec == Init /\ [][Next]_vars

\* Interchangeable names; the parts are instantiated with the same ones.
Names == Permutations(Phones) \cup Permutations(Daemons)
-----------------------------------------------------------------------------
(* The parts of the relay keep to the shapes their modules declare.       *)
RelayTypeOK ==
  /\ RoomTypeOK
  /\ PairingTypeOK
  /\ AlarmsTypeOK
  /\ GateTypeOK
=============================================================================
