--------------------------- MODULE PhonePairing ---------------------------
(***************************************************************************)
(* Pairing on the phone (features/pairing/actions.ts, work.ts, form-store, *)
(* lib/protocol/pair-ws.ts): attempts started from a code, a scan or a     *)
(* link, cancelled, left with the page or replaced, while their answers    *)
(* are on the way.  An attempt and its AbortController have one number.    *)
(* The account gate covers the connect page and takes it down.             *)
(***************************************************************************)
EXTENDS Naturals

CONSTANTS MaxTries, MaxConnectPages,
          MaxPairEvents  \* bound: decisions made and pages mounted, together

ASSUME PairAssumption == MaxTries \in Nat

VARIABLES
  pairingWork, pairingPage,
  transport,   \* transportAbort and transportOwner
  pairAbort, awaiting, fragment, pairPhase, addingOne,
  backTo,        \* where cancelAddComputer lands: session, picker or neither
  accountForm, \* the account gate is up
  tries,       \* the attempts
  scanning,    \* the scanner that is open: the work it was opened under
  mintedPages,
  pairedBy,  \* the attempt whose computer became the current one
  intents      \* decisions of the person so far

formVars == <<pairAbort, awaiting, fragment, pairPhase, addingOne, backTo>>
workVars == <<pairingWork, pairingPage>>
pairVars == <<workVars, transport, formVars, accountForm, tries, scanning,
              mintedPages, pairedBy, intents>>

Attempts == 1..MaxTries
NoTry == [pc |-> "none", work |-> 0, page |-> 0, aborted |-> FALSE,
          pass |-> FALSE, intent |-> 0]
NoTransport == [abort |-> 0, owner |-> 0]
NoScan == [work |-> 0, open |-> FALSE]

(* Opened with a link and asked who they are, or without either.           *)
PairInit ==
  /\ accountForm \in BOOLEAN
  /\ pairingWork = 0 /\ pairingPage = 0
  /\ transport = NoTransport /\ pairAbort = 0 /\ awaiting = FALSE
  /\ fragment = accountForm /\ pairPhase = "connect"
  /\ backTo \in {"pick", "connect"}
  /\ addingOne = (backTo # "connect")
  /\ tries = [a \in Attempts |-> NoTry] /\ scanning = NoScan
  /\ mintedPages = 0 /\ pairedBy = 0 /\ intents = 0

InFlight == {"intent", "ws", "approval", "saving"}
Aborted(a) ==
  IF a = 0 \/ tries[a].pc = "done" THEN tries
  ELSE [tries EXCEPT ![a].aborted = TRUE]
TransportWithout(a) == IF transport.abort = a THEN NoTransport ELSE transport
Within == intents + mintedPages < MaxPairEvents
Decided == Within /\ intents' = intents + 1
-----------------------------------------------------------------------------
(* work.ts: generations and page ownership.                                *)
retirePairingWork(n) == pairingWork' = pairingWork + n /\ UNCHANGED pairingPage

claimPairingAttempt == pairingWork' = pairingWork + 1 /\ UNCHANGED pairingPage

ConnectShown == pairPhase \in {"connect", "pairing"} /\ ~ accountForm

(* A ConnectScreen mounts: a new instance is a new owner.                  *)
claimPairingPage ==
  /\ ConnectShown /\ pairingPage = 0 /\ mintedPages < MaxConnectPages
  /\ Within
  /\ mintedPages' = mintedPages + 1
  /\ pairingPage' = mintedPages'
  /\ UNCHANGED <<pairingWork, transport, formVars, accountForm,
                 tries, scanning, pairedBy, intents>>

(* disposePairingPageTransport: the handshake this page started, no other. *)
Disposed(page) ==
  LET mine == transport.owner = page /\ transport.abort # 0 IN
  /\ transport' = IF mine THEN NoTransport ELSE transport
  /\ tries' = IF mine THEN Aborted(transport.abort) ELSE tries
  /\ pairAbort' = IF mine /\ pairAbort = transport.abort THEN 0 ELSE pairAbort

(* It unmounts: another screen or the account gate has its place.          *)
releasePairingPage ==
  /\ ~ ConnectShown /\ pairingPage # 0
  /\ pairingWork' = pairingWork + 1 /\ pairingPage' = 0
  /\ Disposed(pairingPage)
  /\ Decided
  /\ UNCHANGED <<awaiting, fragment, pairPhase, addingOne, backTo, accountForm,
                 scanning, mintedPages, pairedBy>>

(* The effects of a mounted screen are replayed: released, disposed of and *)
(* claimed by the same instance, which gets its generation back as no      *)
(* intent came between.                                                    *)
ReplayPage ==
  /\ pairingPage # 0
  /\ Disposed(pairingPage)
  /\ UNCHANGED <<pairingWork, pairingPage, awaiting, fragment, pairPhase,
                 addingOne, backTo, accountForm, scanning, mintedPages,
                 pairedBy, intents>>
-----------------------------------------------------------------------------
NextTry(a) == tries[a].pc = "none" /\ \A b \in 1..(a - 1) : tries[b].pc # "none"

(* The checked input starts a transport; what the form still held is       *)
(* aborted.  A scanned link needs no pair-intent.                          *)
TransportStarts(a, scanned, pass) ==
  /\ tries' = [Aborted(pairAbort) EXCEPT ![a] =
       [pc |-> IF scanned THEN "ws" ELSE "intent", work |-> pairingWork',
        page |-> pairingPage, aborted |-> FALSE, pass |-> pass,
        intent |-> intents']]
  /\ transport' = [abort |-> a, owner |-> pairingPage]
  /\ pairAbort' = a /\ awaiting' = FALSE /\ pairPhase' = "pairing"

beginPairing(a) ==
  /\ pairPhase = "connect" /\ NextTry(a) /\ Decided
  /\ pairingPage # 0 \/ (fragment /\ accountForm)   \* the form; at boot, a link
  /\ claimPairingAttempt /\ TransportStarts(a, fragment, FALSE)
  /\ UNCHANGED <<fragment, addingOne, backTo, accountForm, scanning, mintedPages,
                 pairedBy>>

(* The passphrase rail: a link the form holds is neither used nor dropped. *)
beginPasswordPairing(a) ==
  /\ pairPhase = "connect" /\ pairingPage # 0 /\ NextTry(a) /\ Decided
  /\ claimPairingAttempt /\ TransportStarts(a, FALSE, TRUE)
  /\ UNCHANGED <<fragment, addingOne, backTo, accountForm, scanning, mintedPages,
                 pairedBy>>

(* rejectLocal: the input is malformed, or the link is another protocol's. *)
rejectLocal ==
  /\ pairPhase = "connect" /\ pairingPage # 0 /\ Decided
  /\ claimPairingAttempt
  /\ fragment' \in {fragment, FALSE}
  /\ UNCHANGED <<transport, pairAbort, awaiting, pairPhase, addingOne, backTo,
                 accountForm, tries, scanning, mintedPages, pairedBy>>

scanPairCode ==
  /\ pairPhase = "connect" /\ pairingPage # 0 /\ ~ scanning.open /\ Within
  /\ scanning' = [work |-> pairingWork, open |-> TRUE]
  /\ UNCHANGED <<workVars, transport, formVars, accountForm, tries, mintedPages,
                 pairedBy, intents>>

(* The scanner closes with a link, unless its work was retired meanwhile.  *)
ScanFinds(a) ==
  /\ scanning.open /\ scanning.work = pairingWork
  /\ pairPhase # "pairing" /\ NextTry(a) /\ Decided
  /\ fragment' = TRUE
  /\ claimPairingAttempt /\ TransportStarts(a, TRUE, FALSE)
  /\ scanning' = NoScan
  /\ UNCHANGED <<addingOne, backTo, accountForm, mintedPages, pairedBy>>

ScanDropped ==
  /\ scanning.open
  /\ scanning' = NoScan
  /\ UNCHANGED <<workVars, transport, formVars, accountForm, tries, mintedPages,
                 pairedBy, intents>>
-----------------------------------------------------------------------------
(* Where a failed or cancelled attempt lands.                              *)
Over == [NoTry EXCEPT !.pc = "done"]
AttemptOver(a) == tries' = [tries EXCEPT ![a] = Over]

pairingErrorStillOwned(a) ==
  LET t == tries[a] IN
  IF t.work = pairingWork THEN t.page = 0 \/ pairAbort = a
  ELSE IF t.page # 0 THEN pairingPage = t.page /\ pairAbort = a
  ELSE pairPhase = "pairing" /\ pairAbort \in {a, 0}

(* landCancelledPairing once the handle is the cancelled attempt's; adding *)
(* a computer, it goes back to the catalog through cancelAddComputer.      *)
LandedCancelled(a, owned) ==
  LET back == addingOne \/ backTo # "connect" IN
  /\ awaiting' = FALSE /\ pairAbort' = 0
  /\ transport' = IF a = 0 THEN transport ELSE TransportWithout(a)
  /\ fragment' = (fragment /\ ~ owned)
  /\ addingOne' = (addingOne /\ ~ (owned /\ back))
  /\ pairPhase' = IF ~ owned THEN pairPhase ELSE IF back THEN backTo ELSE "connect"
  /\ UNCHANGED backTo

Owns(a) == tries[a].work = pairingWork /\ pairPhase = "pairing"

CancelledLanding(a) ==
  /\ LandedCancelled(a, Owns(a))
  /\ IF Owns(a) /\ (addingOne \/ backTo # "connect")
     THEN retirePairingWork(1) ELSE UNCHANGED workVars

(* The catch of an attempt for an error that is not a cancel: some codes   *)
(* forget the scanned link.                                                *)
FailedLanding(a) ==
  /\ awaiting' = FALSE /\ pairAbort' = 0 /\ transport' = TransportWithout(a)
  /\ \/ ~ Owns(a) /\ UNCHANGED <<fragment, pairPhase>>
     \/ /\ Owns(a) /\ pairPhase' = "connect"
        /\ fragment' \in IF tries[a].pass THEN {fragment} ELSE {fragment, FALSE}
  /\ UNCHANGED <<workVars, addingOne, backTo>>

Rejected(a, cancelled) ==
  /\ AttemptOver(a)
  /\ IF ~ pairingErrorStillOwned(a)
     THEN UNCHANGED <<workVars, transport, formVars>>
     ELSE IF pairAbort # a
     THEN /\ awaiting' = (awaiting /\ cancelled)
          /\ UNCHANGED <<workVars, transport, pairAbort, fragment, pairPhase,
                         addingOne, backTo>>
     ELSE IF cancelled THEN CancelledLanding(a) ELSE FailedLanding(a)
  /\ UNCHANGED <<accountForm, scanning, mintedPages, pairedBy, intents>>

(* The network fails an attempt, or its abort does.                        *)
AttemptRejects(a) ==
  /\ tries[a].pc \in {"intent", "ws", "approval"}
  /\ Rejected(a, tries[a].aborted)

requestPairIntent(a) ==
  /\ tries[a].pc = "intent"
  /\ \/ /\ tries[a].aborted \/ tries[a].work # pairingWork
        /\ Rejected(a, TRUE)
     \/ /\ ~ tries[a].aborted /\ tries[a].work = pairingWork
        /\ tries' = [tries EXCEPT ![a].pc = "ws"]
        /\ UNCHANGED <<workVars, transport, formVars, accountForm, scanning,
                       mintedPages, pairedBy, intents>>

(* pairOverWS: attached and the code proven; now the computer must agree.  *)
onAwaitApproval(a) ==
  /\ tries[a].pc = "ws"
  /\ \/ tries[a].aborted /\ Rejected(a, TRUE)
     \/ /\ ~ tries[a].aborted
        /\ tries' = [tries EXCEPT ![a].pc = "approval"]
        /\ awaiting' = (awaiting \/ tries[a].work = pairingWork)
        /\ UNCHANGED <<workVars, transport, pairAbort, fragment, pairPhase,
                       addingOne, backTo, accountForm, scanning, mintedPages,
                       pairedBy, intents>>

(* ConfirmPairing is checked and acknowledged.                             *)
pairOverWS(a) ==
  /\ tries[a].pc = "approval" /\ ~ tries[a].aborted
  /\ IF tries[a].work = pairingWork
     THEN tries' = [tries EXCEPT ![a].pc = "saving"] ELSE AttemptOver(a)
  /\ UNCHANGED <<workVars, transport, formVars, accountForm, scanning,
                 mintedPages, pairedBy, intents>>

\* Mutant: a retired attempt goes on to resume its computer.
MutSaveCredential(a) ==
  /\ tries[a].pc = "saving"
  /\ AttemptOver(a)
  /\ pairedBy' = a /\ awaiting' = FALSE
  /\ pairAbort' = IF pairAbort = a THEN 0 ELSE pairAbort
  /\ transport' = TransportWithout(a)
  /\ fragment' = (fragment /\ tries[a].pass)
  /\ addingOne' = FALSE /\ pairPhase' = "resuming"
  /\ UNCHANGED <<backTo, workVars, accountForm, scanning, mintedPages, intents>>

(* The credential is in the database; a retired attempt stops there.       *)
saveCredential(a) ==
  /\ tries[a].pc = "saving"
  /\ AttemptOver(a)
  /\ \/ tries[a].work # pairingWork /\ UNCHANGED <<transport, formVars, pairedBy>>
     \/ /\ tries[a].work = pairingWork
        /\ pairedBy' = a /\ awaiting' = FALSE
        /\ pairAbort' = IF pairAbort = a THEN 0 ELSE pairAbort
        /\ transport' = TransportWithout(a)
        /\ fragment' = (fragment /\ tries[a].pass)
        /\ addingOne' = FALSE /\ pairPhase' = "resuming"
        /\ UNCHANGED backTo
  /\ UNCHANGED <<workVars, accountForm, scanning, mintedPages, intents>>

SaveFails(a) == tries[a].pc = "saving" /\ Rejected(a, FALSE)
-----------------------------------------------------------------------------
\* Mutant: the transport of the cancelled attempt is left running.
MutCancelPairing ==
  /\ pairPhase = "pairing" /\ pairingPage # 0 /\ Decided
  /\ LandedCancelled(pairAbort, TRUE)
  /\ retirePairingWork(IF addingOne \/ backTo # "connect" THEN 2 ELSE 1)
  /\ UNCHANGED <<accountForm, tries, scanning, mintedPages, pairedBy>>

(* The cancel button: the handshake may already have fulfilled, so the     *)
(* form is landed here and not by the attempt's rejection.                 *)
cancelPairing ==
  /\ pairPhase = "pairing" /\ pairingPage # 0 /\ Decided
  /\ tries' = Aborted(pairAbort)
  /\ LandedCancelled(pairAbort, TRUE)
  /\ retirePairingWork(IF addingOne \/ backTo # "connect" THEN 2 ELSE 1)
  /\ UNCHANGED <<accountForm, scanning, mintedPages, pairedBy>>

(* The back bar of the add-computer form.                                  *)
leaveAddComputer ==
  /\ addingOne /\ ConnectShown /\ pairingPage # 0 /\ Decided
  /\ retirePairingWork(2)
  /\ tries' = Aborted(pairAbort)
  /\ fragment' = FALSE /\ addingOne' = FALSE /\ pairPhase' = backTo
  /\ UNCHANGED <<transport, pairAbort, awaiting, backTo, accountForm, scanning,
                 mintedPages, pairedBy>>

(* Also from syncAndLand when the account has nothing to resume.           *)
openAddComputer ==
  /\ pairPhase \notin {"pairing", "resuming"} /\ ~ addingOne
  /\ pairPhase # "connect"
  /\ tries' = Aborted(pairAbort)
  /\ fragment' = FALSE /\ addingOne' = TRUE /\ pairPhase' = "connect"
  /\ UNCHANGED <<workVars, transport, pairAbort, awaiting, backTo, accountForm,
                 scanning, mintedPages, pairedBy, intents>>

(* establish and landAfterDisconnect.                                      *)
resumeComputer ==
  /\ pairPhase = "resuming"
  /\ \E p \in {"live", "pick"} : pairPhase' = p /\ backTo' = p
  /\ UNCHANGED <<workVars, transport, pairAbort, awaiting, fragment, addingOne,
                 accountForm, tries, scanning, mintedPages, pairedBy, intents>>

(* The gate goes up for a sign-in or for a late answer about the account.  *)
setAccountGate ==
  /\ accountForm' = ~ accountForm
  /\ mintedPages < MaxConnectPages /\ Within
  /\ UNCHANGED <<workVars, transport, formVars, tries, scanning, mintedPages,
                 pairedBy, intents>>

(* syncAndLand: the account's last computer is resumed, also over an       *)
(* attempt that runs under the gate.                                       *)
syncAndLand ==
  /\ accountForm /\ pairPhase \notin {"live", "resuming"}
  /\ accountForm' = FALSE /\ pairPhase' = "resuming"
  /\ UNCHANGED <<workVars, transport, pairAbort, awaiting, fragment, addingOne,
                 backTo, tries, scanning, mintedPages, pairedBy, intents>>

PairNext ==
  \/ claimPairingPage \/ releasePairingPage \/ ReplayPage
  \/ rejectLocal \/ scanPairCode \/ ScanDropped
  \/ cancelPairing \/ leaveAddComputer \/ openAddComputer
  \/ resumeComputer \/ setAccountGate \/ syncAndLand
  \/ \E a \in Attempts :
       beginPairing(a) \/ beginPasswordPairing(a) \/ ScanFinds(a) 
       \/ AttemptRejects(a) \/ requestPairIntent(a) \/ onAwaitApproval(a) \/ pairOverWS(a)
       \/ saveCredential(a) \/ SaveFails(a)

PairSpec == PairInit /\ [][PairNext]_pairVars
-----------------------------------------------------------------------------
PairTypeOK ==
  /\ pairPhase \in {"connect", "pairing", "resuming", "live", "pick"}
  /\ pairAbort \in 0..MaxTries /\ transport.abort \in 0..MaxTries
  /\ \A a \in Attempts : tries[a].pc \in InFlight \cup {"none", "done"}

Handshake(a) == tries[a].pc \in {"intent", "ws", "approval"} /\ ~ tries[a].aborted

(* Two handshakes never run at once: whatever replaces, leaves or cancels  *)
(* an attempt has aborted its transport (beginPairing, cancelPairing,      *)
(* disposePairingPageTransport).                                           *)
OneHandshake == \A a, b \in Attempts : Handshake(a) /\ Handshake(b) => a = b

(* The form that says it is pairing has its attempt under way, and the     *)
(* wait for the computer that it shows is that attempt's; or the attempt   *)
(* was left with the page and its handle is gone, in which case cancel     *)
(* still lands the form (cancelPairing: "so the form is not stuck").  Not  *)
(* so for an attempt begun under the account gate, which belongs to no     *)
(* page: a page that comes and goes above it retires it as it runs.        *)
PairingIsUnderWay ==
  pairPhase = "pairing" /\ pairAbort # 0
  /\ (tries[pairAbort].page = 0 => tries[pairAbort].work = pairingWork) =>
    /\ tries[pairAbort].pc \in InFlight
    /\ awaiting => tries[pairAbort].pc \in {"approval", "saving"}

(* An attempt that the person has cancelled, left or replaced changes      *)
(* neither the screen nor the current computer when it ends, however late  *)
(* (the work checks after each await, pairingErrorStillOwned).             *)
OutlivedAttemptIsSilent ==
  \A a \in Attempts :
    tries[a].pc \in InFlight /\ tries'[a].pc = "done" /\ tries[a].intent # intents
      => pairPhase' = pairPhase /\ pairedBy' = pairedBy

LateAttemptsAreSilent == [][OutlivedAttemptIsSilent]_pairVars

(* Pairing on the phone: two handshakes never run at once and the form     *)
(* that says it is pairing is.                                             *)
PhonePairingHolds == OneHandshake /\ PairingIsUnderWay
=============================================================================
