-------------------------------- MODULE Herd --------------------------------
(***************************************************************************)
(* The herd list of the PWA: Snapshot reads (features/connection/          *)
(* snapshot.ts), the cards folded from them and the completions the reader *)
(* has seen (features/dashboard/catalog-store.ts, completion-attention.ts),*)
(* the cached picture shown before the first answer, and the deep link of  *)
(* a notification.  Every computer has one pane; what an answer says of it *)
(* (its Agent works, is done, or is gone) is any of the three, since the   *)
(* Agent moves on its own.  Which picture is stored is SnapshotCache's     *)
(* subject: here a stored one may be any the computer has sent.            *)
(***************************************************************************)
EXTENDS Naturals, FiniteSets

CONSTANTS Hosts, NoHost, MaxSnaps

VARIABLES
    \* per computer: what its Agent is doing
  seat,        \* the computer on the screen
  herd,        \* the list: where it came from, known statuses, its card
  refreshBusy, snapshotPending,
  snaps,       \* refreshSnapshot calls between their awaits
  restores,    \* restoreCachedSnapshot calls waiting for storage
  cached,      \* computers with a stored picture
  seen,        \* completionSeen of the computer on the screen
  storedSeen,  \* completionSeen in localStorage, per computer
  unread,      \* computers whose last observed completion was not looked at
  paneOf,      \* the computer whose pane is open
  deepLink     \* notificationTarget

herdVars == <<seat, herd, refreshBusy, snapshotPending, snaps, restores,
              cached, seen, storedSeen, unread, paneOf, deepLink>>
attention == <<seen, storedSeen, unread>>
storage == <<restores, cached>>

NoHerd == [from |-> "none", known |-> "none", card |-> "none"]
Statuses == {"working", "done", "gone"}

HerdInit ==
  /\ seat = NoHost /\ herd = NoHerd
  /\ refreshBusy = FALSE /\ snapshotPending = FALSE
  /\ snaps = {} /\ restores = {} /\ cached = {}
  /\ seen = FALSE /\ storedSeen = [c \in Hosts |-> FALSE]
  /\ unread = {} /\ paneOf = NoHost /\ deepLink = NoHost
-----------------------------------------------------------------------------
(* Completion attention.                                                   *)

(* reconcileSeenCompletions: an acknowledgement is kept only while the     *)
(* same completion is current.                                             *)
reconcileSeenCompletions(before, now) ==
  seen /\ now = "done" /\ before \in {"none", "done"}

applySeenCompletions(status, ack) ==
  IF status = "gone" THEN "none" ELSE IF status = "done" /\ ack THEN "idle" ELSE status

(* replaceAgentsFromSnapshot.                                              *)
replaceAgentsFromSnapshot(status, from) ==
  LET ack == reconcileSeenCompletions(herd.known, status)
      known == IF status = "gone" THEN "none" ELSE status IN
  /\ herd' = [from |-> from, known |-> known, card |-> applySeenCompletions(status, ack)]
  /\ seen' = ack
  /\ storedSeen' = [storedSeen EXCEPT ![seat] = IF ack # seen THEN ack ELSE @]
  /\ unread' = IF herd.known = "working" /\ status = "done" THEN unread \cup {seat}
               ELSE IF status = "done" THEN unread ELSE unread \ {seat}

(* A pane read succeeded: its completion counts as looked at.              *)
acknowledgePaneCompletion ==
  /\ paneOf # NoHost /\ herd.known = "done" /\ ~ seen
  /\ seen' = TRUE /\ storedSeen' = [storedSeen EXCEPT ![seat] = TRUE]
  /\ herd' = [herd EXCEPT !.card = "idle"]
  /\ unread' = unread \ {seat}
  /\ UNCHANGED <<seat, refreshBusy, snapshotPending, snaps, storage, paneOf, deepLink>>

(* markPaneSubmitted.                                                      *)
projectAgentSubmission ==
  /\ paneOf # NoHost /\ herd.card \notin {"none", "working"}
  /\ herd' = [herd EXCEPT !.card = "working", !.known = "working"]
  /\ seen' = FALSE
  /\ storedSeen' = [storedSeen EXCEPT ![seat] = IF seen THEN FALSE ELSE @]
  /\ unread' = unread \ {seat}
  /\ UNCHANGED <<seat, refreshBusy, snapshotPending, snaps, storage, paneOf, deepLink>>
-----------------------------------------------------------------------------
(* refreshSnapshot: one in flight, one queued.                             *)
Snap == [cur |-> TRUE, at |-> "rpc"]

refreshSnapshot ==
  /\ seat # NoHost
  /\ \/ /\ refreshBusy
        /\ snapshotPending' = TRUE
        /\ UNCHANGED <<refreshBusy, snaps>>
     \/ /\ ~ refreshBusy /\ Cardinality(snaps) < MaxSnaps
        /\ refreshBusy' = TRUE
        /\ snaps' = snaps \cup {Snap}
        /\ UNCHANGED snapshotPending
  /\ UNCHANGED <<seat, herd, storage, attention, paneOf, deepLink>>

(* The finally block belongs to the current view; a queued call follows.   *)
Finally(j, left) ==
  LET again == j.cur /\ snapshotPending IN
  /\ refreshBusy' = (again \/ (refreshBusy /\ ~ j.cur))
  /\ snapshotPending' = (snapshotPending /\ ~ j.cur)
  /\ snaps' = left \cup {x \in {Snap} : again}

(* A failed call, or one whose view is gone.                               *)
SnapshotFails(j) ==
  /\ j.at = "rpc"
  /\ Finally(j, snaps \ {j})
  /\ UNCHANGED <<seat, herd, storage, attention, paneOf, deepLink>>

choosePane(status) == IF status = "gone" THEN NoHost ELSE paneOf

(* The answer is applied and cached; a waiting deep link is opened.        *)
SnapshotApplied(j, status) ==
  /\ j.at = "rpc" /\ j.cur
  /\ replaceAgentsFromSnapshot(status, "live")
  /\ cached' = cached \cup {seat}
  /\ \/ /\ deepLink # seat
        /\ paneOf' = choosePane(status)
        /\ Finally(j, snaps \ {j})
        /\ UNCHANGED deepLink
     \/ /\ deepLink = seat /\ status = "gone"
        /\ paneOf' = NoHost /\ deepLink' = NoHost
        /\ Finally(j, snaps \ {j})
     \/ /\ deepLink = seat /\ status # "gone"
        /\ paneOf' = seat /\ deepLink' = NoHost
        /\ snaps' = (snaps \ {j}) \cup {[j EXCEPT !.at = "notify"]}
        /\ UNCHANGED <<refreshBusy, snapshotPending>>
  /\ UNCHANGED <<seat, restores>>

(* openPane of the deep link returned.                                     *)
DeepLinkOpened(j) ==
  /\ j.at = "notify"
  /\ Finally(j, snaps \ {j})
  /\ UNCHANGED <<seat, herd, storage, attention, paneOf, deepLink>>
-----------------------------------------------------------------------------
(* The stored picture.                                                     *)
RestoreIsCurrent(c) == seat = c

(* Painted only onto an empty list.                                        *)
restoreCachedSnapshot(c, status) ==
  /\ restores' = restores \ {c}
  /\ IF RestoreIsCurrent(c) /\ herd.card = "none"
     THEN replaceAgentsFromSnapshot(status, c)
     ELSE UNCHANGED <<herd, attention>>
  /\ UNCHANGED <<seat, refreshBusy, snapshotPending, snaps, cached, paneOf, deepLink>>
-----------------------------------------------------------------------------
(* A computer is put on the screen, or the screen is left: every live      *)
(* domain is reset with the view, and reads of the old view are stale.     *)
retireHerd ==
  /\ herd' = NoHerd /\ paneOf' = NoHost
  /\ refreshBusy' = FALSE /\ snapshotPending' = FALSE
  /\ snaps' = {[cur |-> FALSE, at |-> j.at] : j \in snaps}

reloadCompletionSeen(c) == storedSeen[c]

Establish(c) ==
  /\ Cardinality(snaps) < MaxSnaps
  /\ seat' = c
  /\ retireHerd
  /\ seen' = reloadCompletionSeen(c)
  /\ restores' = restores \cup ({c} \cap cached)
  /\ UNCHANGED <<cached, storedSeen, unread, deepLink>>

Leave ==
  /\ seat # NoHost /\ seat' = NoHost
  /\ retireHerd
  /\ seen' = FALSE
  /\ UNCHANGED <<storage, storedSeen, unread, deepLink>>

OpenFromList ==
  /\ herd.card # "none" /\ paneOf = NoHost
  /\ paneOf' = seat
  /\ UNCHANGED <<seat, herd, refreshBusy, snapshotPending, snaps, storage, attention, deepLink>>

CloseList ==
  /\ paneOf # NoHost /\ paneOf' = NoHost
  /\ UNCHANGED <<seat, herd, refreshBusy, snapshotPending, snaps, storage, attention, deepLink>>

capturePairingFragment(c) ==
  /\ deepLink = NoHost /\ deepLink' = c
  /\ UNCHANGED <<seat, herd, refreshBusy, snapshotPending, snaps, storage, attention, paneOf>>

HerdNext ==
  \/ \E c \in Hosts : Establish(c) \/ capturePairingFragment(c)
  \/ acknowledgePaneCompletion \/ projectAgentSubmission \/ refreshSnapshot
  \/ \E j \in snaps : \/ SnapshotFails(j) \/ DeepLinkOpened(j)
                      \/ \E s \in Statuses : SnapshotApplied(j, s)
  \/ \E c \in restores, s \in Statuses \ {"gone"} : restoreCachedSnapshot(c, s)
  \/ Leave \/ OpenFromList \/ CloseList
-----------------------------------------------------------------------------
(* The busy flag is set exactly while a call of the current view is        *)
(* running, and a queued call always has one before it: refreshes neither  *)
(* overlap nor stop for good (refreshSnapshot).                            *)
RefreshLaneIsSound ==
  /\ refreshBusy <=> \E j \in snaps : j.cur
  /\ Cardinality({j \in snaps : j.cur}) <= 1
  /\ snapshotPending => refreshBusy

(* The list on the screen was sent, or stored, by the computer on the      *)
(* screen, whatever storage reads and answers of the previous one return.  *)
HerdIsOfTheSeat ==
  /\ herd.from \in Hosts => herd.from = seat
  /\ herd # NoHerd => seat # NoHost

(* A completion the phone observed and the reader has not opened keeps     *)
(* asking for attention, also after leaving the computer and coming back.  *)
UnreadKeepsAttention ==
  seat \in unread /\ herd.from = "live" /\ herd.known = "done" => herd.card = "done"

(* An open pane is on the list the last answer gave, deep links included.  *)
OpenPaneIsListed ==
  paneOf # NoHost => /\ paneOf = seat
                     /\ herd.card # "none"

HerdTypeOK ==
  /\ seat \in Hosts \cup {NoHost}
  /\ herd.known \in {"none", "working", "done"}
  /\ herd.card \in {"none", "working", "done", "idle"}
=============================================================================
