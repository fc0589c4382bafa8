----------------------------- MODULE Enrollment -----------------------------
(***************************************************************************)
(* How a computer gets its place on the relay and changes its token:       *)
(* enrollV2 and rekeyV2 on the computer (cmd/pairfob/enroll.go), the       *)
(* worker's handlers (enroll.ts, rekey.ts, admin.ts), the rows in D1       *)
(* (d1.ts) and the row in the room (room/core.ts).                         *)
(*                                                                         *)
(* A handler is one step per call to D1 or to the room.  A call may fail,  *)
(* before or after it took effect; the platform may drop a handler between *)
(* two calls; and the computer stops waiting after 15 s while the handler  *)
(* goes on.  Tokens are numbered as they are minted.                       *)
(***************************************************************************)
EXTENDS Naturals, FiniteSets

CONSTANTS
  Handlers,            \* requests the worker may be handling
  Grants, NoGrant,
  SELF_GRANT_PER_IP,
  MaxTokens            \* bound

VARIABLES
  comp,        \* the computer's files: pending (enroll journal), relay, next
               \* (rekey journal, 0 for none), waits: the handler it waits for
  tokens,      \* tokens minted so far
  handler,     \* handler -> what it does
  used,        \* D1: grant -> slots used (max_daemons is 1)
  claimed,     \* D1: grants minted for this address in the window
  daemonRow,   \* D1: the row of the computer
  roomMeta,    \* the room's row: token (0 after a kick) and grant
  overlapped   \* history: the computer asked again while a handler ran

enrollVars == <<comp, tokens, handler, used, claimed, daemonRow, roomMeta, overlapped>>

NoHandler == "none"

(* Neither marker is one of the things it stands beside.                   *)
ASSUME EnrollmentAssumption == NoGrant \notin Grants /\ NoHandler \notin Handlers

NoDaemonRow == [st |-> "none", grant |-> NoGrant, released |-> FALSE]
NoMeta == [st |-> "none", token |-> 0, grant |-> NoGrant]
Resting == [pc |-> "rest", token |-> 0, new |-> 0, grant |-> NoGrant]

EnrollmentInit ==
  /\ comp = [pending |-> 0, relay |-> 0, next |-> 0, waits |-> NoHandler]
  /\ tokens = 0
  /\ handler = [h \in Handlers |-> Resting]
  /\ used = [g \in Grants |-> 0] /\ claimed = {}
  /\ daemonRow = NoDaemonRow /\ roomMeta = NoMeta
  /\ overlapped = FALSE

At(h, pc) == handler[h].pc = pc
Goes(h, pc) == handler' = [handler EXCEPT ![h].pc = pc]
-----------------------------------------------------------------------------
(* The computer.                                                           *)
Asks(h, first) ==
  /\ comp.waits = NoHandler /\ At(h, "rest")
  /\ handler' = [handler EXCEPT ![h] = first]
  /\ overlapped' = (overlapped \/ \E k \in Handlers : ~ At(k, "rest"))

(* enrollV2: the token is in the journal before it is sent.                *)
EnrollV2(h) ==
  LET t == IF comp.pending = 0 THEN tokens + 1 ELSE comp.pending IN
  /\ comp.relay = 0 /\ t <= MaxTokens
  /\ tokens' = IF t > tokens THEN t ELSE tokens
  /\ comp' = [comp EXCEPT !.pending = t, !.waits = h]
  /\ Asks(h, [pc |-> "look", token |-> t, new |-> 0, grant |-> NoGrant])
  /\ UNCHANGED <<used, claimed, daemonRow, roomMeta>>

(* rekeyV2 and resumeRekeyV2.                                              *)
RekeyV2(h) ==
  LET t == IF comp.next = 0 THEN tokens + 1 ELSE comp.next IN
  /\ comp.relay > 0 /\ comp.relay # comp.next /\ t <= MaxTokens
  /\ tokens' = IF t > tokens THEN t ELSE tokens
  /\ comp' = [comp EXCEPT !.next = t, !.waits = h]
  /\ Asks(h, [pc |-> "rekeylook", token |-> comp.relay, new |-> t, grant |-> NoGrant])
  /\ UNCHANGED <<used, claimed, daemonRow, roomMeta>>

(* SaveRelay comes before the journal is cleared; the process may die in   *)
(* between, and reconcilePendingEnroll or finishPendingRekey clears it.    *)
ClearJournal ==
  /\ comp.waits = NoHandler
  /\ \/ comp.pending > 0 /\ comp.relay = comp.pending /\ comp' = [comp EXCEPT !.pending = 0]
     \/ comp.next > 0 /\ comp.relay = comp.next /\ comp' = [comp EXCEPT !.next = 0]
  /\ UNCHANGED <<tokens, handler, used, claimed, daemonRow, roomMeta, overlapped>>

(* The answer is lost, or comes after 15 s, or the computer goes down.     *)
GivesUp ==
  /\ comp.waits # NoHandler
  /\ comp' = [comp EXCEPT !.waits = NoHandler]
  /\ UNCHANGED <<tokens, handler, used, claimed, daemonRow, roomMeta, overlapped>>

(* The handler answers; with ok the computer saves the token it sent.      *)
Answers(h, ok) ==
  /\ handler' = [handler EXCEPT ![h] = Resting]
  /\ comp' = IF comp.waits # h THEN comp
             ELSE [comp EXCEPT !.waits = NoHandler,
                     !.relay = IF ~ ok THEN @ ELSE IF handler[h].new > 0
                               THEN handler[h].new ELSE handler[h].token]
  /\ UNCHANGED <<tokens, overlapped>>

(* The handler goes on to its next call.                                   *)
Continues(h, to) ==
  /\ handler' = [handler EXCEPT ![h] = to]
  /\ UNCHANGED <<comp, tokens, overlapped>>
-----------------------------------------------------------------------------
(* handleEnroll: an address over its limit, a failed read or a bad body is *)
(* refused at once.                                                        *)
Refused(h) ==
  /\ handler[h].pc \in {"look", "mint", "rekeylook"}
  /\ Answers(h, FALSE)
  /\ UNCHANGED <<used, claimed, daemonRow, roomMeta>>

Looks(h) ==
  /\ At(h, "look")
  /\ CASE daemonRow.st = "none" -> Continues(h, [handler[h] EXCEPT !.pc = "mint"])
       [] daemonRow.st = "kicked" -> Answers(h, FALSE)
       [] daemonRow.st = "live" ->
            Continues(h, [handler[h] EXCEPT !.pc = "verify", !.grant = daemonRow.grant])
  /\ UNCHANGED <<used, claimed, daemonRow, roomMeta>>

RoomAccepts(h) ==
  roomMeta.st # "none" /\ roomMeta.token = handler[h].token /\ roomMeta.grant = handler[h].grant

(* verifyRoomEnroll of a retry; a failure goes on to enroll the room.      *)
Verifies(h) ==
  /\ At(h, "verify")
  /\ \/ RoomAccepts(h) /\ Answers(h, TRUE)
     \/ Continues(h, [handler[h] EXCEPT !.pc = "finish"])
  /\ UNCHANGED <<used, claimed, daemonRow, roomMeta>>

\* A row whose token a kick has emptied counts as none.
MutRoomEnrolls(h) ==
  IF roomMeta.st = "none" \/ roomMeta.token = 0
  THEN roomMeta' = [st |-> "row", token |-> handler[h].token, grant |-> handler[h].grant]
  ELSE UNCHANGED roomMeta

(* RoomCore.enroll keeps a row it has.                                     *)
RoomEnrolls(h) ==
  IF roomMeta.st = "none"
  THEN roomMeta' = [st |-> "row", token |-> handler[h].token, grant |-> handler[h].grant]
  ELSE UNCHANGED roomMeta

EnrollsRoom(h) ==
  /\ At(h, "finish") \/ At(h, "room")
  /\ \/ /\ RoomEnrolls(h)
        /\ IF roomMeta.st = "none" \/ RoomAccepts(h) THEN Answers(h, TRUE)
           ELSE IF At(h, "finish") THEN Answers(h, FALSE)
           ELSE Continues(h, [handler[h] EXCEPT !.pc = "abort"])
     \/ \* the call failed, with or without effect
        /\ RoomEnrolls(h) \/ UNCHANGED roomMeta
        /\ IF At(h, "finish") THEN Answers(h, FALSE)
           ELSE Continues(h, [handler[h] EXCEPT !.pc = "abort"])
  /\ UNCHANGED <<used, claimed, daemonRow>>

(* mintOpenGrant: the quota of the address is counted in the insert.       *)
Mints(h) ==
  /\ At(h, "mint")
  /\ IF Cardinality(claimed) >= SELF_GRANT_PER_IP
     THEN Answers(h, FALSE) /\ UNCHANGED claimed
     ELSE \E g \in Grants \ claimed :
            /\ claimed' = claimed \cup {g}
            /\ \/ Continues(h, [handler[h] EXCEPT !.pc = "insert", !.grant = g])
               \/ Answers(h, FALSE)
  /\ UNCHANGED <<used, daemonRow, roomMeta>>

(* enrollDaemonBatch: the slot of the grant and the row, or neither, since *)
(* the row's key is unique.  The answer to the batch may be lost.          *)
Inserts(h) ==
  /\ At(h, "insert")
  /\ \/ /\ daemonRow.st = "none"
        /\ used' = [used EXCEPT ![handler[h].grant] = @ + 1]
        /\ daemonRow' = [st |-> "live", grant |-> handler[h].grant, released |-> FALSE]
        /\ Answers(h, FALSE) \/ Continues(h, [handler[h] EXCEPT !.pc = "room"])
     \/ Answers(h, FALSE) /\ UNCHANGED <<used, daemonRow>>
  /\ UNCHANGED <<claimed, roomMeta>>

(* abortRoomEnroll is best effort; the room takes back only its own row.   *)
AbortsRoom(h) ==
  /\ At(h, "abort")
  /\ roomMeta' \in {roomMeta, IF RoomAccepts(h) THEN NoMeta ELSE roomMeta}
  /\ Continues(h, [handler[h] EXCEPT !.pc = "undo"])
  /\ UNCHANGED <<used, claimed, daemonRow>>

(* compensateEnroll, or it fails and the row stays.                        *)
Compensates(h) ==
  /\ At(h, "undo")
  /\ \/ /\ daemonRow' = NoDaemonRow
        /\ used' = IF daemonRow.grant = handler[h].grant /\ ~ daemonRow.released
                   THEN [used EXCEPT ![handler[h].grant] = @ - 1] ELSE used
     \/ UNCHANGED <<used, daemonRow>>
  /\ Answers(h, FALSE)
  /\ UNCHANGED <<claimed, roomMeta>>
-----------------------------------------------------------------------------
(* handleRekey.                                                            *)
RekeyLooks(h) ==
  /\ At(h, "rekeylook")
  /\ IF daemonRow.st = "live" THEN Continues(h, [handler[h] EXCEPT !.pc = "rekey"])
                              ELSE Answers(h, FALSE)
  /\ UNCHANGED <<used, claimed, daemonRow, roomMeta>>

\* The room takes the new token without a look at the old one.
MutRekeys(h) ==
  /\ At(h, "rekey")
  /\ roomMeta' = IF roomMeta.token > 0 THEN [roomMeta EXCEPT !.token = handler[h].new] ELSE roomMeta
  /\ Answers(h, roomMeta.token > 0) \/ Answers(h, FALSE)
  /\ UNCHANGED <<used, claimed, daemonRow>>

(* RoomCore.rekey: a token that is set already is a repeated request.      *)
Rekeys(h) ==
  LET set == roomMeta.token = handler[h].token \/ roomMeta.token = handler[h].new IN
  /\ At(h, "rekey")
  /\ roomMeta' = IF roomMeta.token > 0 /\ set
                 THEN [roomMeta EXCEPT !.token = handler[h].new] ELSE roomMeta
  /\ Answers(h, roomMeta.token > 0 /\ set) \/ Answers(h, FALSE)
  /\ UNCHANGED <<used, claimed, daemonRow>>

(* handleAdmin's kick: the room first, then kickDaemonRow, which reads the *)
(* row and then writes.                                                    *)
KickBegins(h) ==
  /\ At(h, "rest") /\ daemonRow.st # "none"
  /\ Continues(h, [Resting EXCEPT !.pc = "kickroom"])
  /\ UNCHANGED <<used, claimed, daemonRow, roomMeta>>

KicksRoom(h) ==
  /\ At(h, "kickroom")
  /\ roomMeta' = IF roomMeta.st = "none" THEN roomMeta ELSE [roomMeta EXCEPT !.token = 0]
  /\ Goes(h, "kickread") \/ Goes(h, "rest")
  /\ UNCHANGED <<comp, tokens, overlapped, used, claimed, daemonRow>>

KickReads(h) ==
  /\ At(h, "kickread")
  /\ Continues(h, IF daemonRow.st = "none" THEN Resting
                  ELSE [Resting EXCEPT !.pc = "kickrow", !.grant = daemonRow.grant])
  /\ UNCHANGED <<used, claimed, daemonRow, roomMeta>>

KicksRow(h) ==
  /\ At(h, "kickrow")
  /\ IF daemonRow.st = "none" THEN UNCHANGED <<used, daemonRow>>
     ELSE /\ daemonRow' = [daemonRow EXCEPT !.st = "kicked", !.released = TRUE]
          /\ used' = IF daemonRow.grant = handler[h].grant /\ ~ daemonRow.released
                     THEN [used EXCEPT ![daemonRow.grant] = @ - 1] ELSE used
  /\ Continues(h, Resting)
  /\ UNCHANGED <<claimed, roomMeta>>

(* The platform drops a handler.                                           *)
HandlerDies(h) ==
  /\ ~ At(h, "rest")
  /\ Continues(h, Resting)
  /\ UNCHANGED <<used, claimed, daemonRow, roomMeta>>

EnrollmentNext ==
  \/ ClearJournal \/ GivesUp
  \/ \E h \in Handlers :
       \/ EnrollV2(h) \/ RekeyV2(h) \/ Refused(h) \/ Looks(h) \/ Verifies(h)
       \/ EnrollsRoom(h) \/ Mints(h) \/ Inserts(h) \/ AbortsRoom(h) \/ Compensates(h)
       \/ RekeyLooks(h) \/ Rekeys(h) \/ KickBegins(h) \/ KicksRoom(h) \/ KickReads(h)
       \/ KicksRow(h) \/ HandlerDies(h)

EnrollmentSpec == EnrollmentInit /\ [][EnrollmentNext]_enrollVars
-----------------------------------------------------------------------------
(* The computer is never locked out by a lost answer: the token the room   *)
(* expects is one its files hold, through retries, handlers that outlive   *)
(* their request, and a process that dies between two saves.               *)
TokenIsHeld ==
  roomMeta.token > 0 => roomMeta.token \in {comp.pending, comp.relay, comp.next}

(* A computer that holds a relay token is enrolled in both places, with    *)
(* one grant, or was kicked.  (A handler that fails after the computer has *)
(* asked again may take back what the second request was told: overlapped.) *)
ReadyIsEnrolled ==
  comp.relay > 0 /\ ~ overlapped =>
    daemonRow.st # "none" /\ roomMeta.st # "none" /\ roomMeta.grant = daemonRow.grant

(* A slot is charged for every computer that holds one, and for one that   *)
(* was kicked the slot was given back once.                                *)
QuotaCoversDaemon ==
  \A g \in Grants : used[g] \in 0..1 /\ (daemonRow.grant = g /\ ~ daemonRow.released => used[g] = 1)

(* A kick is final: nothing gives the room of a kicked computer a token    *)
(* again.                                                                  *)
KickedStaysKicked == roomMeta.st # "none" /\ roomMeta.token = 0 => roomMeta'.token = 0

(* Lost answers, late handlers and crashes between saves leave the         *)
(* computer, the room and the database with one story: the token is held,  *)
(* the enrolment is in both places, the quota counts it once.              *)
EnrollmentHolds == TokenIsHeld /\ ReadyIsEnrolled /\ QuotaCoversDaemon

(* A room that an administrator kicked is not enrolled again behind their  *)
(* back, whatever handler was under way.                                   *)
KickIsFinal == [][KickedStaysKicked]_enrollVars
=============================================================================
