------------------------------ MODULE DiffNotes ------------------------------
(***************************************************************************)
(* Notes pinned to lines of a git diff, batched into one prompt            *)
(* (lib/diff-notes.ts, sendDiffNotesToAgent of operations/controller.ts).  *)
(* A scope is a session, a pane and a diff revision; a path and layer are  *)
(* one batch, and a pin is a line of it.  The body of a note is the number *)
(* of times it was written.                                                *)
(***************************************************************************)
EXTENDS Naturals, FiniteSets

CONSTANTS Revisions, NoRevision, Pins, MaxBody, MaxNoteId

VARIABLES
  noteScope,   \* scope
  notes,
  noteSerial,
  sendingIds,
  batch,       \* the prompt in flight: what it says, of which scope
  unsent       \* notes dropped by a send that did not say them

noteVars == <<noteScope, notes, noteSerial, sendingIds, batch, unsent>>

NoBatch == [says |-> {}, of |-> NoRevision, sess |-> FALSE]
visibleNotes == {n \in notes : noteScope # NoRevision /\ n.rev = noteScope}
AtPin(pin) == {n \in visibleNotes : n.pin = pin}

DiffNotesInit ==
  /\ noteScope = NoRevision /\ notes = {} /\ noteSerial = 0
  /\ sendingIds = {} /\ batch = NoBatch /\ unsent = {}

(* A diff is shown, or left; a new session has other revisions.            *)
adoptDiffNoteScope(s) ==
  /\ noteScope' = s
  /\ UNCHANGED <<notes, noteSerial, sendingIds, batch, unsent>>

Written(n) == [n EXCEPT !.body = @ + 1]
NewNote(pin) == [pin |-> pin, rev |-> noteScope, id |-> noteSerial + 1, body |-> 1]

(* upsertDiffNote: refused while the note is being sent.                   *)
upsertDiffNote(pin) ==
  /\ noteScope # NoRevision
  /\ \/ \E n \in AtPin(pin) : /\ n.id \notin sendingIds /\ n.body < MaxBody
                           /\ notes' = (notes \ {n}) \cup {Written(n)}
                           /\ UNCHANGED noteSerial
     \/ /\ AtPin(pin) = {} /\ noteSerial < MaxNoteId
        /\ notes' = notes \cup {NewNote(pin)} /\ noteSerial' = noteSerial + 1
  /\ UNCHANGED <<noteScope, sendingIds, batch, unsent>>

removeDiffNote(n) ==
  /\ n \in visibleNotes /\ n.id \notin sendingIds
  /\ notes' = notes \ {n}
  /\ UNCHANGED <<noteScope, noteSerial, sendingIds, batch, unsent>>
-----------------------------------------------------------------------------
(* sendDiffNotesToAgent: one batch at a time.  The runner may still refuse *)
(* (another operation began), which ends the send at once.                 *)
sendDiffNotesToAgent ==
  /\ noteScope # NoRevision /\ sendingIds = {} /\ visibleNotes # {}
  /\ sendingIds' = {n.id : n \in visibleNotes}
  /\ batch' = [says |-> visibleNotes, of |-> noteScope, sess |-> TRUE]
  /\ UNCHANGED <<noteScope, notes, noteSerial, unsent>>

(* Only the captured ids; notes added since survive.                       *)
removeDiffNotes == {n \in notes : n.id \notin {m.id : m \in batch.says}}

(* The answer, if the operation is still owned; then endDiffNoteSend.      *)
BatchSent ==
  /\ batch.sess
  /\ notes' = removeDiffNotes
  /\ unsent' = unsent \cup ((notes \ removeDiffNotes) \ batch.says)
  /\ sendingIds' = {} /\ batch' = NoBatch
  /\ UNCHANGED <<noteScope, noteSerial>>

endDiffNoteSend ==
  /\ batch # NoBatch
  /\ sendingIds' = {} /\ batch' = NoBatch
  /\ UNCHANGED <<noteScope, notes, noteSerial, unsent>>

(* The view of the send ends: its success will not be applied.             *)
SendDisowned ==
  /\ batch.sess
  /\ batch' = [batch EXCEPT !.sess = FALSE]
  /\ UNCHANGED <<noteScope, notes, noteSerial, sendingIds, unsent>>

DiffNotesNext ==
  \/ \E s \in Revisions \cup {NoRevision} : adoptDiffNoteScope(s)
  \/ \E pin \in Pins : upsertDiffNote(pin)
  \/ \E n \in notes : removeDiffNote(n)
  \/ sendDiffNotesToAgent \/ BatchSent \/ endDiffNoteSend \/ SendDisowned
-----------------------------------------------------------------------------
(* diff-notes.ts: "A send only removes the note IDs captured for that      *)
(* request", and a captured note reads as it was sent when it is removed:  *)
(* no note, and no later wording of one, is lost without having been said. *)
NoNoteIsLost == unsent = {}

(* "At most one note per pin inside one owner."                            *)
OneNotePerPin == \A m, n \in notes : m.pin = n.pin /\ m.rev = n.rev => m = n
=============================================================================
