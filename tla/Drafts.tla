------------------------------- MODULE Drafts -------------------------------
(***************************************************************************)
(* Unsent text on the phone (session/drafts, connection/open-pane.ts,      *)
(* guided/compose.ts, chat/agent-chat-controller.ts).  One field is on the *)
(* screen; every scope (computer, pane, input mode) keeps its own stored   *)
(* draft, bounded by MAX_DRAFTS.  A prompt in flight owns the text it took *)
(* until it settles; a live field whose pane is replaced while it hands    *)
(* its text over parks it.                                                 *)
(*                                                                         *)
(* Text is a set of words, numbered as they are typed.  A revision is only *)
(* ever compared with that of a prompt in flight, so `owner` names that    *)
(* prompt or nobody.                                                       *)
(***************************************************************************)
EXTENDS Naturals, Sequences, SequencesExt, FiniteSets

CONSTANTS Scopes, NoScope, MAX_DRAFTS, MaxWords, MaxPrompts

VARIABLES
  scopeNow,   \* currentComposeDraftScope
  field,      \* composeDraft
  composing,  \* composeIME
  drafts,     \* scope -> text and the prompt whose revision it carries
  recent,     \* the scopes with an entry, least recently written first
  parked,     \* scopes with a park mark
  prompts,    \* prompts in flight; view: the view that sent it is on screen
  home,       \* word -> the scope it was typed in
  settled     \* words sent, deleted, evicted or given up

draftVars == <<scopeNow, field, composing, drafts, recent, parked, prompts,
               home, settled>>

Nobody0 == 0
Words == DOMAIN home
Blank == [text |-> {}, owner |-> Nobody0]
promptBusy == \E p \in prompts : p.view

DraftsInit ==
  /\ scopeNow = NoScope /\ field = {} /\ composing = FALSE
  /\ drafts = [s \in Scopes |-> Blank] /\ recent = <<>> /\ parked = {}
  /\ prompts = {} /\ home = <<>> /\ settled = {}
-----------------------------------------------------------------------------
(* The store, as a record that operations pass on.                         *)
Store == [drafts |-> drafts, recent |-> recent, parked |-> parked, lost |-> {}]

Keeps(st) ==
  /\ drafts' = st.drafts /\ recent' = st.recent /\ parked' = st.parked

touch(st, s) ==
  LET order == Append(Remove(st.recent, s), s)
      old   == {order[i] : i \in 1..(Len(order) - MAX_DRAFTS)}
  IN  [drafts |-> [t \in Scopes |-> IF t \in old THEN Blank ELSE st.drafts[t]],
       recent |-> SelectSeq(order, LAMBDA t : t \notin old),
       parked |-> st.parked \ old,
       lost   |-> st.lost \cup UNION {st.drafts[t].text : t \in old}
                  \cup UNION {p.text : p \in {q \in prompts :
                                q.of \in old /\ st.drafts[q.of].owner = q.id}}]

writeStoredDraft(st, s, text, owner) ==
  touch([st EXCEPT !.drafts[s] = [text |-> text, owner |-> owner]], s)

clearParkedDraft(st, s) == [st EXCEPT !.parked = @ \ {s}]

(* An entry that was never written and is empty stays away.                *)
captureComposeDraft(st, s, shown) ==
  CASE s = NoScope -> st
    [] s # NoScope /\ shown = st.drafts[s].text ->
         clearParkedDraft(IF Contains(st.recent, s) THEN touch(st, s) ELSE st, s)
    [] s # NoScope /\ shown = {} /\ st.drafts[s].text # {} /\ s \in st.parked -> st
    [] OTHER -> clearParkedDraft(writeStoredDraft(st, s, shown, Nobody0), s)

(* What a scope's field shows when it is applied.                          *)
draftOf(st, s) == IF s = NoScope THEN {} ELSE st.drafts[s].text

bumpViewIncarnation == prompts' = {[p EXCEPT !.view = FALSE] : p \in prompts}

Evicts(st) == settled' = settled \cup st.lost
-----------------------------------------------------------------------------
\* Mutant: the draft of the scope that is shown next is not applied.
MutSwitchComposeView(s) ==
  /\ scopeNow # NoScope /\ s \notin {NoScope, scopeNow}
  /\ scopeNow' = s
  /\ Keeps(captureComposeDraft(Store, scopeNow, field))
  /\ Evicts(captureComposeDraft(Store, scopeNow, field))
  /\ bumpViewIncarnation
  /\ UNCHANGED <<field, composing, home>>

(* Another input mode of the pane: enterFullTerminal, enterAgentChat,      *)
(* leaveAgentChat; the composition of a field that goes is not committed.  *)
switchComposeView(s) ==
  /\ scopeNow # NoScope /\ s \notin {NoScope, scopeNow}
  /\ LET st == captureComposeDraft(Store, scopeNow, field) IN
       /\ Keeps(clearParkedDraft(st, s)) /\ Evicts(st)
       /\ field' = draftOf(st, s)
  /\ scopeNow' = s
  /\ bumpViewIncarnation
  /\ UNCHANGED <<composing, home>>

(* The field keeps its text while settings, computers, the board or the    *)
(* workspace are shown: parkComposeView, then goToScreen.                  *)
parkComposeView ==
  /\ scopeNow # NoScope
  /\ Keeps(captureComposeDraft(Store, scopeNow, field))
  /\ Evicts(captureComposeDraft(Store, scopeNow, field))
  /\ scopeNow' = NoScope
  /\ bumpViewIncarnation
  /\ UNCHANGED <<field, composing, home>>

(* leaveSettings, leaveComputers, restoreWorkspaceLeave.                   *)
ReturnsToPane(s) ==
  /\ scopeNow = NoScope
  /\ scopeNow' = s /\ field' = draftOf(Store, s)
  /\ Keeps(clearParkedDraft(Store, s))
  /\ bumpViewIncarnation
  /\ UNCHANGED <<composing, home, settled>>

(* goBackFromPane, abandonOpenPane, dropPaneIfCurrent.                     *)
leavePaneScreen ==
  /\ scopeNow # NoScope
  /\ Keeps(captureComposeDraft(Store, scopeNow, field))
  /\ Evicts(captureComposeDraft(Store, scopeNow, field))
  /\ scopeNow' = NoScope /\ field' = {} /\ composing' = FALSE
  /\ bumpViewIncarnation
  /\ UNCHANGED <<home>>

(* openPaneWithOwner shows the stored draft without applyComposeDraft: a   *)
(* park mark stays.                                                        *)
OpenPaneAt(s) ==
  /\ LET st == captureComposeDraft(Store, scopeNow, field) IN
       /\ Keeps(st) /\ Evicts(st)
       /\ field' = draftOf(st, s)
  /\ scopeNow' = s /\ composing' = FALSE
  /\ bumpViewIncarnation
  /\ UNCHANGED <<home>>
-----------------------------------------------------------------------------
NextWord == Len(home) + 1

(* The agent's field is disabled while its prompt is out.                  *)
Types ==
  /\ scopeNow # NoScope /\ ~ composing /\ ~ promptBusy /\ Len(home) < MaxWords
  /\ home' = Append(home, scopeNow)
  /\ field' = field \cup {NextWord}
  /\ UNCHANGED <<scopeNow, composing, drafts, recent, parked, prompts, settled>>

Deletes ==
  /\ scopeNow # NoScope /\ field # {} /\ ~ composing /\ ~ promptBusy
  /\ field' = {}
  /\ settled' = settled \cup field
  /\ UNCHANGED <<scopeNow, composing, drafts, recent, parked, prompts, home>>

(* The draft does not follow the field during a composition.               *)
CompositionStarts ==
  /\ scopeNow # NoScope /\ ~ composing /\ ~ promptBusy
  /\ composing' = TRUE
  /\ UNCHANGED <<scopeNow, field, drafts, recent, parked, prompts, home,
                 settled>>

finishComposeComposition ==
  /\ composing /\ scopeNow # NoScope /\ Len(home) < MaxWords
  /\ composing' = FALSE
  /\ home' = Append(home, scopeNow)
  /\ field' = field \cup {NextWord}
  /\ UNCHANGED <<scopeNow, drafts, recent, parked, prompts, settled>>

parkLiveComposeText(st, s, text) ==
  LET merged == writeStoredDraft(st, s, text \cup st.drafts[s].text, Nobody0)
  IN  [merged EXCEPT !.parked = @ \cup {s}]

(* takeLiveField clears the draft; a subscriber of that publication moves  *)
(* the view to another pane, or to a new incarnation of the same, and the  *)
(* text that was being handed over comes back to its own pane's draft.  A  *)
(* replacement of the same scope that shows text of its own will overwrite *)
(* it.                                                                     *)
takeLiveField(s) ==
  /\ scopeNow # NoScope /\ ~ composing /\ ~ promptBusy /\ Len(home) < MaxWords
  /\ LET text  == field \cup {NextWord}
         moved == captureComposeDraft(Store, scopeNow, {})
         st    == parkLiveComposeText(moved, scopeNow, text)
     IN  /\ Keeps(st)
         /\ field' = draftOf(moved, s)
         /\ settled' = settled \cup st.lost
                        \cup (IF s = scopeNow /\ field' # {} THEN text ELSE {})
  /\ home' = Append(home, scopeNow)
  /\ scopeNow' = s
  /\ bumpViewIncarnation
  /\ UNCHANGED <<composing>>
-----------------------------------------------------------------------------
FreshPrompt == CHOOSE n \in 1..MaxPrompts : \A p \in prompts : p.id # n

submitAgentPrompt ==
  /\ scopeNow # NoScope /\ field # {} /\ ~ composing /\ ~ promptBusy
  /\ Cardinality(prompts) < MaxPrompts
  /\ LET st == writeStoredDraft(Store, scopeNow, {}, FreshPrompt) IN
       Keeps(st) /\ Evicts([st EXCEPT !.lost = @ \ field])
  /\ prompts' = prompts \cup {[id |-> FreshPrompt, of |-> scopeNow, text |-> field,
                               view |-> TRUE]}
  /\ field' = {}
  /\ UNCHANGED <<scopeNow, composing, home>>

(* Text typed in the prompt's own scope since it was sent is stored first. *)
captureNewerVisibleDraft(p) ==
  IF scopeNow = p.of /\ field # {}
  THEN captureComposeDraft(Store, scopeNow, field) ELSE Store

ownsStoredAttempt(st, p) == st.drafts[p.of].owner = p.id
Disowned(st, p) == [st EXCEPT !.drafts[p.of].owner = IF @ = p.id THEN Nobody0 ELSE @]

settlePromptSuccess(p) ==
  /\ LET st == captureNewerVisibleDraft(p)
         to == IF ownsStoredAttempt(st, p)
               THEN writeStoredDraft(st, p.of, {}, Nobody0) ELSE st
     IN  Keeps(to) /\ settled' = settled \cup to.lost \cup p.text
  /\ prompts' = prompts \ {p}
  /\ UNCHANGED <<scopeNow, field, composing, home>>

(* The text of a refused prompt comes back, to the field or to the store,  *)
(* unless newer text is there.                                             *)
recoverComposeDraft(st, p) ==
  IF ~ ownsStoredAttempt(st, p) THEN [st |-> st, shown |-> field, yields |-> {}]
  ELSE IF scopeNow = p.of /\ composing
       THEN [st |-> Disowned(touch(st, p.of), p), shown |-> field, yields |-> p.text]
  ELSE [st |-> Disowned(writeStoredDraft(st, p.of, p.text, p.id), p),
        shown |-> IF scopeNow = p.of THEN p.text ELSE field, yields |-> {}]

settlePromptFailure(p) ==
  /\ LET to == recoverComposeDraft(captureNewerVisibleDraft(p), p) IN
       /\ Keeps(to.st) /\ field' = to.shown
       /\ settled' = settled \cup to.st.lost \cup to.yields
  /\ prompts' = prompts \ {p}
  /\ UNCHANGED <<scopeNow, composing, home>>

(* The prompt may have reached the agent: it is not offered again.         *)
UnknownOutcome(p) ==
  /\ LET st == captureNewerVisibleDraft(p) IN
       /\ Keeps(Disowned(IF ownsStoredAttempt(st, p) THEN touch(st, p.of) ELSE st, p))
       /\ settled' = settled \cup st.lost \cup p.text
  /\ prompts' = prompts \ {p}
  /\ UNCHANGED <<scopeNow, field, composing, home>>
-----------------------------------------------------------------------------
DraftsNext ==
  \/ \E s \in Scopes : \/ switchComposeView(s) \/ ReturnsToPane(s) \/ OpenPaneAt(s)
                       \/ takeLiveField(s)
  \/ parkComposeView \/ leavePaneScreen
  \/ Types \/ Deletes \/ CompositionStarts \/ finishComposeComposition
  \/ submitAgentPrompt
  \/ \E p \in prompts : settlePromptSuccess(p) \/ settlePromptFailure(p) \/ UnknownOutcome(p)
-----------------------------------------------------------------------------
Shown == IF scopeNow = NoScope THEN {} ELSE field

(* Text never crosses scopes: the field holds only words typed in the      *)
(* scope on the screen, and a stored draft only its own scope's.           *)
DraftsStayHome ==
  /\ \A w \in Shown : home[w] = scopeNow
  /\ \A s \in Scopes : \A w \in drafts[s].text : home[w] = s

(* Unsent text is never silently lost: a word that was neither sent nor    *)
(* deleted, evicted or given up is on the screen, stored, or in a prompt   *)
(* in flight, unless something newer was typed in its place.               *)
UnsentTextIsKept ==
  \A w \in Words \ settled :
    \/ w \in Shown \cup drafts[home[w]].text
    \/ \E p \in prompts : w \in p.text
    \/ \E v \in Words : v > w /\ home[v] = home[w]

=============================================================================
