--------------------------- MODULE GuardedSubmit ---------------------------
(* Submitting the buffered text of a guided pane: type, read until the text *)
(* is seen, and only then press Enter (guided/compose.ts submitTyped,       *)
(* lib/guarded.ts), with the daemon's second look before Enter              *)
(* (rpc_input.go dispatchSendKeys).  A screen is what the pane shows of the *)
(* submitted text: `old' occurrences that were there before, how much of    *)
(* what was typed the program has echoed (2 is all of it), and whether a    *)
(* dialog covers the rest; its hash is the screen itself.                   *)
EXTENDS Integers, FiniteSets

CONSTANTS
  MAX_READS,    \* maxReads of guardedReply
  MaxSubmits,   \* bound: submissions in a run
  MaxWording    \* bound: changes of the draft

VARIABLES
  screen,       \* [old, echoed, dialog]
  inPty,        \* text the pane has got and its program has not submitted
  wording,      \* composeDraft(): a number per wording, 0 is empty
  attempt,       \* the running submitTyped, or NoSubmit
  owner,        \* does the view that submitted still own the pane?
  pressed,      \* Enters executed: the screens they were executed on
  handed,       \* the wordings whose text was typed into the pane
  submits,
  wordings

guardVars == <<screen, inPty, wording, attempt, owner, pressed, handed, submits, wordings>>

NoScreen == [old |-> 0, echoed |-> 0, dialog |-> FALSE]
NoSubmit == [step |-> "none", text |-> 0, base |-> NoScreen, seen |-> NoScreen, reads |-> 0]

GuardInit ==
  /\ screen \in {[NoScreen EXCEPT !.old = n] : n \in 0 .. 1} /\ inPty = FALSE
  /\ wording = 0 /\ attempt = NoSubmit /\ owner = FALSE
  /\ pressed = {} /\ handed = {} /\ submits = 0 /\ wordings = 0

(* What a reader of the screen counts, and what strings.Contains finds.     *)
visibleCount(s) == s.old + (IF s.echoed = 2 THEN 1 ELSE 0)
-----------------------------------------------------------------------------
(* The pane's program: it echoes what it got, opens or closes a dialog, and *)
(* scrolls old text away.  It shows the text again only if it was typed     *)
(* again.                                                                   *)
ProgramEchoes ==
  /\ inPty /\ screen.echoed < 2
  /\ screen' = [screen EXCEPT !.echoed = @ + 1]
  /\ UNCHANGED <<inPty, wording, attempt, owner, pressed, handed, submits, wordings>>

ProgramRedraws ==
  /\ \/ screen' = [screen EXCEPT !.dialog = ~ @]
     \/ screen' = [screen EXCEPT !.old = 0]
     \/ screen' = [screen EXCEPT !.echoed = 0]
  /\ UNCHANGED <<inPty, wording, attempt, owner, pressed, handed, submits, wordings>>

ReaderTypes ==
  /\ wordings < MaxWording
  /\ wordings' = wordings + 1 /\ wording' = wordings'
  /\ UNCHANGED <<screen, inPty, attempt, owner, pressed, handed, submits>>

(* The reader leaves the pane: isActive and ownsSubmit are false for good.  *)
ReaderLeaves ==
  /\ owner
  /\ owner' = FALSE
  /\ UNCHANGED <<screen, inPty, wording, attempt, pressed, handed, submits, wordings>>

To(step) == attempt' = [attempt EXCEPT !.step = step]

(* submitTyped up to the baseline read.                                     *)
SubmitTyped ==
  /\ attempt = NoSubmit /\ wording # 0 /\ submits < MaxSubmits
  /\ attempt' = [NoSubmit EXCEPT !.step = "baseline", !.text = wording]
  /\ owner' = TRUE /\ submits' = submits + 1
  /\ UNCHANGED <<screen, inPty, wording, pressed, handed, wordings>>

(* The baseline read answers, and the text is sent if the view still owns   *)
(* the pane; a failing read ends the submission.  What an abandoned         *)
(* submission left in the pane counts as old text from here on.             *)
Aged(s) == [s EXCEPT !.old = visibleCount(s), !.echoed = 0]

BaselineRead ==
  /\ attempt.step = "baseline"
  /\ \/ /\ owner
        /\ screen' = Aged(screen) /\ inPty' = TRUE
        /\ attempt' = [attempt EXCEPT !.step = "typing", !.base = Aged(screen)]
     \/ attempt' = NoSubmit /\ UNCHANGED <<screen, inPty>>
  /\ UNCHANGED <<wording, owner, pressed, handed, submits, wordings>>

(* SendText is answered: the draft is cleared if it still reads as it was   *)
(* sent.  A failure ends the submission; then the pane may have the text or *)
(* not.                                                                     *)
TextSent ==
  /\ attempt.step = "typing"
  /\ \/ /\ To("reading") /\ UNCHANGED inPty
        /\ wording' = IF owner /\ wording = attempt.text THEN 0 ELSE wording
        /\ handed' = handed \cup {attempt.text}
     \/ /\ attempt' = NoSubmit /\ UNCHANGED <<wording, handed>>
        /\ inPty' \in {inPty, inPty /\ screen.echoed > 0}
  /\ UNCHANGED <<screen, owner, pressed, submits, wordings>>

Confirmed(s) == s # attempt.base /\ visibleCount(s) > visibleCount(attempt.base)

(* One turn of guardedReply's loop: a retryable error costs a read, any     *)
(* other ends it, the last read stalls, and so does a view that lost the    *)
(* pane; a confirmed screen sends Enter with its hash.                      *)
ReadAgain ==
  IF attempt.reads + 1 < MAX_READS
  THEN attempt' = [attempt EXCEPT !.reads = @ + 1]
  ELSE attempt' = NoSubmit

LoopRead ==
  /\ attempt.step = "reading"
  /\ \/ ReadAgain
     \/ attempt' = NoSubmit
     \/ owner /\ Confirmed(screen) /\ attempt' = [attempt EXCEPT !.step = "enter", !.seen = screen]
     \/ owner /\ ~ Confirmed(screen) /\ ReadAgain
  /\ UNCHANGED <<screen, inPty, wording, owner, pressed, handed, submits, wordings>>

(* dispatchSendKeys with intent "submit": the prompt must be on the screen, *)
(* and the screen the one the phone saw; otherwise stale_prompt.            *)
DaemonChecks ==
  /\ attempt.step = "enter"
  /\ IF visibleCount(screen) > 0 /\ screen = attempt.seen THEN To("pressing")
     ELSE attempt' = NoSubmit
  /\ UNCHANGED <<screen, inPty, wording, owner, pressed, handed, submits, wordings>>

(* The runtime presses Enter: the program takes what it has got.            *)
DaemonPresses ==
  /\ attempt.step = "pressing"
  /\ pressed' = pressed \cup {[checked |-> attempt.seen, text |-> inPty]}
  /\ inPty' = FALSE
  /\ screen' \in {[screen EXCEPT !.echoed = 0], Aged(screen)}
  /\ attempt' = NoSubmit
  /\ UNCHANGED <<wording, owner, handed, submits, wordings>>

GuardNext ==
  \/ ProgramEchoes \/ ProgramRedraws \/ ReaderTypes \/ ReaderLeaves \/ SubmitTyped
  \/ BaselineRead \/ TextSent \/ LoopRead \/ DaemonChecks \/ DaemonPresses

GuardSpec == GuardInit /\ [][GuardNext]_guardVars
-----------------------------------------------------------------------------
(* Enter is pressed only on a screen that showed all of the text typed, not *)
(* an earlier occurrence of it and not half of it, and only while the text  *)
(* is still unsubmitted (guardedReply: "Type-then-read-then-Enter").        *)
EnterIsProven == \A p \in pressed : p.checked.echoed = 2 /\ p.text

(* What the reader typed while a submission was under way is still in the   *)
(* field, unless it was itself typed into the pane (guardedSubmit clears    *)
(* the draft only if it reads as it was sent).                              *)
NewWordingIsKept == wording = wordings \/ wordings \in handed
=============================================================================
