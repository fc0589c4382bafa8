-------------------------- MODULE ChatAttachments --------------------------
(***************************************************************************)
(* What hangs on an agent chat besides its transcript: the image strip of  *)
(* the compose field (agent-compose.tsx, agent-compose-images.ts), the     *)
(* details of tool calls (agent-chat-detail.ts, agent-trace-cache.ts) and  *)
(* the reader's open and closed choices (details.ts).  The draft is the    *)
(* set of image markers in it and whether it holds other text.             *)
(***************************************************************************)
EXTENDS Naturals, FiniteSets

CONSTANTS
  Owners, NoOwnerKey,  \* sessionOwner keys: a session and a pane
  Calls,               \* tool calls of a transcript
  MAX_DETAILS_PER_PANE,
  MaxOrdinal, MaxPictures

VARIABLES
  mounted,    \* the owner whose compose field is mounted
  promptText, \* composeDraft: its markers, and whether it has other text
  inFlight,   \* the prompt being sent, by whom, and its pictures still shown
  images,     \* the strip: key and marker
  liveURLs,
  imageKey

VARIABLES
  boundKey,   \* the owner whose transcript is shown
  toolDetail, \* per owner: calls with a state and how recent it is
  toolReads,  \* agentTraceDetail calls under way
  choices     \* choice of each call, with the owner that made it

stripVars == <<mounted, promptText, inFlight, images, liveURLs, imageKey>>
toolVars == <<boundKey, toolDetail, toolReads, choices>>

NoText == [marks |-> {}, words |-> FALSE]
NotSending == [text |-> NoText, by |-> NoOwnerKey, shown |-> {}]
NoChoice == [made |-> "none", by |-> NoOwnerKey]

StripInit ==
  /\ mounted = NoOwnerKey /\ promptText = NoText /\ inFlight = NotSending
  /\ images = {} /\ liveURLs = {} /\ imageKey = 0
ToolsInit ==
  /\ boundKey = NoOwnerKey /\ choices = [c \in Calls |-> NoChoice]
  /\ toolDetail = [o \in Owners |-> {}] /\ toolReads = {}
-----------------------------------------------------------------------------
operationBusy == inFlight # NotSending

(* The effects that follow a draft: a thumbnail goes with its marker, but  *)
(* not while the draft is empty because it is being sent.                  *)
Kept(d, sending, strip) ==
  IF d # NoText THEN {i \in strip : i.marker \in d.marks}
  ELSE IF sending THEN strip ELSE {}

Drafted(d, sending, strip) ==
  /\ promptText' = d
  /\ images' = Kept(d, sending, strip)
  /\ liveURLs' = liveURLs \ {i.key : i \in images \ images'}

nextImageOrdinal(d) == 1 + (IF d.marks = {} THEN 0
                            ELSE CHOOSE m \in d.marks : \A n \in d.marks : n <= m)

(* attachFiles, for a file that fits.                                      *)
attachFiles ==
  LET n == nextImageOrdinal(promptText)
      d == [promptText EXCEPT !.marks = @ \cup {n}]
      i == [key |-> imageKey + 1, marker |-> n]
  IN /\ mounted # NoOwnerKey /\ ~ operationBusy
     /\ n <= MaxOrdinal /\ imageKey < MaxPictures
     /\ imageKey' = imageKey + 1
     /\ promptText' = d /\ images' = Kept(d, FALSE, images) \cup {i}
     /\ liveURLs' = (liveURLs \ {j.key : j \in images \ images'}) \cup {i.key}
     /\ UNCHANGED <<mounted, inFlight>>

removeImage(i) ==
  /\ mounted # NoOwnerKey /\ i \in images
  /\ LET d == [promptText EXCEPT !.marks = @ \ {i.marker}]
     IN /\ promptText' = d /\ images' = Kept(d, operationBusy, images \ {i})
        /\ liveURLs' = liveURLs \ {j.key : j \in images \ images'}
  /\ inFlight' = [inFlight EXCEPT !.shown = @ \ {i}]
  /\ UNCHANGED <<mounted, imageKey>>

(* Typing: any marker may be deleted or typed by hand, and the words too.  *)
syncDraft ==
  /\ mounted # NoOwnerKey /\ ~ operationBusy
  /\ \E marks \in SUBSET (1..MaxOrdinal), words \in BOOLEAN :
       Drafted([marks |-> marks, words |-> words], FALSE, images)
  /\ UNCHANGED <<mounted, inFlight, imageKey>>

SendPictures ==
  /\ mounted # NoOwnerKey /\ ~ operationBusy /\ promptText # NoText
  /\ inFlight' = [text |-> promptText, by |-> mounted, shown |-> images]
  /\ Drafted(NoText, TRUE, images)
  /\ UNCHANGED <<mounted, imageKey>>

(* The send settles: a failure puts the text back where it came from.      *)
SendSettles ==
  /\ operationBusy
  /\ \E failed \in BOOLEAN :
       IF mounted = NoOwnerKey THEN UNCHANGED <<promptText, images, liveURLs>>
       ELSE Drafted(IF failed /\ mounted = inFlight.by /\ promptText = NoText
                    THEN inFlight.text ELSE promptText, FALSE, images)
  /\ inFlight' = NotSending
  /\ UNCHANGED <<mounted, imageKey>>

(* The field of an owner is mounted, with the stored draft of its pane;    *)
(* the unmount revokes every preview.                                      *)
Mount(o) ==
  /\ mounted = NoOwnerKey
  /\ mounted' = o /\ imageKey' = 0
  /\ promptText' \in [marks : SUBSET (1..MaxOrdinal), words : BOOLEAN]
  /\ UNCHANGED <<inFlight, images, liveURLs>>

Unmount ==
  /\ mounted # NoOwnerKey
  /\ mounted' = NoOwnerKey /\ promptText' = NoText /\ images' = {} /\ liveURLs' = {}
  /\ inFlight' = [inFlight EXCEPT !.shown = {}]
  /\ UNCHANGED imageKey

StripNext ==
  \/ attachFiles \/ \E i \in images : removeImage(i)
  \/ syncDraft \/ SendPictures \/ SendSettles
  \/ \E o \in Owners : Mount(o)
  \/ Unmount
-----------------------------------------------------------------------------
(* The transcript of an owner is shown: adoptChatDetailsOwner.             *)
adoptChatDetailsOwner(o) ==
  /\ boundKey # o /\ boundKey' = o
  /\ choices' = [c \in Calls |-> NoChoice]
  /\ UNCHANGED <<toolDetail, toolReads>>

(* setAgentTraceDetailState: a new state makes its call the newest, and    *)
(* the oldest go.  A call is not read twice at a time for the same owner.  *)
State(o, c) == {d \in toolDetail[o] : d.call = c}
Status(o, c) == IF State(o, c) = {} THEN "idle" ELSE (CHOOSE d \in State(o, c) : TRUE).status
setAgentTraceDetailState(o, c, status) ==
  LET others == {[d EXCEPT !.age = @ + 1] : d \in toolDetail[o] \ State(o, c)}
      older == {d \in others : Cardinality({e \in others : e.age < d.age})
                                 >= MAX_DETAILS_PER_PANE - 1}
      left == others \ older
      rank(d) == Cardinality({e \in left : e.age < d.age}) + 1
  IN toolDetail' = [toolDetail EXCEPT ![o] =
       {[d EXCEPT !.age = rank(d)] : d \in left}
       \cup {[call |-> c, status |-> status, age |-> 0]}]

loadToolDetail(c) ==
  /\ boundKey # NoOwnerKey /\ Status(boundKey, c) \in {"idle", "error"}
  /\ <<boundKey, c>> \notin toolReads
  /\ setAgentTraceDetailState(boundKey, c, "loading")
  /\ toolReads' = toolReads \cup {<<boundKey, c>>}
  /\ UNCHANGED <<boundKey, choices>>

DetailAnswer(r) ==
  /\ r \in toolReads /\ toolReads' = toolReads \ {r}
  /\ IF Status(r[1], r[2]) # "loading" THEN UNCHANGED toolDetail
     ELSE \E s \in {"ready", "error"} : setAgentTraceDetailState(r[1], r[2], s)
  /\ UNCHANGED <<boundKey, choices>>

(* forgetAgentTrace, clearAgentTraceCache, and the eviction of a pane.     *)
forgetAgentTrace(o) ==
  /\ toolDetail[o] # {}
  /\ toolDetail' = [toolDetail EXCEPT ![o] = {}]
  /\ UNCHANGED <<toolReads, boundKey, choices>>

(* A toggle may arrive from a view that was since replaced.                *)
recordChatDetailChoice(c, o, made) ==
  /\ boundKey # NoOwnerKey /\ o = boundKey
  /\ choices' = [choices EXCEPT ![c] = [made |-> made, by |-> o]]
  /\ UNCHANGED <<toolDetail, toolReads, boundKey>>
-----------------------------------------------------------------------------
ToolsNext ==
  \/ \E o \in Owners : adoptChatDetailsOwner(o) \/ forgetAgentTrace(o)
  \/ \E c \in Calls : loadToolDetail(c)
  \/ \E r \in toolReads : DetailAnswer(r)
  \/ \E c \in Calls, o \in Owners, made \in {"open", "closed"} :
       recordChatDetailChoice(c, o, made)
-----------------------------------------------------------------------------
(* Preview URLs neither leak nor are revoked under a picture on screen,    *)
(* every picture is one the text or the prompt being sent speaks of, and a *)
(* send that may still fail keeps the pictures it would show again.        *)
PreviewsMatchTheDraft ==
  /\ liveURLs = {i.key : i \in images}
  /\ \A i \in images : i.marker \in promptText.marks \cup inFlight.text.marks
  /\ \A i, j \in images : i.marker = j.marker => i = j
  /\ mounted # NoOwnerKey /\ ~ operationBusy /\ promptText = NoText => images = {}
  /\ inFlight.shown \subseteq images

(* A call that says it is loading is being read, so it can end; and there  *)
(* are never more states than the bound.                                   *)
LoadingIsRead ==
  \A o \in Owners :
    /\ \A d \in toolDetail[o] : d.status = "loading" => <<o, d.call>> \in toolReads
    /\ Cardinality(toolDetail[o]) <= MAX_DETAILS_PER_PANE

(* The choices in force were made in the view they apply to.               *)
ChoicesAreOwn == \A c \in Calls : choices[c].by \in {NoOwnerKey, boundKey}
=============================================================================
