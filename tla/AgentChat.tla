----------------------------- MODULE AgentChat -----------------------------
(***************************************************************************)
(* The transcript of the agent in the open pane (session/chat: the         *)
(* controller, trace-store.ts, agent-chat-detail.ts; lib/agent-trace-      *)
(* cache.ts, lib/agent-trace-view.ts; the daemon's journal pages).         *)
(* The journal of a pane is a sequence of events, the newest page its last *)
(* TRACE_PAGE events, a cursor the position a page ends before.  Prompts   *)
(* have distinct texts.  A request that is no longer the latest can never  *)
(* be applied, so only the latest one is kept.                             *)
(***************************************************************************)
EXTENDS Integers, Sequences, FiniteSets, SequencesExt

CONSTANTS
  ChatPanes, NoChatPane,
  TRACE_PAGE, OLDER_FILL_MAX, MAX_CACHED_PANES,
  MaxEvents,   \* events of the journals together
  MaxTurns, MaxLinks

VARIABLES
  chatLink,    \* the live session, numbered; 0 is none
  chatUp,      \* session.isConnected()
  chatPane,    \* openPaneId()
  isAgentChat,
  journal,     \* per pane of the computer at hand
  narrow,      \* whether bytes, not TRACE_PAGE, limit the pages
  trace,       \* the ChatRecord
  fetch,       \* the latest refreshAgentTrace that still waits
  traceCache,  \* cached panes, the least recently used first
  prompt,      \* the submitted prompt that has not settled
  landing,     \* prompts the agent may still write to its journal
  turns      \* prompts submitted

chatVars == <<chatLink, chatUp, chatPane, isAgentChat, journal, narrow,
              trace, fetch, traceCache, prompt, landing, turns>>
promptVars == <<prompt, landing, turns>>

Owner == <<chatLink, chatPane>>
NoOwner == <<0, NoChatPane>>
Event(kind, n) == [kind |-> kind, text |-> n]
Placed(pos, e) == [pos |-> pos, kind |-> e.kind, text |-> e.text]

(* clearTraceRecord.  next is a cursor; 1 is the start of the journal, so  *)
(* no cursor.                                                              *)
clearTraceRecord ==
  [of |-> NoOwner, items |-> <<>>, next |-> 1, busy |-> FALSE, sig |-> <<>>,
   tail |-> 0, pending |-> 0, base |-> <<>>]
NoFetch == [of |-> NoOwner, cursor |-> 0, older |-> FALSE, pulls |-> 0, since |-> 0]
NoPrompt == [of |-> NoOwner, text |-> 0]

AgentChatInit ==
  /\ chatLink = 0 /\ chatUp = FALSE /\ chatPane = NoChatPane
  /\ isAgentChat = FALSE
  /\ journal = [p \in ChatPanes |-> <<>>]
  /\ narrow \in BOOLEAN
  /\ trace = clearTraceRecord /\ fetch = NoFetch /\ traceCache = <<>>
  /\ prompt = NoPrompt /\ landing = {} /\ turns = 0
-----------------------------------------------------------------------------
(* The daemon's pages (internal/journal/trace_reader.go).  A page limited  *)
(* by its bytes that begins inside a turn repeats the turn's user event.   *)
Window(j, end, n) ==
  LET first == IF end - n < 1 THEN 1 ELSE end - n
  IN [i \in 1..(end - first) |-> Placed(first + i - 1, j[first + i - 1])]
OwningUser(j, first) ==
  LET users == {i \in 1..(first - 1) : j[i].kind = "user"}
  IN IF users = {} THEN 0 ELSE CHOOSE i \in users : \A k \in users : k <= i
ReadTrace(j, end) ==
  LET w == Window(j, end, TRACE_PAGE)
      short == Tail(w)
  IN IF ~ narrow \/ Len(w) < TRACE_PAGE \/ w[2].kind = "user"
        \/ OwningUser(j, w[2].pos) = 0
     THEN [items |-> w, next |-> IF w = <<>> THEN 1 ELSE w[1].pos]
     ELSE LET u == OwningUser(j, w[2].pos)
          IN [items |-> <<Placed(u, j[u])>> \o short, next |-> short[1].pos]
-----------------------------------------------------------------------------
LastUser(s) == SelectLastInSeq(s, LAMBDA e : e.kind = "user")

(* mergeAgentTraceSegments: the user event a page repeats is shown once.   *)
Overlap(earlier, later) ==
  LET u == LastUser(earlier)
  IN IF later # <<>> /\ later[1].kind = "user" /\ u # 0
        /\ earlier[u].text = later[1].text
        /\ (u = Len(earlier) \/ earlier[Len(earlier)].kind # "assistant")
     THEN 1 ELSE 0
mergeAgentTraceSegments(earlier, later) ==
  earlier \o SubSeq(later, 1 + Overlap(earlier, later), Len(later))

(* pendingBoundary and absorbPending: the optimistic turn goes once the    *)
(* transcript shows it after what was there when it was submitted.         *)
SameContent(a, b) == a.kind = b.kind /\ a.text = b.text
pendingBoundary(t, items) ==
  LET n == IF Len(t.base) < Len(items) THEN Len(t.base) ELSE Len(items)
      differs == {i \in 1..n : ~ SameContent(t.base[i], items[i])}
  IN IF differs = {} THEN n ELSE (CHOOSE i \in differs : \A k \in differs : i <= k) - 1
clearPendingTurn(t) == [t EXCEPT !.pending = 0, !.base = <<>>]
absorbPending(t, items) ==
  IF t.pending # 0
     /\ \E i \in (pendingBoundary(t, items) + 1)..Len(items) :
          items[i].kind = "user" /\ items[i].text = t.pending
  THEN clearPendingTurn(t) ELSE t

visibleItems(t) ==
  LET at == pendingBoundary(t, t.items)
  IN IF t.pending = 0 THEN t.items
     ELSE SubSeq(t.items, 1, at) \o <<Event("user", t.pending)>>
          \o SubSeq(t.items, at + 1, Len(t.items))

OlderPage(t, page) ==
  IF page.items = <<>> THEN [t EXCEPT !.next = page.next]
  ELSE LET items == mergeAgentTraceSegments(page.items, t.items)
           tail == IF Len(t.items) = t.tail
                   THEN t.tail - Overlap(page.items, t.items) ELSE t.tail
       IN absorbPending([t EXCEPT !.items = items, !.next = page.next,
                           !.tail = IF tail < 0 THEN 0 ELSE tail], items)

\* Mutant: a newest page resets the cursor of a view that reaches further back.
MutNewestPage(t, page) ==
  LET prefix == SubSeq(t.items, 1, Len(t.items) - t.tail)
      items == mergeAgentTraceSegments(prefix, page.items)
  IN absorbPending([t EXCEPT !.items = items, !.sig = page.items,
                      !.tail = Len(page.items) - Overlap(prefix, page.items),
                      !.next = page.next], items)

NewestPage(t, page) ==
  IF page.items = t.sig
  THEN absorbPending([t EXCEPT !.next = IF Len(t.items) = t.tail
                                        THEN page.next ELSE @], page.items)
  ELSE LET prefix == SubSeq(t.items, 1, Len(t.items) - t.tail)
           items == mergeAgentTraceSegments(prefix, page.items)
       IN absorbPending([t EXCEPT !.items = items, !.sig = page.items,
                           !.tail = Len(page.items) - Overlap(prefix, page.items),
                           !.next = IF prefix = <<>> THEN page.next ELSE @], items)

applyTracePage(t, page, older) ==
  [(IF older THEN OlderPage(t, page) ELSE NewestPage(t, page))
     EXCEPT !.of = Owner]

firstTurnNeedsUser(t) == t.next # 1 /\ t.items # <<>> /\ t.items[1].kind # "user"
-----------------------------------------------------------------------------
(* The cache of transcripts: the least recently used panes go.             *)
OtherTraces(p) == SelectSeq(traceCache, LAMBDA c : c.pane # p)
cachedAgentTrace(p) ==
  {traceCache[i] : i \in {k \in DOMAIN traceCache : traceCache[k].pane = p}}
TraceEntry(p, t) == [pane |-> p, of |-> t.of, items |-> t.items, next |-> t.next,
                sig |-> t.sig, tail |-> t.tail]
cacheAgentTrace(p, t) ==
  LET all == Append(OtherTraces(p), TraceEntry(p, t))
      over == Len(all) - MAX_CACHED_PANES
  IN IF over > 0 THEN SubSeq(all, over + 1, Len(all)) ELSE all
Restored(p) ==
  IF cachedAgentTrace(p) = {} THEN clearTraceRecord
  ELSE LET c == CHOOSE x \in cachedAgentTrace(p) : TRUE
       IN [clearTraceRecord EXCEPT !.of = c.of, !.items = c.items, !.next = c.next,
             !.sig = c.sig, !.tail = c.tail]
-----------------------------------------------------------------------------
Started(link, pane, older, t) ==
  [of |-> <<link, pane>>, cursor |-> IF older THEN t.next ELSE 0,
   older |-> older, pulls |-> 0, since |-> Len(journal[pane])]

(* refreshAgentTrace up to its first await, for the view t of pane p.      *)
MayRead(t, p, chat, older) ==
  /\ chatLink # 0 /\ p # NoChatPane /\ chat /\ chatUp /\ ~ t.busy
  /\ older => t.next # 1
Read(t, p, older) ==
  fetch' = Started(chatLink, p, older, t) /\ trace' = [t EXCEPT !.busy = TRUE]
ReadIfMay(t, p, chat) ==
  IF MayRead(t, p, chat, FALSE) THEN Read(t, p, FALSE)
  ELSE trace' = t /\ UNCHANGED fetch

refreshAgentTrace(older) ==
  /\ MayRead(trace, chatPane, isAgentChat, older)
  /\ Read(trace, chatPane, older)
  /\ UNCHANGED <<chatLink, chatUp, chatPane, isAgentChat, journal, traceCache>>
  /\ UNCHANGED promptVars

retiredTrace == fetch.of # Owner \/ ~ isAgentChat

(* A page arrives.  A newest page that begins inside a turn is followed by *)
(* older ones, OLDER_FILL_MAX calls at most.                               *)
PageArrives ==
  /\ fetch # NoFetch /\ ~ retiredTrace
  /\ \E upto \in fetch.since..Len(journal[fetch.of[2]]) :
       LET page == ReadTrace(SubSeq(journal[fetch.of[2]], 1, upto),
                             IF fetch.cursor = 0 THEN upto + 1 ELSE fetch.cursor)
           t == applyTracePage(trace, page, fetch.cursor # 0)
           more == /\ ~ fetch.older /\ fetch.pulls + 1 < OLDER_FILL_MAX
                   /\ firstTurnNeedsUser(t)
                   /\ fetch.cursor = 0 \/ t # trace
       IN /\ fetch' = IF more THEN [fetch EXCEPT !.cursor = t.next, !.pulls = @ + 1,
                                                 !.since = upto]
                      ELSE NoFetch
          /\ trace' = [t EXCEPT !.busy = more]
          /\ traceCache' = cacheAgentTrace(chatPane, t)
  /\ UNCHANGED <<chatLink, chatUp, chatPane, isAgentChat, journal, promptVars>>

(* The call fails: an unavailable transcript empties the view.             *)
ReadFails ==
  /\ fetch # NoFetch /\ ~ retiredTrace
  /\ \E unavailable \in BOOLEAN :
       trace' = [(IF unavailable
                  THEN [trace EXCEPT !.items = <<>>, !.next = 1, !.sig = <<>>,
                          !.tail = 0, !.of = NoOwner] ELSE trace)
                 EXCEPT !.busy = FALSE]
  /\ fetch' = NoFetch
  /\ UNCHANGED <<chatLink, chatUp, chatPane, isAgentChat, journal, traceCache>>
  /\ UNCHANGED promptVars

(* The answer of a retired request is dropped, its finally included.       *)
RetiredAnswer ==
  /\ fetch # NoFetch /\ retiredTrace
  /\ fetch' = NoFetch
  /\ UNCHANGED <<chatLink, chatUp, chatPane, isAgentChat, journal, trace, traceCache>>
  /\ UNCHANGED promptVars
-----------------------------------------------------------------------------
(* openPaneWithOwner: the view is reset, the cached transcript restored,   *)
(* and the pane read.                                                      *)
openChatPane(p, chat) ==
  /\ chatLink # 0 /\ p # chatPane
  /\ chatPane' = p /\ isAgentChat' = chat
  /\ traceCache' = OtherTraces(p) \o SetToSeq(cachedAgentTrace(p))
  /\ ReadIfMay(Restored(p), p, chat)
  /\ UNCHANGED <<chatLink, chatUp, journal, promptVars>>

leaveAgentChat ==
  /\ isAgentChat
  /\ isAgentChat' = FALSE /\ fetch' = NoFetch
  /\ trace' = [clearPendingTurn(trace) EXCEPT !.busy = FALSE]
  /\ UNCHANGED <<chatLink, chatUp, chatPane, journal, traceCache>>
  /\ UNCHANGED promptVars

enterAgentChat ==
  /\ chatLink # 0 /\ chatPane # NoChatPane /\ ~ isAgentChat
  /\ isAgentChat' = TRUE
  /\ ReadIfMay(trace, chatPane, TRUE)
  /\ UNCHANGED <<chatLink, chatUp, chatPane, journal, traceCache>>
  /\ UNCHANGED promptVars

(* goBackFromPane: leaveAgentChat where the chat is shown, then the reset. *)
goBackFromPane ==
  /\ chatPane # NoChatPane
  /\ fetch' = IF isAgentChat THEN NoFetch ELSE fetch
  /\ chatPane' = NoChatPane /\ isAgentChat' = FALSE /\ trace' = clearTraceRecord
  /\ UNCHANGED <<chatLink, chatUp, journal, traceCache, promptVars>>
-----------------------------------------------------------------------------
(* A session is adopted; its transport may drop and come back; and the     *)
(* session goes (clearLiveConnection), with everything read through it.    *)
Adopt ==
  /\ chatLink = 0
  /\ chatLink' \in (1..MaxLinks) \ {prompt.of[1]}
  /\ chatUp' = TRUE
  /\ UNCHANGED <<chatPane, isAgentChat, journal, trace, fetch, traceCache>>
  /\ UNCHANGED promptVars

Flap ==
  /\ chatLink # 0 /\ chatUp' = ~ chatUp
  /\ UNCHANGED <<chatLink, chatPane, isAgentChat, journal, trace, fetch, traceCache>>
  /\ UNCHANGED promptVars

chatSessionGone ==
  /\ chatLink # 0
  /\ chatLink' = 0 /\ chatUp' = FALSE /\ chatPane' = NoChatPane
  /\ isAgentChat' = FALSE /\ trace' = clearTraceRecord /\ fetch' = NoFetch
  /\ traceCache' = <<>>
  /\ landing' = {} /\ journal' = [p \in ChatPanes |-> <<>>]
  /\ UNCHANGED <<prompt, turns>>
-----------------------------------------------------------------------------
EventsWritten == Cardinality(UNION {{p} \X DOMAIN journal[p] : p \in ChatPanes})

(* The agent writes its journal: of its own, replies and tools in turn, or *)
(* a prompt it was given.                                                  *)
AgentWrites ==
  \E p \in ChatPanes :
    /\ chatLink # 0 /\ EventsWritten < MaxEvents
    /\ journal' = [journal EXCEPT ![p] =
                     Append(@, Event(IF Len(@) % 2 = 0 THEN "assistant" ELSE "tool", 0))]
    /\ UNCHANGED <<chatLink, chatUp, chatPane, isAgentChat, trace, fetch, traceCache>>
    /\ UNCHANGED promptVars

PromptLands(q) ==
  /\ q \in landing /\ q.of[1] = chatLink /\ EventsWritten < MaxEvents
  /\ journal' = [journal EXCEPT ![q.of[2]] = Append(@, Event("user", q.text))]
  /\ landing' = landing \ {q}
  /\ UNCHANGED <<chatLink, chatUp, chatPane, isAgentChat, trace, fetch, traceCache, prompt, turns>>

(* submitAgentPrompt: one prompt at a time (its lock is in Drafts).        *)
submitTurn ==
  /\ chatLink # 0 /\ isAgentChat /\ prompt = NoPrompt /\ turns < MaxTurns
  /\ turns' = turns + 1
  /\ prompt' = [of |-> Owner, text |-> turns + 1]
  /\ landing' = landing \cup {prompt'}
  /\ trace' = [trace EXCEPT !.pending = turns + 1, !.base = trace.items]
  /\ UNCHANGED <<chatLink, chatUp, chatPane, isAgentChat, journal, fetch, traceCache>>

promptRequestIsLive == prompt.of = Owner /\ isAgentChat

(* The call settles: sent, refused (it never lands), or unknown.           *)
PromptSettles ==
  /\ prompt # NoPrompt
  /\ \E outcome \in {"sent", "refused", "unknown"} :
       /\ outcome = "refused" => prompt.of[1] # chatLink \/ prompt \in landing
       /\ landing' = IF outcome = "refused" THEN landing \ {prompt} ELSE landing
       /\ IF ~ promptRequestIsLive THEN UNCHANGED <<trace, fetch>>
          ELSE IF outcome = "sent" THEN ReadIfMay(trace, chatPane, TRUE)
          ELSE IF outcome = "unknown"
          THEN ReadIfMay(clearPendingTurn(trace), chatPane, TRUE)
          ELSE trace' = clearPendingTurn(trace) /\ UNCHANGED fetch
  /\ prompt' = NoPrompt
  /\ UNCHANGED <<chatLink, chatUp, chatPane, isAgentChat, journal, traceCache, turns>>
-----------------------------------------------------------------------------
AgentChatStep ==
  \/ \E older \in BOOLEAN : refreshAgentTrace(older)
  \/ PageArrives \/ ReadFails \/ RetiredAnswer
  \/ \E p \in ChatPanes, chat \in BOOLEAN : openChatPane(p, chat)
  \/ leaveAgentChat \/ enterAgentChat \/ goBackFromPane
  \/ Adopt \/ Flap \/ chatSessionGone
  \/ AgentWrites \/ \E q \in landing : PromptLands(q)
  \/ submitTurn \/ PromptSettles

AgentChatNext == AgentChatStep /\ UNCHANGED narrow

AgentChatSpec == AgentChatInit /\ [][AgentChatNext]_chatVars
-----------------------------------------------------------------------------
(* A read marked as running is running and will be applied: otherwise      *)
(* refreshAgentTrace would refuse every later read of this pane.           *)
BusyHasARead == trace.busy => fetch # NoFetch /\ ~ retiredTrace

(* What is shown or cached for a pane is that pane's journal, read through *)
(* the session at hand: pane ids are reused by other computers.            *)
TraceIsOfThePane ==
  /\ trace.items # <<>> => trace.of = Owner
  /\ \A i \in DOMAIN traceCache :
       traceCache[i].items # <<>> => traceCache[i].of = <<chatLink, traceCache[i].pane>>

(* Loading older events continues where the view begins: no event between  *)
(* the cursor and the first event shown, and none that is shown already.   *)
OlderContinuesTheView ==
  LET own == {i \in DOMAIN trace.items : trace.items[i].kind # "user"}
  IN /\ trace.items # <<>> => \E i \in DOMAIN trace.items : trace.items[i].pos = trace.next
     /\ \A i, k \in own : /\ trace.items[i].pos >= trace.next
                           /\ i < k => trace.items[i].pos < trace.items[k].pos

(* The optimistic turn and the turn of the journal are never both shown.   *)
PendingShownOnce ==
  trace.pending # 0 =>
    Cardinality({i \in DOMAIN visibleItems(trace) :
      visibleItems(trace)[i].kind = "user"
      /\ visibleItems(trace)[i].text = trace.pending}) = 1
=============================================================================
