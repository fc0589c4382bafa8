---------------------------- MODULE GuidedInput ----------------------------
(* Typing into a guided pane: the live-input pump (live-input.ts), the      *)
(* switch between live and buffered typing (guided/compose.ts) and the      *)
(* queue of single keys (guided/keys.ts).  A text is a sequence of tokens,  *)
(* numbered in the order the reader typed them; `wire' is what the daemon   *)
(* gets, in the order the session's frames are written.                     *)
EXTENDS Integers, SequencesExt, FiniteSetsExt

CONSTANTS
  Desks,       \* the panes the reader moves between
  NoDesk,
  KEY_BATCH,   \* MAX_BATCH of keys.ts
  MaxTokens    \* bound: tokens typed

VARIABLES
  at,          \* openPaneId(), NoDesk before the first
  liveNow,     \* composeLive()
  liveFor,     \* paneComposeLive: the choice remembered per pane
  buffer,      \* the draft of each pane
  liveInputPump,
  tail,        \* callers whose failed flush resolves after reportMutationError
  padQueue,    \* the key queue: pending, its pane, the batch in flight, the timer
  paneWire,        \* sequence of [tok, desk]
  tokens,      \* what was typed, where, and for Enter the text ahead of it
  givenUp        \* tokens given up, with the reason

guidedVars == <<at, liveNow, liveFor, buffer, liveInputPump, tail, padQueue, paneWire,
                tokens, givenUp>>

NoPump == [desk |-> NoDesk, queued |-> <<>>, flight |-> <<>>, waiters |-> <<>>]
NoPadKeys == [pending |-> <<>>, desk |-> NoDesk, batch |-> <<>>, flushing |-> FALSE,
           timer |-> FALSE]

GuidedInit ==
  /\ at = NoDesk
  /\ liveFor = [d \in Desks |-> TRUE] /\ liveNow = FALSE
  /\ buffer = [d \in Desks |-> <<>>]
  /\ liveInputPump = NoPump /\ tail = {} /\ padQueue = NoPadKeys
  /\ paneWire = <<>> /\ tokens = <<>> /\ givenUp = {}

Toks(s) == ToSet(s)
Sent(s, d) == paneWire \o [i \in DOMAIN s |-> [tok |-> s[i], desk |-> d]]
Unsent(s) == SelectSeq(paneWire, LAMBDA w : w.tok \notin Toks(s))
InPump == Toks(liveInputPump.flight \o liveInputPump.queued)
Tap(kind) ==
  /\ at # NoDesk /\ Len(tokens) < MaxTokens
  /\ tokens' = Append(tokens, [kind |-> kind, desk |-> at,
                               ahead |-> IF kind = "enter" THEN InPump ELSE {}])
NewTok == Len(tokens) + 1

(* A waiter is [op, tok]: the Enter that waits for its text, or the switch  *)
(* to buffered typing.                                                      *)
Waiter(op, tok) == [op |-> op, tok |-> tok, desk |-> at]
-----------------------------------------------------------------------------
(* keys.ts, with the queue q given: what queueKey, flushKeys and            *)
(* dropQueuedKeys make of the queue and of the wire.                        *)
dropQueuedKeys(q) == [q EXCEPT !.pending = <<>>, !.desk = NoDesk, !.timer = FALSE]

flushPad(q) ==
  IF q.flushing \/ q.pending = <<>> THEN [q EXCEPT !.timer = FALSE]
  ELSE IF q.desk # at THEN dropQueuedKeys(q)
  ELSE LET n == IF Len(q.pending) < KEY_BATCH THEN Len(q.pending) ELSE KEY_BATCH
       IN  [q EXCEPT !.batch = SubSeq(q.pending, 1, n),
                     !.pending = SubSeq(q.pending, n + 1, Len(q.pending)),
                     !.flushing = TRUE, !.timer = FALSE]

queuePad(q, tok) ==
  LET own  == IF q.desk \notin {NoDesk, at} THEN dropQueuedKeys(q) ELSE q
      more == [own EXCEPT !.pending = Append(@, tok), !.desk = at]
  IN  IF Len(more.pending) >= KEY_BATCH \/ (own.pending = <<>> /\ ~ own.flushing)
      THEN flushPad(more)
      ELSE [more EXCEPT !.timer = TRUE]

(* The queue becomes q: a batch that went out is on the wire, and what is   *)
(* neither queued nor sent was dropped.                                     *)
KeysBecome(q, typed) ==
  LET out == q.flushing /\ q.batch # padQueue.batch IN
  /\ padQueue' = q
  /\ paneWire' = IF out THEN Sent(q.batch, q.desk) ELSE paneWire
  /\ givenUp' = givenUp \cup ((Toks(padQueue.pending) \cup typed)
                            \ (Toks(q.pending) \cup Toks(q.batch)))

(* A key that is not text: an arrow, a control key, Backspace in an empty   *)
(* field, and Enter in an empty buffered field (handlePaneKey, sendPad).    *)
PressKey ==
  /\ Tap("key")
  /\ liveNow \/ buffer[at] = <<>>
  /\ KeysBecome(queuePad(padQueue, NewTok), {NewTok})
  /\ UNCHANGED <<at, liveNow, liveFor, buffer, liveInputPump, tail>>

KeyTimer ==
  /\ padQueue.timer
  /\ KeysBecome(flushPad(padQueue), {})
  /\ UNCHANGED <<at, liveNow, liveFor, buffer, liveInputPump, tail, tokens>>

(* The answer of a batch: after its read, or after the report of its error, *)
(* the finally clause sends what was queued meanwhile.  A failed batch did  *)
(* not reach the pane, and drops the queue.                                 *)
KeysAnswered ==
  /\ padQueue.flushing
  /\ \/ KeysBecome(flushPad([padQueue EXCEPT !.flushing = FALSE, !.batch = <<>>]), {})
     \/ /\ padQueue' = [dropQueuedKeys(padQueue) EXCEPT !.flushing = FALSE, !.batch = <<>>]
        /\ paneWire' = Unsent(padQueue.batch)
        /\ givenUp' = givenUp \cup Toks(padQueue.pending) \cup Toks(padQueue.batch)
  /\ UNCHANGED <<at, liveNow, liveFor, buffer, liveInputPump, tail, tokens>>
-----------------------------------------------------------------------------
(* The pump.  It has a frame scheduled exactly while text is queued and     *)
(* none is in flight.  drain writes the frame at once, unless the pane has  *)
(* changed or typing is no longer live (the guard in send).                 *)
(* LiveInputPump.fail and the pump's onError: the text goes back to the     *)
(* field if its pane is still open, typing is buffered from now on, and the *)
(* waiters are told false only after reportMutationError.                   *)
PumpFails(p, back, lost) ==
  /\ liveInputPump' = NoPump
  /\ liveNow' = (liveNow /\ at # p.desk)
  /\ buffer' = IF at = p.desk THEN [buffer EXCEPT ![at] = back \o @] ELSE buffer
  /\ givenUp' = givenUp \cup Toks(lost) \cup (IF at = p.desk THEN {} ELSE Toks(back))
                    \cup {w.tok : w \in {v \in Toks(p.waiters) : v.op = "enter"}}
  /\ tail' = tail \cup {w \in Toks(p.waiters) : w.op = "off"}

(* The pump p drains: its frame is written, or send refuses it.  `on' says  *)
(* whether typing is live, `off' which panes the caller makes buffered.     *)
Buffered(off) == liveFor' = [d \in Desks |-> liveFor[d] /\ d \notin off]
Drain(p, on, off) ==
  IF p.flight = <<>> /\ p.queued # <<>> /\ ~ (on /\ p.desk = at)
  THEN PumpFails(p, p.queued, <<>>) /\ Buffered(off \cup {p.desk}) /\ UNCHANGED paneWire
  ELSE /\ liveInputPump' = IF p.flight = <<>>
                           THEN [p EXCEPT !.flight = p.queued, !.queued = <<>>] ELSE p
       /\ paneWire' = IF p.flight = <<>> THEN Sent(p.queued, p.desk) ELSE paneWire
       /\ Buffered(off)
       /\ UNCHANGED <<liveNow, buffer, givenUp, tail>>

(* LiveInputPump.stop: what was queued is forgotten, and the waiters fail.  *)
StoppedPump(p) == Toks(p.queued) \cup {w.tok : w \in {v \in Toks(p.waiters) : v.op = "enter"}}

(* ensureLiveInputPump: the pump of another pane is stopped.                *)
PumpHere == IF liveInputPump.desk = at THEN liveInputPump ELSE [NoPump EXCEPT !.desk = at]
Reaped == IF liveInputPump.desk = at THEN {} ELSE StoppedPump(liveInputPump)

\* Text typed behind a batch in flight replaces what was queued.
MutTypeLive(text) ==
  /\ liveInputPump' = [PumpHere EXCEPT !.queued = text]
  /\ givenUp' = givenUp \cup Reaped

typeLive(text) ==
  /\ liveInputPump' = [PumpHere EXCEPT !.queued = @ \o text]
  /\ givenUp' = givenUp \cup Reaped

(* The reader types a character into the field; live the whole field goes   *)
(* to the pump (bindTermField, takeLiveField).                              *)
TypeText ==
  LET text == Append(buffer[at], NewTok) IN
  /\ Tap("text")
  /\ IF liveNow
     THEN typeLive(text) /\ buffer' = [buffer EXCEPT ![at] = <<>>]
     ELSE /\ buffer' = [buffer EXCEPT ![at] = text]
          /\ UNCHANGED <<liveInputPump, givenUp>>
  /\ UNCHANGED <<at, liveNow, liveFor, tail, padQueue, paneWire>>

PumpFrame ==
  /\ liveInputPump.flight = <<>> /\ liveInputPump.queued # <<>>
  /\ Drain(liveInputPump, liveNow, {})
  /\ UNCHANGED <<at, padQueue, tokens>>

(* LiveInputPump.settle: everything typed behind the batch goes next, and   *)
(* the waiters continue only when nothing is left.                          *)
PumpSettles ==
  /\ liveInputPump.flight # <<>> /\ liveInputPump.queued # <<>>
  /\ Drain([liveInputPump EXCEPT !.flight = <<>>], liveNow, {})
  /\ UNCHANGED <<at, padQueue, tokens>>

(* The continuations of the waiters, one after the other.  Enter goes to    *)
(* the key queue of the pane that is open now; the switch to buffered       *)
(* typing gives up if its pane has been left.                               *)
Enters(ws) == SelectSeq(ws, LAMBDA w : w.op = "enter")
QueueEnters(ws) ==
  FoldLeft(LAMBDA q, w : queuePad(q, w.tok), padQueue, Enters(ws))
SwitchesOff(ws) == \E w \in Toks(ws) : w.op = "off" /\ w.desk = at

PumpDone ==
  LET ws == liveInputPump.waiters IN
  /\ liveInputPump.flight # <<>> /\ liveInputPump.queued = <<>>
  /\ liveInputPump' = IF SwitchesOff(ws) THEN NoPump
                      ELSE [liveInputPump EXCEPT !.flight = <<>>, !.waiters = <<>>]
  /\ liveNow' = (liveNow /\ ~ SwitchesOff(ws))
  /\ KeysBecome(QueueEnters(ws), {w.tok : w \in Toks(Enters(ws))})
  /\ UNCHANGED <<at, liveFor, buffer, tail, tokens>>

(* The batch is refused, or its outcome is unknown: then what was sent is   *)
(* not offered again.                                                       *)
PumpRefused ==
  LET p == liveInputPump IN
  /\ p.flight # <<>>
  /\ Buffered({p.desk})
  /\ \/ /\ PumpFails(p, p.flight \o p.queued, <<>>)
        /\ paneWire' = Unsent(p.flight)
     \/ /\ PumpFails(p, p.queued, p.flight)
        /\ UNCHANGED paneWire
  /\ UNCHANGED <<at, padQueue, tokens>>

(* A failed flush continues: setComposeLive(false) stops whatever pump      *)
(* there is by now.                                                         *)
TailEnds(w) ==
  /\ w \in tail
  /\ tail' = tail \ {w}
  /\ IF w.desk = at
     THEN /\ liveInputPump' = NoPump /\ liveNow' = FALSE
          /\ givenUp' = givenUp \cup StoppedPump(liveInputPump)
     ELSE UNCHANGED <<liveInputPump, liveNow, givenUp>>
  /\ UNCHANGED <<at, liveFor, buffer, padQueue, paneWire, tokens>>

(* reapStaleLiveInputPump, when the field is bound or the view asks whether *)
(* to preserve it.                                                          *)
reapStaleLiveInputPump ==
  /\ liveInputPump.desk \notin {NoDesk, at}
  /\ liveInputPump' = NoPump
  /\ givenUp' = givenUp \cup StoppedPump(liveInputPump)
  /\ UNCHANGED <<at, liveNow, liveFor, buffer, tail, padQueue, paneWire, tokens>>
-----------------------------------------------------------------------------
(* flushLiveInput for a waiter: without a pump, or with an idle one, the    *)
(* caller continues at once.                                                *)
PumpIdle(p) == p.flight = <<>> /\ p.queued = <<>>

(* Enter while typing is live (submitLiveEnter, insertNewline).             *)
submitLiveEnter ==
  /\ liveNow /\ Tap("enter")
  /\ IF PumpIdle(liveInputPump)
     THEN /\ KeysBecome(queuePad(padQueue, NewTok), {NewTok})
          /\ UNCHANGED <<liveNow, liveFor, buffer, liveInputPump, tail>>
     ELSE /\ Drain([liveInputPump EXCEPT !.waiters = Append(@, Waiter("enter", NewTok))],
                TRUE, {})
          /\ UNCHANGED padQueue
  /\ UNCHANGED at

(* setComposeLive(true): the draft is typed, and whatever pump there is     *)
(* flushed.                                                                 *)
LiveOn ==
  LET p == IF buffer[at] = <<>> THEN liveInputPump
           ELSE [PumpHere EXCEPT !.queued = @ \o buffer[at]]
      stale == p.desk # at /\ ~ PumpIdle(p) /\ p.flight = <<>>
  IN
  /\ at # NoDesk /\ ~ liveNow /\ liveNow' = TRUE
  /\ liveFor' = [d \in Desks |-> d = at \/ (liveFor[d] /\ ~ (stale /\ d = p.desk))]
  /\ buffer' = [buffer EXCEPT ![at] = <<>>]
  /\ IF stale
     THEN /\ liveInputPump' = NoPump
          /\ givenUp' = givenUp \cup StoppedPump(p)
          /\ UNCHANGED paneWire
     ELSE /\ liveInputPump' = IF p.flight # <<>> THEN p
                              ELSE [p EXCEPT !.flight = p.queued, !.queued = <<>>]
          /\ paneWire' = IF p.flight # <<>> THEN paneWire ELSE Sent(p.queued, p.desk)
          /\ givenUp' = givenUp \cup IF buffer[at] = <<>> THEN {} ELSE Reaped
  /\ UNCHANGED <<at, tail, padQueue, tokens>>

(* setComposeLive(false): what is queued goes first.  (Bound: one switch    *)
(* waits at a time.)                                                        *)
LiveOff ==
  /\ liveNow
  /\ tail = {} /\ \A w \in Toks(liveInputPump.waiters) : w.op # "off"
  /\ IF PumpIdle(liveInputPump)
     THEN /\ liveInputPump' = NoPump /\ liveNow' = FALSE
          /\ Buffered({at})
          /\ UNCHANGED <<paneWire, buffer, givenUp, tail>>
     ELSE Drain([liveInputPump EXCEPT !.waiters = Append(@, Waiter("off", 0))], TRUE, {at})
  /\ UNCHANGED <<at, padQueue, tokens>>

(* openPaneWithOwner: the keys of the pane that is left are dropped; its    *)
(* pump stays until something reaps it.                                     *)
OpenDesk(d) ==
  /\ d # at
  /\ at' = d
  /\ liveNow' = liveFor[d]
  /\ padQueue' = dropQueuedKeys(padQueue)
  /\ givenUp' = givenUp \cup Toks(padQueue.pending)
  /\ UNCHANGED <<liveFor, buffer, liveInputPump, tail, paneWire, tokens>>

GuidedNext ==
  \/ PressKey \/ KeyTimer \/ KeysAnswered \/ TypeText \/ PumpFrame \/ PumpSettles
  \/ PumpDone \/ PumpRefused \/ reapStaleLiveInputPump \/ submitLiveEnter
  \/ LiveOn \/ LiveOff
  \/ \E w \in tail : TailEnds(w)
  \/ \E d \in Desks : OpenDesk(d)

GuidedSpec == GuidedInit /\ [][GuidedNext]_guidedVars
-----------------------------------------------------------------------------
WireToks == [i \in DOMAIN paneWire |-> paneWire[i].tok]
Places == <<Toks(WireToks), Toks(liveInputPump.queued), Toks(padQueue.pending),
            UNION {Toks(buffer[d]) : d \in Desks},
            {w.tok : w \in Toks(Enters(liveInputPump.waiters))}>>

(* What the reader typed is in exactly one place: on the wire, waiting in   *)
(* the pump, in the key queue or in a field, or it was given up because its *)
(* pane was left or its batch failed.  Nothing is typed twice, and nothing  *)
(* disappears (live-input.ts, restoreLiveInput).                            *)
TypedIsSomewhere ==
  /\ IsInjective(WireToks)
  /\ \A i, j \in DOMAIN Places : i # j => Places[i] \cap Places[j] = {}
  /\ \A t \in DOMAIN tokens : t \in givenUp \/ \E i \in DOMAIN Places : t \in Places[i]

(* Characters arrive in the order they were typed, through failures,        *)
(* restored text and moves between panes (LiveInputPump).                   *)
TextInOrder ==
  \A i, j \in DOMAIN paneWire :
    LET a == paneWire[i].tok
        b == paneWire[j].tok
    IN  (i < j /\ paneWire[i].desk = paneWire[j].desk
         /\ tokens[a].kind = "text" /\ tokens[b].kind = "text") => a < b

(* Enter arrives after all of the text that was waiting when it was pressed *)
(* (submitLiveEnter, "Flush every character queued before Enter").          *)
EnterFollowsItsText ==
  \A i \in DOMAIN paneWire : \A t \in tokens[paneWire[i].tok].ahead :
    t \in givenUp \/ \E j \in 1 .. i - 1 : paneWire[j].tok = t

(* "a pane switch mid-batch can never deliver keys to the wrong terminal"   *)
(* (keys.ts): what is sent to a pane was typed while that pane was open.    *)
KeysReachTheirPane ==
  \A i \in DOMAIN paneWire : paneWire[i].desk = tokens[paneWire[i].tok].desk
=============================================================================
