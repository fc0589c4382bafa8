---------------------------- MODULE TerminalInput ---------------------------
(* What the reader types into the complete terminal: the compose field with *)
(* its input method and its Enter policy (full-terminal-compose.ts), and    *)
(* the pump that sends one terminal command at a time                       *)
(* (full-terminal-command.ts).  The n-th character typed is n; Enter is 0.  *)
EXTENDS Naturals, Sequences, FiniteSets, SequencesExt

CONSTANTS TERMINAL_INPUT_CHUNK,
          MaxTyped,     \* bound: characters typed
          MaxAsked      \* bound: bytes given to one pump

VARIABLES typed,        \* characters typed so far
          draft,        \* the compose field
          ime,          \* the keyboard is composing in the field
          policy,       \* ComposeEnterPolicyState
          deferred,     \* deferSubmitUntilCompositionSettles: none, keep, release
          fallback,     \* the pad's Enter waits to end the composition itself
          held,         \* the Enter key: up, down, quiet (down, not repeating)
          fired,        \* submissions since it went down
          live,         \* composeLive(): keys go straight to the terminal
          ready,        \* a bridge is open and its pump runs
          pump,         \* TerminalCommandPump: q, flight
          given,        \* what this pump was given, in order
          got           \* daemon: what it applied of that

fieldVars == <<typed, draft, ime, policy, deferred, fallback, held, fired, live>>
pumpVars == <<ready, pump, given, got>>
inputVars == <<fieldVars, pumpVars>>

Nothing == [data |-> <<>>, merge |-> FALSE, applied |-> FALSE]
Stopped == [q |-> <<>>, flight |-> Nothing]

TerminalInputInit ==
  /\ typed = 0 /\ draft = <<>> /\ ime = FALSE /\ deferred = "none" /\ fallback = FALSE
  /\ policy = [composing |-> FALSE, pending |-> FALSE, suppress |-> FALSE]
  /\ held = "up" /\ fired = 0 /\ live = FALSE
  /\ ready = FALSE /\ pump = Stopped /\ given = <<>> /\ got = <<>>

-----------------------------------------------------------------------------
(* The pump sends one command at a time.  A command not yet sent takes more *)
(* input, up to the chunk; an isolated one never does.                      *)
drain(p) ==
  IF p.flight # Nothing \/ p.q = <<>> THEN p
  ELSE [q |-> Tail(p.q), flight |-> Head(p.q)]

enqueue(p, command) == drain([p EXCEPT !.q = Append(@, command)])

Chunk(data, merge) == [data |-> data, merge |-> merge, applied |-> FALSE]

enqueueInput(p, data, isolate) ==
  LET room == IF ~ isolate /\ p.q # <<>> /\ Last(p.q).merge
              THEN TERMINAL_INPUT_CHUNK - Len(Last(p.q).data) ELSE 0
      n == Min({room, Len(data)})
      merged == IF n > 0
                THEN [p EXCEPT !.q[Len(p.q)].data = @ \o SubSeq(data, 1, n)]
                ELSE p
      from == {i \in n..(Len(data) - 1) : (i - n) % TERMINAL_INPUT_CHUNK = 0}
      chunks == [i \in 1..Cardinality(from) |->
                   LET a == n + (i - 1) * TERMINAL_INPUT_CHUNK IN
                   Chunk(SubSeq(data, a + 1, Min({a + TERMINAL_INPUT_CHUNK, Len(data)})),
                         ~ isolate)]
  IN FoldLeft(enqueue, merged, chunks)

CommandApplied ==
  /\ pump.flight # Nothing /\ ~ pump.flight.applied
  /\ pump' = [pump EXCEPT !.flight.applied = TRUE]
  /\ got' = got \o pump.flight.data
  /\ UNCHANGED <<fieldVars, ready, given>>

settle ==
  /\ pump.flight.applied
  /\ pump' = drain([pump EXCEPT !.flight = Nothing])
  /\ UNCHANGED <<fieldVars, ready, given, got>>

(* The call fails, carried out or not, or the bridge goes: what was queued  *)
(* is dropped and nothing is sent again.                                    *)
stop ==
  /\ ready
  /\ ready' = FALSE /\ pump' = Stopped /\ given' = <<>> /\ got' = <<>>
  /\ UNCHANGED fieldVars

startCommandPump ==
  /\ ~ ready
  /\ ready' = TRUE
  /\ UNCHANGED <<fieldVars, pump, given, got>>

-----------------------------------------------------------------------------
(* submitFullTerminalCompose: the text, and Enter as a command of its own.  *)
submitFullTerminalCompose(text, enter) ==
  LET sent == IF text = <<>> THEN pump ELSE enqueueInput(pump, text, FALSE) IN
  /\ pump' = IF enter THEN enqueueInput(sent, <<0>>, TRUE) ELSE sent
  /\ given' = given \o text \o IF enter THEN <<0>> ELSE <<>>
  /\ Len(given') <= MaxAsked
  /\ UNCHANGED <<ready, got>>

submit ==
  IF ready THEN submitFullTerminalCompose(draft, TRUE) /\ draft' = <<>>
           ELSE UNCHANGED <<pumpVars, draft>>

Quiet == deferred = "none" /\ ~ fallback
Hush == held' = IF held = "up" THEN "up" ELSE "quiet"

(* A character: into the field, or straight to the terminal.                *)
Type ==
  /\ Quiet /\ typed < MaxTyped
  /\ typed' = typed + 1
  /\ Hush
  /\ IF live
     THEN /\ IF ready
             THEN /\ pump' = enqueueInput(pump, <<typed + 1>>, FALSE)
                  /\ given' = Append(given, typed + 1)
                  /\ Len(given') <= MaxAsked
                  /\ UNCHANGED <<ready, got>>
             ELSE UNCHANGED pumpVars
          /\ UNCHANGED draft
     ELSE draft' = Append(draft, typed + 1) /\ UNCHANGED pumpVars
  /\ UNCHANGED <<ime, policy, deferred, fallback, fired, live>>

compositionStart ==
  /\ Quiet /\ ~ live /\ ~ ime
  /\ ime' = TRUE
  /\ policy' = [composing |-> TRUE, pending |-> FALSE, suppress |-> FALSE]
  /\ Hush
  /\ UNCHANGED <<typed, draft, deferred, fallback, fired, live, pumpVars>>

(* reduceComposeEnterPolicy, Enter pressed: a repeat of a press that has    *)
(* submitted does nothing, and during a composition the press waits for its *)
(* end.  A submission of the form goes through the same gate but does not   *)
(* close it.                                                                *)
Pressed(pol, closesGate) ==
  \/ /\ pol.composing
     /\ policy' = [pol EXCEPT !.pending = TRUE]
     /\ UNCHANGED <<draft, fired, pumpVars>>
  \/ /\ ~ pol.composing /\ pol.suppress
     /\ policy' = pol
     /\ UNCHANGED <<draft, fired, pumpVars>>
  \/ /\ ~ pol.composing /\ ~ pol.suppress
     /\ policy' = [pol EXCEPT !.suppress = closesGate]
     /\ fired' = IF closesGate THEN fired + 1 ELSE fired
     /\ submit

(* Enter goes down, or repeats while it is held.  Any other key ends the    *)
(* repetition, and so does a tap on the pad's own Enter: nobody holds both. *)
keydown ==
  /\ Quiet /\ ~ live /\ held # "quiet"
  /\ held' = "down"
  /\ Pressed(policy, TRUE)
  /\ UNCHANGED <<typed, ime, deferred, fallback, live>>

keyup ==
  /\ Quiet /\ held # "up"
  /\ held' = "up" /\ fired' = 0
  /\ policy' = IF live THEN policy ELSE [policy EXCEPT !.suppress = FALSE]
  /\ UNCHANGED <<typed, draft, ime, deferred, fallback, live, pumpVars>>

compositionEnd(pol) ==
  [composing |-> FALSE, pending |-> FALSE, suppress |-> pol.pending]

(* finishComposition: a press that waited submits in a microtask.  After    *)
(* the pad's Enter no key is down, so its gate is opened again.             *)
finishComposition ==
  /\ Quiet /\ ~ live /\ ime
  /\ ime' = FALSE
  /\ policy' = compositionEnd(policy)
  /\ deferred' = IF policy.pending THEN "keep" ELSE "none"
  /\ UNCHANGED <<typed, draft, fallback, held, fired, live, pumpVars>>

deferSubmitUntilCompositionSettles ==
  /\ deferred # "none"
  /\ submit
  /\ policy' = IF deferred = "release" THEN [policy EXCEPT !.suppress = FALSE] ELSE policy
  /\ fired' = IF held = "down" THEN fired + 1 ELSE fired
  /\ deferred' = "none"
  /\ UNCHANGED <<typed, ime, fallback, held, live>>

onSubmit ==
  /\ Quiet /\ ~ live
  /\ Pressed(policy, FALSE)
  /\ UNCHANGED <<typed, ime, deferred, fallback, live, held>>

(* The pad's Enter blurs a composing field first.  The composition may end  *)
(* with it; if not, a microtask ends it.                                    *)
PadEnterEnds ==
  /\ Quiet /\ ~ live /\ policy.composing /\ ime
  /\ ime' = FALSE
  /\ \/ /\ policy.pending
        /\ policy' = compositionEnd(policy)
        /\ deferred' = "release"
        /\ UNCHANGED <<draft, fired, pumpVars>>
     \/ /\ ~ policy.pending
        /\ policy' = compositionEnd(policy)
        /\ submit
        /\ UNCHANGED <<deferred, fired>>
  /\ Hush
  /\ UNCHANGED <<typed, fallback, live>>

PadEnterWaits ==
  /\ Quiet /\ ~ live /\ policy.composing
  /\ policy' = [policy EXCEPT !.pending = TRUE]
  /\ fallback' = TRUE
  /\ Hush
  /\ UNCHANGED <<typed, draft, ime, deferred, fired, live, pumpVars>>

PadEnterCommits ==
  /\ fallback
  /\ fallback' = FALSE /\ ime' = FALSE
  /\ policy' = compositionEnd(policy)
  /\ deferred' = "release"
  /\ UNCHANGED <<typed, draft, held, fired, live, pumpVars>>

(* The draft goes with the switch to live input; the field and its policy   *)
(* are built anew on the way back, composing if the store still says so.    *)
setFullTerminalInputMode ==
  /\ Quiet
  /\ live' = ~ live
  /\ IF ~ live /\ ready /\ draft # <<>>
     THEN submitFullTerminalCompose(draft, FALSE) /\ draft' = <<>>
     ELSE UNCHANGED <<pumpVars, draft>>
  /\ ime' = FALSE
  /\ policy' = [policy EXCEPT !.pending = FALSE, !.suppress = FALSE]
  /\ Hush
  /\ UNCHANGED <<typed, deferred, fallback, fired>>

FieldNext ==
  \/ Type \/ compositionStart \/ keydown \/ keyup
  \/ finishComposition \/ deferSubmitUntilCompositionSettles \/ onSubmit
  \/ PadEnterEnds \/ PadEnterWaits \/ PadEnterCommits
  \/ setFullTerminalInputMode

TerminalInputNext ==
  \/ FieldNext
  \/ CommandApplied \/ settle \/ stop \/ startCommandPump

-----------------------------------------------------------------------------
Queued == FoldLeft(LAMBDA acc, c : acc \o c.data, <<>>, pump.q)

(* However commands are merged and cut into chunks, the daemon applies what *)
(* was typed in the order it was typed: what a pump was given is what the   *)
(* daemon applied, then what is on its way, then what is queued.            *)
PumpConserves ==
  given = got \o (IF pump.flight.applied THEN <<>> ELSE pump.flight.data) \o Queued

(* A command never exceeds the chunk, and Enter is a command of its own:    *)
(* submitFullTerminalCompose keeps it apart because "some TUIs treat a text *)
(* payload ending in CR as pasted input".                                   *)
EnterIsAlone ==
  \A c \in Range(pump.q) \cup {pump.flight} :
    /\ Len(c.data) <= TERMINAL_INPUT_CHUNK
    /\ 0 \in Range(c.data) => c.data = <<0>>

(* One press of Enter submits once, however long it is held and whether the *)
(* keyboard used it to end a composition.                                   *)
OneSubmitPerPress == fired <= 1

(* A character is sent once: a draft that was given to the pump, by Enter,  *)
(* by the pad or by the switch to live input, is not in the field any more, *)
(* and the pump splits and merges without repeating.                        *)
TypedOnce ==
  \A c \in 1..typed :
    Cardinality({i \in DOMAIN given : given[i] = c})
      + Cardinality({i \in DOMAIN draft : draft[i] = c}) <= 1
=============================================================================
