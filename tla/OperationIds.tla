---------------------------- MODULE OperationIds ----------------------------
(***************************************************************************)
(* What the daemon promises about an operation id, without goroutines,     *)
(* locks, records, files or clocks.                                        *)
(*                                                                         *)
(* An id is free, claimed by a call, started (its side effect reached the  *)
(* runtime) or answered.  The side effect starts once, from a claim.  An   *)
(* answer is given after it started or is the unknown outcome, and from    *)
(* then on it stands: a definite answer stays until the id is forgotten,   *)
(* and an unknown one can only be replaced by what really happened.        *)
(***************************************************************************)
EXTENDS Integers

CONSTANTS
  Keys,      \* operation ids
  Answers,   \* definite answers
  Unknown    \* the unknown outcome

VARIABLES
  life,      \* where each id is
  answer,    \* its answer, Unknown while it has none
  effects    \* side effects started since the id was last free

lifeVars == <<life, answer, effects>>

Init ==
  /\ life = [k \in Keys |-> "free"]
  /\ answer = [k \in Keys |-> Unknown]
  /\ effects = [k \in Keys |-> 0]

(* The id keeps its answer, its effects and its place.                     *)
Stays(k) == life'[k] = life[k] /\ answer'[k] = answer[k] /\ effects'[k] = effects[k]

Claim(k) ==
  /\ life[k] = "free" /\ life'[k] = "claimed"
  /\ answer'[k] = Unknown /\ effects'[k] = 0

Start(k) ==
  /\ life[k] = "claimed" /\ life'[k] = "started"
  /\ answer'[k] = Unknown /\ effects'[k] = effects[k] + 1

Answered(k) ==
  /\ life[k] = "started" /\ life'[k] = "answered"
  /\ answer'[k] \in Answers /\ effects'[k] = effects[k]

(* Nobody knows what became of the side effect, and nobody will try again. *)
Lose(k) ==
  /\ life[k] \in {"claimed", "started"} /\ life'[k] = "answered"
  /\ answer'[k] = Unknown /\ effects'[k] = effects[k]

(* An unknown outcome turns out to have been recorded.                     *)
Learn(k) ==
  /\ life[k] = "answered" /\ life'[k] = "answered"
  /\ answer[k] = Unknown /\ answer'[k] \in Answers /\ effects'[k] = effects[k]

Forget(k) ==
  /\ life[k] = "answered" /\ life'[k] = "free"
  /\ answer'[k] = Unknown /\ effects'[k] = 0

(* An id that was forgotten, or whose claim was taken back, is remembered  *)
(* again: it can be answered, and not be claimed.                          *)
Recall(k) ==
  /\ life[k] = "free" /\ life'[k] = "answered"
  /\ answer'[k] \in Answers \cup {Unknown} /\ effects'[k] = 0

(* One step of the ledger may forget or lose several ids.                  *)
Next ==
  \A k \in Keys :
    \/ Stays(k) \/ Claim(k) \/ Start(k) \/ Answered(k)
    \/ Lose(k) \/ Learn(k) \/ Forget(k) \/ Recall(k)

Spec == Init /\ [][Next]_lifeVars

=============================================================================
