--------------------------- MODULE AccountsProofs ---------------------------
(***************************************************************************)
(* What the throttle of the account routes promises, proved for any number *)
(* of requests, sources and limits.                                        *)
(***************************************************************************)
EXTENDS Accounts, FiniteSetTheorems, SequenceTheorems, TLAPS

-----------------------------------------------------------------------------
(* Where a request is, by the statements it still has to run: it has       *)
(* reserved nothing; it has reserved for its source; a wrong credential of *)
(* it was compared; it is settling what it reserved.                       *)
AuthFresh == {<<"arrive">>, <<"lockedUntil">>, <<"reserve">>}
AuthPending == {<<"compare">>, <<"getInvite">>, <<"reserveGlobal">>}
AuthSuspends == {<<"suspendInvite">>, <<"suspendInvite", "lockSubject">>}
AuthPunished == AuthSuspends \cup {<<"lockSubject">>, <<>>}
AuthSettling ==
  {<<>>, <<"refund">>, <<"refundGlobal">>, <<"clear">>,
   <<"refund", "clear">>, <<"refund", "refundGlobal">>,
   <<"insertUser", "clear">>, <<"refundGlobal", "insertUser", "clear">>,
   <<"refund", "refundGlobal", "insertUser", "clear">>,
   <<"putInvite", "clear">>, <<"insertFirstUser", "putInvite", "clear">>,
   <<"refund", "insertFirstUser", "putInvite", "clear">>}
AuthPlans == AuthFresh \cup AuthPending \cup AuthPunished \cup AuthSettling

InviteRow == [version : Nat, suspended : BOOLEAN]
AuthRequest ==
  {r \in [dom : Domains, from : Sources, now : Nat, right : BOOLEAN, code : Nat,
          strikes : Nat, current : InviteRow, todo : AuthPlans \ {<<>>, <<"arrive">>}] :
     r.todo = <<"compare">> => r.dom # "invite"}

AuthTypes ==
  /\ hour \in Nat /\ admins \in {0, 1}
  /\ request \in [Requests -> AuthRequest \cup {NotArrived, Answered}]
  /\ invite \in InviteRow
  /\ IsFiniteSet(strikes) /\ IsFiniteSet(compared)

(* The row a request wrote for a subject is its only one.                  *)
StrikeRows ==
  /\ \A f \in strikes :
       /\ f.by \in Requests /\ request[f.by].todo \notin AuthFresh
       /\ request[f.by].todo \in AuthPending => f.subject = Subject(request[f.by])
  /\ \A f, g \in strikes : f.by = g.by /\ f.subject = g.subject => f = g

(* A request compares one credential.                                      *)
ComparedOnce ==
  /\ \A c \in compared : /\ c.by \in Requests
                         /\ request[c.by].todo \notin AuthFresh \cup AuthPending
  /\ \A c, d \in compared : c.by = d.by => c = d

(* The code of this version was compared as often as its budget allows.    *)
EarnedIn(made, version) ==
  Cardinality({c \in made : c.version = version}) >= INVITE_GLOBAL_STRIKES
Earned(version) == EarnedIn(compared, version)

(* A strike against a code stands for a comparison with it, unless a       *)
(* request that read the code as suspended is about to take it back.       *)
GlobalRows ==
  \A f \in strikes, v \in Nat : f.subject = inviteGlobalSubject(v) =>
    Earned(v) \/ \E c \in compared : c.by = f.by /\ c.version = v

(* Who suspends a code, or read it as suspended, knows it is earned.       *)
SuspendersKnow ==
  \A h \in Requests : request[h] \in AuthRequest =>
    /\ request[h].current.suspended => Earned(request[h].current.version)
    /\ request[h].todo \in AuthSuspends => Earned(request[h].current.version)

AuthInv ==
  /\ AuthTypes /\ StrikeRows /\ ComparedOnce /\ GlobalRows /\ SuspendersKnow
  /\ SuspensionIsEarned

(* For a clock whose unit is the lock time.  A request is handled in the   *)
(* hour it came in; in that hour every wrong comparison of a source has    *)
(* its strike, and the strikes are within the limit.                       *)
StrikesOf(s) == {f \in strikes : f.subject = s /\ f.at = hour}
StrikeBy(h, s) == [by |-> h, subject |-> s, at |-> hour]

GuessTimes ==
  /\ \A h \in Requests : request[h] \in AuthRequest => request[h].now = hour
  /\ \A f \in strikes : f.at \in Nat /\ f.at <= hour
  /\ \A c \in compared : c.at \in Nat /\ c.at <= hour

GuessStrikes ==
  /\ \A h \in Requests : request[h] \in AuthRequest /\ request[h].todo \in AuthPending =>
       \/ Subject(request[h]) \in forgiven
       \/ StrikeBy(h, Subject(request[h])) \in strikes
  /\ \A c \in compared : c.wrong =>
       /\ request[c.by].todo \in AuthPunished
       /\ c.at = hour => c.subject \in forgiven \/ StrikeBy(c.by, c.subject) \in strikes

GuessCounts ==
  /\ \A s \in Subjects : Cardinality(StrikesOf(s)) <= Strikes[s[1]]
  /\ \A s \in Subjects \ forgiven, t \in Nat :
       t < hour => Cardinality(WrongIn(s, t)) <= Strikes[s[1]]

GuessInv == GuessTimes /\ GuessStrikes /\ GuessCounts

(* The statement that comes first, and what follows it.                    *)
SettlingHeads ==
  {"refund", "refundGlobal", "insertUser", "insertFirstUser", "putInvite", "clear"}

LEMMA TupleFacts ==
  /\ Len(<<>>) = 0
  /\ \A a : Head(<<a>>) = a /\ Tail(<<a>>) = <<>> /\ Len(<<a>>) = 1
  /\ \A a, b : Head(<<a, b>>) = a /\ Tail(<<a, b>>) = <<b>> /\ Len(<<a, b>>) = 2
  /\ \A a, b, c : Head(<<a, b, c>>) = a /\ Tail(<<a, b, c>>) = <<b, c>> /\ Len(<<a, b, c>>) = 3
  /\ \A a, b, c, d : /\ Head(<<a, b, c, d>>) = a /\ Tail(<<a, b, c, d>>) = <<b, c, d>>
                     /\ Len(<<a, b, c, d>>) = 4
OBVIOUS

LEMMA StageHeads ==
  /\ \A p \in AuthFresh :
       p = <<Head(p)>> /\ Head(p) \in {"arrive", "lockedUntil", "reserve"} /\ p # <<>>
  /\ \A p \in AuthPending :
       p = <<Head(p)>> /\ Head(p) \in {"compare", "getInvite", "reserveGlobal"} /\ p # <<>>
  /\ \A p \in AuthSuspends :
       Head(p) = "suspendInvite" /\ Tail(p) \in {<<>>, <<"lockSubject">>} /\ p # <<>>
  /\ \A p \in AuthPunished : p \in AuthSuspends \/ p = <<>> \/
       (p = <<"lockSubject">> /\ Head(p) = "lockSubject" /\ Tail(p) = <<>> /\ p # <<>>)
  /\ \A p \in AuthSettling :
       p = <<>> \/ (Head(p) \in SettlingHeads /\ Tail(p) \in AuthSettling /\ p # <<>>)
<1>1. \A p : p = <<>> => Len(p) = 0
  BY Zenon, TupleFacts
<1>2. \A p : Len(p) \in 1..4 => p # <<>>
  BY <1>1
<1>3. 1 \in 1..4 /\ 2 \in 1..4 /\ 3 \in 1..4 /\ 4 \in 1..4
  OBVIOUS
<1>4. \A p \in AuthFresh :
        p = <<Head(p)>> /\ Head(p) \in {"arrive", "lockedUntil", "reserve"} /\ p # <<>>
  BY Zenon, TupleFacts, <1>2, <1>3 DEF AuthFresh
<1>5. \A p \in AuthPending :
        p = <<Head(p)>> /\ Head(p) \in {"compare", "getInvite", "reserveGlobal"} /\ p # <<>>
  BY Zenon, TupleFacts, <1>2, <1>3 DEF AuthPending
<1>6. \A p \in AuthSuspends :
        Head(p) = "suspendInvite" /\ Tail(p) \in {<<>>, <<"lockSubject">>} /\ p # <<>>
  BY Zenon, TupleFacts, <1>2, <1>3 DEF AuthSuspends
<1>7. \A p \in AuthPunished : p \in AuthSuspends \/ p = <<>> \/
        (p = <<"lockSubject">> /\ Head(p) = "lockSubject" /\ Tail(p) = <<>> /\ p # <<>>)
  BY Zenon, TupleFacts, <1>2, <1>3 DEF AuthPunished
<1>8. ASSUME NEW p \in AuthSettling
      PROVE  p = <<>> \/ (Head(p) \in SettlingHeads /\ Tail(p) \in AuthSettling /\ p # <<>>)
  <2>1. CASE p = <<"refund">>
    BY Zenon, TupleFacts, <1>2, <1>3, <2>1 DEF AuthSettling, SettlingHeads
  <2>2. CASE p = <<"refundGlobal">>
    BY Zenon, TupleFacts, <1>2, <1>3, <2>2 DEF AuthSettling, SettlingHeads
  <2>3. CASE p = <<"clear">>
    BY Zenon, TupleFacts, <1>2, <1>3, <2>3 DEF AuthSettling, SettlingHeads
  <2>4. CASE p = <<"refund", "clear">>
    BY Zenon, TupleFacts, <1>2, <1>3, <2>4 DEF AuthSettling, SettlingHeads
  <2>5. CASE p = <<"refund", "refundGlobal">>
    BY Zenon, TupleFacts, <1>2, <1>3, <2>5 DEF AuthSettling, SettlingHeads
  <2>6. CASE p = <<"insertUser", "clear">>
    BY Zenon, TupleFacts, <1>2, <1>3, <2>6 DEF AuthSettling, SettlingHeads
  <2>7. CASE p = <<"refundGlobal", "insertUser", "clear">>
    BY TupleFacts, <1>2, <1>3, <2>7 DEF AuthSettling, SettlingHeads
  <2>8. CASE p = <<"refund", "refundGlobal", "insertUser", "clear">>
    BY TupleFacts, <1>2, <1>3, <2>8 DEF AuthSettling, SettlingHeads
  <2>9. CASE p = <<"putInvite", "clear">>
    BY Zenon, TupleFacts, <1>2, <1>3, <2>9 DEF AuthSettling, SettlingHeads
  <2>10. CASE p = <<"insertFirstUser", "putInvite", "clear">>
    BY TupleFacts, <1>2, <1>3, <2>10 DEF AuthSettling, SettlingHeads
  <2>11. CASE p = <<"refund", "insertFirstUser", "putInvite", "clear">>
    BY TupleFacts, <1>2, <1>3, <2>11 DEF AuthSettling, SettlingHeads
  <2> QED BY Zenon, <1>8, <2>1, <2>2, <2>3, <2>4, <2>5, <2>6, <2>7, <2>8, <2>9, <2>10, <2>11 DEF AuthSettling
<1> QED BY Zenon, <1>4, <1>5, <1>6, <1>7, <1>8

LEMMA PlanHeads ==
  ASSUME NEW p \in AuthPlans \ {<<>>, <<"arrive">>}
  PROVE  /\ Head(p) \in {"lockedUntil", "reserve"} => p = <<Head(p)>> /\ p \in AuthFresh
         /\ Head(p) \in {"compare", "getInvite", "reserveGlobal"} =>
              p = <<Head(p)>> /\ p \in AuthPending
         /\ Head(p) = "suspendInvite" => p \in AuthSuspends /\ Tail(p) \in {<<>>, <<"lockSubject">>}
         /\ Head(p) = "lockSubject" => p \in AuthPunished /\ Tail(p) = <<>>
         /\ Head(p) \in SettlingHeads => p \in AuthSettling /\ Tail(p) \in AuthSettling
<1>1. CASE p \in AuthFresh
  BY Zenon, <1>1, StageHeads DEF SettlingHeads
<1>2. CASE p \in AuthPending
  BY Zenon, <1>2, StageHeads DEF SettlingHeads
<1>3. CASE p \in AuthSuspends
  BY Zenon, <1>3, StageHeads DEF SettlingHeads
<1>4. CASE p = <<"lockSubject">>
  BY Zenon, <1>4, TupleFacts DEF SettlingHeads, AuthPunished
<1>5. CASE p \in AuthSettling
  BY Zenon, <1>5, StageHeads DEF SettlingHeads
<1> QED BY Zenon, <1>1, <1>2, <1>3, <1>4, <1>5 DEF AuthPlans, AuthPunished

(* The stages are apart.                                                   *)
LEMMA StagesAreApart ==
  /\ \A p \in AuthFresh : p \notin AuthPending \cup AuthPunished \cup AuthSettling
  /\ \A p \in AuthPending : p \notin AuthPunished \cup AuthSettling
  /\ \A p \in AuthSettling : p \notin AuthSuspends
  /\ <<>> \notin AuthFresh \cup AuthPending \cup AuthSuspends
  /\ <<"arrive">> \in AuthFresh /\ <<"compare">> \in AuthPending /\ AuthSuspends \subseteq AuthPunished
  /\ <<>> \in AuthPunished /\ <<>> \in AuthSettling
<1>1. ASSUME NEW p \in AuthFresh
      PROVE  p \notin AuthPending /\ p \notin AuthPunished /\ p \notin AuthSettling
  BY Zenon, StageHeads DEF SettlingHeads
<1>2. ASSUME NEW p \in AuthPending
      PROVE  p \notin AuthPunished /\ p \notin AuthSettling
  BY Zenon, StageHeads DEF SettlingHeads
<1>3. ASSUME NEW p \in AuthSuspends PROVE p \notin AuthSettling
  BY Zenon, StageHeads DEF SettlingHeads
<1> QED BY Zenon, <1>1, <1>2, <1>3, StageHeads DEF AuthFresh, AuthPending, AuthPunished, AuthSettling

LEMMA RequestFields ==
  /\ NotArrived.todo = <<"arrive">> /\ Answered.todo = <<>>
  /\ NotArrived \notin AuthRequest /\ Answered \notin AuthRequest
  /\ \A r \in AuthRequest :
       /\ r.dom \in Domains /\ r.from \in Sources /\ r.now \in Nat /\ r.right \in BOOLEAN
       /\ r.strikes \in Nat /\ r.current \in InviteRow /\ r.current.version \in Nat
       /\ r.todo \in AuthPlans \ {<<>>, <<"arrive">>}
       /\ \A p \in AuthPlans \ {<<>>, <<"arrive">>, <<"compare">>} :
            /\ [r EXCEPT !.todo = p] \in AuthRequest /\ [r EXCEPT !.todo = p].todo = p
            /\ Subject([r EXCEPT !.todo = p]) = Subject(r)
            /\ [r EXCEPT !.todo = p].current = r.current /\ [r EXCEPT !.todo = p].now = r.now
<1>1. NotArrived.todo = <<"arrive">> /\ Answered.todo = <<>>
  BY DEF NotArrived, Answered
<1>2. \A r \in AuthRequest : /\ r.dom \in Domains /\ r.from \in Sources /\ r.now \in Nat
                             /\ r.right \in BOOLEAN /\ r.strikes \in Nat /\ r.current \in InviteRow
                             /\ r.todo \in AuthPlans \ {<<>>, <<"arrive">>}
  BY DEF AuthRequest
<1>3. \A r \in AuthRequest : r.current.version \in Nat
  BY <1>2 DEF InviteRow
<1>4. NotArrived \notin AuthRequest /\ Answered \notin AuthRequest
  BY Zenon, <1>1, <1>2
<1>5. ASSUME NEW r \in AuthRequest, NEW p \in AuthPlans \ {<<>>, <<"arrive">>, <<"compare">>}
      PROVE  /\ [r EXCEPT !.todo = p] \in AuthRequest /\ [r EXCEPT !.todo = p].todo = p
             /\ [r EXCEPT !.todo = p].dom = r.dom /\ [r EXCEPT !.todo = p].from = r.from
             /\ [r EXCEPT !.todo = p].current = r.current /\ [r EXCEPT !.todo = p].now = r.now
  BY DEF AuthRequest
<1> QED BY Zenon, <1>1, <1>2, <1>3, <1>4, <1>5 DEF Subject

LEMMA HandlingIs ==
  ASSUME AuthTypes, NEW h \in Requests
  PROVE  Handling(h) <=> request[h] \in AuthRequest
BY Zenon, RequestFields DEF AuthTypes, Handling

(* A version that was compared often enough stays so.                      *)
LEMMA EarnedStays ==
  ASSUME IsFiniteSet(compared'), compared \subseteq compared', NEW v, Earned(v)
  PROVE  EarnedIn(compared', v)
<1> DEFINE C == {c \in compared : c.version = v}
           D == {c \in compared' : c.version = v}
<1>1. C \in SUBSET D /\ D \in SUBSET compared'
  BY Zenon
<1>2. IsFiniteSet(D)
  BY Zenon, <1>1, FS_Subset
<1>3. Cardinality(C) <= Cardinality(D) /\ Cardinality(C) \in Nat /\ Cardinality(D) \in Nat
  BY Zenon, <1>1, <1>2, FS_Subset, FS_CardinalityType
<1>4. Cardinality(C) >= INVITE_GLOBAL_STRIKES /\ INVITE_GLOBAL_STRIKES \in Nat
  BY Zenon, AccountsAssumption DEF Earned, EarnedIn
<1>5. Cardinality(D) >= INVITE_GLOBAL_STRIKES
  <2> HIDE DEF C, D
  <2> QED BY <1>3, <1>4
<1> QED BY Zenon, <1>5 DEF Earned, EarnedIn

(* One request moves on: what has to hold of its new place, of the rows it *)
(* wrote and of what it compared.                                          *)
LEMMA MoveKeeps ==
  ASSUME AuthInv, NEW h \in Requests, NEW r \in AuthRequest \cup {Answered},
         request' = [request EXCEPT ![h] = r],
         hour' = hour, admins' \in {0, 1}, invite' \in InviteRow,
         invite'.suspended => EarnedIn(compared', invite'.version),
         IsFiniteSet(strikes'), IsFiniteSet(compared'), compared \subseteq compared',
         \A f \in strikes' : f.by = h \/ f \in strikes,
         \A c \in compared' : c.by = h \/ c \in compared,
         \A f \in strikes' : f.by = h =>
           r.todo \notin AuthFresh /\ (r.todo \in AuthPending => f.subject = Subject(r)),
         \A f, g \in strikes' : f.by = h /\ g.by = h /\ f.subject = g.subject => f = g,
         \A c \in compared' : c.by = h => r.todo \notin AuthFresh \cup AuthPending,
         \A c, d \in compared' : c.by = h /\ d.by = h => c = d,
         \A f \in strikes', v \in Nat : f.by = h /\ f.subject = inviteGlobalSubject(v) =>
           EarnedIn(compared', v) \/ \E c \in compared' : c.by = f.by /\ c.version = v,
         r \in AuthRequest =>
           (r.current.suspended \/ r.todo \in AuthSuspends => EarnedIn(compared', r.current.version))
  PROVE  AuthInv'
<1>1. /\ AuthTypes /\ StrikeRows /\ ComparedOnce /\ GlobalRows /\ SuspendersKnow
      /\ request \in [Requests -> AuthRequest \cup {NotArrived, Answered}]
  BY Zenon DEF AuthInv, AuthTypes
<1>2. /\ request' \in [Requests -> AuthRequest \cup {NotArrived, Answered}]
      /\ request'[h] = r /\ \A g \in Requests : g # h => request'[g] = request[g]
  BY Zenon, <1>1
<1>3. AuthTypes'
  BY Zenon, <1>1, <1>2 DEF AuthTypes
<1>4. StrikeRows'
  <2>1. ASSUME NEW f \in strikes'
        PROVE  /\ f.by \in Requests /\ request'[f.by].todo \notin AuthFresh
               /\ request'[f.by].todo \in AuthPending => f.subject = Subject(request'[f.by])
    <3>1. CASE f.by = h
      BY Zenon, <1>2, <2>1, <3>1
    <3>2. CASE f.by # h
      <4>1. f \in strikes
        BY Zenon, <2>1, <3>2
      <4>2. /\ f.by \in Requests /\ request[f.by].todo \notin AuthFresh
            /\ request[f.by].todo \in AuthPending => f.subject = Subject(request[f.by])
        BY Zenon, <1>1, <4>1 DEF StrikeRows
      <4> QED BY Zenon, <1>2, <3>2, <4>2
    <3> QED BY Zenon, <3>1, <3>2
  <2>2. ASSUME NEW f \in strikes', NEW g \in strikes', f.by = g.by, f.subject = g.subject
        PROVE  f = g
    BY Zenon, <1>1, <2>2 DEF StrikeRows
  <2> QED BY Zenon, <2>1, <2>2 DEF StrikeRows, Subject
<1>5. ComparedOnce'
  <2>1. ASSUME NEW c \in compared'
        PROVE  c.by \in Requests /\ request'[c.by].todo \notin AuthFresh \cup AuthPending
    <3>1. CASE c.by = h
      BY Zenon, <1>2, <2>1, <3>1
    <3>2. CASE c.by # h
      <4>1. c \in compared
        BY Zenon, <2>1, <3>2
      <4>2. c.by \in Requests /\ request[c.by].todo \notin AuthFresh \cup AuthPending
        BY Zenon, <1>1, <4>1 DEF ComparedOnce
      <4> QED BY Zenon, <1>2, <3>2, <4>2
    <3> QED BY Zenon, <3>1, <3>2
  <2>2. ASSUME NEW c \in compared', NEW d \in compared', c.by = d.by PROVE c = d
    BY Zenon, <1>1, <2>2 DEF ComparedOnce
  <2> QED BY Zenon, <2>1, <2>2 DEF ComparedOnce
<1>6. GlobalRows'
  <2>1. ASSUME NEW f \in strikes', NEW v \in Nat, f.subject = inviteGlobalSubject(v)
        PROVE  EarnedIn(compared', v) \/ \E c \in compared' : c.by = f.by /\ c.version = v
    <3>1. CASE f.by = h
      BY Zenon, <2>1, <3>1
    <3>2. CASE f \in strikes
      <4>1. Earned(v) \/ \E c \in compared : c.by = f.by /\ c.version = v
        BY Zenon, <1>1, <2>1, <3>2 DEF GlobalRows
      <4> QED BY Zenon, <4>1, EarnedStays
    <3> QED BY Zenon, <2>1, <3>1, <3>2
  <2> QED BY Zenon, <2>1 DEF GlobalRows, inviteGlobalSubject, Earned
<1>7. SuspendersKnow'
  <2>1. ASSUME NEW g \in Requests, request'[g] \in AuthRequest,
               request'[g].current.suspended \/ request'[g].todo \in AuthSuspends
        PROVE  EarnedIn(compared', request'[g].current.version)
    <3>1. CASE g = h
      BY Zenon, <1>2, <2>1, <3>1
    <3>2. CASE g # h
      <4>1. request'[g] = request[g]
        BY Zenon, <1>2, <3>2
      <4>2. PICK v : v = request[g].current.version
        BY Zenon
      <4>3. Earned(v)
        BY Zenon, <1>1, <2>1, <4>1, <4>2 DEF SuspendersKnow
      <4>4. EarnedIn(compared', v)
        BY Zenon, <4>3, EarnedStays
      <4> QED BY Zenon, <4>1, <4>2, <4>4
    <3> QED BY Zenon, <3>1, <3>2
  <2> QED BY Zenon, <2>1 DEF SuspendersKnow, Earned
<1> QED BY Zenon, <1>3, <1>4, <1>5, <1>6, <1>7 DEF AuthInv, SuspensionIsEarned, EarnedIn

(* A move that writes no row and compares nothing.                         *)
LEMMA QuietMove ==
  ASSUME AuthInv, NEW h \in Requests, NEW r \in AuthRequest \cup {Answered},
         request' = [request EXCEPT ![h] = r],
         hour' = hour, admins' \in {0, 1}, invite' \in InviteRow,
         invite'.suspended => Earned(invite'.version),
         strikes' \subseteq strikes, compared' = compared,
         r.todo \in AuthFresh => request[h].todo \in AuthFresh,
         r.todo \in AuthPending =>
           \/ request[h].todo \in AuthFresh
           \/ request[h].todo \in AuthPending /\ Subject(r) = Subject(request[h]),
         r \in AuthRequest =>
           (r.current.suspended \/ r.todo \in AuthSuspends => Earned(r.current.version))
  PROVE  AuthInv'
<1>1. AuthTypes /\ StrikeRows /\ ComparedOnce /\ GlobalRows
  BY Zenon DEF AuthInv
<1>2. IsFiniteSet(strikes') /\ IsFiniteSet(compared')
  BY Zenon, <1>1, FS_Subset DEF AuthTypes
<1>3. \A v : Earned(v) <=> EarnedIn(compared', v)
  BY Zenon DEF Earned
<1>4. \A f \in strikes' : f.by = h =>
        r.todo \notin AuthFresh /\ (r.todo \in AuthPending => f.subject = Subject(r))
  BY Zenon, <1>1 DEF StrikeRows
<1>5. \A f, g \in strikes' : f.by = h /\ g.by = h /\ f.subject = g.subject => f = g
  BY Zenon, <1>1 DEF StrikeRows
<1>6. \A c \in compared' : c.by = h => r.todo \notin AuthFresh \cup AuthPending
  BY Zenon, <1>1 DEF ComparedOnce
<1>7. \A c, d \in compared' : c.by = h /\ d.by = h => c = d
  BY Zenon, <1>1 DEF ComparedOnce
<1>8. \A f \in strikes', v \in Nat : f.by = h /\ f.subject = inviteGlobalSubject(v) =>
        EarnedIn(compared', v) \/ \E c \in compared' : c.by = f.by /\ c.version = v
  BY Zenon, <1>1, <1>3 DEF GlobalRows
<1>9. /\ invite'.suspended => EarnedIn(compared', invite'.version)
      /\ r \in AuthRequest =>
           (r.current.suspended \/ r.todo \in AuthSuspends => EarnedIn(compared', r.current.version))
  BY Zenon, <1>3
<1>10. /\ \A f \in strikes' : f.by = h \/ f \in strikes
       /\ \A c \in compared' : c.by = h \/ c \in compared
       /\ compared \subseteq compared'
  BY Zenon
<1> QED BY Zenon, <1>2, <1>4, <1>5, <1>6, <1>7, <1>8, <1>9, <1>10, MoveKeeps

LEMMA PlansIs ==
  ASSUME AuthTypes, NEW h \in Requests, request[h] \in AuthRequest,
         NEW p \in AuthPlans \ {<<"arrive">>, <<"compare">>}, Plans(h, p)
  PROVE  \E r \in AuthRequest \cup {Answered} :
           /\ request' = [request EXCEPT ![h] = r] /\ r.todo = p
           /\ r \in AuthRequest => /\ Subject(r) = Subject(request[h])
                                   /\ r.current = request[h].current /\ r.now = request[h].now
<1>1. CASE p = <<>>
  BY Zenon, <1>1, RequestFields DEF Plans
<1>2. CASE p # <<>>
  <2>1. PICK r : r = [request[h] EXCEPT !.todo = p]
    BY Zenon
  <2>2. request' = [request EXCEPT ![h] = r]
    BY Zenon, <1>2, <2>1 DEF Plans
  <2>3. /\ r \in AuthRequest /\ r.todo = p /\ Subject(r) = Subject(request[h])
        /\ r.current = request[h].current /\ r.now = request[h].now
    BY Zenon, <1>2, <2>1, RequestFields
  <2> QED BY Zenon, <2>2, <2>3
<1> QED BY Zenon, <1>1, <1>2

(* What a settled request goes on with.                                    *)
LEMMA SettlingPlan ==
  ASSUME NEW p \in AuthSettling \cup {<<"lockSubject">>}
  PROVE  p \in AuthPlans \ {<<"arrive">>, <<"compare">>} /\ p \notin AuthFresh \cup AuthPending \cup AuthSuspends
<1>1. CASE p \in AuthSettling
  BY Zenon, <1>1, StagesAreApart DEF AuthPlans
<1>2. CASE p = <<"lockSubject">>
  <2>1. p \in AuthPunished /\ Head(p) = "lockSubject"
    BY Zenon, <1>2, TupleFacts DEF AuthPunished
  <2>2. p \notin AuthSuspends
    BY Zenon, <2>1, StageHeads
  <2> QED BY Zenon, <2>1, <2>2, StagesAreApart DEF AuthPlans
<1> QED BY Zenon, <1>1, <1>2

(* A request that goes on settling, or answers.                            *)
LEMMA SettleMove ==
  ASSUME AuthInv, NEW h \in Requests, request[h] \in AuthRequest,
         NEW p \in AuthSettling \cup {<<"lockSubject">>}, Plans(h, p),
         hour' = hour, admins' \in {0, 1}, invite' \in InviteRow,
         invite'.suspended => Earned(invite'.version),
         strikes' \subseteq strikes, compared' = compared
  PROVE  AuthInv'
<1>1. p \in AuthPlans \ {<<"arrive">>, <<"compare">>} /\ p \notin AuthFresh \cup AuthPending \cup AuthSuspends
  BY Zenon, SettlingPlan
<1>2. PICK r \in AuthRequest \cup {Answered} :
           /\ request' = [request EXCEPT ![h] = r] /\ r.todo = p
           /\ r \in AuthRequest => /\ Subject(r) = Subject(request[h])
                                   /\ r.current = request[h].current /\ r.now = request[h].now
  <2>1. AuthTypes /\ p \in AuthPlans \ {<<"arrive">>, <<"compare">>}
    BY Zenon, <1>1 DEF AuthInv
  <2> QED BY Zenon, <2>1, PlansIs
<1>3. request[h].current.suspended => Earned(request[h].current.version)
  BY Zenon DEF AuthInv, SuspendersKnow
<1>4. r \in AuthRequest =>
        (r.current.suspended \/ r.todo \in AuthSuspends => Earned(r.current.version))
  BY Zenon, <1>1, <1>2, <1>3
<1> QED BY Zenon, <1>1, <1>2, <1>4, QuietMove

(* The clock or the code moves on; requests may be dropped.                *)
LEMMA WorldKeeps ==
  ASSUME AuthInv, hour' \in Nat, admins' = admins, invite' \in InviteRow,
         invite'.suspended => Earned(invite'.version),
         strikes' = strikes, compared' = compared,
         request' \in [Requests -> AuthRequest \cup {NotArrived, Answered}],
         \A g \in Requests : request'[g] = request[g] \/ request'[g] = Answered
  PROVE  AuthInv'
<1>1. /\ AuthTypes /\ StrikeRows /\ ComparedOnce /\ GlobalRows /\ SuspendersKnow
  BY Zenon DEF AuthInv
<1>2. Answered.todo \notin AuthFresh \cup AuthPending /\ Answered \notin AuthRequest
  BY Zenon, RequestFields, StagesAreApart
<1>3. \A v : EarnedIn(compared', v) <=> Earned(v)
  BY Zenon DEF Earned
<1>4. AuthTypes'
  BY Zenon, <1>1 DEF AuthTypes
<1>5. StrikeRows'
  <2>1. ASSUME NEW f \in strikes'
        PROVE  /\ f.by \in Requests /\ request'[f.by].todo \notin AuthFresh
               /\ request'[f.by].todo \in AuthPending => f.subject = Subject(request'[f.by])
    <3>1. /\ f.by \in Requests /\ request[f.by].todo \notin AuthFresh
          /\ request[f.by].todo \in AuthPending => f.subject = Subject(request[f.by])
      BY Zenon, <1>1, <2>1 DEF StrikeRows
    <3>2. request'[f.by] = request[f.by] \/ request'[f.by] = Answered
      BY Zenon, <3>1
    <3> QED BY Zenon, <1>2, <3>1, <3>2
  <2> QED BY Zenon, <1>1, <2>1 DEF StrikeRows, Subject
<1>6. ComparedOnce'
  <2>1. ASSUME NEW c \in compared'
        PROVE  c.by \in Requests /\ request'[c.by].todo \notin AuthFresh \cup AuthPending
    <3>1. c.by \in Requests /\ request[c.by].todo \notin AuthFresh \cup AuthPending
      BY Zenon, <1>1, <2>1 DEF ComparedOnce
    <3>2. request'[c.by] = request[c.by] \/ request'[c.by] = Answered
      BY Zenon, <3>1
    <3> QED BY Zenon, <1>2, <3>1, <3>2
  <2> QED BY Zenon, <1>1, <2>1 DEF ComparedOnce
<1>7. GlobalRows'
  BY Zenon, <1>1, <1>3 DEF GlobalRows, inviteGlobalSubject, Earned
<1>8. SuspendersKnow'
  <2>1. ASSUME NEW g \in Requests, request'[g] \in AuthRequest
        PROVE  request'[g] = request[g]
    BY Zenon, <1>2, <2>1
  <2> QED BY Zenon, <1>1, <1>3, <2>1 DEF SuspendersKnow, Earned
<1>9. SuspensionIsEarned'
  BY Zenon, <1>3 DEF SuspensionIsEarned, EarnedIn
<1> QED BY Zenon, <1>4, <1>5, <1>6, <1>7, <1>8, <1>9 DEF AuthInv

LEMMA RunsAre ==
  ASSUME AuthInv, NEW h \in Requests, NEW statement, Runs(h, statement)
  PROVE  /\ AuthTypes /\ request[h] \in AuthRequest /\ Head(request[h].todo) = statement
         /\ request[h].todo \in AuthPlans \ {<<>>, <<"arrive">>}
<1>1. AuthTypes /\ Handling(h) /\ Head(request[h].todo) = statement
  BY Zenon DEF AuthInv, Runs
<1>2. request[h] \in AuthRequest
  BY Zenon, <1>1, HandlingIs
<1> QED BY Zenon, <1>1, <1>2, RequestFields

LEMMA ArrivesKeeps ==
  ASSUME AuthInv, NEW h \in Requests, NEW dom \in Domains, NEW source \in Sources,
         NEW right \in BOOLEAN, Arrives(h, dom, source, right)
  PROVE  AuthInv'
<1>1. AuthTypes /\ hour \in Nat /\ invite \in InviteRow /\ admins \in {0, 1}
  BY Zenon DEF AuthInv, AuthTypes
<1>2. PICK r : r = [dom |-> dom, from |-> source, now |-> hour, right |-> right,
            code |-> invite.version, strikes |-> 0, current |-> invite,
            todo |-> <<IF dom = "bootstrap" THEN "lockedUntil" ELSE "reserve">>]
  BY Zenon
<1>3. /\ request[h] = NotArrived
      /\ \/ request' = [request EXCEPT ![h] = r]
         \/ request' = [request EXCEPT ![h] = Answered]
      /\ hour' = hour /\ strikes' = strikes /\ invite' = invite /\ admins' = admins
      /\ compared' = compared
  BY Zenon, <1>2 DEF Arrives, world, authHistory
<1>4. <<IF dom = "bootstrap" THEN "lockedUntil" ELSE "reserve">> \in AuthFresh \ {<<"arrive">>}
  <2>1. <<"lockedUntil">> # <<"arrive">> /\ <<"reserve">> # <<"arrive">>
    OBVIOUS
  <2> QED BY Zenon, <2>1 DEF AuthFresh
<1>5. /\ r.todo \in AuthFresh \ {<<"arrive">>} /\ r.current = invite
  BY Zenon, <1>2, <1>4
<1>6. r.todo \in AuthPlans \ {<<>>, <<"arrive">>, <<"compare">>}
  BY Zenon, <1>5, StagesAreApart DEF AuthPlans
<1>7. r \in AuthRequest
  <2>1. invite.version \in Nat /\ 0 \in Nat
    BY <1>1 DEF InviteRow
  <2>2. r \in [dom : Domains, from : Sources, now : Nat, right : BOOLEAN, code : Nat,
               strikes : Nat, current : InviteRow, todo : AuthPlans \ {<<>>, <<"arrive">>}]
    BY Zenon, <1>1, <1>2, <1>4, <1>6, <2>1
  <2> QED BY Zenon, <1>6, <2>2 DEF AuthRequest
<1>8. request[h].todo \in AuthFresh
  BY Zenon, <1>3, RequestFields, StagesAreApart
<1>9. invite.suspended => Earned(invite.version)
  BY Zenon DEF AuthInv, SuspensionIsEarned, Earned, EarnedIn
<1>10. r.todo \notin AuthPending \cup AuthSuspends
  BY Zenon, <1>5, StagesAreApart
<1>11. Answered.todo \notin AuthFresh \cup AuthPending /\ Answered \notin AuthRequest
  BY Zenon, RequestFields, StagesAreApart
<1>12. CASE request' = [request EXCEPT ![h] = r]
  BY Zenon, <1>1, <1>3, <1>5, <1>7, <1>8, <1>9, <1>10, <1>12, QuietMove
<1>13. CASE request' = [request EXCEPT ![h] = Answered]
  BY Zenon, <1>1, <1>3, <1>9, <1>11, <1>13, QuietMove
<1> QED BY Zenon, <1>3, <1>12, <1>13

LEMMA LockedUntilKeeps ==
  ASSUME AuthInv, NEW h \in Requests, lockedUntil(h)
  PROVE  AuthInv'
<1>1. Runs(h, "lockedUntil") /\ (Plans(h, <<>>) \/ Plans(h, <<"reserve">>))
  BY Zenon DEF lockedUntil
<1>2. /\ hour' = hour /\ strikes' = strikes /\ invite' = invite /\ admins' = admins
      /\ compared' = compared
  BY Zenon DEF lockedUntil, world, authHistory
<1>3. /\ AuthTypes /\ request[h] \in AuthRequest /\ request[h].todo \in AuthFresh
      /\ invite \in InviteRow /\ admins \in {0, 1}
  <2>1. /\ AuthTypes /\ request[h] \in AuthRequest /\ Head(request[h].todo) = "lockedUntil"
        /\ request[h].todo \in AuthPlans \ {<<>>, <<"arrive">>}
    BY Zenon, <1>1, RunsAre
  <2> QED BY Zenon, <2>1, PlanHeads DEF AuthTypes
<1>4. /\ invite.suspended => Earned(invite.version)
      /\ request[h].current.suspended => Earned(request[h].current.version)
  BY Zenon, <1>3 DEF AuthInv, SuspensionIsEarned, SuspendersKnow, Earned, EarnedIn
<1>5. CASE Plans(h, <<>>)
  <2>1. <<>> \in AuthSettling
    BY Zenon, StagesAreApart
  <2> QED BY Zenon, <1>2, <1>3, <1>4, <1>5, <2>1, SettleMove
<1>6. CASE Plans(h, <<"reserve">>)
  <2>1. <<"reserve">> \in AuthFresh /\ <<"reserve">> \in AuthPlans \ {<<"arrive">>, <<"compare">>}
    <3>1. <<"reserve">> # <<"arrive">> /\ <<"reserve">> # <<"compare">>
      OBVIOUS
    <3> QED BY Zenon, <3>1 DEF AuthFresh, AuthPlans
  <2>2. PICK r \in AuthRequest \cup {Answered} :
           /\ request' = [request EXCEPT ![h] = r] /\ r.todo = <<"reserve">>
           /\ r \in AuthRequest => /\ Subject(r) = Subject(request[h])
                                   /\ r.current = request[h].current /\ r.now = request[h].now
    BY Zenon, <1>3, <1>6, <2>1, PlansIs
  <2>3. r.todo \notin AuthPending \cup AuthSuspends
    BY Zenon, <2>1, <2>2, StagesAreApart
  <2> QED BY Zenon, <1>2, <1>3, <1>4, <2>1, <2>2, <2>3, QuietMove
<1> QED BY Zenon, <1>1, <1>5, <1>6

LEMMA GetInviteKeeps ==
  ASSUME AuthInv, NEW h \in Requests, getInvite(h)
  PROVE  AuthInv'
<1>1. /\ hour' = hour /\ strikes' = strikes /\ invite' = invite /\ admins' = admins
      /\ compared' = compared
  BY Zenon DEF getInvite, world, authHistory
<1>2. /\ AuthTypes /\ request[h] \in AuthRequest /\ request[h].todo \in AuthPending
      /\ invite \in InviteRow /\ admins \in {0, 1}
  <2>1. /\ AuthTypes /\ request[h] \in AuthRequest /\ Head(request[h].todo) = "getInvite"
        /\ request[h].todo \in AuthPlans \ {<<>>, <<"arrive">>}
    BY Zenon, RunsAre DEF getInvite
  <2> QED BY Zenon, <2>1, PlanHeads DEF AuthTypes
<1>3. PICK p : p = IF invite.version = 0 THEN <<"refund">> ELSE <<"reserveGlobal">>
  BY Zenon
<1>4. PICK r : r = [request[h] EXCEPT !.todo = p, !.current = invite]
  BY Zenon
<1>5. request' = [request EXCEPT ![h] = r]
  BY <1>2, <1>3, <1>4 DEF getInvite, AuthTypes
<1>6. /\ p \in AuthPlans \ {<<>>, <<"arrive">>, <<"compare">>}
      /\ p \notin AuthFresh \cup AuthSuspends
  <2>1. <<"reserveGlobal">> # <<"compare">>
    OBVIOUS
  <2>2. <<"refund">> \in AuthSettling /\ <<"reserveGlobal">> \in AuthPending
    BY Zenon DEF AuthSettling, AuthPending
  <2>3. <<"refund">> # <<>>
    OBVIOUS
  <2>4. <<"reserveGlobal">> \notin AuthFresh \cup AuthSuspends
    BY Zenon, <2>2, StagesAreApart
  <2>5. <<"refund">> \notin AuthFresh \cup AuthSuspends \cup AuthPending
    BY Zenon, <2>2, StagesAreApart
  <2> QED BY Zenon, <1>3, <2>1, <2>2, <2>3, <2>4, <2>5, StagesAreApart DEF AuthPlans
<1>7. r \in AuthRequest /\ r.todo = p /\ r.current = invite /\ Subject(r) = Subject(request[h])
  <2>1. /\ r \in [dom : Domains, from : Sources, now : Nat, right : BOOLEAN, code : Nat,
                  strikes : Nat, current : InviteRow, todo : AuthPlans \ {<<>>, <<"arrive">>}]
        /\ r.todo = p /\ r.current = invite /\ r.dom = request[h].dom /\ r.from = request[h].from
    BY <1>2, <1>4, <1>6 DEF AuthRequest
  <2> QED BY Zenon, <1>6, <2>1 DEF AuthRequest, Subject
<1>8. invite.suspended => Earned(invite.version)
  BY Zenon DEF AuthInv, SuspensionIsEarned, Earned, EarnedIn
<1> QED BY Zenon, <1>1, <1>2, <1>5, <1>6, <1>7, <1>8, QuietMove

(* The statements after the comparison.                                    *)
LEMMA SettlingKeeps ==
  ASSUME AuthInv, NEW h \in Requests,
         \/ suspendInvite(h) \/ lockSubject(h) \/ releaseFailureBudget(h) \/ insertUser(h)
         \/ insertFirstUser(h) \/ BootstrapPutsInvite(h) \/ clearAuthDomain(h)
  PROVE  AuthInv'
<1>1. /\ invite \in InviteRow /\ admins \in {0, 1}
      /\ invite.suspended => Earned(invite.version)
  BY Zenon DEF AuthInv, AuthTypes, SuspensionIsEarned, Earned, EarnedIn
<1>2. <<>> \in AuthSettling
  BY Zenon, StagesAreApart
<1>3. ASSUME NEW statement \in SettlingHeads \cup {"lockSubject", "suspendInvite"},
             Runs(h, statement)
      PROVE  /\ request[h] \in AuthRequest
             /\ Tail(request[h].todo) \in AuthSettling \cup {<<"lockSubject">>}
             /\ statement = "suspendInvite" => Earned(request[h].current.version)
  <2>1. /\ AuthTypes /\ request[h] \in AuthRequest /\ Head(request[h].todo) = statement
        /\ request[h].todo \in AuthPlans \ {<<>>, <<"arrive">>}
    BY Zenon, <1>3, RunsAre
  <2>2. CASE statement = "suspendInvite"
    BY Zenon, <1>2, <2>1, <2>2, PlanHeads DEF AuthInv, SuspendersKnow
  <2>3. CASE statement = "lockSubject"
    BY Zenon, <1>2, <2>1, <2>3, PlanHeads
  <2>4. CASE statement \in SettlingHeads
    BY Zenon, <2>1, <2>4, PlanHeads DEF SettlingHeads
  <2> QED BY Zenon, <1>3, <2>2, <2>3, <2>4
<1>4. CASE suspendInvite(h)
  <2>1. /\ Runs(h, "suspendInvite") /\ Plans(h, Tail(request[h].todo))
        /\ hour' = hour /\ strikes' = strikes /\ admins' = admins /\ compared' = compared
    BY Zenon, <1>4 DEF suspendInvite, Proceeds, world, authHistory
  <2>2. /\ invite' \in InviteRow /\ invite'.version = invite.version
        /\ invite'.suspended => invite.suspended \/ invite.version = request[h].current.version
    BY <1>1, <1>4 DEF suspendInvite, InviteRow
  <2>3. invite'.suspended => Earned(invite'.version)
    BY Zenon, <1>1, <1>3, <2>1, <2>2
  <2> QED BY Zenon, <1>1, <1>3, <2>1, <2>2, <2>3, SettleMove
<1>5. CASE lockSubject(h)
  <2>1. /\ Runs(h, "lockSubject") /\ Plans(h, Tail(request[h].todo)) /\ hour' = hour
        /\ strikes' = strikes /\ admins' = admins /\ compared' = compared /\ invite' = invite
    BY Zenon, <1>5 DEF lockSubject, Proceeds, world, authHistory
  <2> QED BY Zenon, <1>1, <1>3, <2>1, SettleMove
<1>6. CASE releaseFailureBudget(h)
  <2>1. /\ Runs(h, "refund") \/ Runs(h, "refundGlobal")
        /\ Plans(h, Tail(request[h].todo)) /\ hour' = hour
        /\ strikes' \subseteq strikes /\ admins' = admins /\ compared' = compared /\ invite' = invite
    BY Zenon, <1>6 DEF releaseFailureBudget, Proceeds, world, authHistory
  <2>2. request[h] \in AuthRequest /\ Tail(request[h].todo) \in AuthSettling \cup {<<"lockSubject">>}
    BY Zenon, <1>3, <2>1 DEF SettlingHeads
  <2> QED BY Zenon, <1>1, <2>1, <2>2, SettleMove
<1>7. CASE insertUser(h)
  <2>1. /\ Runs(h, "insertUser") /\ (Plans(h, Tail(request[h].todo)) \/ Plans(h, <<>>)) /\ hour' = hour
        /\ strikes' = strikes /\ admins' = admins /\ compared' = compared /\ invite' = invite
    BY Zenon, <1>7 DEF insertUser, Proceeds, world, authHistory
  <2>2. request[h] \in AuthRequest /\ Tail(request[h].todo) \in AuthSettling \cup {<<"lockSubject">>}
    BY Zenon, <1>3, <2>1 DEF SettlingHeads
  <2> QED BY Zenon, <1>1, <1>2, <2>1, <2>2, SettleMove
<1>8. CASE insertFirstUser(h)
  <2>1. /\ Runs(h, "insertFirstUser") /\ (Plans(h, Tail(request[h].todo)) \/ Plans(h, <<>>))
        /\ hour' = hour /\ strikes' = strikes /\ compared' = compared /\ invite' = invite
    BY Zenon, <1>8 DEF insertFirstUser, Proceeds, world, authHistory
  <2>2. admins' \in {0, 1}
    BY <1>1, <1>8 DEF insertFirstUser
  <2>3. request[h] \in AuthRequest /\ Tail(request[h].todo) \in AuthSettling \cup {<<"lockSubject">>}
    BY Zenon, <1>3, <2>1 DEF SettlingHeads
  <2> QED BY Zenon, <1>1, <1>2, <2>1, <2>2, <2>3, SettleMove
<1>9. CASE BootstrapPutsInvite(h)
  <2>1. /\ Runs(h, "putInvite") /\ Plans(h, Tail(request[h].todo)) /\ hour' = hour
        /\ strikes' = strikes /\ admins' = admins /\ compared' = compared
    BY Zenon, <1>9 DEF BootstrapPutsInvite, Proceeds, world, authHistory
  <2>2. invite' \in InviteRow /\ ~ invite'.suspended
    BY <1>1, <1>9 DEF BootstrapPutsInvite, putInvite, InviteRow
  <2>3. request[h] \in AuthRequest /\ Tail(request[h].todo) \in AuthSettling \cup {<<"lockSubject">>}
    BY Zenon, <1>3, <2>1 DEF SettlingHeads
  <2> QED BY Zenon, <1>1, <2>1, <2>2, <2>3, SettleMove
<1>10. CASE clearAuthDomain(h)
  <2>1. /\ Runs(h, "clear") /\ Plans(h, Tail(request[h].todo)) /\ hour' = hour
        /\ strikes' \subseteq strikes /\ admins' = admins /\ compared' = compared /\ invite' = invite
    BY Zenon, <1>10 DEF clearAuthDomain, Proceeds, world
  <2>2. request[h] \in AuthRequest /\ Tail(request[h].todo) \in AuthSettling \cup {<<"lockSubject">>}
    BY Zenon, <1>3, <2>1 DEF SettlingHeads
  <2> QED BY Zenon, <1>1, <2>1, <2>2, SettleMove
<1> QED BY Zenon, <1>4, <1>5, <1>6, <1>7, <1>8, <1>9, <1>10

LEMMA HourPassesIs ==
  ASSUME AuthTypes, HourPasses
  PROVE  /\ request' \in [Requests -> AuthRequest \cup {NotArrived, Answered}]
         /\ \A g \in Requests : request'[g] = request[g] \/ request'[g] = Answered
         /\ hour' = hour + 1 /\ hour' \in Nat
<1>1. request' = [h \in Requests |->
        IF Handling(h) /\ hour' - request[h].now >= AUTH_LOCKOUT_MS THEN Answered ELSE request[h]]
  BY Zenon DEF HourPasses
<1>2. \A g \in Requests : request'[g] = request[g] \/ request'[g] = Answered
  BY Zenon, <1>1
<1>3. request' \in [Requests -> AuthRequest \cup {NotArrived, Answered}]
  BY Zenon, <1>1 DEF AuthTypes
<1>4. hour' = hour + 1 /\ hour' \in Nat
  BY DEF HourPasses, AuthTypes
<1> QED BY Zenon, <1>2, <1>3, <1>4

LEMMA WorldStepsKeep ==
  ASSUME AuthInv, HourPasses \/ rotateInvite
  PROVE  AuthInv'
<1>1. /\ AuthTypes /\ invite \in InviteRow /\ hour \in Nat
      /\ request \in [Requests -> AuthRequest \cup {NotArrived, Answered}]
      /\ invite.suspended => Earned(invite.version)
  BY Zenon DEF AuthInv, AuthTypes, SuspensionIsEarned, Earned, EarnedIn
<1>2. CASE HourPasses
  <2>1. strikes' = strikes /\ admins' = admins /\ compared' = compared /\ invite' = invite
    BY Zenon, <1>2 DEF HourPasses, authHistory
  <2> QED BY Zenon, <1>1, <1>2, <2>1, HourPassesIs, WorldKeeps
<1>3. CASE rotateInvite
  <2>1. /\ strikes' = strikes /\ admins' = admins /\ compared' = compared /\ request' = request
        /\ hour' = hour
    BY Zenon, <1>3 DEF rotateInvite, authHistory, world
  <2>2. invite' \in InviteRow /\ ~ invite'.suspended
    BY <1>1, <1>3 DEF rotateInvite, putInvite, InviteRow
  <2> QED BY Zenon, <1>1, <2>1, <2>2, WorldKeeps
<1> QED BY Zenon, <1>2, <1>3

(* A request reserves for its source, or compares, once.                   *)
LEMMA EarlierIs ==
  ASSUME AuthInv, NEW h \in Requests
  PROVE  /\ request[h].todo \in AuthFresh =>
              (\A f \in strikes : f.by # h) /\ (\A c \in compared : c.by # h)
         /\ request[h].todo \in AuthPending =>
              /\ \A f \in strikes : f.by = h => f.subject = Subject(request[h])
              /\ \A c \in compared : c.by # h
         /\ request[h] \in AuthRequest =>
              /\ \A v : Subject(request[h]) # inviteGlobalSubject(v)
              /\ request[h].current.suspended => Earned(request[h].current.version)
<1>1. StrikeRows /\ ComparedOnce /\ SuspendersKnow
  BY Zenon DEF AuthInv
<1>2. \A d \in Domains : d # "global"
  BY Zenon DEF Domains
<1>3. \A a, b, c, d : <<a, b>> = <<c, d>> => a = c
  OBVIOUS
<1>4. ASSUME request[h] \in AuthRequest, NEW v
      PROVE  Subject(request[h]) # inviteGlobalSubject(v)
  BY Zenon, <1>2, <1>3, <1>4, RequestFields DEF Subject, inviteGlobalSubject
<1> QED BY Zenon, <1>1, <1>4 DEF StrikeRows, ComparedOnce, SuspendersKnow

LEMMA PrunedIs ==
  ASSUME AuthTypes, NEW now, NEW row
  PROVE  /\ Pruned(now) \subseteq strikes /\ IsFiniteSet(Pruned(now))
         /\ IsFiniteSet(Pruned(now) \cup {row})
         /\ \A s, t : InWindow(Pruned(now) \cup {row}, s, t) \in Nat
<1>1. Pruned(now) \in SUBSET strikes
  BY Zenon DEF Pruned
<1>2. IsFiniteSet(Pruned(now)) /\ IsFiniteSet(Pruned(now) \cup {row})
  BY Zenon, <1>1, FS_Subset, FS_AddElement DEF AuthTypes
<1>3. ASSUME NEW s, NEW t PROVE InWindow(Pruned(now) \cup {row}, s, t) \in Nat
  <2> DEFINE W == {f \in Pruned(now) \cup {row} : f.subject = s /\ f.at > t - AUTH_LOCKOUT_MS}
  <2>1. W \in SUBSET (Pruned(now) \cup {row})
    BY Zenon
  <2> HIDE DEF W
  <2>2. Cardinality(W) \in Nat
    BY Zenon, <1>2, <2>1, FS_Subset, FS_CardinalityType
  <2> QED BY Zenon, <2>2 DEF W, InWindow
<1> QED BY Zenon, <1>1, <1>2, <1>3

LEMMA ReserveSourceKeeps ==
  ASSUME AuthInv, NEW h \in Requests, ReserveSource(h)
  PROVE  AuthInv'
<1> DEFINE old == request[h]
           row == [by |-> h, subject |-> Subject(old), at |-> old.now]
<1>1. /\ hour' = hour /\ invite' = invite /\ admins' = admins /\ compared' = compared
      /\ strikes' = Pruned(old.now) \cup
           IF Granted(Subject(old), old.now, Strikes[old.dom]) THEN {row} ELSE {}
  BY Zenon DEF ReserveSource, reserveFailureBudget, world, authHistory
<1>2. /\ AuthTypes /\ old \in AuthRequest /\ old.todo \in AuthFresh
      /\ invite \in InviteRow /\ admins \in {0, 1} /\ IsFiniteSet(compared)
  <2>1. /\ AuthTypes /\ old \in AuthRequest /\ Head(old.todo) = "reserve"
        /\ old.todo \in AuthPlans \ {<<>>, <<"arrive">>}
    BY Zenon, RunsAre DEF ReserveSource
  <2> QED BY Zenon, <2>1, PlanHeads DEF AuthTypes
<1>3. invite.suspended => Earned(invite.version)
  BY Zenon DEF AuthInv, SuspensionIsEarned, Earned, EarnedIn
<1>4. CASE ~ Granted(Subject(old), old.now, Strikes[old.dom])
  <2>1. request' = [request EXCEPT ![h] = Answered] /\ strikes' \subseteq strikes
    BY Zenon, <1>1, <1>2, <1>4, PrunedIs DEF ReserveSource
  <2>2. Answered.todo \notin AuthFresh \cup AuthPending /\ Answered \notin AuthRequest
    BY Zenon, RequestFields, StagesAreApart
  <2> QED BY Zenon, <1>1, <1>2, <1>3, <2>1, <2>2, QuietMove
<1>5. CASE Granted(Subject(old), old.now, Strikes[old.dom])
  <2>1. strikes' = Pruned(old.now) \cup {row}
    BY Zenon, <1>1, <1>5
  <2>2. PICK p : p = IF old.dom = "invite" THEN <<"getInvite">> ELSE <<"compare">>
    BY Zenon
  <2>3. PICK n : n = InWindow(strikes', Subject(old), old.now)
    BY Zenon
  <2>4. PICK r : r = [old EXCEPT !.todo = p, !.strikes = n]
    BY Zenon
  <2>5. request' = [request EXCEPT ![h] = r]
    BY Zenon, <1>5, <2>2, <2>3, <2>4 DEF ReserveSource
  <2>6. n \in Nat
    BY Zenon, <1>2, <2>1, <2>3, PrunedIs
  <2>7. p \in AuthPending /\ (p = <<"compare">> => old.dom # "invite")
    <3>1. <<"getInvite">> # <<"compare">>
      OBVIOUS
    <3> QED BY Zenon, <2>2, <3>1 DEF AuthPending
  <2>8. p \in AuthPlans \ {<<>>, <<"arrive">>} /\ p \notin AuthFresh \cup AuthSuspends
    BY Zenon, <2>7, StagesAreApart DEF AuthPlans
  <2>9. /\ r \in AuthRequest /\ r.todo = p /\ r.current = old.current /\ Subject(r) = Subject(old)
    <3>1. /\ r \in [dom : Domains, from : Sources, now : Nat, right : BOOLEAN, code : Nat,
                    strikes : Nat, current : InviteRow, todo : AuthPlans \ {<<>>, <<"arrive">>}]
          /\ r.todo = p /\ r.current = old.current /\ r.dom = old.dom /\ r.from = old.from
      <4> HIDE DEF old
      <4> QED BY <1>2, <2>4, <2>6, <2>8 DEF AuthRequest
    <3> QED BY Zenon, <2>7, <3>1 DEF AuthRequest, Subject
  <2>10. /\ \A f \in strikes : f.by # h
         /\ \A c \in compared : c.by # h
         /\ \A v : Subject(old) # inviteGlobalSubject(v)
         /\ old.current.suspended => Earned(old.current.version)
    BY Zenon, <1>2, EarlierIs
  <2>11. row.by = h /\ row.subject = Subject(old)
    BY Zenon
  <2>12. PICK new : new = row
    BY Zenon
  <2> HIDE DEF row
  <2>13. \A f \in strikes' : f = new \/ f \in strikes
    BY Zenon, <1>2, <2>1, <2>12, PrunedIs
  <2>14. IsFiniteSet(strikes')
    BY Zenon, <1>2, <2>1, PrunedIs
  <2>15. \A f \in strikes' : f.by = h => f = new
    BY Zenon, <2>10, <2>13
  <2>16. \A f \in strikes' : f.by = h => f.subject = Subject(r)
    BY Zenon, <2>9, <2>11, <2>12, <2>15
  <2>17. \A f \in strikes', v \in Nat : f.by = h => f.subject # inviteGlobalSubject(v)
    BY Zenon, <2>10, <2>11, <2>12, <2>15
  <2>18. r.todo \notin AuthFresh \cup AuthSuspends
    BY Zenon, <2>8, <2>9
  <2>19. invite'.suspended => EarnedIn(compared', invite'.version)
    BY Zenon, <1>1, <1>3 DEF Earned
  <2>20. r \in AuthRequest =>
           (r.current.suspended \/ r.todo \in AuthSuspends => EarnedIn(compared', r.current.version))
    BY Zenon, <1>1, <2>9, <2>10, <2>18 DEF Earned
  <2>21. \A f, g \in strikes' : f.by = h /\ g.by = h /\ f.subject = g.subject => f = g
    BY Zenon, <2>15
  <2>22. \A f \in strikes' : f.by = h \/ f \in strikes
    BY Zenon, <2>11, <2>12, <2>13
  <2>23. r \in AuthRequest \cup {Answered} /\ invite' \in InviteRow /\ admins' \in {0, 1}
         /\ hour' = hour /\ IsFiniteSet(compared') /\ compared \subseteq compared'
         /\ \A c \in compared' : c.by # h /\ c \in compared
    BY Zenon, <1>1, <1>2, <2>9, <2>10
  <2> HIDE DEF old
  <2> QED BY Zenon, <2>5, <2>14, <2>16, <2>17, <2>18, <2>19, <2>20, <2>21, <2>22, <2>23, MoveKeeps
<1> QED BY Zenon, <1>4, <1>5

(* What a comparison leads to.                                             *)
LEMMA BansAre == \A r : Bans(r) \in {<<>>, <<"lockSubject">>}
BY Zenon DEF Bans

LEMMA ComparePlans ==
  ASSUME AuthTypes, NEW h \in Requests, request[h] \in AuthRequest,
         request[h].todo = <<"compare">>, Compare(h)
  PROVE  \E p \in AuthSettling \cup {<<"lockSubject">>} :
           /\ Plans(h, p)
           /\ ~ request[h].right => p \in {<<>>, <<"lockSubject">>}
<1> DEFINE r == request[h]
<1>1. r.dom \in {"login", "bootstrap"} /\ r.right \in BOOLEAN
  BY Zenon, RequestFields DEF AuthRequest, Domains
<1>2. Plans(h, CASE ~ r.right -> Bans(r)
                 [] r.right /\ r.dom = "login" -> <<"refund", "clear">>
                 [] r.right /\ r.dom = "bootstrap" ->
                      <<"refund", "insertFirstUser", "putInvite", "clear">>)
  BY Zenon DEF Compare
<1>3. <<>> \in AuthSettling
  BY Zenon, StagesAreApart
<1>4. CASE ~ r.right
  <2>1. Plans(h, Bans(r))
    BY <1>2, <1>4
  <2> QED BY Zenon, <1>3, <2>1, BansAre
<1>5. CASE r.right /\ r.dom = "login"
  <2>1. Plans(h, <<"refund", "clear">>)
    BY <1>2, <1>5
  <2>2. <<"refund", "clear">> \in AuthSettling
    BY Zenon DEF AuthSettling
  <2> QED BY Zenon, <1>5, <2>1, <2>2
<1>6. CASE r.right /\ r.dom = "bootstrap"
  <2>1. Plans(h, <<"refund", "insertFirstUser", "putInvite", "clear">>)
    BY <1>2, <1>6
  <2>2. <<"refund", "insertFirstUser", "putInvite", "clear">> \in AuthSettling
    BY Zenon DEF AuthSettling
  <2> QED BY Zenon, <1>6, <2>1, <2>2
<1> QED BY Zenon, <1>1, <1>4, <1>5, <1>6

LEMMA CompareKeeps ==
  ASSUME AuthInv, NEW h \in Requests, Compare(h)
  PROVE  AuthInv'
<1> DEFINE old == request[h]
<1>1. PICK new : new = [by |-> h, subject |-> Subject(old), at |-> old.now,
                        wrong |-> ~ old.right, version |-> 0]
  BY Zenon
<1>2. /\ hour' = hour /\ invite' = invite /\ admins' = admins /\ strikes' = strikes
      /\ compared' = compared \cup {new} /\ new.by = h
  BY Zenon, <1>1 DEF Compare, Compares, world
<1>3. /\ AuthTypes /\ old \in AuthRequest /\ old.todo \in AuthPending /\ old.todo = <<"compare">>
      /\ invite \in InviteRow /\ admins \in {0, 1} /\ IsFiniteSet(compared) /\ IsFiniteSet(strikes)
  <2>1. /\ AuthTypes /\ old \in AuthRequest /\ Head(old.todo) = "compare"
        /\ old.todo \in AuthPlans \ {<<>>, <<"arrive">>}
    BY Zenon, RunsAre DEF Compare
  <2> QED BY Zenon, <2>1, PlanHeads DEF AuthTypes
<1>4. PICK p \in AuthSettling \cup {<<"lockSubject">>} : Plans(h, p)
  BY Zenon, <1>3, ComparePlans
<1>5. PICK r \in AuthRequest \cup {Answered} :
           /\ request' = [request EXCEPT ![h] = r] /\ r.todo = p
           /\ r \in AuthRequest => /\ Subject(r) = Subject(request[h])
                                   /\ r.current = request[h].current /\ r.now = request[h].now
  <2>1. p \in AuthPlans \ {<<"arrive">>, <<"compare">>}
    BY Zenon, SettlingPlan
  <2> QED BY Zenon, <1>3, <1>4, <2>1, PlansIs
<1>6. r.todo \notin AuthFresh \cup AuthPending \cup AuthSuspends
  BY Zenon, <1>5, SettlingPlan
<1>7. /\ \A f \in strikes : f.by = h => f.subject = Subject(old)
      /\ \A c \in compared : c.by # h
      /\ \A v : Subject(old) # inviteGlobalSubject(v)
      /\ old.current.suspended => Earned(old.current.version)
  BY Zenon, <1>3, EarlierIs
<1>8. IsFiniteSet(compared') /\ compared \subseteq compared'
  BY Zenon, <1>2, <1>3, FS_AddElement
<1>9. \A f, g \in strikes' : f.by = h /\ g.by = h /\ f.subject = g.subject => f = g
  <2>1. \A f, g \in strikes : f.by = g.by /\ f.subject = g.subject => f = g
    BY Zenon DEF AuthInv, StrikeRows
  <2> QED BY <1>2, <2>1
<1>10. \A f \in strikes', v \in Nat : f.by = h => f.subject # inviteGlobalSubject(v)
  BY Zenon, <1>2, <1>7
<1>11. \A c \in compared' : (c.by = h => c = new) /\ (c.by = h \/ c \in compared)
  BY Zenon, <1>2, <1>7
<1>12. invite.suspended => Earned(invite.version)
  BY Zenon DEF AuthInv, SuspensionIsEarned, Earned, EarnedIn
<1>13. invite'.suspended => EarnedIn(compared', invite'.version)
  <2>1. \A v : Earned(v) => EarnedIn(compared', v)
    BY Zenon, <1>8, EarnedStays
  <2> QED BY Zenon, <1>2, <1>12, <2>1
<1>14. r \in AuthRequest =>
         (r.current.suspended \/ r.todo \in AuthSuspends => EarnedIn(compared', r.current.version))
  <2>1. \A v : Earned(v) => EarnedIn(compared', v)
    BY Zenon, <1>8, EarnedStays
  <2> QED BY Zenon, <1>5, <1>6, <1>7, <2>1
<1>15. /\ invite' \in InviteRow /\ admins' \in {0, 1} /\ hour' = hour /\ IsFiniteSet(strikes')
       /\ \A f \in strikes' : f.by = h \/ f \in strikes
  BY Zenon, <1>2, <1>3
<1>16. \A c, d \in compared' : c.by = h /\ d.by = h => c = d
  BY Zenon, <1>11
<1>17. /\ \A f \in strikes' : f.by = h =>
            r.todo \notin AuthFresh /\ (r.todo \in AuthPending => f.subject = Subject(r))
       /\ \A c \in compared' : c.by = h => r.todo \notin AuthFresh \cup AuthPending
  BY Zenon, <1>6
<1> HIDE DEF old
<1> QED BY ZenonT(40), <1>5, <1>8, <1>9, <1>10, <1>11, <1>13, <1>14, <1>15, <1>16, <1>17, MoveKeeps

(* The outcomes of the last statement before an invite code is compared.   *)
GlobalRow(h) ==
  [by |-> h, subject |-> inviteGlobalSubject(request[h].current.version), at |-> request[h].now]
CodeRight(h) == request[h].right /\ request[h].code = request[h].current.version
CodeCompared(h) ==
  [by |-> h, subject |-> Subject(request[h]), at |-> request[h].now,
   wrong |-> ~ CodeRight(h), version |-> request[h].current.version]
CodeSpent(h) ==
  InWindow(strikes', inviteGlobalSubject(request[h].current.version), request[h].now)
    >= INVITE_GLOBAL_STRIKES

LEMMA PunishmentIs ==
  ASSUME NEW last \in BOOLEAN, NEW r
  PROVE  LET p == (IF last THEN <<"suspendInvite">> ELSE <<>>) \o Bans(r)
         IN  p \in AuthPunished /\ (p \in AuthSuspends => last)
<1>1. <<"suspendInvite">> \o <<>> = <<"suspendInvite">> /\ <<>> \o <<>> = <<>>
  OBVIOUS
<1>2. /\ <<"suspendInvite">> \o <<"lockSubject">> = <<"suspendInvite", "lockSubject">>
      /\ <<>> \o <<"lockSubject">> = <<"lockSubject">>
  <2>1. \A a : <<>> \o <<a>> = <<a>>
    OBVIOUS
  <2>2. ASSUME NEW a, NEW b PROVE <<a>> \o <<b>> = <<a, b>>
    <3>1. <<a>> \in Seq({a, b}) /\ <<b>> \in Seq({a, b}) /\ <<a, b>> \in Seq({a, b})
      OBVIOUS
    <3>2. Len(<<a>>) = 1 /\ Len(<<b>>) = 1 /\ Len(<<a, b>>) = 2
      OBVIOUS
    <3>3. /\ <<a>> \o <<b>> \in Seq({a, b}) /\ Len(<<a>> \o <<b>>) = 2
          /\ \A i \in 1..2 : (<<a>> \o <<b>>)[i] = <<a, b>>[i]
      BY <3>1, <3>2, ConcatProperties
    <3> QED BY <3>1, <3>2, <3>3, SeqEqual
  <2> QED BY Zenon, <2>1, <2>2
<1>3. <<>> \notin AuthSuspends /\ <<"lockSubject">> \notin AuthSuspends
  BY Zenon, StagesAreApart, SettlingPlan
<1>4. CASE last
  <2>1. (IF last THEN <<"suspendInvite">> ELSE <<>>) = <<"suspendInvite">>
    BY Zenon, <1>4
  <2> QED BY Zenon, <1>1, <1>2, <1>4, <2>1, BansAre DEF AuthPunished, AuthSuspends
<1>5. CASE ~ last
  <2>1. (IF last THEN <<"suspendInvite">> ELSE <<>>) = <<>>
    BY Zenon, <1>5
  <2>2. Bans(r) = <<>> \/ Bans(r) = <<"lockSubject">>
    BY Zenon, BansAre
  <2> QED BY Zenon, <1>1, <1>2, <1>3, <2>1, <2>2 DEF AuthPunished
<1> QED BY Zenon, <1>4, <1>5

LEMMA ReserveGlobalIs ==
  ASSUME AuthTypes, NEW h \in Requests, request[h] \in AuthRequest, ReserveGlobal(h)
  PROVE  \/ /\ strikes' \subseteq strikes /\ compared' = compared /\ Plans(h, <<"refund">>)
         \/ /\ strikes' = Pruned(request[h].now) \cup {GlobalRow(h)} /\ compared' = compared
            /\ Plans(h, <<"refund", "refundGlobal">>) /\ request[h].current.suspended
         \/ /\ strikes' = Pruned(request[h].now) \cup {GlobalRow(h)}
            /\ compared' = compared \cup {CodeCompared(h)}
            /\ \E p \in AuthSettling \cup AuthPunished :
                 /\ Plans(h, p) /\ (p \in AuthSuspends => CodeSpent(h))
                 /\ CodeCompared(h).wrong => p \in AuthPunished
<1> DEFINE r == request[h]
           version == r.current.version
           subject == inviteGlobalSubject(version)
           granted == Granted(subject, r.now, INVITE_GLOBAL_STRIKES)
           compares == granted /\ ~ r.current.suspended
           p == CASE ~ granted -> <<"refund">>
                  [] granted /\ ~ compares -> <<"refund", "refundGlobal">>
                  [] compares /\ CodeRight(h) ->
                       <<"refund", "refundGlobal", "insertUser", "clear">>
                  [] compares /\ ~ CodeRight(h) ->
                       (IF CodeSpent(h) THEN <<"suspendInvite">> ELSE <<>>) \o Bans(r)
<1>1. /\ strikes' = Pruned(r.now) \cup IF granted THEN {GlobalRow(h)} ELSE {}
      /\ IF compares THEN compared' = compared \cup {CodeCompared(h)} ELSE compared' = compared
  BY Zenon DEF ReserveGlobal, reserveFailureBudget, Compares, CodeCompared, CodeRight, GlobalRow
<1>2. Plans(h, p)
  BY Zenon DEF ReserveGlobal, CodeRight, CodeSpent
<1> HIDE DEF granted
<1>3. CASE ~ granted
  <2>1. Plans(h, <<"refund">>)
    BY <1>2, <1>3
  <2> QED BY Zenon, <1>1, <1>3, <2>1, PrunedIs
<1>4. CASE granted /\ ~ compares
  <2>1. Plans(h, <<"refund", "refundGlobal">>)
    BY <1>2, <1>4
  <2> QED BY Zenon, <1>1, <1>4, <2>1
<1>5. CASE compares /\ CodeRight(h)
  <2>1. Plans(h, <<"refund", "refundGlobal", "insertUser", "clear">>)
    BY <1>2, <1>5
  <2>2. <<"refund", "refundGlobal", "insertUser", "clear">> \in AuthSettling
    BY Zenon DEF AuthSettling
  <2>3. ~ CodeCompared(h).wrong
    BY Zenon, <1>5 DEF CodeCompared
  <2> QED BY Zenon, <1>1, <1>5, <2>1, <2>2, <2>3, StagesAreApart
<1>6. CASE compares /\ ~ CodeRight(h)
  <2>1. PICK q : q = (IF CodeSpent(h) THEN <<"suspendInvite">> ELSE <<>>) \o Bans(r)
    BY Zenon
  <2>2. Plans(h, q)
    BY <1>2, <1>6, <2>1
  <2>3. PICK last \in BOOLEAN : last <=> CodeSpent(h)
    BY Zenon
  <2>4. q = (IF last THEN <<"suspendInvite">> ELSE <<>>) \o Bans(r)
    BY Zenon, <2>1, <2>3
  <2>5. q \in AuthPunished /\ (q \in AuthSuspends => last)
    BY Zenon, <2>4, PunishmentIs
  <2> QED BY Zenon, <1>1, <1>6, <2>2, <2>3, <2>5
<1> QED BY Zenon, <1>3, <1>4, <1>5, <1>6

(* As many strikes against a code as its budget are as many comparisons.   *)
LEMMA SpentIsEarned ==
  ASSUME NEW rows, NEW made, NEW v, NEW now, IsFiniteSet(made),
         \A f, g \in rows : f.by = g.by /\ f.subject = g.subject => f = g,
         \A f \in rows : f.subject = inviteGlobalSubject(v) =>
           \E c \in made : c.by = f.by /\ c.version = v,
         InWindow(rows, inviteGlobalSubject(v), now) >= INVITE_GLOBAL_STRIKES
  PROVE  EarnedIn(made, v)
<1> DEFINE S == {f \in rows : f.subject = inviteGlobalSubject(v) /\ f.at > now - AUTH_LOCKOUT_MS}
           C == {c \in made : c.version = v}
           pick == [f \in S |-> CHOOSE c \in C : c.by = f.by]
<1>1. \A f \in S : pick[f] \in C /\ pick[f].by = f.by
  <2>1. \A f \in S : \E c \in C : c.by = f.by
    BY Zenon
  <2> QED BY Zenon, <2>1
<1>2. pick \in Injection(S, C)
  <2>1. pick \in [S -> C]
    <3> HIDE DEF S, C
    <3> QED BY Zenon, <1>1
  <2>2. ASSUME NEW f \in S, NEW g \in S, pick[f] = pick[g] PROVE f = g
    <3>1. pick[f].by = f.by /\ pick[g].by = g.by
      <4> HIDE DEF pick, S, C
      <4> QED BY Zenon, <1>1, <2>2
    <3>2. f.by = g.by
      <4> HIDE DEF pick, S, C
      <4> QED BY Zenon, <2>2, <3>1
    <3> QED BY Zenon, <3>2
  <2> HIDE DEF pick, S, C
  <2>3. DOMAIN pick = S
    BY Zenon, <2>1
  <2> QED BY Zenon, <2>1, <2>2, <2>3 DEF Injection, IsInjective
<1>3. C \in SUBSET made
  BY Zenon
<1> HIDE DEF pick
<1>4. IsFiniteSet(C) /\ Cardinality(C) \in Nat
  BY Zenon, <1>3, FS_Subset, FS_CardinalityType
<1>5. Cardinality(S) <= Cardinality(C) /\ Cardinality(S) \in Nat
  BY Zenon, <1>2, <1>4, FS_Injection, FS_CardinalityType
<1>6. Cardinality(S) >= INVITE_GLOBAL_STRIKES /\ INVITE_GLOBAL_STRIKES \in Nat
  BY Zenon, AccountsAssumption DEF InWindow
<1>7. Cardinality(C) >= INVITE_GLOBAL_STRIKES
  <2> HIDE DEF S, C
  <2> QED BY <1>4, <1>5, <1>6
<1> QED BY Zenon, <1>7 DEF EarnedIn

LEMMA ReserveGlobalKeeps ==
  ASSUME AuthInv, NEW h \in Requests, ReserveGlobal(h)
  PROVE  AuthInv'
<1> DEFINE old == request[h]
           v == old.current.version
<1>1. hour' = hour /\ invite' = invite /\ admins' = admins
  BY Zenon DEF ReserveGlobal, world
<1>2. /\ AuthTypes /\ old \in AuthRequest /\ old.todo \in AuthPending
      /\ invite \in InviteRow /\ admins \in {0, 1} /\ IsFiniteSet(compared) /\ IsFiniteSet(strikes)
  <2>1. /\ AuthTypes /\ old \in AuthRequest /\ Head(old.todo) = "reserveGlobal"
        /\ old.todo \in AuthPlans \ {<<>>, <<"arrive">>}
    BY Zenon, RunsAre DEF ReserveGlobal
  <2> QED BY Zenon, <2>1, PlanHeads DEF AuthTypes
<1>3. invite.suspended => Earned(invite.version)
  BY Zenon DEF AuthInv, SuspensionIsEarned, Earned, EarnedIn
<1>4. /\ \A f \in strikes : f.by = h => f.subject = Subject(old)
      /\ \A c \in compared : c.by # h
      /\ \A w : Subject(old) # inviteGlobalSubject(w)
      /\ old.current.suspended => Earned(v)
  BY Zenon, <1>2, EarlierIs
<1>5. CASE /\ strikes' \subseteq strikes /\ compared' = compared /\ Plans(h, <<"refund">>)
  <2>1. <<"refund">> \in AuthSettling
    BY Zenon DEF AuthSettling
  <2> QED BY Zenon, <1>1, <1>2, <1>3, <1>5, <2>1, SettleMove
<1>6. ASSUME strikes' = Pruned(old.now) \cup {GlobalRow(h)},
             NEW made, made = compared \/ made = compared \cup {CodeCompared(h)}, compared' = made,
             EarnedIn(made, v) \/ CodeCompared(h) \in made,
             NEW p \in AuthSettling \cup AuthPunished, Plans(h, p),
             p \in AuthSuspends => CodeSpent(h) /\ CodeCompared(h) \in made
      PROVE  AuthInv'
  <2>1. PICK row, new : row = GlobalRow(h) /\ new = CodeCompared(h)
    BY Zenon
  <2>2. /\ row.by = h /\ row.subject = inviteGlobalSubject(v)
        /\ new.by = h /\ new.version = v
    BY Zenon, <2>1 DEF GlobalRow, CodeCompared
  <2>3. /\ \A f \in strikes' : f = row \/ f \in strikes
        /\ IsFiniteSet(strikes')
    BY Zenon, <1>2, <1>6, <2>1, PrunedIs
  <2>4. IsFiniteSet(compared') /\ compared \subseteq compared'
    BY Zenon, <1>2, <1>6, FS_AddElement
  <2>5. \A c \in compared' : c = new \/ c \in compared
    BY Zenon, <1>6, <2>1
  <2>6. \A f \in strikes' : f.by = h => f = row \/ f.subject = Subject(old)
    BY Zenon, <1>4, <2>3
  <2>7. \A f, g \in strikes : f.by = g.by /\ f.subject = g.subject => f = g
    BY Zenon DEF AuthInv, StrikeRows
  <2>8. \A f, g \in strikes' : f.by = g.by /\ f.subject = g.subject => f = g
    <3>1. \A f \in strikes : f.by = h => f.subject # row.subject
      BY Zenon, <1>4, <2>2
    <3>2. ASSUME NEW f \in strikes', NEW g \in strikes', f.by = g.by, f.subject = g.subject
          PROVE  f = g
      <4>1. CASE f = row
        BY Zenon, <2>2, <2>3, <3>1, <3>2, <4>1
      <4>2. CASE g = row
        BY Zenon, <2>2, <2>3, <3>1, <3>2, <4>2
      <4>3. CASE f \in strikes /\ g \in strikes
        BY Zenon, <2>7, <3>2, <4>3
      <4> QED BY Zenon, <2>3, <4>1, <4>2, <4>3
    <3> QED BY Zenon, <3>2
  <2>9. \A w : Earned(w) => EarnedIn(compared', w)
    BY Zenon, <2>4, EarnedStays
  <2>10. \A f \in strikes', w \in Nat : f.by = h /\ f.subject = inviteGlobalSubject(w) =>
           EarnedIn(compared', w) \/ \E c \in compared' : c.by = f.by /\ c.version = w
    <3>1. ASSUME NEW f \in strikes', NEW w \in Nat, f.by = h, f.subject = inviteGlobalSubject(w)
          PROVE  EarnedIn(compared', w) \/ \E c \in compared' : c.by = f.by /\ c.version = w
      <4>1. f = row
        BY Zenon, <1>4, <2>6, <3>1
      <4>2. \A a, b : <<"global", a>> = <<"global", b>> => a = b
        OBVIOUS
      <4>3. w = v
        BY Zenon, <2>2, <3>1, <4>1, <4>2 DEF inviteGlobalSubject
      <4> QED BY Zenon, <1>6, <2>1, <2>2, <3>1, <4>3
    <3> QED BY Zenon, <3>1
  <2>11. p \in AuthSuspends => EarnedIn(compared', v)
    <3>1. SUFFICES ASSUME p \in AuthSuspends, ~ EarnedIn(compared', v)
                   PROVE  EarnedIn(compared', v)
      BY Zenon
    <3>2. new \in compared' /\ InWindow(strikes', inviteGlobalSubject(v), old.now) >= INVITE_GLOBAL_STRIKES
      BY Zenon, <1>6, <2>1, <3>1 DEF CodeSpent
    <3>3. ~ Earned(v) /\ v \in Nat
      BY Zenon, <1>2, <2>9, <3>1, RequestFields
    <3>4. ASSUME NEW f \in strikes', f.subject = inviteGlobalSubject(v)
          PROVE  \E c \in compared' : c.by = f.by /\ c.version = v
      <4>1. CASE f = row
        BY Zenon, <2>2, <3>2, <4>1
      <4>2. CASE f \in strikes
        <5>1. \E c \in compared : c.by = f.by /\ c.version = v
          BY Zenon, <3>3, <3>4, <4>2 DEF AuthInv, GlobalRows
        <5> QED BY Zenon, <2>4, <5>1
      <4> QED BY Zenon, <2>3, <4>1, <4>2
    <3>5. PICK rows : rows = strikes'
      BY Zenon
    <3>6. IsFiniteSet(made) /\ compared' = made
      BY Zenon, <1>6, <2>4
    <3>7. EarnedIn(made, v)
      <4>1. \A f, g \in rows : f.by = g.by /\ f.subject = g.subject => f = g
        BY Zenon, <2>8, <3>5
      <4>2. \A f \in rows : f.subject = inviteGlobalSubject(v) =>
              \E c \in made : c.by = f.by /\ c.version = v
        BY Zenon, <3>4, <3>5, <3>6
      <4>3. PICK now : now = old.now
        BY Zenon
      <4>4. InWindow(rows, inviteGlobalSubject(v), now) >= INVITE_GLOBAL_STRIKES
        BY Zenon, <3>2, <3>5, <4>3
      <4>5. IsFiniteSet(made)
        BY Zenon, <3>6
      <4> HIDE DEF v, old
      <4> QED BY ZenonT(40), <4>1, <4>2, <4>4, <4>5, SpentIsEarned
    <3> QED BY Zenon, <3>6, <3>7
  <2>12. p \in AuthPlans \ {<<"arrive">>, <<"compare">>} /\ p \notin AuthFresh \cup AuthPending
    BY Zenon, StagesAreApart DEF AuthPlans
  <2>13. PICK r \in AuthRequest \cup {Answered} :
           /\ request' = [request EXCEPT ![h] = r] /\ r.todo = p
           /\ r \in AuthRequest => /\ Subject(r) = Subject(request[h])
                                   /\ r.current = request[h].current /\ r.now = request[h].now
    BY Zenon, <1>2, <1>6, <2>12, PlansIs
  <2>14. /\ \A f \in strikes' : f.by = h =>
              r.todo \notin AuthFresh /\ (r.todo \in AuthPending => f.subject = Subject(r))
         /\ \A c \in compared' : c.by = h => r.todo \notin AuthFresh \cup AuthPending
    BY Zenon, <2>12, <2>13
  <2>15. /\ \A c, d \in compared' : c.by = h /\ d.by = h => c = d
         /\ \A c \in compared' : c.by = h \/ c \in compared
    BY Zenon, <1>4, <2>2, <2>5
  <2>16. /\ \A f \in strikes' : f.by = h \/ f \in strikes
         /\ \A f, g \in strikes' : f.by = h /\ g.by = h /\ f.subject = g.subject => f = g
    BY Zenon, <2>2, <2>3, <2>8
  <2>17. r \in AuthRequest =>
           (r.current.suspended \/ r.todo \in AuthSuspends => EarnedIn(compared', r.current.version))
    BY Zenon, <1>4, <2>9, <2>11, <2>13
  <2>18. /\ invite' \in InviteRow /\ admins' \in {0, 1} /\ hour' = hour
         /\ invite'.suspended => EarnedIn(compared', invite'.version)
    BY Zenon, <1>1, <1>2, <1>3, <2>9
  <2> HIDE DEF old, v
  <2> QED BY Zenon, <2>3, <2>4, <2>10, <2>13, <2>14, <2>15, <2>16, <2>17, <2>18, MoveKeeps
<1>7. CASE /\ strikes' = Pruned(request[h].now) \cup {GlobalRow(h)} /\ compared' = compared
           /\ Plans(h, <<"refund", "refundGlobal">>) /\ request[h].current.suspended
  <2>1. <<"refund", "refundGlobal">> \in AuthSettling
    BY Zenon DEF AuthSettling
  <2>2. <<"refund", "refundGlobal">> \notin AuthSuspends /\ EarnedIn(compared, v)
    BY Zenon, <1>4, <1>7, <2>1, StagesAreApart DEF Earned
  <2> QED BY Zenon, <1>6, <1>7, <2>1, <2>2
<1>8. ASSUME strikes' = Pruned(request[h].now) \cup {GlobalRow(h)},
             compared' = compared \cup {CodeCompared(h)},
             NEW p \in AuthSettling \cup AuthPunished,
             Plans(h, p), p \in AuthSuspends => CodeSpent(h)
      PROVE  AuthInv'
  BY Zenon, <1>6, <1>8
<1> QED BY Zenon, <1>2, <1>5, <1>7, <1>8, ReserveGlobalIs

LEMMA AuthStep == AuthInv /\ [AccountsNext]_authVars => AuthInv'
<1> SUFFICES ASSUME AuthInv, [AccountsNext]_authVars PROVE AuthInv'
  BY Zenon
<1>1. CASE UNCHANGED authVars
  <2>1. /\ hour' = hour /\ request' = request /\ strikes' = strikes /\ invite' = invite
        /\ admins' = admins /\ compared' = compared
    BY Zenon, <1>1 DEF authVars, world, authHistory
  <2>2. /\ hour \in Nat /\ invite \in InviteRow
        /\ request \in [Requests -> AuthRequest \cup {NotArrived, Answered}]
        /\ invite.suspended => Earned(invite.version)
    BY Zenon DEF AuthInv, AuthTypes, SuspensionIsEarned, Earned, EarnedIn
  <2> QED BY Zenon, <2>1, <2>2, WorldKeeps
<1>2. CASE HourPasses \/ rotateInvite
  BY Zenon, <1>2, WorldStepsKeep
<1>3. ASSUME NEW h \in Requests, NEW dom \in Domains, NEW s \in Sources, NEW right \in BOOLEAN,
             Arrives(h, dom, s, right)
      PROVE  AuthInv'
  BY Zenon, <1>3, ArrivesKeeps
<1>4. ASSUME NEW h \in Requests,
             \/ lockedUntil(h) \/ ReserveSource(h) \/ Compare(h) \/ getInvite(h) \/ ReserveGlobal(h)
             \/ suspendInvite(h) \/ lockSubject(h) \/ releaseFailureBudget(h) \/ insertUser(h)
             \/ insertFirstUser(h) \/ BootstrapPutsInvite(h) \/ clearAuthDomain(h)
      PROVE  AuthInv'
  BY Zenon, <1>4, LockedUntilKeeps, ReserveSourceKeeps, CompareKeeps, GetInviteKeeps,
     ReserveGlobalKeeps, SettlingKeeps
<1> QED BY Zenon, <1>1, <1>2, <1>3, <1>4 DEF AccountsNext

LEMMA AuthInit ==
  ASSUME AccountsInit
  PROVE  AuthInv
<1>1. /\ hour = 1 /\ request = [h \in Requests |-> NotArrived] /\ strikes = {} /\ compared = {}
      /\ ~ invite.suspended
  BY DEF AccountsInit
<1>2. invite \in InviteRow /\ admins \in {0, 1} /\ hour \in Nat
  BY DEF AccountsInit, InviteRow
<1>3. request \in [Requests -> AuthRequest \cup {NotArrived, Answered}]
      /\ \A h \in Requests : request[h] \notin AuthRequest
  BY Zenon, <1>1, RequestFields
<1> QED BY Zenon, <1>1, <1>2, <1>3, FS_EmptySet
        DEF AuthInv, AuthTypes, StrikeRows, ComparedOnce, GlobalRows, SuspendersKnow, SuspensionIsEarned

LEMMA AuthInvariant == AccountsSpec => []AuthInv
BY AuthInit, AuthStep, PTL DEF AccountsSpec

(* register and bootstrap: however requests, rotations and the clock       *)
(* interleave, an invite code is suspended only after as many comparisons  *)
(* with it as its budget allows, and one administrator's account is        *)
(* opened.                                                                 *)
THEOREM SuspensionIsEarnedAlways == AccountsSpec => [](SuspensionIsEarned /\ OneAdministrator)
<1>1. AuthInv => SuspensionIsEarned /\ OneAdministrator
  <2> SUFFICES ASSUME AuthInv PROVE SuspensionIsEarned /\ OneAdministrator
    BY Zenon
  <2>1. SuspensionIsEarned /\ admins \in {0, 1}
    BY Zenon DEF AuthInv, AuthTypes
  <2> QED BY <2>1 DEF OneAdministrator
<1> QED BY <1>1, AuthInvariant, PTL

-----------------------------------------------------------------------------
(* A wrong comparison of this hour keeps its strike, and the strikes of a  *)
(* source stay within the limit, when one request moves on.                *)
LEMMA GuessMove ==
  ASSUME AuthInv, GuessInv, NEW h \in Requests, NEW r \in AuthRequest \cup {Answered},
         request' = [request EXCEPT ![h] = r], hour' = hour, forgiven \subseteq forgiven',
         r \in AuthRequest => r.now = hour,
         \A f \in strikes' : f \in strikes \/ f.at = hour,
         compared \subseteq compared',
         \A c \in compared' : c \in compared \/ (c.by = h /\ c.at = hour),
         \A g \in Requests : \A s : StrikeBy(g, s) \in strikes =>
           \/ s \in forgiven' \/ StrikeBy(g, s) \in strikes'
           \/ g = h /\ request[h].todo \notin AuthPunished /\ r.todo \notin AuthPending,
         request[h].todo \in AuthPunished => r.todo \in AuthPunished,
         \A c \in compared' : c \in compared \/ ~ c.wrong \/
           /\ r.todo \in AuthPunished
           /\ c.subject \in forgiven' \/ StrikeBy(c.by, c.subject) \in strikes',
         r \in AuthRequest /\ r.todo \in AuthPending =>
           Subject(r) \in forgiven' \/ StrikeBy(h, Subject(r)) \in strikes',
         \A s \in Subjects : Cardinality({f \in strikes' : f.subject = s /\ f.at = hour}) <= Strikes[s[1]]
  PROVE  GuessInv'
<1>1. /\ GuessTimes /\ GuessStrikes /\ GuessCounts /\ hour \in Nat
      /\ request \in [Requests -> AuthRequest \cup {NotArrived, Answered}]
  BY Zenon DEF GuessInv, AuthInv, AuthTypes
<1>2. request'[h] = r /\ \A g \in Requests : g # h => request'[g] = request[g]
  BY Zenon, <1>1
<1>3. \A c \in compared : c.by \in Requests
  BY Zenon DEF AuthInv, ComparedOnce
<1>4. hour <= hour
  BY <1>1
<1>5. GuessTimes'
  <2>1. \A g \in Requests : request'[g] \in AuthRequest => request'[g].now = hour'
    BY Zenon, <1>1, <1>2 DEF GuessTimes
  <2>2. \A f \in strikes' : f.at \in Nat /\ f.at <= hour'
    BY Zenon, <1>1, <1>4 DEF GuessTimes
  <2>3. \A c \in compared' : c.at \in Nat /\ c.at <= hour'
    BY Zenon, <1>1, <1>4 DEF GuessTimes
  <2> QED BY Zenon, <2>1, <2>2, <2>3 DEF GuessTimes
<1>6. ASSUME NEW g, NEW s
      PROVE  StrikeBy(g, s)' = StrikeBy(g, s)
  BY Zenon DEF StrikeBy
<1>7. ASSUME NEW g \in Requests, request'[g] \in AuthRequest, request'[g].todo \in AuthPending
      PROVE  Subject(request'[g]) \in forgiven' \/ StrikeBy(g, Subject(request'[g])) \in strikes'
  <2>1. CASE g = h
    BY Zenon, <1>2, <1>7, <2>1
  <2>2. CASE g # h
    <3>1. PICK s : s = Subject(request[g])
      BY Zenon
    <3>2. request'[g] = request[g]
      BY Zenon, <1>2, <2>2
    <3>3. s \in forgiven \/ StrikeBy(g, s) \in strikes
      BY Zenon, <1>1, <1>7, <3>1, <3>2 DEF GuessStrikes
    <3>4. s \in forgiven' \/ StrikeBy(g, s) \in strikes'
      BY Zenon, <2>2, <3>3
    <3> QED BY Zenon, <3>1, <3>2, <3>4
  <2> QED BY Zenon, <2>1, <2>2
<1>8. ASSUME NEW c \in compared', c.wrong
      PROVE  /\ request'[c.by].todo \in AuthPunished
             /\ c.at = hour => c.subject \in forgiven' \/ StrikeBy(c.by, c.subject) \in strikes'
  <2>1. CASE c \in compared
    <3>1. /\ c.by \in Requests /\ request[c.by].todo \in AuthPunished
          /\ c.at = hour => c.subject \in forgiven \/ StrikeBy(c.by, c.subject) \in strikes
      BY Zenon, <1>1, <1>3, <1>8, <2>1 DEF GuessStrikes
    <3>2. request'[c.by].todo \in AuthPunished
      BY Zenon, <1>2, <3>1
    <3>3. StrikeBy(c.by, c.subject) \in strikes =>
            c.subject \in forgiven' \/ StrikeBy(c.by, c.subject) \in strikes'
      BY Zenon, <3>1
    <3> QED BY Zenon, <3>1, <3>2, <3>3
  <2>2. CASE c \notin compared
    BY Zenon, <1>2, <1>8, <2>2
  <2> QED BY Zenon, <2>1, <2>2
<1>9. GuessStrikes'
  BY Zenon, <1>6, <1>7, <1>8 DEF GuessStrikes, Subject, StrikeBy
<1>10. GuessCounts'
  <2>1. \A s \in Subjects : Cardinality({f \in strikes' : f.subject = s /\ f.at = hour'}) <= Strikes[s[1]]
    BY Zenon
  <2>2. ASSUME NEW s \in Subjects, s \notin forgiven', NEW t \in Nat, t < hour
        PROVE  Cardinality(WrongIn(s, t)') <= Strikes[s[1]]
    <3>1. ~ (hour <= t)
      BY <1>1, <2>2
    <3>2. WrongIn(s, t)' = WrongIn(s, t)
      BY Zenon, <3>1 DEF WrongIn
    <3>3. Cardinality(WrongIn(s, t)) <= Strikes[s[1]]
      BY Zenon, <1>1, <2>2 DEF GuessCounts
    <3> QED BY Zenon, <3>2, <3>3
  <2> QED BY Zenon, <2>1, <2>2 DEF GuessCounts, StrikesOf, WrongIn
<1> QED BY Zenon, <1>5, <1>9, <1>10 DEF GuessInv

LEMMA LimitIs == \A s \in Subjects : Strikes[s[1]] \in Nat /\ s[1] \in Domains
BY AccountsAssumption DEF Subjects, Domains

LEMMA CountsShrink ==
  ASSUME AuthInv, GuessInv,
         \A f \in strikes' : f.subject \in Subjects /\ f.at = hour => f \in strikes
  PROVE  \A s \in Subjects :
           Cardinality({f \in strikes' : f.subject = s /\ f.at = hour}) <= Strikes[s[1]]
<1> TAKE s \in Subjects
<1> DEFINE A == {f \in strikes' : f.subject = s /\ f.at = hour}
           B == StrikesOf(s)
<1>1. A \in SUBSET B /\ B \in SUBSET strikes
  BY Zenon DEF StrikesOf
<1>2. IsFiniteSet(B)
  BY Zenon, <1>1, FS_Subset DEF AuthInv, AuthTypes
<1>3. /\ Cardinality(A) <= Cardinality(B) /\ Cardinality(A) \in Nat /\ Cardinality(B) \in Nat
      /\ Cardinality(B) <= Strikes[s[1]] /\ Strikes[s[1]] \in Nat
  BY Zenon, <1>1, <1>2, FS_Subset, FS_CardinalityType, LimitIs DEF GuessInv, GuessCounts
<1> HIDE DEF A, B
<1>4. Cardinality(A) <= Strikes[s[1]]
  BY <1>3
<1> QED BY Zenon, <1>4 DEF A

LEMMA GuessQuiet ==
  ASSUME AuthInv, GuessInv, NEW h \in Requests, NEW r \in AuthRequest \cup {Answered},
         request' = [request EXCEPT ![h] = r], hour' = hour, forgiven' = forgiven,
         strikes' = strikes, compared' = compared,
         r \in AuthRequest => r.now = hour,
         request[h].todo \in AuthPunished => r.todo \in AuthPunished,
         r.todo \in AuthPending => /\ request[h] \in AuthRequest /\ request[h].todo \in AuthPending
                                   /\ Subject(r) = Subject(request[h])
  PROVE  GuessInv'
<1>1. \A s \in Subjects :
        Cardinality({f \in strikes' : f.subject = s /\ f.at = hour}) <= Strikes[s[1]]
  BY Zenon, CountsShrink
<1>2. r \in AuthRequest /\ r.todo \in AuthPending =>
        Subject(r) \in forgiven' \/ StrikeBy(h, Subject(r)) \in strikes'
  BY Zenon DEF GuessInv, GuessStrikes
<1>3. /\ forgiven \subseteq forgiven' /\ compared \subseteq compared'
      /\ \A f \in strikes' : f \in strikes
      /\ \A c \in compared' : c \in compared
      /\ \A g \in Requests : \A s : StrikeBy(g, s) \in strikes => StrikeBy(g, s) \in strikes'
  BY Zenon
<1> QED BY Zenon, <1>1, <1>2, <1>3, GuessMove

(* The statements after a comparison lead on within their stage.           *)
LEMMA LaterStages ==
  ASSUME NEW p \in AuthPlans \ {<<>>, <<"arrive">>}
  PROVE  /\ Head(p) \in SettlingHeads => p \notin AuthPunished /\ Tail(p) \in AuthSettling
         /\ Head(p) \in {"suspendInvite", "lockSubject"} => Tail(p) \in {<<>>, <<"lockSubject">>}
<1>1. ASSUME Head(p) \in SettlingHeads PROVE p \notin AuthPunished /\ Tail(p) \in AuthSettling
  <2>1. Tail(p) \in AuthSettling
    BY Zenon, <1>1, PlanHeads
  <2>2. "suspendInvite" \notin SettlingHeads /\ "lockSubject" \notin SettlingHeads
    BY Zenon DEF SettlingHeads
  <2>3. p \notin AuthPunished
    BY Zenon, <1>1, <2>2, StageHeads
  <2> QED BY Zenon, <2>1, <2>3
<1> QED BY Zenon, <1>1, PlanHeads

LEMMA GuessArrives ==
  ASSUME AuthInv, GuessInv, NEW h \in Requests, NEW dom \in Domains, NEW source \in Sources,
         NEW right \in BOOLEAN, Arrives(h, dom, source, right), AuthInv'
  PROVE  GuessInv'
<1>1. PICK r : r = [dom |-> dom, from |-> source, now |-> hour, right |-> right,
            code |-> invite.version, strikes |-> 0, current |-> invite,
            todo |-> <<IF dom = "bootstrap" THEN "lockedUntil" ELSE "reserve">>]
  BY Zenon
<1>2. r.now = hour /\ r.todo \in {<<"lockedUntil">>, <<"reserve">>}
  BY Zenon, <1>1
<1>3. /\ request[h] = NotArrived
      /\ \/ request' = [request EXCEPT ![h] = r]
         \/ request' = [request EXCEPT ![h] = Answered]
      /\ hour' = hour /\ strikes' = strikes /\ forgiven' = forgiven /\ compared' = compared
  BY Zenon, <1>1 DEF Arrives, world, authHistory
<1>4. request[h].todo \notin AuthPunished
  <2>1. request[h].todo = <<"arrive">>
    BY Zenon, <1>3, RequestFields
  <2>2. request[h].todo \in AuthFresh
    BY Zenon, <2>1, StagesAreApart
  <2> QED BY Zenon, <2>2, StagesAreApart
<1>5. CASE request' = [request EXCEPT ![h] = r]
  <2>1. request \in [Requests -> AuthRequest \cup {NotArrived, Answered}]
    BY Zenon DEF AuthInv, AuthTypes
  <2>2. request' \in [Requests -> AuthRequest \cup {NotArrived, Answered}]
    BY Zenon DEF AuthInv, AuthTypes
  <2>3. request'[h] = r
    BY Zenon, <1>5, <2>1
  <2>4. r.todo # <<"arrive">>
    <3>1. <<"lockedUntil">> # <<"arrive">> /\ <<"reserve">> # <<"arrive">>
      OBVIOUS
    <3> QED BY Zenon, <1>2, <3>1
  <2>5. r \in AuthRequest \cup {Answered}
    BY Zenon, <2>2, <2>3, <2>4, RequestFields
  <2>6. r.todo \notin AuthPending
    <3>1. <<"lockedUntil">> \in AuthFresh /\ <<"reserve">> \in AuthFresh
      BY Zenon DEF AuthFresh
    <3> QED BY Zenon, <1>2, <3>1, StagesAreApart
  <2> QED BY Zenon, <1>2, <1>3, <1>4, <1>5, <2>5, <2>6, GuessQuiet
<1>6. CASE request' = [request EXCEPT ![h] = Answered]
  <2>1. Answered \notin AuthRequest /\ Answered.todo \notin AuthPending
    BY Zenon, StagesAreApart, RequestFields
  <2> QED BY Zenon, <1>3, <1>4, <1>6, <2>1, GuessQuiet
<1> QED BY Zenon, <1>3, <1>5, <1>6

(* A plan of a request that keeps all rows.                                *)
LEMMA GuessPlans ==
  ASSUME AuthInv, GuessInv, NEW h \in Requests, request[h] \in AuthRequest,
         NEW p \in AuthPlans \ {<<"arrive">>, <<"compare">>}, Plans(h, p), p \notin AuthPending,
         hour' = hour, forgiven' = forgiven, strikes' = strikes, compared' = compared,
         request[h].todo \in AuthPunished => p \in AuthPunished
  PROVE  GuessInv'
<1>1. AuthTypes
  BY Zenon DEF AuthInv
<1>2. PICK r \in AuthRequest \cup {Answered} :
           /\ request' = [request EXCEPT ![h] = r] /\ r.todo = p
           /\ r \in AuthRequest => /\ Subject(r) = Subject(request[h])
                                   /\ r.current = request[h].current /\ r.now = request[h].now
  BY Zenon, <1>1, PlansIs
<1>3. r \in AuthRequest => r.now = hour
  BY Zenon, <1>2 DEF GuessInv, GuessTimes
<1> QED BY Zenon, <1>2, <1>3, GuessQuiet

LEMMA GuessReads ==
  ASSUME AuthInv, GuessInv, NEW h \in Requests, lockedUntil(h) \/ getInvite(h), AuthInv'
  PROVE  GuessInv'
<1>1. CASE lockedUntil(h)
  <2>1. /\ hour' = hour /\ strikes' = strikes /\ forgiven' = forgiven /\ compared' = compared
        /\ Runs(h, "lockedUntil") /\ (Plans(h, <<>>) \/ Plans(h, <<"reserve">>))
    BY Zenon, <1>1 DEF lockedUntil, world, authHistory
  <2>2. /\ request[h] \in AuthRequest /\ Head(request[h].todo) = "lockedUntil"
        /\ request[h].todo \in AuthPlans \ {<<>>, <<"arrive">>}
    BY Zenon, <2>1, RunsAre
  <2>3. request[h].todo \notin AuthPunished
    BY Zenon, <2>2, PlanHeads, StagesAreApart
  <2>4. /\ <<"reserve">> \in AuthPlans \ {<<"arrive">>, <<"compare">>}
        /\ <<"reserve">> \notin AuthPending
    <3>1. <<"reserve">> # <<"arrive">> /\ <<"reserve">> # <<"compare">>
      OBVIOUS
    <3>2. <<"reserve">> \in AuthFresh
      BY Zenon DEF AuthFresh
    <3> QED BY Zenon, <3>1, <3>2, StagesAreApart DEF AuthPlans
  <2>5. <<>> \in AuthPlans \ {<<"arrive">>, <<"compare">>} /\ <<>> \notin AuthPending
    BY Zenon, StagesAreApart DEF AuthPlans
  <2> QED BY Zenon, <2>1, <2>2, <2>3, <2>4, <2>5, GuessPlans
<1>2. CASE getInvite(h)
  <2>1. /\ hour' = hour /\ strikes' = strikes /\ forgiven' = forgiven /\ compared' = compared
        /\ Runs(h, "getInvite")
    BY Zenon, <1>2 DEF getInvite, world, authHistory
  <2>2. /\ AuthTypes /\ request[h] \in AuthRequest /\ Head(request[h].todo) = "getInvite"
        /\ request[h].todo \in AuthPlans \ {<<>>, <<"arrive">>}
    BY Zenon, <2>1, RunsAre
  <2>3. request[h].todo \in AuthPending /\ request[h].todo \notin AuthPunished
    BY Zenon, <2>2, PlanHeads, StagesAreApart
  <2>4. PICK p : p = IF invite.version = 0 THEN <<"refund">> ELSE <<"reserveGlobal">>
    BY Zenon
  <2>5. PICK r : r = [request[h] EXCEPT !.todo = p, !.current = invite]
    BY Zenon
  <2>6. request' = [request EXCEPT ![h] = r]
    BY <1>2, <2>2, <2>4, <2>5 DEF getInvite, AuthTypes
  <2>7. r.dom = request[h].dom /\ r.from = request[h].from /\ r.now = request[h].now /\ r.todo = p
    BY <2>2, <2>5 DEF AuthRequest
  <2>8. r \in AuthRequest \cup {Answered}
    <3>1. request' \in [Requests -> AuthRequest \cup {NotArrived, Answered}]
      BY Zenon DEF AuthInv, AuthTypes
    <3>2. request'[h] = r
      BY Zenon, <2>2, <2>6 DEF AuthTypes
    <3>3. p # <<"arrive">>
      <4>1. <<"refund">> # <<"arrive">> /\ <<"reserveGlobal">> # <<"arrive">>
        OBVIOUS
      <4> QED BY Zenon, <2>4, <4>1
    <3> QED BY Zenon, <2>7, <3>1, <3>2, <3>3, RequestFields
  <2>9. Subject(r) = Subject(request[h]) /\ r.now = hour
    BY Zenon, <2>2, <2>7 DEF Subject, GuessInv, GuessTimes
  <2> QED BY Zenon, <2>1, <2>2, <2>3, <2>6, <2>8, <2>9, GuessQuiet
<1> QED BY Zenon, <1>1, <1>2

LEMMA GuessSettles ==
  ASSUME AuthInv, GuessInv, NEW h \in Requests,
         \/ suspendInvite(h) \/ lockSubject(h) \/ releaseFailureBudget(h) \/ insertUser(h)
         \/ insertFirstUser(h) \/ BootstrapPutsInvite(h) \/ clearAuthDomain(h)
  PROVE  GuessInv'
<1>1. <<>> \in AuthSettling /\ <<>> \in AuthPunished /\ <<"lockSubject">> \in AuthPunished
  BY Zenon, StagesAreApart DEF AuthPunished
<1>2. ASSUME NEW statement \in SettlingHeads \cup {"lockSubject", "suspendInvite"},
             Runs(h, statement)
      PROVE  /\ AuthTypes /\ request[h] \in AuthRequest
             /\ statement \in SettlingHeads =>
                  request[h].todo \notin AuthPunished /\ Tail(request[h].todo) \in AuthSettling
             /\ statement \notin SettlingHeads => Tail(request[h].todo) \in {<<>>, <<"lockSubject">>}
  <2>1. /\ AuthTypes /\ request[h] \in AuthRequest /\ Head(request[h].todo) = statement
        /\ request[h].todo \in AuthPlans \ {<<>>, <<"arrive">>}
    BY Zenon, <1>2, RunsAre
  <2> QED BY Zenon, <1>2, <2>1, LaterStages
<1>3. "suspendInvite" \notin SettlingHeads /\ "lockSubject" \notin SettlingHeads
  BY Zenon DEF SettlingHeads
<1>4. CASE suspendInvite(h) \/ lockSubject(h)
  <2>1. /\ Runs(h, "suspendInvite") \/ Runs(h, "lockSubject")
        /\ Plans(h, Tail(request[h].todo)) /\ hour' = hour
        /\ strikes' = strikes /\ compared' = compared /\ forgiven' = forgiven
    BY Zenon, <1>4 DEF suspendInvite, lockSubject, Proceeds, world, authHistory
  <2>2. request[h] \in AuthRequest /\ Tail(request[h].todo) \in {<<>>, <<"lockSubject">>}
    BY Zenon, <1>2, <1>3, <2>1
  <2>3. /\ Tail(request[h].todo) \in AuthPlans \ {<<"arrive">>, <<"compare">>}
        /\ Tail(request[h].todo) \notin AuthPending /\ Tail(request[h].todo) \in AuthPunished
    BY Zenon, <1>1, <2>2, SettlingPlan
  <2> QED BY Zenon, <2>1, <2>2, <2>3, GuessPlans
<1>5. CASE insertUser(h) \/ insertFirstUser(h) \/ BootstrapPutsInvite(h)
  <2>1. /\ Runs(h, "insertUser") \/ Runs(h, "insertFirstUser") \/ Runs(h, "putInvite")
        /\ Plans(h, Tail(request[h].todo)) \/ Plans(h, <<>>)
        /\ hour' = hour /\ strikes' = strikes /\ compared' = compared /\ forgiven' = forgiven
    BY Zenon, <1>5 DEF insertUser, insertFirstUser, BootstrapPutsInvite, Proceeds, world, authHistory
  <2>2. /\ request[h] \in AuthRequest /\ request[h].todo \notin AuthPunished
        /\ Tail(request[h].todo) \in AuthSettling
    <3>1. {"insertUser", "insertFirstUser", "putInvite"} \subseteq SettlingHeads
      BY Zenon DEF SettlingHeads
    <3> QED BY Zenon, <1>2, <2>1, <3>1
  <2>3. PICK p \in AuthSettling : Plans(h, p)
    BY Zenon, <1>1, <2>1, <2>2
  <2>4. p \in AuthPlans \ {<<"arrive">>, <<"compare">>} /\ p \notin AuthPending
    BY Zenon, SettlingPlan
  <2> QED BY Zenon, <2>1, <2>2, <2>3, <2>4, GuessPlans
<1>6. ASSUME Runs(h, "refund") \/ Runs(h, "refundGlobal") \/ Runs(h, "clear"),
             Plans(h, Tail(request[h].todo)), hour' = hour, forgiven \subseteq forgiven',
             strikes' \subseteq strikes, compared' = compared,
             \A f \in strikes : f \in strikes' \/ f.by = h \/ f.subject \in forgiven'
      PROVE  GuessInv'
  <2>1. /\ AuthTypes /\ request[h] \in AuthRequest /\ request[h].todo \notin AuthPunished
        /\ Tail(request[h].todo) \in AuthSettling
    <3>1. {"refund", "refundGlobal", "clear"} \subseteq SettlingHeads
      BY Zenon DEF SettlingHeads
    <3> QED BY Zenon, <1>2, <1>6, <3>1
  <2>2. PICK p : p = Tail(request[h].todo)
    BY Zenon
  <2>3. p \in AuthPlans \ {<<"arrive">>, <<"compare">>} /\ p \notin AuthPending /\ Plans(h, p)
    BY Zenon, <1>6, <2>1, <2>2, SettlingPlan
  <2>4. PICK r \in AuthRequest \cup {Answered} :
           /\ request' = [request EXCEPT ![h] = r] /\ r.todo = p
           /\ r \in AuthRequest => /\ Subject(r) = Subject(request[h])
                                   /\ r.current = request[h].current /\ r.now = request[h].now
    BY Zenon, <2>1, <2>3, PlansIs
  <2>5. r \in AuthRequest => r.now = hour
    BY Zenon, <2>1, <2>4 DEF GuessInv, GuessTimes
  <2>6. \A s \in Subjects :
          Cardinality({f \in strikes' : f.subject = s /\ f.at = hour}) <= Strikes[s[1]]
    BY Zenon, <1>6, CountsShrink
  <2>7. ASSUME NEW g \in Requests, NEW s, StrikeBy(g, s) \in strikes
        PROVE  s \in forgiven' \/ StrikeBy(g, s) \in strikes' \/ g = h
    <3>1. StrikeBy(g, s).by = g /\ StrikeBy(g, s).subject = s
      BY Zenon DEF StrikeBy
    <3> QED BY Zenon, <1>6, <2>7, <3>1
  <2>8. /\ \A f \in strikes' : f \in strikes
        /\ compared \subseteq compared' /\ \A c \in compared' : c \in compared
        /\ \A g \in Requests : \A s : StrikeBy(g, s) \in strikes =>
           \/ s \in forgiven' \/ StrikeBy(g, s) \in strikes'
           \/ g = h /\ request[h].todo \notin AuthPunished /\ r.todo \notin AuthPending
    BY Zenon, <1>6, <2>1, <2>3, <2>4, <2>7
  <2> QED BY Zenon, <1>6, <2>1, <2>3, <2>4, <2>5, <2>6, <2>8, GuessMove
<1>7. CASE releaseFailureBudget(h)
  <2>1. /\ Runs(h, "refund") \/ Runs(h, "refundGlobal")
        /\ Plans(h, Tail(request[h].todo)) /\ hour' = hour /\ forgiven' = forgiven
        /\ strikes' \subseteq strikes /\ compared' = compared
        /\ \A f \in strikes : f \in strikes' \/ f.by = h
    BY Zenon, <1>7 DEF releaseFailureBudget, Proceeds, world, authHistory
  <2> QED BY Zenon, <1>6, <2>1
<1>8. CASE clearAuthDomain(h)
  <2>1. /\ Runs(h, "clear") /\ Plans(h, Tail(request[h].todo)) /\ hour' = hour
        /\ forgiven \subseteq forgiven' /\ strikes' \subseteq strikes /\ compared' = compared
        /\ \A f \in strikes : f \in strikes' \/ f.subject \in forgiven'
    BY Zenon, <1>8 DEF clearAuthDomain, Proceeds, world
  <2> QED BY Zenon, <1>6, <2>1
<1> QED BY Zenon, <1>4, <1>5, <1>7, <1>8

(* Pruning keeps the strikes of the hour.                                  *)
LEMMA HourIsKept ==
  ASSUME AUTH_LOCKOUT_MS = 1, AuthInv, GuessInv, NEW h \in Requests, request[h] \in AuthRequest
  PROVE  /\ request[h].now = hour /\ hour \in Nat
         /\ \A f \in strikes : f.at = hour => f.at > request[h].now - AUTH_LOCKOUT_MS
         /\ \A f \in strikes : f.at = hour => f \in Pruned(request[h].now)
<1>1. request[h].now = hour /\ hour \in Nat
  BY Zenon DEF GuessInv, GuessTimes, AuthInv, AuthTypes
<1>2. hour > hour - AUTH_LOCKOUT_MS
  BY <1>1
<1> QED BY Zenon, <1>1, <1>2 DEF Pruned

LEMMA GrantedCount ==
  ASSUME AUTH_LOCKOUT_MS = 1, AuthInv, GuessInv, NEW h \in Requests, request[h] \in AuthRequest,
         NEW limit \in Nat, Granted(Subject(request[h]), request[h].now, limit), NEW row
  PROVE  Cardinality(StrikesOf(Subject(request[h])) \cup {row}) <= limit
<1> DEFINE s == Subject(request[h])
           now == request[h].now
           W == {f \in Pruned(now) : f.subject = s /\ f.at > now - AUTH_LOCKOUT_MS}
           A == StrikesOf(s)
<1>1. AuthTypes
  BY Zenon DEF AuthInv
<1>2. W \in SUBSET Pruned(now) /\ A \in SUBSET W
  BY Zenon, HourIsKept DEF StrikesOf
<1>3. IsFiniteSet(Pruned(now))
  BY Zenon, <1>1, PrunedIs
<1>4. IsFiniteSet(W)
  BY Zenon, <1>2, <1>3, FS_Subset
<1>5. IsFiniteSet(A) /\ Cardinality(A) <= Cardinality(W)
  BY Zenon, <1>2, <1>4, FS_Subset
<1>6. Cardinality(W) < limit
  BY Zenon DEF Granted, InWindow
<1>7. Cardinality(A) \in Nat /\ Cardinality(W) \in Nat
  BY Zenon, <1>4, <1>5, FS_CardinalityType
<1>8. Cardinality(A \cup {row}) = Cardinality(A) \/ Cardinality(A \cup {row}) = Cardinality(A) + 1
  <2> HIDE DEF A
  <2>1. CASE row \in A
    <3>1. A \cup {row} = A
      BY Zenon, <2>1
    <3> QED BY Zenon, <3>1
  <2>2. CASE row \notin A
    BY Zenon, <1>5, <2>2, FS_AddElement
  <2> QED BY Zenon, <2>1, <2>2
<1> HIDE DEF W, A
<1>9. Cardinality(A \cup {row}) <= limit
  BY <1>5, <1>6, <1>7, <1>8
<1> QED BY Zenon, <1>9 DEF A

LEMMA GuessReserves ==
  ASSUME AUTH_LOCKOUT_MS = 1, AuthInv, GuessInv, NEW h \in Requests, ReserveSource(h), AuthInv'
  PROVE  GuessInv'
<1> DEFINE old == request[h]
           s == Subject(old)
<1>1. /\ hour' = hour /\ forgiven' = forgiven /\ compared' = compared
      /\ strikes' = Pruned(old.now) \cup
           IF Granted(s, old.now, Strikes[old.dom])
           THEN {[by |-> h, subject |-> s, at |-> old.now]} ELSE {}
  BY Zenon DEF ReserveSource, reserveFailureBudget, world, authHistory
<1>2. /\ AuthTypes /\ old \in AuthRequest /\ old.todo \in AuthFresh /\ old.todo \notin AuthPunished
      /\ Pruned(old.now) \subseteq strikes
  <2>1. /\ AuthTypes /\ old \in AuthRequest /\ Head(old.todo) = "reserve"
        /\ old.todo \in AuthPlans \ {<<>>, <<"arrive">>}
    BY Zenon, RunsAre DEF ReserveSource
  <2>2. old.todo \in AuthFresh
    BY Zenon, <2>1, PlanHeads
  <2> QED BY Zenon, <2>1, <2>2, StagesAreApart, PrunedIs
<1>3. /\ old.now = hour /\ hour \in Nat
      /\ \A f \in strikes : f.at = hour => f \in Pruned(old.now)
  BY Zenon, <1>2, HourIsKept
<1>4. \A g \in Requests : \A t : StrikeBy(g, t) \in strikes => StrikeBy(g, t) \in strikes'
  <2>1. \A g \in Requests : \A t : StrikeBy(g, t).at = hour
    BY Zenon DEF StrikeBy
  <2> QED BY Zenon, <1>1, <1>3, <2>1
<1>5. CASE ~ Granted(s, old.now, Strikes[old.dom])
  <2>1. request' = [request EXCEPT ![h] = Answered] /\ \A f \in strikes' : f \in strikes
    BY Zenon, <1>1, <1>2, <1>5 DEF ReserveSource
  <2>2. Answered.todo \notin AuthPending /\ Answered \notin AuthRequest
    BY Zenon, RequestFields, StagesAreApart
  <2>3. \A t \in Subjects :
          Cardinality({f \in strikes' : f.subject = t /\ f.at = hour}) <= Strikes[t[1]]
    BY Zenon, <2>1, CountsShrink
  <2>4. /\ \A f \in strikes' : f \in strikes
        /\ compared \subseteq compared' /\ \A c \in compared' : c \in compared
        /\ forgiven \subseteq forgiven'
    BY Zenon, <1>1, <2>1
  <2> HIDE DEF old, s
  <2>5. request[h].todo \notin AuthPunished
    BY Zenon, <1>2 DEF old
  <2> QED BY Zenon, <1>1, <1>4, <2>1, <2>2, <2>3, <2>4, <2>5, GuessMove
<1>6. CASE Granted(s, old.now, Strikes[old.dom])
  <2>1. strikes' = Pruned(old.now) \cup {StrikeBy(h, s)}
    BY Zenon, <1>1, <1>3, <1>6 DEF StrikeBy
  <2>2. PICK p, n : /\ p = IF old.dom = "invite" THEN <<"getInvite">> ELSE <<"compare">>
                    /\ n = InWindow(strikes', s, old.now)
    BY Zenon
  <2>3. PICK r : r = [old EXCEPT !.todo = p, !.strikes = n]
    BY Zenon
  <2>4. request' = [request EXCEPT ![h] = r]
    BY Zenon, <1>6, <2>2, <2>3 DEF ReserveSource
  <2>5. r.dom = old.dom /\ r.from = old.from /\ r.now = old.now /\ r.todo = p
    <3> HIDE DEF old
    <3> QED BY <1>2, <2>3 DEF AuthRequest
  <2>6. Subject(r) = s /\ r.now = hour
    BY Zenon, <1>3, <2>5 DEF Subject
  <2>7. r \in AuthRequest \cup {Answered}
    <3>1. request' \in [Requests -> AuthRequest \cup {NotArrived, Answered}]
      BY Zenon DEF AuthInv, AuthTypes
    <3>2. request'[h] = r
      BY Zenon, <1>2, <2>4 DEF AuthTypes
    <3>3. p # <<"arrive">>
      <4>1. <<"getInvite">> # <<"arrive">> /\ <<"compare">> # <<"arrive">>
        OBVIOUS
      <4> QED BY Zenon, <2>2, <4>1
    <3> QED BY Zenon, <2>5, <3>1, <3>2, <3>3, RequestFields
  <2>8. PICK row : row = StrikeBy(h, s)
    BY Zenon
  <2>9. row.at = hour /\ row.subject = s /\ s \in Subjects /\ s[1] = old.dom
    <3>1. row.at = hour /\ row.subject = s
      BY Zenon, <2>8 DEF StrikeBy
    <3>2. old.dom \in Domains /\ old.from \in Sources
      BY Zenon, <1>2, RequestFields
    <3> HIDE DEF old
    <3>3. s \in Subjects /\ s[1] = old.dom
      BY <3>2 DEF Subject, Subjects
    <3> QED BY Zenon, <3>1, <3>3
  <2>10. ASSUME NEW t \in Subjects
         PROVE  Cardinality({f \in strikes' : f.subject = t /\ f.at = hour}) <= Strikes[t[1]]
    <3> DEFINE A == {f \in strikes' : f.subject = t /\ f.at = hour}
    <3>1. CASE t = s
      <4>1. A = StrikesOf(s) \cup {row}
        BY Zenon, <1>2, <1>3, <2>1, <2>8, <2>9, <3>1 DEF StrikesOf
      <4>2. Strikes[old.dom] \in Nat
        BY Zenon, <2>9, LimitIs
      <4>3. Cardinality(StrikesOf(s) \cup {row}) <= Strikes[old.dom]
        BY Zenon, <1>2, <1>6, <4>2, GrantedCount
      <4> QED BY Zenon, <2>9, <3>1, <4>1, <4>3
    <3>2. CASE t # s
      <4>1. A = StrikesOf(t)
        BY Zenon, <1>2, <1>3, <2>1, <2>8, <2>9, <3>2 DEF StrikesOf
      <4> QED BY Zenon, <4>1 DEF GuessInv, GuessCounts
    <3> QED BY Zenon, <3>1, <3>2
  <2>11. /\ \A f \in strikes' : f \in strikes \/ f.at = hour
         /\ compared \subseteq compared' /\ \A c \in compared' : c \in compared
         /\ forgiven \subseteq forgiven'
         /\ StrikeBy(h, Subject(r)) \in strikes'
         /\ request[h].todo \notin AuthPunished
    BY Zenon, <1>1, <1>2, <2>1, <2>6, <2>8, <2>9
  <2> HIDE DEF old, s
  <2> QED BY Zenon, <1>1, <1>4, <2>4, <2>6, <2>7, <2>10, <2>11, GuessMove
<1> QED BY Zenon, <1>5, <1>6

(* The comparison, by the request that holds a strike of its source.       *)
LEMMA GuessCompares ==
  ASSUME AUTH_LOCKOUT_MS = 1, AuthInv, GuessInv, NEW h \in Requests, request[h] \in AuthRequest,
         request[h].todo \in AuthPending, hour' = hour, forgiven' = forgiven,
         NEW p \in AuthSettling \cup AuthPunished, Plans(h, p),
         NEW new, new.by = h, new.subject = Subject(request[h]), new.at = request[h].now,
         new.wrong => p \in AuthPunished,
         compared' = compared \/ compared' = compared \cup {new},
         \A f \in strikes : f.at = hour => f \in strikes',
         \A f \in strikes' : \/ f \in strikes
                             \/ f.at = hour /\ f.subject \notin Subjects
  PROVE  GuessInv'
<1>1. AuthTypes
  BY Zenon DEF AuthInv
<1>2. p \in AuthPlans \ {<<"arrive">>, <<"compare">>} /\ p \notin AuthPending
  BY Zenon, StagesAreApart DEF AuthPlans
<1>3. PICK r \in AuthRequest \cup {Answered} :
           /\ request' = [request EXCEPT ![h] = r] /\ r.todo = p
           /\ r \in AuthRequest => /\ Subject(r) = Subject(request[h])
                                   /\ r.current = request[h].current /\ r.now = request[h].now
  BY ZenonT(40), <1>1, <1>2, PlansIs
<1>4. request[h].now = hour
  BY Zenon DEF GuessInv, GuessTimes
<1>5. request[h].todo \notin AuthPunished
  BY Zenon, StagesAreApart
<1>6. \A g \in Requests : \A s : StrikeBy(g, s) \in strikes => StrikeBy(g, s) \in strikes'
  <2>1. \A g, s : StrikeBy(g, s).at = hour
    BY Zenon DEF StrikeBy
  <2> QED BY Zenon, <2>1
<1>7. Subject(request[h]) \in forgiven \/ StrikeBy(h, Subject(request[h])) \in strikes
  BY Zenon DEF GuessInv, GuessStrikes
<1>8. new.subject \in forgiven' \/ StrikeBy(new.by, new.subject) \in strikes'
  BY Zenon, <1>6, <1>7
<1>9. \A s \in Subjects :
        Cardinality({f \in strikes' : f.subject = s /\ f.at = hour}) <= Strikes[s[1]]
  BY Zenon, CountsShrink
<1>10. \A c \in compared' : c \in compared \/ c = new
  BY Zenon
<1>11. /\ \A c \in compared' : c \in compared \/ (c.by = h /\ c.at = hour)
       /\ \A c \in compared' : c \in compared \/ ~ c.wrong \/
            /\ r.todo \in AuthPunished
            /\ c.subject \in forgiven' \/ StrikeBy(c.by, c.subject) \in strikes'
       /\ compared \subseteq compared'
  BY Zenon, <1>3, <1>4, <1>8, <1>10
<1>12. /\ \A f \in strikes' : f \in strikes \/ f.at = hour
       /\ forgiven \subseteq forgiven'
       /\ r \in AuthRequest => r.now = hour
       /\ r.todo \notin AuthPending
  BY Zenon, <1>2, <1>3, <1>4
<1> QED BY Zenon, <1>3, <1>5, <1>6, <1>9, <1>11, <1>12, GuessMove

LEMMA GuessCompareSteps ==
  ASSUME AUTH_LOCKOUT_MS = 1, AuthInv, GuessInv, NEW h \in Requests,
         Compare(h) \/ ReserveGlobal(h)
  PROVE  GuessInv'
<1>1. AuthTypes
  BY Zenon DEF AuthInv
<1>2. CASE Compare(h)
  <2>1. /\ request[h] \in AuthRequest /\ request[h].todo = <<"compare">>
        /\ request[h].todo \in AuthPending
    <3>1. /\ request[h] \in AuthRequest /\ Head(request[h].todo) = "compare"
          /\ request[h].todo \in AuthPlans \ {<<>>, <<"arrive">>}
      BY Zenon, <1>2, RunsAre DEF Compare
    <3> QED BY Zenon, <3>1, PlanHeads
  <2>2. PICK new : new = [by |-> h, subject |-> Subject(request[h]), at |-> request[h].now,
                          wrong |-> ~ request[h].right, version |-> 0]
    BY Zenon
  <2>3. /\ hour' = hour /\ forgiven' = forgiven /\ strikes' = strikes
        /\ compared' = compared \cup {new}
    BY Zenon, <1>2, <2>2 DEF Compare, Compares, world
  <2>4. /\ new.by = h /\ new.subject = Subject(request[h]) /\ new.at = request[h].now
        /\ new.wrong <=> ~ request[h].right
    BY Zenon, <2>2
  <2>5. PICK p \in AuthSettling \cup {<<"lockSubject">>} :
          Plans(h, p) /\ (~ request[h].right => p \in {<<>>, <<"lockSubject">>})
    BY Zenon, <1>1, <1>2, <2>1, ComparePlans
  <2>6. <<>> \in AuthPunished /\ <<"lockSubject">> \in AuthPunished
    BY Zenon DEF AuthPunished
  <2>7. p \in AuthSettling \cup AuthPunished /\ (new.wrong => p \in AuthPunished)
    BY Zenon, <2>4, <2>5, <2>6
  <2> QED BY Zenon, <2>1, <2>3, <2>4, <2>5, <2>7, GuessCompares
<1>3. CASE ReserveGlobal(h)
  <2>1. /\ request[h] \in AuthRequest /\ request[h].todo \in AuthPending
    <3>1. /\ request[h] \in AuthRequest /\ Head(request[h].todo) = "reserveGlobal"
          /\ request[h].todo \in AuthPlans \ {<<>>, <<"arrive">>}
      BY Zenon, <1>3, RunsAre DEF ReserveGlobal
    <3> QED BY Zenon, <3>1, PlanHeads
  <2>2. PICK new : new = CodeCompared(h)
    BY Zenon
  <2>3. new.by = h /\ new.subject = Subject(request[h]) /\ new.at = request[h].now
    BY Zenon, <2>2 DEF CodeCompared
  <2>4. hour' = hour /\ forgiven' = forgiven
    BY Zenon, <1>3 DEF ReserveGlobal, world
  <2>5. /\ request[h].now = hour
        /\ \A f \in strikes : f.at = hour => f \in Pruned(request[h].now)
        /\ Pruned(request[h].now) \subseteq strikes
    BY Zenon, <1>1, <2>1, HourIsKept, PrunedIs
  <2>6. GlobalRow(h).at = hour /\ GlobalRow(h).subject \notin Subjects
    <3>1. /\ GlobalRow(h).at = request[h].now
          /\ GlobalRow(h).subject = <<"global", request[h].current.version>>
      BY Zenon DEF GlobalRow, inviteGlobalSubject
    <3>2. \A v : <<"global", v>> \notin Subjects
      BY DEF Subjects, Domains
    <3> QED BY Zenon, <2>5, <3>1, <3>2
  <2>7. \A f \in strikes : f.at = hour => f \in strikes'
    BY Zenon, <1>3, <2>5 DEF ReserveGlobal, reserveFailureBudget
  <2>8. \A f \in strikes' : f \in strikes \/ (f.at = hour /\ f.subject \notin Subjects)
    BY Zenon, <1>1, <1>3, <2>1, <2>5, <2>6, ReserveGlobalIs
  <2>9. PICK p \in AuthSettling \cup AuthPunished :
          /\ Plans(h, p)
          /\ compared' = compared \/ (compared' = compared \cup {new} /\ (new.wrong => p \in AuthPunished))
    <3>1. <<"refund">> \in AuthSettling /\ <<"refund", "refundGlobal">> \in AuthSettling
      BY Zenon DEF AuthSettling
    <3> QED BY Zenon, <1>1, <1>3, <2>1, <2>2, <3>1, ReserveGlobalIs
  <2>10. CASE new.wrong => p \in AuthPunished
    BY Zenon, <2>1, <2>3, <2>4, <2>7, <2>8, <2>9, <2>10, GuessCompares
  <2>11. CASE compared' = compared
    <3>1. PICK none : none = [new EXCEPT !.wrong = FALSE]
      BY Zenon
    <3>2. /\ none.by = h /\ none.subject = Subject(request[h]) /\ none.at = request[h].now
          /\ ~ none.wrong
      BY <2>2, <3>1 DEF CodeCompared
    <3> QED BY Zenon, <2>1, <2>4, <2>7, <2>8, <2>9, <2>11, <3>2, GuessCompares
  <2> QED BY Zenon, <2>9, <2>10, <2>11
<1> QED BY Zenon, <1>2, <1>3

(* The wrong comparisons of this hour are as many as their strikes.        *)
LEMMA WrongThisHour ==
  ASSUME AUTH_LOCKOUT_MS = 1, AuthInv, GuessInv, NEW s \in Subjects, s \notin forgiven
  PROVE  Cardinality(WrongIn(s, hour)) <= Strikes[s[1]]
<1> DEFINE C == WrongIn(s, hour)
           B == StrikesOf(s)
           strike == [c \in C |-> StrikeBy(c.by, s)]
<1>1. hour \in Nat /\ \A c \in compared : c.at \in Nat
  BY Zenon DEF AuthInv, AuthTypes, GuessInv, GuessTimes
<1>2. \A c \in C : c \in compared /\ c.wrong /\ c.subject = s /\ c.at = hour
  <2>1. \A c \in C : /\ c \in compared /\ c.wrong /\ c.subject = s
                     /\ hour - AUTH_LOCKOUT_MS < c.at /\ c.at <= hour
    BY Zenon DEF WrongIn
  <2> HIDE DEF C
  <2> QED BY <1>1, <2>1
<1>3. \A c \in C : StrikeBy(c.by, s) \in B /\ StrikeBy(c.by, s).by = c.by
  <2>1. \A c \in C : StrikeBy(c.by, s) \in strikes
    BY Zenon, <1>2 DEF GuessInv, GuessStrikes
  <2>2. \A g : /\ StrikeBy(g, s).by = g /\ StrikeBy(g, s).subject = s
               /\ StrikeBy(g, s).at = hour
    BY Zenon DEF StrikeBy
  <2> QED BY Zenon, <2>1, <2>2 DEF StrikesOf
<1>4. \A c, d \in C : c.by = d.by => c = d
  BY Zenon, <1>2 DEF AuthInv, ComparedOnce
<1> HIDE DEF C, B
<1>5. strike \in Injection(C, B)
  <2>1. strike \in [C -> B]
    BY Zenon, <1>3
  <2>2. ASSUME NEW c \in C, NEW d \in C, strike[c] = strike[d] PROVE c = d
    <3>1. StrikeBy(c.by, s) = StrikeBy(d.by, s)
      BY Zenon, <2>2
    <3>2. c.by = d.by
      BY Zenon, <1>3, <3>1
    <3> QED BY Zenon, <1>4, <3>2
  <2>3. DOMAIN strike = C
    BY Zenon
  <2> HIDE DEF strike
  <2> QED BY Zenon, <2>1, <2>2, <2>3 DEF Injection, IsInjective
<1> HIDE DEF strike
<1>6. IsFiniteSet(B)
  <2>1. B \in SUBSET strikes
    BY Zenon DEF B, StrikesOf
  <2> QED BY Zenon, <2>1, FS_Subset DEF AuthInv, AuthTypes
<1>7. IsFiniteSet(C) /\ Cardinality(C) <= Cardinality(B)
  BY Zenon, <1>5, <1>6, FS_Injection
<1>8. Cardinality(C) \in Nat /\ Cardinality(B) \in Nat /\ Strikes[s[1]] \in Nat
  BY Zenon, <1>6, <1>7, FS_CardinalityType, LimitIs
<1>9. Cardinality(B) <= Strikes[s[1]]
  BY Zenon DEF GuessInv, GuessCounts, B
<1>10. Cardinality(C) <= Strikes[s[1]]
  BY <1>7, <1>8, <1>9
<1> QED BY Zenon, <1>10 DEF C

LEMMA GuessHour ==
  ASSUME AUTH_LOCKOUT_MS = 1, AuthInv, GuessInv, HourPasses
  PROVE  GuessInv'
<1>1. /\ AuthTypes /\ hour \in Nat /\ GuessTimes /\ GuessStrikes /\ GuessCounts
      /\ request \in [Requests -> AuthRequest \cup {NotArrived, Answered}]
  BY Zenon DEF AuthInv, AuthTypes, GuessInv
<1>2. strikes' = strikes /\ compared' = compared /\ forgiven' = forgiven
  BY Zenon DEF HourPasses, authHistory
<1>3. hour' = hour + 1 /\ hour' \in Nat
  BY Zenon, <1>1, HourPassesIs
<1>4. \A g \in Requests : request'[g] = request[g] \/ request'[g] = Answered
  BY Zenon, <1>1, HourPassesIs
<1>5. \A g \in Requests : request'[g] \notin AuthRequest
  <2>1. TAKE g \in Requests
  <2>2. CASE request[g] \in AuthRequest
    <3>1. Handling(g) /\ request[g].now = hour
      BY Zenon, <1>1, <2>2, HandlingIs DEF GuessTimes
    <3>2. hour' - hour >= AUTH_LOCKOUT_MS
      BY <1>1, <1>3
    <3>3. request'[g] = Answered
      BY Zenon, <3>1, <3>2 DEF HourPasses
    <3> QED BY Zenon, <3>3, RequestFields
  <2>3. CASE request[g] \notin AuthRequest
    BY Zenon, <1>4, <2>3, RequestFields
  <2> QED BY Zenon, <2>2, <2>3
<1>6. \A n \in Nat : n <= hour => n <= hour' /\ n # hour'
  BY <1>1, <1>3
<1>7. GuessTimes'
  BY Zenon, <1>1, <1>2, <1>5, <1>6 DEF GuessTimes
<1>8. GuessStrikes'
  <2>1. \A c \in compared : c.wrong => c.by \in Requests /\ request[c.by].todo \in AuthPunished /\ c.at # hour'
    BY Zenon, <1>1, <1>6 DEF GuessStrikes, GuessTimes, AuthInv, ComparedOnce
  <2>2. Answered.todo \in AuthPunished
    BY Zenon, RequestFields, StagesAreApart
  <2>3. \A c \in compared : c.wrong => request'[c.by].todo \in AuthPunished
    BY Zenon, <1>4, <2>1, <2>2
  <2> QED BY Zenon, <1>2, <1>5, <2>1, <2>3 DEF GuessStrikes
<1>9. ASSUME NEW s \in Subjects PROVE Cardinality(StrikesOf(s)') <= Strikes[s[1]]
  <2>1. StrikesOf(s)' = {}
    BY Zenon, <1>1, <1>2, <1>6 DEF StrikesOf, GuessTimes
  <2>2. Cardinality(StrikesOf(s)') = 0 /\ Strikes[s[1]] \in Nat
    BY Zenon, <2>1, FS_EmptySet, LimitIs
  <2> QED BY <2>2
<1>10. ASSUME NEW s \in Subjects, s \notin forgiven, NEW t \in Nat, t < hour'
       PROVE  Cardinality(WrongIn(s, t)) <= Strikes[s[1]]
  <2>1. t < hour \/ t = hour
    BY <1>1, <1>3, <1>10
  <2>2. CASE t < hour
    BY Zenon, <1>1, <1>10, <2>2 DEF GuessCounts
  <2>3. CASE t = hour
    BY Zenon, <1>10, <2>3, WrongThisHour
  <2> QED BY Zenon, <2>1, <2>2, <2>3
<1>11. \A s, t : WrongIn(s, t)' = WrongIn(s, t)
  BY Zenon, <1>2 DEF WrongIn
<1>12. GuessCounts'
  BY Zenon, <1>2, <1>9, <1>10, <1>11 DEF GuessCounts, StrikesOf, WrongIn
<1> QED BY Zenon, <1>7, <1>8, <1>12 DEF GuessInv

LEMMA GuessStep ==
  ASSUME AUTH_LOCKOUT_MS = 1, AuthInv, GuessInv, [AccountsNext]_authVars, AuthInv'
  PROVE  GuessInv'
<1>1. CASE UNCHANGED <<hour, request, strikes, compared, forgiven>>
  BY Zenon, <1>1 DEF GuessInv, GuessTimes, GuessStrikes, GuessCounts, StrikesOf, StrikeBy,
                     WrongIn, Subject
<1>2. CASE UNCHANGED authVars \/ rotateInvite
  BY Zenon, <1>1, <1>2 DEF authVars, world, authHistory, rotateInvite
<1>3. CASE HourPasses
  BY Zenon, <1>3, GuessHour
<1>4. ASSUME NEW h \in Requests, NEW dom \in Domains, NEW s \in Sources, NEW right \in BOOLEAN,
             Arrives(h, dom, s, right)
      PROVE  GuessInv'
  BY Zenon, <1>4, GuessArrives
<1>5. ASSUME NEW h \in Requests,
             \/ lockedUntil(h) \/ ReserveSource(h) \/ Compare(h) \/ getInvite(h) \/ ReserveGlobal(h)
             \/ suspendInvite(h) \/ lockSubject(h) \/ releaseFailureBudget(h) \/ insertUser(h)
             \/ insertFirstUser(h) \/ BootstrapPutsInvite(h) \/ clearAuthDomain(h)
      PROVE  GuessInv'
  BY Zenon, <1>5, GuessReads, GuessReserves, GuessCompareSteps, GuessSettles
<1> QED BY Zenon, <1>2, <1>3, <1>4, <1>5 DEF AccountsNext

LEMMA GuessInit ==
  ASSUME AccountsInit
  PROVE  GuessInv
<1>1. hour = 1 /\ request = [h \in Requests |-> NotArrived] /\ strikes = {} /\ compared = {}
  BY DEF AccountsInit
<1>2. \A h \in Requests : request[h] \notin AuthRequest
  BY Zenon, <1>1, RequestFields
<1>3. \A s \in Subjects : StrikesOf(s) = {} /\ \A t : WrongIn(s, t) = {}
  BY Zenon, <1>1 DEF StrikesOf, WrongIn
<1>4. \A s \in Subjects : Cardinality({}) <= Strikes[s[1]]
  BY LimitIs, FS_EmptySet
<1> QED BY Zenon, <1>1, <1>2, <1>3, <1>4 DEF GuessInv, GuessTimes, GuessStrikes, GuessCounts

(* The account routes, on the clock whose unit is the lock time: whatever  *)
(* the number of requests, sources and limits, and however the statements  *)
(* interleave, a source that was never right has at most its limit of      *)
(* wrong credentials compared in an hour, a suspended code was compared as *)
(* often as its budget allows, and there is one administrator.             *)
THEOREM GuessesAreBoundedAlways ==
  ASSUME AUTH_LOCKOUT_MS = 1
  PROVE  AccountsSpec => []GuessesAreBounded
<1> DEFINE Inv == AuthInv /\ GuessInv
<1>1. AccountsInit => Inv
  BY Zenon, AuthInit, GuessInit
<1>2. Inv /\ [AccountsNext]_authVars => Inv'
  BY Zenon, AuthStep, GuessStep
<1>3. Inv => GuessesAreBounded
  <2> SUFFICES ASSUME AuthInv, GuessInv PROVE GuessesAreBounded
    BY Zenon
  <2>1. SuspensionIsEarned /\ admins \in {0, 1} /\ hour \in Nat
    BY Zenon DEF AuthInv, AuthTypes
  <2>2. OneAdministrator
    BY <2>1 DEF OneAdministrator
  <2>3. ASSUME NEW s \in Subjects \ forgiven, NEW t \in 1 .. MaxHour
        PROVE  Cardinality(WrongIn(s, t)) <= Strikes[s[1]]
    <3>1. t \in Nat
      BY AccountsAssumption
    <3>2. CASE t < hour
      BY Zenon, <2>3, <3>1, <3>2 DEF GuessInv, GuessCounts
    <3>3. CASE t = hour
      BY Zenon, <2>3, <3>3, WrongThisHour
    <3>4. CASE t > hour
      <4>1. \A n \in Nat : n <= hour => ~ (t - AUTH_LOCKOUT_MS < n)
        BY <2>1, <3>1, <3>4
      <4>2. WrongIn(s, t) = {}
        BY Zenon, <4>1 DEF WrongIn, GuessInv, GuessTimes
      <4>3. Cardinality(WrongIn(s, t)) = 0 /\ Strikes[s[1]] \in Nat
        BY Zenon, <2>3, <4>2, FS_EmptySet, LimitIs
      <4> QED BY <4>3
    <3> QED BY <2>1, <3>1, <3>2, <3>3, <3>4
  <2>4. WrongGuessesPerHour
    BY Zenon, <2>3 DEF WrongGuessesPerHour
  <2> QED BY Zenon, <2>1, <2>2, <2>4 DEF GuessesAreBounded
<1> QED BY <1>1, <1>2, <1>3, PTL DEF AccountsSpec

=============================================================================
