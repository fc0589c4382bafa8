------------------------------- MODULE Accounts -------------------------------
(***************************************************************************)
(* Signing in to the origin worker: the account routes bootstrap, login,   *)
(* register and rotateInvite (account.ts) over the tables users,            *)
(* invite_codes, auth_failures and auth_locks of D1 (account-store.ts).    *)
(*                                                                         *)
(* Every D1 statement or batch is one atomic step; between two of them any *)
(* other request may run, and the worker may be stopped.  A request keeps  *)
(* the time it arrived and uses it in every statement.  `todo' holds the   *)
(* statements a request still has to run.                                  *)
(***************************************************************************)
EXTENDS Integers, Sequences, FiniteSets

CONSTANTS
  MaxRequests,             \* bound on the requests, numbered as they arrive
  Sources,                 \* hashed client addresses
  AUTH_LOCKOUT_MS,         \* the length of a ban and of the strike window
  Strikes,                 \* the limit of each domain
  INVITE_GLOBAL_STRIKES,   \* the limit of one version of the invite code
  MaxHour,                 \* bound on the clock
  MaxVersion,              \* bound on the rotations of the code
  Mixes                    \* the sets of routes that are asked together

ASSUME AccountsAssumption ==
  /\ {MaxRequests, AUTH_LOCKOUT_MS, INVITE_GLOBAL_STRIKES, MaxHour, MaxVersion} \subseteq Nat
  /\ Strikes \in [{"invite", "login", "bootstrap"} -> Nat]

VARIABLES
  asked,      \* the routes this behaviour asks
  hour,       \* the time
  request,    \* the handler's locals
  strikes,    \* auth_failures; a row is named by the request that wrote it
  locks,      \* auth_locks: the deadline of each subject
  invite,     \* invite_codes: version 0 is no row
  admins,     \* how many first accounts there are; members only follow them
  compared,   \* history: every comparison of a credential that was made
  forgiven    \* history: the subjects ever cleared

world == <<asked, hour>>
authHistory == <<compared, forgiven>>
authVars == <<world, request, strikes, locks, invite, admins, authHistory>>

Requests == 1 .. MaxRequests
Domains == {"invite", "login", "bootstrap"}
Subjects == Domains \X Sources
Subject(r) == <<r.dom, r.from>>
inviteGlobalSubject(version) == <<"global", version>>

NotArrived == [todo |-> <<"arrive">>]
Answered == [todo |-> <<>>]

AccountsInit ==
  /\ asked \in Mixes
  /\ hour = 1
  /\ request = [h \in Requests |-> NotArrived]
  /\ strikes = {}
  /\ locks = [s \in Subjects |-> 0]
  /\ \E set \in BOOLEAN :
       /\ set # ("bootstrap" \in asked)
       /\ invite = [version |-> IF set THEN 1 ELSE 0, suspended |-> FALSE]
       /\ admins = IF set THEN 1 ELSE 0
  /\ compared = {} /\ forgiven = {}

Handling(h) == request[h] \notin {NotArrived, Answered}

(* A request is over well before a ban is: one that has not answered by    *)
(* then was stopped with its worker, or one of its statements failed.      *)
HourPasses ==
  /\ hour < MaxHour
  /\ hour' = hour + 1
  /\ request' = [h \in Requests |->
       IF Handling(h) /\ hour' - request[h].now >= AUTH_LOCKOUT_MS
       THEN Answered ELSE request[h]]
  /\ UNCHANGED <<asked, strikes, locks, invite, admins, authHistory>>
-----------------------------------------------------------------------------
Runs(h, statement) == Handling(h) /\ Head(request[h].todo) = statement

(* The next statements of the handler; none is its answer.                 *)
Plans(h, todo) ==
  request' = [request EXCEPT ![h] =
                IF todo = <<>> THEN Answered ELSE [@ EXCEPT !.todo = todo]]
Proceeds(h) == Plans(h, Tail(request[h].todo))

(* A request presents the right credential, as of now, or a wrong one, and *)
(* runs its first read: bootstrap is closed once there is an account.      *)
Arrives(h, dom, source, right) ==
  LET closed == dom = "bootstrap" /\ admins > 0
      r == [dom |-> dom, from |-> source, now |-> hour, right |-> right,
            code |-> invite.version, strikes |-> 0, current |-> invite,
            todo |-> <<IF dom = "bootstrap" THEN "lockedUntil" ELSE "reserve">>]
      locked == dom # "bootstrap" /\ locks[Subject(r)] > hour IN
  /\ request[h] = NotArrived /\ \A g \in 1 .. h - 1 : request[g] # NotArrived
  /\ dom \in asked
  /\ request' = [request EXCEPT ![h] = IF closed \/ locked THEN Answered ELSE r]
  /\ UNCHANGED <<world, strikes, locks, invite, admins, authHistory>>

lockedUntil(h) ==
  /\ Runs(h, "lockedUntil")
  /\ IF locks[Subject(request[h])] > request[h].now
     THEN Plans(h, <<>>) ELSE Plans(h, <<"reserve">>)
  /\ UNCHANGED <<world, strikes, locks, invite, admins, authHistory>>

(* reserveFailureBudget prunes, inserts while the window has room, and     *)
(* counts, in one batch.                                                   *)
Pruned(now) == {f \in strikes : f.at > now - AUTH_LOCKOUT_MS}
InWindow(rows, subject, now) ==
  Cardinality({f \in rows : f.subject = subject /\ f.at > now - AUTH_LOCKOUT_MS})

\* a limit that the ban reads and the insert does not
MutGranted(subject, now, limit) == TRUE
Granted(subject, now, limit) == InWindow(Pruned(now), subject, now) < limit

reserveFailureBudget(h, subject, limit) ==
  LET now == request[h].now IN
  strikes' = Pruned(now) \cup
    IF Granted(subject, now, limit)
    THEN {[by |-> h, subject |-> subject, at |-> now]} ELSE {}

ReserveSource(h) ==
  LET r == request[h] IN
  /\ Runs(h, "reserve")
  /\ reserveFailureBudget(h, Subject(r), Strikes[r.dom])
  /\ request' = [request EXCEPT ![h] =
       IF ~ Granted(Subject(r), r.now, Strikes[r.dom]) THEN Answered
       ELSE [r EXCEPT !.todo = IF r.dom = "invite" THEN <<"getInvite">>
                               ELSE <<"compare">>,
                      !.strikes = InWindow(strikes', Subject(r), r.now)]]
  /\ UNCHANGED <<world, locks, invite, admins, authHistory>>

Compares(h, wrong, version) ==
  compared' = compared \cup
    {[by |-> h, subject |-> Subject(request[h]), at |-> request[h].now,
      wrong |-> wrong, version |-> version]}

Bans(r) == IF r.strikes >= Strikes[r.dom] THEN <<"lockSubject">> ELSE <<>>

(* login and bootstrap examine the password or the token.                  *)
Compare(h) ==
  LET r == request[h] IN
  /\ Runs(h, "compare")
  /\ Compares(h, ~ r.right, 0)
  /\ Plans(h, CASE ~ r.right -> Bans(r)
                [] r.right /\ r.dom = "login" -> <<"refund", "clear">>
                [] r.right /\ r.dom = "bootstrap" ->
                     <<"refund", "insertFirstUser", "putInvite", "clear">>)
  /\ UNCHANGED <<world, strikes, locks, invite, admins, forgiven>>

getInvite(h) ==
  /\ Runs(h, "getInvite")
  /\ request' = [request EXCEPT
       ![h].todo = IF invite.version = 0 THEN <<"refund">> ELSE <<"reserveGlobal">>,
       ![h].current = invite]
  /\ UNCHANGED <<world, strikes, locks, invite, admins, authHistory>>

(* The last statement before the code is compared, with the row that was   *)
(* read before it.                                                         *)
ReserveGlobal(h) ==
  LET r == request[h]
      version == r.current.version
      subject == inviteGlobalSubject(version)
      granted == Granted(subject, r.now, INVITE_GLOBAL_STRIKES)
      compares == granted /\ ~ r.current.suspended
      right == r.right /\ r.code = version
      last == InWindow(strikes', subject, r.now) >= INVITE_GLOBAL_STRIKES IN
  /\ Runs(h, "reserveGlobal")
  /\ reserveFailureBudget(h, subject, INVITE_GLOBAL_STRIKES)
  /\ IF compares THEN Compares(h, ~ right, version) ELSE UNCHANGED compared
  /\ Plans(h, CASE ~ granted -> <<"refund">>
                [] granted /\ ~ compares -> <<"refund", "refundGlobal">>
                [] compares /\ right ->
                     <<"refund", "refundGlobal", "insertUser", "clear">>
                [] compares /\ ~ right ->
                     (IF last THEN <<"suspendInvite">> ELSE <<>>) \o Bans(r))
  /\ UNCHANGED <<world, locks, invite, admins, forgiven>>

suspendInvite(h) ==
  /\ Runs(h, "suspendInvite")
  /\ invite' = [invite EXCEPT !.suspended =
                  @ \/ invite.version = request[h].current.version]
  /\ Proceeds(h)
  /\ UNCHANGED <<world, strikes, locks, admins, authHistory>>

(* The later of two deadlines stands; a lapsed one is dropped.             *)
lockSubject(h) ==
  LET until == request[h].now + AUTH_LOCKOUT_MS IN
  /\ Runs(h, "lockSubject")
  /\ locks' = [s \in Subjects |->
       LET kept == IF locks[s] <= request[h].now THEN 0 ELSE locks[s] IN
       IF s = Subject(request[h]) /\ until > kept THEN until ELSE kept]
  /\ Proceeds(h)
  /\ UNCHANGED <<world, strikes, invite, admins, authHistory>>

(* releaseFailureBudget hands back the row this request wrote, by its id.  *)
releaseFailureBudget(h) ==
  /\ Runs(h, "refund") \/ Runs(h, "refundGlobal")
  /\ strikes' = {f \in strikes :
       f.by = h => (f.subject = Subject(request[h])) # Runs(h, "refund")}
  /\ Proceeds(h)
  /\ UNCHANGED <<world, locks, invite, admins, authHistory>>

(* insertUser fails when the name is taken.                                *)
insertUser(h) ==
  /\ Runs(h, "insertUser")
  /\ Proceeds(h) \/ Plans(h, <<>>)
  /\ UNCHANGED <<world, strikes, locks, invite, admins, authHistory>>

insertFirstUser(h) ==
  /\ Runs(h, "insertFirstUser")
  /\ IF admins = 0
     THEN admins' = admins + 1 /\ Proceeds(h)
     ELSE UNCHANGED admins /\ Plans(h, <<>>)
  /\ UNCHANGED <<world, strikes, locks, invite, authHistory>>

(* A new code: its version moves and a suspension ends.                    *)
putInvite == invite' = [version |-> invite.version + 1, suspended |-> FALSE]

BootstrapPutsInvite(h) ==
  /\ Runs(h, "putInvite")
  /\ putInvite
  /\ Proceeds(h)
  /\ UNCHANGED <<world, strikes, locks, admins, authHistory>>

rotateInvite ==
  /\ admins > 0 /\ invite.version < MaxVersion
  /\ putInvite
  /\ UNCHANGED <<world, request, strikes, locks, admins, authHistory>>

clearAuthDomain(h) ==
  LET s == Subject(request[h]) IN
  /\ Runs(h, "clear")
  /\ strikes' = {f \in strikes : f.subject # s}
  /\ locks' = [locks EXCEPT ![s] = 0]
  /\ forgiven' = forgiven \cup {s}
  /\ Proceeds(h)
  /\ UNCHANGED <<world, invite, admins, compared>>

AccountsNext ==
  \/ HourPasses \/ rotateInvite
  \/ \E h \in Requests :
       \/ \E dom \in Domains, s \in Sources, right \in BOOLEAN :
            Arrives(h, dom, s, right)
       \/ lockedUntil(h) \/ ReserveSource(h) \/ Compare(h)
       \/ getInvite(h) \/ ReserveGlobal(h) \/ suspendInvite(h) \/ lockSubject(h)
       \/ releaseFailureBudget(h) \/ insertUser(h) \/ insertFirstUser(h)
       \/ BootstrapPutsInvite(h) \/ clearAuthDomain(h)

AccountsSpec == AccountsInit /\ [][AccountsNext]_authVars
-----------------------------------------------------------------------------
WrongIn(subject, t) ==
  {c \in compared : /\ c.wrong /\ c.subject = subject
                    /\ t - AUTH_LOCKOUT_MS < c.at /\ c.at <= t}

(* However the requests of a burst interleave, a source that has presented *)
(* no right credential has at most its limit of wrong ones compared in any *)
(* stretch of the lock time: reserveFailureBudget is spent by arriving.    *)
WrongGuessesPerHour ==
  \A s \in Subjects \ forgiven, t \in 1 .. MaxHour :
    Cardinality(WrongIn(s, t)) <= Strikes[s[1]]

(* A suspended invite code was compared with as many credentials as its    *)
(* budget allows: the late loser of a campaign against the code before it  *)
(* never suspends the code a rotation put in its place.                    *)
SuspensionIsEarned ==
  invite.suspended =>
    Cardinality({c \in compared : c.version = invite.version})
      >= INVITE_GLOBAL_STRIKES

(* Requests that all found the table empty open one administrator's        *)
(* account between them: the guard is in insertFirstUser's statement.      *)
OneAdministrator == admins <= 1

(* Bursts of requests are bounded by the statements they share: a          *)
(* source's wrong guesses, the suspension of a code, and the first         *)
(* administrator.                                                          *)
GuessesAreBounded == WrongGuessesPerHour /\ SuspensionIsEarned /\ OneAdministrator
=============================================================================
