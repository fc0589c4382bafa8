----------------------------- MODULE Lifecycle -----------------------------
(* The phone's connection to one computer at a time: establish, retire and  *)
(* land (features/connection/lifecycle.ts), the pool of sessions it keeps   *)
(* open (computers/session-pool.ts), GetConfig (connection/runtime.ts), and *)
(* switching, adding and forgetting computers (computers/actions.ts).       *)
(* Each of these is a chain of steps between awaits.  A generation counter  *)
(* is only ever compared with a value captured earlier: a job holds the     *)
(* generations that nobody has advanced since it captured them.             *)
EXTENDS Naturals, Sequences, SequencesExt

CONSTANTS Computers, NoComputer,
          Jobs,         \* chains under way at once (bound)
          Removable,    \* computers whose credential is ever deleted (bound)
          MAX_ENTRIES   \* ComputerSessions(maxEntries)

VARIABLES jobs,      \* the chains
          pool,      \* sessions kept open, the longest unused first
          openLinks, \* sessions whose transport is open
          liveLink,      \* the session on the screen
          credential, phase,
          grants,    \* the computer whose capabilities are shown
          stored,    \* credentials in IndexedDB
          shown      \* the catalog the page shows

lifecycleVars == <<jobs, pool, openLinks, liveLink, credential, phase, grants, stored, shown>>

NoLink == <<NoComputer, 0>>
NoJob == [op |-> "none", at |-> "none", d |-> NoComputer, s |-> NoLink,
          holds |-> {}, flag |-> FALSE, read |-> {}]

LifecycleInit ==
  /\ jobs = [i \in Jobs |-> NoJob] /\ pool = <<>> /\ openLinks = {}
  /\ liveLink = NoLink /\ credential = NoComputer /\ phase = "pick" /\ grants = NoComputer
  /\ stored = Computers /\ shown = Computers

-----------------------------------------------------------------------------
(* Generations.  What a job read for a generation it lost is of no use.     *)
Advance(js, tokens) ==
  [i \in Jobs |->
     LET holds == js[i].holds \ tokens IN
     [js[i] EXCEPT !.holds = holds,
                   !.read = IF "catalog" \in holds THEN @ ELSE {},
                   !.s = IF holds \cap {"config", "flow"} # {} THEN @ ELSE NoLink,
                   !.d = IF js[i].op = "establish" /\ holds \cap {"attempt", "epoch"} = {} THEN NoComputer ELSE @]]

Idles(i) == jobs[i] = NoJob /\ \A j \in Jobs : j < i => jobs[j] # NoJob

At(i, op, at) == jobs[i].op = op /\ jobs[i].at = at

Holds(i, token) == token \in jobs[i].holds

Done(i) == jobs' = [jobs EXCEPT ![i] = NoJob]

-----------------------------------------------------------------------------
(* The pool.  A session is named by its computer and a number no one uses.  *)
Entry(d) == {k \in DOMAIN pool : pool[k][1] = d}

Pooled(s) == \E k \in DOMAIN pool : pool[k] = s

FreshLink(d) ==
  LET taken == openLinks \cup {liveLink} \cup {jobs[i].s : i \in Jobs} IN
  <<d, CHOOSE n \in 1..3 : <<d, n>> \notin taken /\ \A k \in 1..(n - 1) : <<d, k>> \in taken>>

\* The newest of the others goes.
MutEvicted(p) == IF Len(p) <= MAX_ENTRIES THEN NoLink ELSE p[Len(p) - 1]
(* evictOverflow: the entry activated longest ago; the one just inserted is *)
(* the last.                                                                *)
Evicted(p) == IF Len(p) <= MAX_ENTRIES THEN NoLink ELSE p[1]

Without(p, s) == SelectSeq(p, LAMBDA e : e # s)

-----------------------------------------------------------------------------
(* Retiring what is on the screen: parkSession, invalidateReads and         *)
(* retireLiveDomains.                                                       *)
retireLiveDomains == liveLink' = NoLink /\ grants' = NoComputer

Cleared(js) == Advance(js, {"attempt", "view", "config"})

(* clearLiveConnection: the pool's entry goes with the session.             *)
clearLiveConnection ==
  /\ retireLiveDomains
  /\ pool' = Without(pool, liveLink)
  /\ openLinks' = openLinks \ {liveLink}

(* reloadComputers up to its await: the catalog is read in call order.      *)
Reloading(js, i, tokens, has) ==
  [Advance(js, {"catalog"}) EXCEPT ![i].at = "reload", ![i].read = has,
                                   ![i].holds = (@ \cap tokens) \cup {"catalog"}]

reloadComputers(i, mayApply) ==
  shown' = IF Holds(i, "catalog") /\ mayApply THEN jobs[i].read ELSE shown

(* landAfterDisconnect up to its first await, in place of the job i.        *)
landAfterDisconnect(i, d, burned) ==
  LET job == [NoJob EXCEPT !.op = "land", !.at = "delete", !.d = d, !.holds = {"view"}]
      js == [Cleared(jobs) EXCEPT ![i] = job]
  IN /\ clearLiveConnection
     /\ \E kept \in BOOLEAN :
          /\ kept => burned
          /\ burned => d \in Removable
          /\ stored' = IF burned /\ ~ kept THEN stored \ {d} ELSE stored
          /\ jobs' = IF burned THEN js ELSE Reloading(js, i, {"view"}, stored)

LandDeleted(i) ==
  /\ At(i, "land", "delete")
  /\ IF ~ Holds(i, "view")
     THEN Done(i) /\ UNCHANGED credential
     ELSE /\ credential' = IF credential = jobs[i].d THEN NoComputer ELSE credential
          /\ jobs' = Reloading(jobs, i, {"view"}, stored)
  /\ UNCHANGED <<pool, openLinks, liveLink, phase, grants, stored, shown>>

phaseAfterComputers(catalog) == IF catalog = {} THEN "connect" ELSE "pick"

LandReloaded(i) ==
  /\ At(i, "land", "reload")
  /\ reloadComputers(i, TRUE)
  /\ IF Holds(i, "view") /\ liveLink = NoLink
     THEN /\ phase' = phaseAfterComputers(shown')
          /\ credential' = IF shown' = {} THEN NoComputer ELSE credential
     ELSE UNCHANGED <<phase, credential>>
  /\ Done(i)
  /\ UNCHANGED <<pool, openLinks, liveLink, grants, stored>>

-----------------------------------------------------------------------------
(* establish: up to leaving the complete terminal, ...                      *)
Attempt(i, d, paired) ==
  [Advance(jobs, {"attempt"}) EXCEPT
     ![i] = [NoJob EXCEPT !.op = "establish", !.at = "leave", !.d = d,
                          !.holds = {"attempt"}, !.flag = paired]]

(* ... up to rememberLastUsed, ...                                          *)
Park(js, i) ==
  /\ jobs' = [Advance(js, {"view", "config"}) EXCEPT ![i].at = "remember"]
  /\ retireLiveDomains
  /\ phase' = "resuming" /\ credential' = js[i].d

TerminalLeft(i) ==
  /\ At(i, "establish", "leave")
  /\ IF Holds(i, "attempt") THEN Park(jobs, i)
     ELSE Done(i) /\ UNCHANGED <<liveLink, grants, phase, credential>>
  /\ UNCHANGED <<pool, openLinks, stored, shown>>

(* ... the session, new or kept, comes onto the screen and the credential   *)
(* is saved, ...                                                            *)
Attach(js, i, s) ==
  /\ liveLink' = s /\ credential' = s[1]
  /\ stored' = stored \cup {s[1]}
  /\ jobs' = [js EXCEPT ![i].at = "save", ![i].holds = {"attempt"}]

(* activate up to its await; the epoch makes the last one own the slot.     *)
Activate(i) ==
  LET d == jobs[i].d
      js == [j \in Jobs |-> IF jobs[j].d = d THEN [jobs[j] EXCEPT !.holds = @ \ {"epoch"}]
                            ELSE jobs[j]]
      kept == {pool[k] : k \in Entry(d)}
  IN /\ At(i, "establish", "remember") /\ Holds(i, "attempt")
     /\ \/ /\ kept # {} /\ ~ jobs[i].flag
           /\ \E s \in kept : pool' = Append(Without(pool, s), s) /\ Attach(js, i, s)
           /\ UNCHANGED openLinks
        \/ /\ kept = {} \/ jobs[i].flag
           /\ pool' = SelectSeq(pool, LAMBDA e : e \notin kept)
           /\ openLinks' = openLinks \ kept
           /\ jobs' = [js EXCEPT ![i].at = "connect", ![i].flag = FALSE,
                                 ![i].holds = @ \cup {"epoch"}]
           /\ UNCHANGED <<liveLink, credential, stored>>
     /\ UNCHANGED <<phase, grants, shown>>

Overtaken(i) ==
  /\ At(i, "establish", "remember") /\ ~ Holds(i, "attempt")
  /\ Done(i)
  /\ UNCHANGED <<pool, openLinks, liveLink, credential, phase, grants, stored, shown>>

MayInsert(i) == Holds(i, "epoch")

(* The connector has a session.  One that was overtaken is closed; one that *)
(* is in time enters the pool even if the attempt is not the last.          *)
Connected(i) ==
  /\ At(i, "establish", "connect")
  /\ LET s == FreshLink(jobs[i].d)
         p == Append(SelectSeq(pool, LAMBDA e : e[1] # jobs[i].d), s)
         gone == Evicted(p)
     IN IF ~ MayInsert(i)
        THEN Done(i) /\ UNCHANGED <<pool, openLinks, liveLink, credential, stored>>
        ELSE /\ pool' = Without(p, gone)
             /\ openLinks' = (openLinks \cup {s}) \ {gone}
             /\ IF Holds(i, "attempt") THEN Attach(jobs, i, s)
                ELSE Done(i) /\ UNCHANGED <<liveLink, credential, stored>>
  /\ UNCHANGED <<phase, grants, shown>>

(* The connector fails: resumeComputer lands, unless the attempt is stale.  *)
ConnectFails(i, burned) ==
  /\ At(i, "establish", "connect")
  /\ IF Holds(i, "attempt") THEN landAfterDisconnect(i, jobs[i].d, burned)
     ELSE Done(i) /\ UNCHANGED <<pool, openLinks, liveLink, grants, stored>>
  /\ UNCHANGED <<credential, phase, shown>>

(* ... the computer is live and its configuration is asked for.             *)
CredentialSaved(i) ==
  /\ At(i, "establish", "save")
  /\ IF Holds(i, "attempt")
     THEN /\ phase' = "live" /\ grants' = NoComputer
          /\ jobs' = [Advance(jobs, {"config"}) EXCEPT
                        ![i].at = "config", ![i].s = liveLink, ![i].holds = {"attempt", "config"}]
     ELSE Done(i) /\ UNCHANGED <<phase, grants>>
  /\ UNCHANGED <<pool, openLinks, liveLink, credential, stored, shown>>

(* acceptedStillCurrent *)
Accepted(i) == Holds(i, "config") /\ liveLink = jobs[i].s

(* refreshHerdConfig's answer; one that cannot be read grants nothing.      *)
ConfigAnswers(i, valid) ==
  /\ jobs[i].at = "config"
  /\ grants' = IF Accepted(i) THEN IF valid THEN jobs[i].s[1] ELSE NoComputer ELSE grants
  /\ IF jobs[i].op = "establish" /\ Holds(i, "attempt")
     THEN jobs' = Reloading(jobs, i, {"attempt"}, stored)
     ELSE Done(i)
  /\ UNCHANGED <<pool, openLinks, liveLink, credential, phase, stored, shown>>

EstablishReloaded(i) ==
  /\ At(i, "establish", "reload")
  /\ reloadComputers(i, Holds(i, "attempt"))
  /\ Done(i)
  /\ UNCHANGED <<pool, openLinks, liveLink, credential, phase, grants, stored>>

-----------------------------------------------------------------------------
(* Session events (observeSessionEvent): the live session is connected      *)
(* again, ...                                                               *)
Reconnected(i) ==
  /\ Idles(i) /\ liveLink # NoLink
  /\ grants' = NoComputer
  /\ jobs' = [Advance(jobs, {"config"}) EXCEPT
                ![i] = [NoJob EXCEPT !.op = "observe", !.at = "config", !.s = liveLink,
                                     !.holds = {"config"}]]
  /\ UNCHANGED <<pool, openLinks, liveLink, credential, phase, stored, shown>>

(* ... the live session ends, ...                                           *)
LiveEnds(i, burned) ==
  /\ Idles(i) /\ liveLink # NoLink
  /\ landAfterDisconnect(i, credential, burned)
  /\ UNCHANGED <<credential, phase, shown>>

(* ... or one that is only kept (handleInactiveTerminal).                   *)
InactiveEnds(i, s, burned) ==
  /\ Idles(i) /\ Pooled(s) /\ s # liveLink
  /\ burned => s[1] \in Removable
  /\ pool' = Without(pool, s) /\ openLinks' = openLinks \ {s}
  /\ LET job == [NoJob EXCEPT !.op = "inactive", !.at = "delete", !.d = s[1]]
         js == [jobs EXCEPT ![i] = job]
     IN IF burned THEN stored' \in {stored, stored \ {s[1]}} /\ jobs' = js
        ELSE UNCHANGED stored /\ jobs' = Reloading(js, i, {}, stored)
  /\ UNCHANGED <<liveLink, credential, phase, grants, shown>>

InactiveDeleted(i) ==
  /\ At(i, "inactive", "delete")
  /\ jobs' = Reloading(jobs, i, {}, stored)
  /\ UNCHANGED <<pool, openLinks, liveLink, credential, phase, grants, stored, shown>>

InactiveReloaded(i) ==
  /\ At(i, "inactive", "reload")
  /\ reloadComputers(i, TRUE)
  /\ Done(i)
  /\ UNCHANGED <<pool, openLinks, liveLink, credential, phase, grants, stored>>

-----------------------------------------------------------------------------
(* The user.  switchComputer: the complete terminal may be open.            *)
switchComputer(i, d) ==
  /\ Idles(i) /\ phase # "resuming" /\ d \in shown
  /\ ~ (phase = "live" /\ credential = d)
  /\ LET js == Advance(Attempt(i, d, FALSE), {"flow"}) IN
     \/ Park(js, i)
     \/ /\ phase = "live" /\ liveLink # NoLink
        /\ jobs' = js /\ UNCHANGED <<liveLink, grants, phase, credential>>
  /\ UNCHANGED <<pool, openLinks, stored, shown>>

(* Back, or the computer that is live already: only the flow moves on.      *)
leaveComputers ==
  /\ phase \in {"live", "pick"} /\ jobs' = Advance(jobs, {"flow"})
  /\ UNCHANGED <<pool, openLinks, liveLink, credential, phase, grants, stored, shown>>

beginAddComputer ==
  /\ phase \in {"pick", "live"}
  /\ phase' = "adding"
  /\ jobs' = Advance(jobs, {"flow"})
  /\ UNCHANGED <<pool, openLinks, liveLink, credential, grants, stored, shown>>

cancelAddComputer ==
  /\ phase = "adding"
  /\ phase' = IF liveLink # NoLink THEN "live" ELSE phaseAfterComputers(shown)
  /\ UNCHANGED <<jobs, pool, openLinks, liveLink, credential, grants, stored, shown>>

(* beginPairing has its credential and saved it: resumeComputer(pair).      *)
Paired(i, d) ==
  /\ Idles(i) /\ phase \in {"adding", "connect"}
  /\ stored' = stored \cup {d}
  /\ Park(Attempt(i, d, TRUE), i)
  /\ UNCHANGED <<pool, openLinks, shown>>

(* forgetComputer, confirmed.                                               *)
forgetComputer(i, d) ==
  /\ Idles(i) /\ phase \in {"live", "pick"} /\ d \in shown \cap Removable
  /\ LET job == [NoJob EXCEPT !.op = "forget", !.at = "delete", !.d = d,
                              !.s = IF credential = d THEN liveLink ELSE NoLink,
                              !.flag = credential = d, !.holds = {"flow"}]
     IN IF credential = d /\ liveLink # NoLink
        THEN clearLiveConnection /\ jobs' = [Cleared(jobs) EXCEPT ![i] = job]
        ELSE /\ pool' = SelectSeq(pool, LAMBDA e : e[1] # d)
             /\ openLinks' = {s \in openLinks : s[1] # d}
             /\ jobs' = [jobs EXCEPT ![i] = job]
             /\ UNCHANGED <<liveLink, grants>>
  /\ credential' = IF credential = d THEN NoComputer ELSE credential
  /\ stored' = stored \ {d}
  /\ UNCHANGED <<phase, shown>>

Forgotten(i) ==
  /\ At(i, "forget", "delete")
  /\ jobs' = Reloading(jobs, i, {"flow"}, stored)
  /\ UNCHANGED <<pool, openLinks, liveLink, credential, phase, grants, stored, shown>>

forgetCompletionIsStale(i) ==
  \/ ~ Holds(i, "flow")
  \/ jobs[i].flag /\ (credential \notin {NoComputer, jobs[i].d} \/ liveLink \notin {NoLink, jobs[i].s})

ForgetReloaded(i) ==
  /\ At(i, "forget", "reload")
  /\ reloadComputers(i, TRUE)
  /\ phase' = IF forgetCompletionIsStale(i) THEN phase
              ELSE IF shown' = {} THEN "connect"
              ELSE IF jobs[i].flag \/ phase # "live" THEN "pick" ELSE phase
  /\ Done(i)
  /\ UNCHANGED <<pool, openLinks, liveLink, credential, grants, stored>>

-----------------------------------------------------------------------------
LifecycleNext ==
  \/ \E i \in Jobs :
       \/ TerminalLeft(i) \/ Activate(i) \/ Overtaken(i) \/ Connected(i)
       \/ CredentialSaved(i) \/ EstablishReloaded(i) \/ LandDeleted(i) \/ LandReloaded(i)
       \/ InactiveDeleted(i) \/ InactiveReloaded(i) \/ Forgotten(i) \/ ForgetReloaded(i)
       \/ Reconnected(i)
       \/ \E valid \in BOOLEAN : ConfigAnswers(i, valid)
       \/ \E burned \in BOOLEAN :
            \/ ConnectFails(i, burned) \/ LiveEnds(i, burned)
            \/ \E s \in ToSet(pool) : InactiveEnds(i, s, burned)
       \/ \E d \in Computers : switchComputer(i, d) \/ Paired(i, d) \/ forgetComputer(i, d)
  \/ leaveComputers \/ beginAddComputer \/ cancelAddComputer

-----------------------------------------------------------------------------
(* What is on the screen is one computer: its session is open, kept by the  *)
(* pool (so its events are heard) and opened with the credential in use;    *)
(* capabilities shown are those of that computer.                           *)
OneComputerOnScreen ==
  /\ liveLink # NoLink => liveLink \in openLinks /\ Pooled(liveLink) /\ liveLink[1] = credential
  /\ grants # NoComputer => liveLink # NoLink /\ grants = liveLink[1]

(* No transport is left open that nothing can close: every open session is  *)
(* in the pool, and the pool stays within its limit.                        *)
NoLinkIsLost == openLinks = ToSet(pool) /\ Len(pool) <= MAX_ENTRIES

(* The resuming screen, which refuses every tap, always has a chain under   *)
(* way that will leave it.                                                  *)
ResumingHasAnOwner ==
  phase = "resuming" =>
    \E i \in Jobs : \/ jobs[i].op = "establish" /\ Holds(i, "attempt")
                    \/ jobs[i].op = "land" /\ Holds(i, "view")

(* Overlapping reloads drop one another, yet the last word is the truth:    *)
(* with nothing under way the page lists the stored credentials.            *)
CatalogCatchesUp == (\A i \in Jobs : jobs[i] = NoJob) => shown = stored
=============================================================================
