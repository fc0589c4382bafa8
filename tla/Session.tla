------------------------------- MODULE Session -------------------------------
(***************************************************************************)
(* The session table of the daemon (internal/daemon/session.go,            *)
(* session_direct.go and the routing half of engine.go).                   *)
(*                                                                         *)
(* A phone holds a session on a relay route, authenticated by              *)
(* DeviceHello1/2/3, and may upgrade it to a direct (WebRTC) route: the    *)
(* daemon keeps a candidate session beside the active one, authenticates   *)
(* it with the same handshake, and TransportCommit moves the active        *)
(* session onto the candidate's route, link and keys.                      *)
(*                                                                         *)
(* Everything the code does under one hold of Engine.mu is one step; what  *)
(* it does after releasing the lock is another step, so that the relay     *)
(* reader, the callbacks of direct links, the goroutines of RPCs, timers,  *)
(* failed sends and revocations interleave as they may in the program.     *)
(* A session object is named by the route it was created for.              *)
(***************************************************************************)
EXTENDS Integers, FiniteSets

CONSTANTS
  Devices,        \* device ids, all paired at the start
  RelayRoutes,    \* route ids the relay will draw for SESSION_BOUND
  DirectRoutes,   \* route ids newDirectRoute will draw
  MaxDevices,     \* devices with an established session: 10 in the code
  SavesMayFail,   \* whether SaveDevices may report an error
  LedgerMayFail   \* whether the operation ledger may fail to save a result

Routes == RelayRoutes \cup DirectRoutes

None == "none"

ASSUME SessionAssumption ==
  /\ MaxDevices \in Nat \ {0}
  /\ SavesMayFail \in BOOLEAN /\ LedgerMayFail \in BOOLEAN
  /\ RelayRoutes \cap DirectRoutes = {}
  /\ None \notin Devices \cup Routes
  /\ "reader" \notin Routes

VARIABLES
  devices,    \* [Devices -> {"paired", "revoked"}]     e.Devices
  sess,       \* [Routes -> Session]                    the sess objects
  sessions,   \* [Routes -> Routes or None]             e.sessions
  byDevice,   \* [Devices -> Routes or None]            e.byDevice
  links,      \* the direct links that are open, named by their route
  thread,     \* what the relay reader and each direct link's callback do next
  offer,      \* [Routes -> ...] the rpcTransportOffer goroutine of a session
  commit,     \* [Routes -> Routes or None] candidate a session is committing
  revoke      \* [Devices -> ...] progress of a revocation

vars == <<devices, sess, sessions, byDevice, links, thread, offer, commit, revoke>>

States == {"unborn", "resumehello", "hello2", "upgrade_ready", "established", "closed"}

Session ==
  [state : States, dev : Devices \cup {None}, route : Routes,
   transport : {"relay", "p2p"}, upgradeFrom : Routes \cup {None},
   link : DirectRoutes \cup {None}, keys : Routes \cup {None},
   epochFailed : BOOLEAN]

(* The goroutines that deliver frames: the relay reader, and one callback  *)
(* per direct link.                                                        *)
Threads == {"reader"} \cup DirectRoutes

Idle == [op |-> "idle", s |-> None, old |-> None]

Work == [op : {"idle", "kick", "announce", "fail", "open"},
         s : Routes \cup {None}, old : Routes \cup {None}]

NoOffer == [op |-> "idle", to |-> None]

TypeOK ==
  /\ devices \in [Devices -> {"paired", "revoked"}]
  /\ sess \in [Routes -> Session]
  /\ sessions \in [Routes -> Routes \cup {None}]
  /\ byDevice \in [Devices -> Routes \cup {None}]
  /\ links \subseteq DirectRoutes
  /\ thread \in [Threads -> Work]
  /\ offer \in [Routes -> {NoOffer} \cup [op : {"accepting", "replying"}, to : DirectRoutes]]
  /\ commit \in [Routes -> DirectRoutes \cup {None}]
  /\ revoke \in [Devices -> [op : {"no", "marked", "unclosed", "closing"},
                             left : SUBSET Routes]]

Unborn(r) ==
  [state |-> "unborn", dev |-> None, route |-> r, transport |-> "relay",
   upgradeFrom |-> None, link |-> None, keys |-> None, epochFailed |-> FALSE]

Init ==
  /\ devices = [d \in Devices |-> "paired"]
  /\ sess = [r \in Routes |-> Unborn(r)]
  /\ sessions = [r \in Routes |-> None]
  /\ byDevice = [d \in Devices |-> None]
  /\ links = {}
  /\ thread = [t \in Threads |-> Idle]
  /\ offer = [r \in Routes |-> NoOffer]
  /\ commit = [r \in Routes |-> None]
  /\ revoke = [d \in Devices |-> [op |-> "no", left |-> {}]]

Live(s) == sessions[sess[s].route] = s

Established(s) == Live(s) /\ sess[s].state = "established"

(* sendMu: rpcTransportCommit holds the locks of both sessions from its    *)
(* validation to the switch.                                               *)
SendLocked(s) == commit[s] # None \/ \E p \in Routes : commit[p] = s

-----------------------------------------------------------------------------
(* Ending sessions.                                                        *)

(* wipeSession                                                             *)
Wiped(session) == [session EXCEPT !.state = "closed", !.keys = None]

MutClose(gone) ==
  /\ sess' = [s \in Routes |-> IF s \in gone THEN Wiped(sess[s]) ELSE sess[s]]
  /\ sessions' = [r \in Routes |-> IF sessions[r] \in gone THEN None ELSE sessions[r]]
  /\ links' = links \ {sess[s].link : s \in {x \in gone : sess[x].transport = "p2p"}}
  /\ UNCHANGED byDevice

(* What closing the session objects in gone does to the table: they leave  *)
(* it, their keys are wiped and their direct links closed.                 *)
Close(gone) ==
  /\ sess' = [s \in Routes |-> IF s \in gone THEN Wiped(sess[s]) ELSE sess[s]]
  /\ sessions' = [r \in Routes |-> IF sessions[r] \in gone THEN None ELSE sessions[r]]
  /\ byDevice' = [d \in Devices |->
                    IF \E s \in gone : sess[s].dev = d /\ Live(s) /\ byDevice[d] = sess[s].route
                    THEN None ELSE byDevice[d]]
  /\ links' = links \ {sess[s].link : s \in {x \in gone : sess[x].transport = "p2p"}}

(* closeSession(rid): by route, whatever session is there now.             *)
CloseSession(rid) ==
  Close(IF sessions[rid] = None THEN {} ELSE {sessions[rid]})

-----------------------------------------------------------------------------
(* Frames, handed to the engine by the relay reader or a link's callback.  *)

(* handleFWD and handleDirectFrame: a relay frame finds the session at its *)
(* route, a direct frame only a session that still uses that link.         *)
Receives(t, r) ==
  /\ thread[t] = Idle
  /\ sessions[r] # None
  /\ ~sess[sessions[r]].epochFailed
  /\ \/ t = "reader" /\ r \in RelayRoutes
     \/ t = r /\ t \in links /\ sess[sessions[r]].link = t

Then(t, op, s, old) == thread' = [thread EXCEPT ![t] = [op |-> op, s |-> s, old |-> old]]

Done(t) == thread' = [thread EXCEPT ![t] = Idle]

(* handleSessionBound.  The relay draws a fresh route for every attach.    *)
SessionBound(r) ==
  /\ thread["reader"] = Idle
  /\ r \in RelayRoutes /\ sess[r].state = "unborn"
  /\ sess' = [sess EXCEPT ![r].state = "resumehello"]
  /\ sessions' = [sessions EXCEPT ![r] = r]
  /\ UNCHANGED <<devices, byDevice, links, thread, offer, commit, revoke>>

(* handleHello, DeviceHello1 that passes every check.                      *)
Hello1(t, r, d) ==
  LET s == sessions[r]
  IN /\ Receives(t, r)
     /\ sess[s].state = "resumehello"
     /\ devices[d] = "paired"
     /\ sess' = [sess EXCEPT ![s].state = "hello2", ![s].dev = d]
     /\ UNCHANGED <<devices, sessions, byDevice, links, thread, offer, commit, revoke>>

(* A hello that fails a check: malformed, unknown or revoked device, rate  *)
(* limit, replayed nonce, bad proof, or anything else before established.  *)
(* failHello then closes the session by its route, without the lock held   *)
(* in between.                                                             *)
BadHello(t, r) ==
  /\ Receives(t, r)
  /\ sess[sessions[r]].state # "established"
  /\ Then(t, "fail", sessions[r], None)
  /\ UNCHANGED <<devices, sess, sessions, byDevice, links, offer, commit, revoke>>

FailHello(t) ==
  /\ thread[t].op = "fail"
  /\ CloseSession(sess[thread[t].s].route)
  /\ Done(t)
  /\ UNCHANGED <<devices, offer, commit, revoke>>

(* The proof was accepted: the keys of this handshake are in use from now. *)
Finished(session, state, keys) == [session EXCEPT !.state = state, !.keys = keys]

(* FinishHello3 of a relay session: the device's index entry moves to the  *)
(* new session, the old one is kicked after the lock is released, and only *)
(* then is SESSION_ESTABLISHED sent.                                       *)
OthersEstablished(d) ==
  {s \in Routes : Established(s) /\ sess[s].dev # d}

FinishHello3(r) ==
  LET s == sessions[r]
      d == sess[s].dev
      old == byDevice[d]
  IN /\ Receives("reader", r)
     /\ sess[s].state = "hello2" /\ sess[s].upgradeFrom = None
     /\ devices[d] = "paired"
     /\ \/ (* established, the device file saved *)
           /\ old # None \/ Cardinality(OthersEstablished(d)) < MaxDevices
           /\ sess' = [sess EXCEPT ![s] = Finished(sess[s], "established", s)]
           /\ byDevice' = [byDevice EXCEPT ![d] = sess[s].route]
           /\ Then("reader", IF old \in {None, sess[s].route} THEN "announce" ELSE "kick",
                   s, old)
        \/ (* the device file could not be saved *)
           /\ SavesMayFail
           /\ old # None \/ Cardinality(OthersEstablished(d)) < MaxDevices
           /\ byDevice' = [byDevice EXCEPT ![d] = None]
           /\ Then("reader", "fail", s, None)
           /\ UNCHANGED sess
        \/ (* too_many_devices *)
           /\ old = None /\ Cardinality(OthersEstablished(d)) >= MaxDevices
           /\ Then("reader", "fail", s, None)
           /\ UNCHANGED <<sess, byDevice>>
     /\ UNCHANGED <<devices, sessions, links, offer, commit, revoke>>

MutKick ==
  LET w == thread["reader"]
  IN /\ w.op = "kick"
     /\ Then("reader", "announce", w.s, None)
     /\ UNCHANGED <<devices, sess, sessions, byDevice, links, offer, commit, revoke>>

Kick ==
  LET w == thread["reader"]
  IN /\ w.op = "kick"
     /\ CloseSession(w.old)
     /\ Then("reader", "announce", w.s, None)
     /\ UNCHANGED <<devices, offer, commit, revoke>>

(* FinishHello3 of a direct candidate: it becomes upgrade_ready if the     *)
(* session it upgrades is still an established relay session.              *)
FinishHello3Direct(r) ==
  LET s == sessions[r]
      parent == sessions[sess[s].upgradeFrom]
  IN /\ Receives(r, r)
     /\ sess[s].state = "hello2" /\ sess[s].upgradeFrom # None
     /\ devices[sess[s].dev] = "paired"
     /\ IF /\ parent # None
           /\ sess[parent].state = "established" /\ sess[parent].transport = "relay"
           /\ sess[parent].dev = sess[s].dev
        THEN /\ sess' = [sess EXCEPT ![s] = Finished(sess[s], "upgrade_ready", s)]
             /\ Then(r, "announce", s, None)
        ELSE /\ Then(r, "fail", s, None)
             /\ UNCHANGED sess
     /\ UNCHANGED <<devices, sessions, byDevice, links, offer, commit, revoke>>

(* Sending SESSION_ESTABLISHED; if it fails the session is closed.         *)
Announce(t) ==
  /\ thread[t].op = "announce"
  /\ \/ Done(t) /\ UNCHANGED sess
     \/ /\ sess' = [sess EXCEPT ![thread[t].s].epochFailed = TRUE]
        /\ Then(t, "fail", thread[t].s, None)
  /\ UNCHANGED <<devices, sessions, byDevice, links, offer, commit, revoke>>

(* handleSessFWD on an established session: the frame was sealed for the   *)
(* keys of the link it came by; it is opened once sendMu is free.          *)
Receive(t, r) ==
  /\ Receives(t, r)
  /\ sess[sessions[r]].state = "established"
  /\ Then(t, "open", sessions[r], r)
  /\ UNCHANGED <<devices, sess, sessions, byDevice, links, offer, commit, revoke>>

OpenFrame(t) ==
  LET w == thread[t]
  IN /\ w.op = "open" /\ ~SendLocked(w.s)
     /\ \/ sess[w.s].keys = w.old /\ Done(t)
        \/ Then(t, "fail", w.s, None)
     /\ UNCHANGED <<devices, sess, sessions, byDevice, links, offer, commit, revoke>>

(* ERROR from the relay for a route.                                       *)
RelayError(r) ==
  /\ thread["reader"] = Idle /\ r \in RelayRoutes /\ sessions[r] # None
  /\ CloseSession(r)
  /\ UNCHANGED <<devices, thread, offer, commit, revoke>>

(* The relay socket died: ResetTransport, run by the goroutine that read   *)
(* it, keeps only established direct sessions.                             *)
ResetTransport ==
  /\ thread["reader"] = Idle
  /\ Close({s \in Routes : Live(s) /\ ~(sess[s].transport = "p2p" /\ sess[s].state = "established")})
  /\ UNCHANGED <<devices, thread, offer, commit, revoke>>

(* A send on a session fails; failTransportEpoch runs in its own goroutine *)
(* on that session object, wherever it is by then.                         *)
SendFails(s) ==
  /\ Live(s) /\ ~sess[s].epochFailed /\ ~SendLocked(s)
  /\ sess' = [sess EXCEPT ![s].epochFailed = TRUE]
  /\ UNCHANGED <<devices, sessions, byDevice, links, thread, offer, commit, revoke>>

FailTransportEpoch(s) ==
  /\ sess[s].epochFailed /\ sess[s].state # "closed"
  /\ Close({s})
  /\ UNCHANGED <<devices, thread, offer, commit, revoke>>

-----------------------------------------------------------------------------
(* The direct upgrade.                                                     *)

(* rpcTransportOffer up to Direct.Accept: directBusy admits one offer of a *)
(* session at a time, and newDirectRoute draws an unused route.            *)
OfferBegin(s, c) ==
  /\ Established(s) /\ sess[s].transport = "relay" /\ ~sess[s].epochFailed
  /\ commit[s] = None
  /\ offer[s] = NoOffer
  /\ c \in DirectRoutes /\ sess[c].state = "unborn"
  /\ \A p \in Routes : offer[p].to # c
  /\ offer' = [offer EXCEPT ![s] = [op |-> "accepting", to |-> c]]
  /\ UNCHANGED <<devices, sess, sessions, byDevice, links, thread, commit, revoke>>

MutOfferFails(s) ==
  /\ offer[s].op = "accepting"
  /\ offer' = [offer EXCEPT ![s].op = "idle"]
  /\ UNCHANGED <<devices, sess, sessions, byDevice, links, thread, commit, revoke>>

OfferFails(s) ==
  /\ offer[s].op = "accepting"
  /\ offer' = [offer EXCEPT ![s] = NoOffer]
  /\ UNCHANGED <<devices, sess, sessions, byDevice, links, thread, commit, revoke>>

(* The answer is ready and the lock is taken again: if the session is      *)
(* still established the candidate enters the table, replacing an older    *)
(* candidate of the same session.                                          *)
Candidate(s, c) ==
  [state |-> "resumehello", dev |-> sess[s].dev, route |-> c, transport |-> "p2p",
   upgradeFrom |-> s, link |-> c, keys |-> None, epochFailed |-> FALSE]

Candidates(parentRoute) ==
  {x \in Routes : Live(x) /\ sess[x].upgradeFrom = parentRoute}

OfferAccepted(s) ==
  LET c == offer[s].to
      old == Candidates(sess[s].route)
  IN /\ offer[s].op = "accepting"
     /\ IF Established(s)
        THEN /\ sess' = [x \in Routes |->
                 IF x = c THEN Candidate(s, c)
                 ELSE IF x \in old THEN Wiped(sess[x])
                 ELSE sess[x]]
             /\ sessions' = [r \in Routes |-> IF r = c THEN c
                                             ELSE IF sessions[r] \in old THEN None
                                             ELSE sessions[r]]
             /\ links' = (links \ {sess[x].link : x \in old}) \cup {c}
             /\ offer' = [offer EXCEPT ![s].op = "replying"]
        ELSE /\ offer' = [offer EXCEPT ![s] = NoOffer]
             /\ UNCHANGED <<sess, sessions, links>>
     /\ UNCHANGED <<devices, byDevice, thread, commit, revoke>>

MutExpired(c) == IF sessions[c] # None THEN {sessions[c]} ELSE {}

(* expireDirectCandidate: only this candidate, and only if it was never    *)
(* committed.                                                              *)
Expired(c) == IF sessions[c] = c /\ sess[c].state # "established" THEN {c} ELSE {}

(* The reply, under sendMu; if it cannot be sent the candidate is dropped. *)
OfferReply(s) ==
  /\ offer[s].op = "replying" /\ ~SendLocked(s)
  /\ \/ /\ Established(s) /\ ~sess[s].epochFailed
        /\ UNCHANGED <<sess, sessions, byDevice, links>>
     \/ /\ ~Established(s) \/ sess[s].epochFailed
        /\ Close(Expired(offer[s].to))
  /\ offer' = [offer EXCEPT ![s] = NoOffer]
  /\ UNCHANGED <<devices, thread, commit, revoke>>

(* The directReadyTTL timer of a candidate.                                *)
ExpireDirectCandidate(c) ==
  /\ c \in DirectRoutes /\ Expired(c) # {}
  /\ Close(Expired(c))
  /\ UNCHANGED <<devices, thread, offer, commit, revoke>>

(* The direct link goes down: handleDirectClose.                           *)
DirectClose(c) ==
  /\ c \in links
  /\ LET s == sessions[c]
     IN IF s # None /\ sess[s].link = c
        THEN Close({s})
        ELSE links' = links \ {c} /\ UNCHANGED <<sess, sessions, byDevice>>
  /\ UNCHANGED <<devices, thread, offer, commit, revoke>>

(* rpcTransportCommit: validated and the reply sealed under the locks, the *)
(* reply sent over the relay, and the switch under the lock again.         *)
CommitBegin(s, c) ==
  /\ commit[s] = None
  /\ Established(s) /\ sess[s].transport = "relay" /\ ~sess[s].epochFailed
  /\ sess[s].keys # None
  /\ c \in DirectRoutes /\ Live(c) /\ ~sess[c].epochFailed
  /\ sess[c].state = "upgrade_ready"
  /\ sess[c].upgradeFrom = sess[s].route /\ sess[c].dev = sess[s].dev
  /\ sess[c].link # None
  /\ commit' = [commit EXCEPT ![s] = c]
  /\ UNCHANGED <<devices, sess, sessions, byDevice, links, thread, offer, revoke>>

CommitSendFails(s) ==
  /\ commit[s] # None
  /\ sess' = [sess EXCEPT ![s].epochFailed = TRUE]
  /\ commit' = [commit EXCEPT ![s] = None]
  /\ UNCHANGED <<devices, sessions, byDevice, links, thread, offer, revoke>>

(* The session takes over the candidate's route, link and keys, and the    *)
(* candidate is left an empty shell.                                       *)
Committed(s, c) ==
  [state |-> sess[s].state, dev |-> sess[s].dev, route |-> c, transport |-> "p2p",
   upgradeFrom |-> None, link |-> sess[c].link, keys |-> sess[c].keys,
   epochFailed |-> sess[s].epochFailed]

Spent(c) ==
  [state |-> "closed", dev |-> sess[c].dev, route |-> c, transport |-> "p2p",
   upgradeFrom |-> sess[c].upgradeFrom, link |-> None, keys |-> None,
   epochFailed |-> sess[c].epochFailed]

CommitSwitch(s) ==
  LET c == commit[s]
  IN /\ c # None
     /\ commit' = [commit EXCEPT ![s] = None]
     /\ IF Live(s) /\ Live(c)
        THEN /\ sess' = [sess EXCEPT ![s] = Committed(s, c), ![c] = Spent(c)]
             /\ sessions' = [sessions EXCEPT ![sess[s].route] = None, ![c] = s]
             /\ byDevice' = [byDevice EXCEPT ![sess[s].dev] = c]
        ELSE UNCHANGED <<sess, sessions, byDevice>>
     /\ UNCHANGED <<devices, links, thread, offer, revoke>>

-----------------------------------------------------------------------------
(* Revocation, from the admin socket (RevokeDevice) or by RPC              *)
(* (rpcRevokeDevice, under the operation ledger).                          *)

(* markDeviceRevoked succeeded.  By RPC the ledger must then save the      *)
(* result; if it cannot, the RPC answers with an error and returns before  *)
(* closeDeviceSessions.                                                    *)
MarkRevoked(d) ==
  /\ devices[d] = "paired"
  /\ devices' = [devices EXCEPT ![d] = "revoked"]
  /\ \/ revoke' = [revoke EXCEPT ![d].op = "marked"]
     \/ LedgerMayFail /\ revoke' = [revoke EXCEPT ![d].op = "unclosed"]
  /\ UNCHANGED <<sess, sessions, byDevice, links, thread, offer, commit>>

MutCollectRoutes(d) ==
  /\ revoke[d].op = "marked"
  /\ revoke' = [revoke EXCEPT ![d] =
       [op |-> "closing", left |-> {byDevice[d]} \ {None}]]
  /\ UNCHANGED <<devices, sess, sessions, byDevice, links, thread, offer, commit>>

(* closeDeviceSessions: the routes are collected under the lock and closed *)
(* one by one.                                                             *)
CollectRoutes(d) ==
  /\ revoke[d].op = "marked"
  /\ revoke' = [revoke EXCEPT ![d] =
       [op |-> "closing",
        left |-> {r \in Routes : sessions[r] # None /\ sess[sessions[r]].dev = d}]]
  /\ UNCHANGED <<devices, sess, sessions, byDevice, links, thread, offer, commit>>

CloseDeviceSession(d, r) ==
  /\ revoke[d].op = "closing" /\ r \in revoke[d].left
  /\ CloseSession(r)
  /\ revoke' = [revoke EXCEPT ![d].left = @ \ {r}]
  /\ UNCHANGED <<devices, thread, offer, commit>>

(* The device is revoked a second time: markDeviceRevoked answers          *)
(* errRevoked, which rpcRevokeDevice reports as success.                   *)
RevokeAgain(d) ==
  /\ revoke[d].op = "unclosed"
  /\ revoke' = [revoke EXCEPT ![d] = [op |-> "closing", left |-> {}]]
  /\ UNCHANGED <<devices, sess, sessions, byDevice, links, thread, offer, commit>>

-----------------------------------------------------------------------------
Frame(t) ==
  \/ \E r \in Routes : (\E d \in Devices : Hello1(t, r, d)) \/ BadHello(t, r) \/ Receive(t, r)
  \/ FailHello(t) \/ Announce(t) \/ OpenFrame(t)

Upgrade(s) ==
  \/ \E c \in DirectRoutes : OfferBegin(s, c) \/ CommitBegin(s, c)
  \/ OfferFails(s) \/ OfferAccepted(s) \/ OfferReply(s)
  \/ CommitSendFails(s) \/ CommitSwitch(s)

Revocation(d) ==
  MarkRevoked(d) \/ CollectRoutes(d) \/ RevokeAgain(d) \/ \E r \in Routes : CloseDeviceSession(d, r)

Next ==
  \/ \E t \in Threads : Frame(t)
  \/ \E r \in RelayRoutes : SessionBound(r) \/ FinishHello3(r) \/ RelayError(r)
  \/ \E c \in DirectRoutes : FinishHello3Direct(c) \/ ExpireDirectCandidate(c) \/ DirectClose(c)
  \/ \E s \in Routes : SendFails(s) \/ FailTransportEpoch(s) \/ Upgrade(s)
  \/ \E d \in Devices : Revocation(d)
  \/ Kick \/ ResetTransport

Spec == Init /\ [][Next]_vars

-----------------------------------------------------------------------------
(* Properties.                                                             *)

(* The table, the sessions' own routes and states and the device index     *)
(* agree: a session is listed at the route it believes it has, a listed    *)
(* session is not closed, and byDevice leads to an established session of  *)
(* that device.  Every handler relies on it after it looked a session up.  *)
TableCoherent ==
  /\ \A r \in Routes : sessions[r] # None =>
       /\ sess[sessions[r]].route = r
       /\ sess[sessions[r]].state \notin {"unborn", "closed"}
  /\ \A d \in Devices : byDevice[d] # None =>
       /\ sessions[byDevice[d]] # None
       /\ sess[sessions[byDevice[d]]].dev = d
       /\ sess[sessions[byDevice[d]]].state = "established"

(* An established session uses the keys that were agreed over the very     *)
(* transport it sends on: relay keys on the relay, the candidate's on its  *)
(* direct link (rpcTransportCommit: relay keys are never reused on P2P).   *)
KeysMatchTransport ==
  \A s \in Routes : Established(s) =>
    IF sess[s].transport = "relay"
    THEN sess[s].keys = s /\ sess[s].link = None /\ sess[s].route = s
    ELSE sess[s].keys = sess[s].link /\ sess[s].link = sess[s].route

(* FinishHello3 kicks any old route for the device: unless the reader is   *)
(* about to kick one, a device has one established session at most.        *)
OneSessionPerDevice ==
  thread["reader"].op # "kick" =>
    \A s, o \in Routes :
      Established(s) /\ Established(o) /\ sess[s].dev = sess[o].dev => s = o

(* At most MaxDevices devices hold established sessions, although a device *)
(* that is only replacing its session is let in without counting.          *)
DeviceCap ==
  Cardinality({d \in Devices : \E s \in Routes : Established(s) /\ sess[s].dev = d}) <= MaxDevices

(* Once a revocation is answered and its routes are closed no session of   *)
(* the device is authenticated or can still become so, whatever handshake, *)
(* offer or commit was under way (markDeviceRevoked, closeDeviceSessions). *)
RevokedHasNoSession ==
  \A d \in Devices :
    revoke[d].op = "closing" /\ revoke[d].left = {} =>
      ~\E s \in Routes : /\ Live(s) /\ sess[s].dev = d
                         /\ sess[s].state \in {"hello2", "upgrade_ready", "established"}

(* A direct link stays open only while a session in the table uses it, and *)
(* no two sessions use one link: closing, replacing, expiring and          *)
(* committing candidates leak no peer connection.                          *)
LinksAreOwned ==
  \A c \in links :
    \E s \in Routes : /\ Live(s) /\ sess[s].link = c
                      /\ \A o \in Routes : Live(o) /\ sess[o].link = c => o = s

(* The upgrade machinery never ends an established session: a candidate    *)
(* that is offered, replaced, expired or committed leaves the session it   *)
(* upgrades, and every other one, established.                             *)
UpgradeKeepsSessions ==
  [][(\E s \in Routes : OfferAccepted(s) \/ OfferReply(s) \/ CommitSwitch(s)
                        \/ ExpireDirectCandidate(s))
       => \A s \in Routes : Established(s) => Established(s)']_vars

(* The engine's maps, the sessions' own fields, the keys they use and the *)
(* peer connections tell one story in every state, also between two       *)
(* critical sections of one handshake, commit or close.                   *)
SessionsCoherent ==
  /\ TableCoherent
  /\ KeysMatchTransport
  /\ LinksAreOwned

=============================================================================
