---------------------------- MODULE PhoneSession ----------------------------
(***************************************************************************)
(* The phone's end of a session (pwa/src/lib/protocol): the reconnecting   *)
(* session (session-ws.ts), its transports (session-transport.ts), and the *)
(* driver that moves it from the relay to a direct link and back           *)
(* (session-direct.ts, session-upgrade.ts), composed with what the daemon  *)
(* and the relay do for this phone.                                        *)
(*                                                                         *)
(* JavaScript runs one task at a time: a step is what one timer, event or  *)
(* resolved promise does until it awaits again.  A transport is named by   *)
(* its route.  Frames on one route are ordered and arrive unless the route *)
(* is closed, but may be slower than any timer.  Mode "p2p" behaves like   *)
(* "auto" for everything modelled here.                                    *)
(***************************************************************************)
EXTENDS Naturals, Sequences, FiniteSets

CONSTANTS
  RelayRoutes, DirectRoutes,  \* names of routes; a name is used again once free
  MaxFrames,                  \* bound: frames under way in one direction of a route
  Worlds                      \* what may happen from outside: sets of Mishaps

Routes == RelayRoutes \cup DirectRoutes

None == "none"

(* The phone goes offline and online, the page is hidden and shown, the    *)
(* user changes the network mode, the daemon's relay socket dies, the user *)
(* closes the session, the daemon takes direct links (Direct is set).      *)
(* "overlap" is a bound: a direct route may be made while something still  *)
(* holds an earlier one.                                                   *)
Mishaps == {"network", "hide", "mode", "drop", "close", "direct", "overlap"}

ASSUME PhoneAssumption ==
  /\ RelayRoutes # {} /\ RelayRoutes \cap DirectRoutes = {}
  /\ None \notin Routes
  /\ MaxFrames \in Nat \ {0}
  /\ Worlds \subseteq SUBSET Mishaps

VARIABLES
  host,     \* ReconnectingSession
  up,       \* the direct attempt: runDirectUpgrade
  probe,    \* the route whose foreground probe is under way, or None
  retry,    \* the relay route the direct retry timer is set for, or None
  live,     \* routes with a SessionTransport that is not stopped
  wire,     \* routes whose channel is open
  pending,  \* RPCs of each transport that await their answer
  c2d,      \* frames under way to the daemon
  d2c,      \* frames under way to the phone
  dm,       \* the daemon's view of this phone
  call      \* one mutation RPC of the application

vars == <<host, up, probe, retry, live, wire, pending, c2d, d2c, dm, call>>

Ops == {"offer", "commit", "ping", "health", "call"}

(* Why a transport stops: a code after which a mutation's outcome is       *)
(* uncertain, daemon_offline, kicked, a local close, or a bad frame.       *)
Codes == {"uncertain", "daemon_offline", "kicked", "closed", "bad_frame"}

Request == [op : Ops, awaited : BOOLEAN]

Reply == [op : Ops \cup {"hello", "error"}, awaited : BOOLEAN, ok : BOOLEAN,
          to : Routes \cup Codes \cup {None}]

NoAttempt == [phase |-> "none", relay |-> None, cand |-> None, aborted |-> FALSE]

Attempt(r) == [NoAttempt EXCEPT !.phase = "creating", !.relay = r]

NoCall == [st |-> "idle", route |-> None, ran |-> FALSE, res |-> None]

TypeOK ==
  /\ host \in [transport : Routes \cup {None}, stopped : BOOLEAN, net : BOOLEAN,
               hidden : BOOLEAN, checking : BOOLEAN, mode : {"auto", "relay"},
               deferred : Codes \cup {None}, timer : BOOLEAN,
               connecting : RelayRoutes \cup {None}, requested : BOOLEAN, may : Worlds]
  /\ up \in [phase : {"none", "creating", "offering", "handshaking", "draining",
                      "committing", "committed", "probing"},
             relay : RelayRoutes \cup {None}, cand : DirectRoutes \cup {None},
             aborted : BOOLEAN]
  /\ probe \in Routes \cup {None} /\ retry \in RelayRoutes \cup {None}
  /\ live \subseteq Routes /\ wire \subseteq Routes
  /\ pending \in [Routes -> SUBSET Ops]
  /\ \A r \in Routes : /\ \A i \in DOMAIN c2d[r] : c2d[r][i] \in Request
                       /\ \A i \in DOMAIN d2c[r] : d2c[r][i] \in Reply
  /\ dm \in [serving : Routes \cup {None}, cand : DirectRoutes \cup {None},
             from : RelayRoutes \cup {None}, ready : BOOLEAN, committing : DirectRoutes \cup {None},
             offer : RelayRoutes \cup {None}, awaited : BOOLEAN]
  /\ call \in [st : {"idle", "waiting", "sent", "done"}, route : Routes \cup {None},
               ran : BOOLEAN, res : {None, "ok", "notsent", "unknown", "failed"}]

(* connect() has just succeeded for the first time.                        *)
Init ==
  \E r \in RelayRoutes, may \in Worlds :
    /\ host = [transport |-> r, stopped |-> FALSE, net |-> TRUE, hidden |-> FALSE,
               checking |-> FALSE, mode |-> "auto", deferred |-> None, timer |-> FALSE,
               connecting |-> None, requested |-> FALSE, may |-> may]
    /\ up = Attempt(r)
    /\ probe = None /\ retry = None
    /\ live = {r} /\ wire = {r}
    /\ pending = [x \in Routes |-> {}]
    /\ c2d = [x \in Routes |-> <<>>] /\ d2c = [x \in Routes |-> <<>>]
    /\ dm = [serving |-> r, cand |-> None, from |-> None, ready |-> FALSE,
             committing |-> None, offer |-> None, awaited |-> FALSE]
    /\ call = NoCall

(* Route ids are random; a name stands for a new id once nothing holds it. *)
Fresh(r) ==
  /\ r \notin live \cup wire
  /\ r \notin {host.transport, host.connecting, up.relay, up.cand, probe, retry,
               dm.serving, dm.cand, dm.from, dm.committing, dm.offer}
  /\ c2d[r] = <<>> /\ d2c[r] = <<>>

-----------------------------------------------------------------------------
(* SessionTransport                                                        *)

(* rpc(): seal and send, and remember the request.  An earlier request of  *)
(* the same kind on the route is no longer told apart from a late one.     *)
Forget(frames, op) ==
  [i \in DOMAIN frames |-> IF frames[i].op = op THEN [frames[i] EXCEPT !.awaited = FALSE]
                           ELSE frames[i]]

Send(r, op) ==
  /\ Len(c2d[r]) < MaxFrames
  /\ pending' = [pending EXCEPT ![r] = @ \cup {op}]
  /\ c2d' = [c2d EXCEPT ![r] = Append(Forget(@, op), [op |-> op, awaited |-> TRUE])]
  /\ d2c' = [d2c EXCEPT ![r] = Forget(@, op)]

(* The timer of a request, or its answer: it is no longer pending.         *)
Timeout(r, op) ==
  /\ op \in pending[r]
  /\ pending' = [pending EXCEPT ![r] = @ \ {op}]
  /\ c2d' = [c2d EXCEPT ![r] = Forget(@, op)]
  /\ d2c' = [d2c EXCEPT ![r] = Forget(@, op)]

Answered(r, op) ==
  /\ r \in live /\ d2c[r] # <<>>
  /\ Head(d2c[r]).op = op /\ Head(d2c[r]).awaited
  /\ d2c' = [d2c EXCEPT ![r] = Tail(@)]
  /\ pending' = [pending EXCEPT ![r] = @ \ {op}]
  /\ UNCHANGED c2d

(* trackMutationDelivery: what the caller of a sent mutation is told when  *)
(* its transport stops.                                                    *)

MutDefiniteDelivery(code) == "failed"

Delivery(code) == IF code = "uncertain" THEN "unknown" ELSE "failed"

Returned(res) == [call EXCEPT !.st = "done", !.route = None, !.res = res]

MutRetire(gone, code, p, d) ==
  /\ live' = live \ gone
  /\ wire' = wire \ gone
  /\ pending' = [r \in Routes |-> IF r \in gone THEN {} ELSE p[r]]
  /\ d2c' = [r \in Routes |-> IF r \in gone THEN <<>> ELSE d[r]]
  /\ UNCHANGED call

(* stopped, rejectPending and channel.close of the transports in gone,     *)
(* when p and d are the pending requests and the frames to the phone.      *)
Retire(gone, code, p, d) ==
  /\ live' = live \ gone
  /\ wire' = wire \ gone
  /\ pending' = [r \in Routes |-> IF r \in gone THEN {} ELSE p[r]]
  /\ d2c' = [r \in Routes |-> IF r \in gone THEN <<>> ELSE d[r]]
  /\ call' = IF call.st = "sent" /\ call.route \in gone
             THEN Returned(Delivery(code)) ELSE call

-----------------------------------------------------------------------------
(* ReconnectingSession                                                     *)

(* The switch barrier is owned from beginSwitch to endSwitch.              *)
Switching == up.phase \in {"draining", "committing", "committed", "probing"}

ScheduleReconnect(h) ==
  IF h.stopped \/ ~h.net \/ h.hidden \/ h.connecting # None THEN h
  ELSE [h EXCEPT !.timer = TRUE]

FinishDisconnect(h, code) ==
  IF code = "kicked" THEN [h EXCEPT !.transport = None, !.stopped = TRUE]
  ELSE ScheduleReconnect([h EXCEPT !.transport = None, !.checking = TRUE])

(* canAutoUpgrade, startAutomaticDirectUpgrade                             *)
CanAutoUpgrade(h, r) ==
  /\ ~h.hidden /\ h.mode # "relay" /\ ~h.stopped /\ h.net
  /\ h.transport = r /\ r \in RelayRoutes

StartUpgrade(h, r) ==
  IF CanAutoUpgrade(h, r) /\ up.phase = "none"
  THEN up' = Attempt(r) /\ retry' = None
  ELSE UNCHANGED <<up, retry>>

(* disconnect(): a transport stops by itself, by a suspend or because of   *)
(* what it received; onDisconnect keeps the news until a switch is over.   *)
OnDisconnect(h, r, code) ==
  IF h.stopped \/ h.transport # r THEN h
  ELSE IF Switching THEN [h EXCEPT !.deferred = code]
  ELSE FinishDisconnect(h, code)

(* dispose() of the driver, when the session has lost its transport, and   *)
(* the end of a probe of the transport that stopped.                       *)
Dispose(h, r) ==
  IF h.transport # host.transport
  THEN probe' = None /\ retry' = None
  ELSE probe' = (IF probe = r THEN None ELSE probe) /\ UNCHANGED retry

Disconnect(h, r, code) ==
  /\ Retire({r}, code, pending, d2c)
  /\ host' = OnDisconnect(h, r, code)
  /\ Dispose(OnDisconnect(h, r, code), r)
  /\ UNCHANGED c2d

(* The reconnect timer: connect() dials a new relay route.                 *)
TimerFires(r) ==
  /\ host.timer /\ Fresh(r)
  /\ ~host.stopped /\ host.net /\ ~host.hidden
  /\ host' = [host EXCEPT !.timer = FALSE, !.connecting = r, !.requested = FALSE]
  /\ wire' = wire \cup {r}
  /\ UNCHANGED <<up, probe, retry, live, pending, c2d, d2c, dm, call>>

Reconnected(h) == [h EXCEPT !.connecting = None, !.requested = FALSE]

(* connectSession got the answer to its Ping.                              *)
ConnectDone ==
  LET r == host.connecting
      h == [Reconnected(host) EXCEPT !.transport = r, !.checking = host.hidden]
  IN /\ r # None /\ r \in wire /\ dm.serving = r
     /\ IF host.stopped \/ ~host.net
        THEN /\ host' = ScheduleReconnect(Reconnected(host))
             /\ wire' = wire \ {r}
             /\ UNCHANGED <<live, up, retry>>
        ELSE /\ host' = h
             /\ live' = live \cup {r}
             /\ IF CanAutoUpgrade(h, r) /\ up.phase = "none" THEN up' = Attempt(r) ELSE UNCHANGED up
             /\ retry' = None
             /\ UNCHANGED wire
     /\ UNCHANGED <<probe, pending, c2d, d2c, dm, call>>

(* Any error or timeout of the handshake that is not terminal, or the      *)
(* connectAbort of close and setNetworkAvailable.                          *)
ConnectFails ==
  /\ host.connecting # None
  /\ wire' = wire \ {host.connecting}
  /\ d2c' = [d2c EXCEPT ![host.connecting] = <<>>]
  /\ host' = ScheduleReconnect(
       IF host.stopped \/ ~host.net \/ host.requested THEN Reconnected(host)
       ELSE [Reconnected(host) EXCEPT !.checking = FALSE])
  /\ UNCHANGED <<up, probe, retry, live, pending, c2d, dm, call>>

(* probe(): a Ping on the transport; input waits for its answer.           *)
StartProbe(h, r) ==
  IF h.hidden \/ probe = r
  THEN host' = h /\ UNCHANGED <<probe, pending, c2d, d2c>>
  ELSE /\ host' = [h EXCEPT !.checking = TRUE]
       /\ IF r \in live
          THEN probe' = r /\ Send(r, "health")
          ELSE probe' = None /\ UNCHANGED <<pending, c2d, d2c>>

MutReconnectNow(h) ==
  IF h.stopped \/ ~h.net THEN host' = h /\ UNCHANGED <<probe, retry, pending, c2d, d2c>>
  ELSE /\ retry' = None
       /\ IF h.connecting # None
          THEN host' = [h EXCEPT !.requested = TRUE] /\ UNCHANGED <<probe, pending, c2d, d2c>>
          ELSE host' = ScheduleReconnect(h) /\ UNCHANGED <<probe, pending, c2d, d2c>>

ReconnectNow(h) ==
  IF h.stopped \/ ~h.net THEN host' = h /\ UNCHANGED <<probe, retry, pending, c2d, d2c>>
  ELSE /\ retry' = None
       /\ IF h.transport # None THEN StartProbe(h, h.transport)
          ELSE IF h.connecting # None
          THEN host' = [h EXCEPT !.requested = TRUE] /\ UNCHANGED <<probe, pending, c2d, d2c>>
          ELSE host' = ScheduleReconnect(h) /\ UNCHANGED <<probe, pending, c2d, d2c>>

(* setNetworkAvailable                                                     *)
Online ==
  /\ "network" \in host.may /\ ~host.stopped /\ ~host.net
  /\ ReconnectNow([host EXCEPT !.net = TRUE])
  /\ UNCHANGED <<up, live, wire, dm, call>>

Offline ==
  LET h == [host EXCEPT !.net = FALSE, !.timer = FALSE]
      r == host.transport
  IN /\ "network" \in host.may /\ ~host.stopped /\ host.net
     /\ Retire({r, host.connecting} \ {None}, "uncertain", pending, d2c)
     /\ host' = IF r \in live THEN OnDisconnect(h, r, "uncertain") ELSE h
     /\ probe' = None /\ retry' = None
     /\ UNCHANGED <<up, c2d, dm>>

(* The visibility watcher.  Hiding cancels the probe, not its request.     *)
Hide ==
  /\ "hide" \in host.may /\ ~host.stopped /\ ~host.hidden
  /\ host' = [host EXCEPT !.hidden = TRUE, !.timer = FALSE,
                          !.checking = host.checking \/ host.transport # None]
  /\ probe' = None /\ retry' = None
  /\ UNCHANGED <<up, live, wire, pending, c2d, d2c, dm, call>>

Show ==
  /\ "hide" \in host.may /\ ~host.stopped /\ host.hidden
  /\ ReconnectNow([host EXCEPT !.hidden = FALSE])
  /\ UNCHANGED <<up, live, wire, dm, call>>

HealthAnswered(r) ==
  LET h == [host EXCEPT !.checking = FALSE]
  IN /\ Answered(r, "health")
     /\ IF probe = r /\ host.transport = r
        THEN host' = h /\ StartUpgrade(h, r)
        ELSE UNCHANGED <<host, up, retry>>
     /\ probe' = IF probe = r THEN None ELSE probe
     /\ UNCHANGED <<live, wire, dm, call>>

HealthFails(r) ==
  /\ "health" \in pending[r]
  /\ IF probe = r /\ host.transport = r
     THEN Disconnect(host, r, "uncertain")
     ELSE /\ Timeout(r, "health")
          /\ probe' = IF probe = r THEN None ELSE probe
          /\ UNCHANGED <<host, retry, live, wire, call>>
  /\ UNCHANGED <<up, dm>>

(* switchTransport.  The abort of an attempt is not noticed any more once  *)
(* the data channel is open; before that PrepareFails answers it.          *)
ChooseRelay ==
  LET h == [host EXCEPT !.mode = "relay"]
      r == host.transport
  IN /\ "mode" \in host.may /\ host.mode # "relay" /\ ~host.stopped
     /\ IF r \in live \cap DirectRoutes
        THEN Disconnect(h, r, "uncertain")
        ELSE /\ host' = h /\ retry' = None
             /\ UNCHANGED <<probe, live, wire, pending, c2d, d2c, call>>
     /\ up' = [up EXCEPT !.aborted = up.phase \in {"creating", "offering"}]
     /\ UNCHANGED dm

ChooseAuto ==
  LET h == [host EXCEPT !.mode = "auto"]
  IN /\ "mode" \in host.may /\ host.mode # "auto" /\ ~host.stopped
     /\ host' = h
     /\ StartUpgrade(h, host.transport)
     /\ UNCHANGED <<probe, live, wire, pending, c2d, d2c, dm, call>>

(* close()                                                                 *)
Close ==
  /\ "close" \in host.may /\ ~host.stopped
  /\ host' = [host EXCEPT !.stopped = TRUE, !.requested = FALSE, !.timer = FALSE,
                          !.transport = None]
  /\ Retire({host.transport, host.connecting} \ {None}, "closed", pending, d2c)
  /\ probe' = None /\ retry' = None
  /\ UNCHANGED <<up, c2d, dm>>

-----------------------------------------------------------------------------
(* runDirectUpgrade                                                        *)

(* The attempt throws.  If it owned the switch, a disconnect that was kept *)
(* back is carried out now.  Then finishDirectAttempt and                  *)
(* scheduleDirectRetry.                                                    *)
MutHostAfter == host

HostAfter ==
  IF Switching /\ host.deferred # None /\ host.transport # None
  THEN FinishDisconnect([host EXCEPT !.deferred = None], host.deferred)
  ELSE host

AttemptFails ==
  LET h == HostAfter
      other == h.transport # up.relay /\ CanAutoUpgrade(h, h.transport)
  IN /\ host' = h
     /\ up' = IF other THEN Attempt(h.transport) ELSE NoAttempt
     /\ retry' = IF CanAutoUpgrade(h, up.relay) THEN up.relay
                 ELSE IF other \/ h.transport # host.transport THEN None ELSE retry
     /\ probe' = IF h.transport # host.transport THEN None ELSE probe

(* ... and closes the candidate's channel.                                 *)
Abandon == AttemptFails /\ Retire({up.cand} \ {None}, "closed", pending, d2c)

(* createDirectOffer is done and TransportOffer goes out.                  *)
SendOffer ==
  /\ up.phase = "creating" /\ up.relay \in live /\ ~up.aborted
  /\ up' = [up EXCEPT !.phase = "offering"]
  /\ Send(up.relay, "offer")
  /\ UNCHANGED <<host, probe, retry, live, wire, dm, call>>

(* Gathering, the offer, the answer, ICE or the handshake fails, times out *)
(* or is aborted; an answer still to come is nobody's.                     *)
PrepareFails ==
  /\ up.phase \in {"creating", "offering", "handshaking"}
  /\ AttemptFails
  /\ Retire({up.cand} \ {None}, "closed",
            [pending EXCEPT ![up.relay] = @ \ {"offer"}],
            [d2c EXCEPT ![up.relay] = Forget(@, "offer")])
  /\ c2d' = [c2d EXCEPT ![up.relay] = Forget(@, "offer")]
  /\ dm' = [dm EXCEPT !.awaited = FALSE]

MutOfferAnswered ==
  LET f == Head(d2c[up.relay])
  IN /\ up.phase = "offering" /\ Answered(up.relay, "offer")
     /\ up' = [up EXCEPT !.phase = "handshaking", !.cand = f.to]
     /\ wire' = IF dm.cand = f.to THEN wire \cup {f.to} ELSE wire
     /\ UNCHANGED <<host, probe, retry, live, dm, call>>

OfferAnswered ==
  LET f == Head(d2c[up.relay])
  IN /\ up.phase = "offering" /\ Answered(up.relay, "offer")
     /\ IF f.ok /\ ~up.aborted
        THEN /\ up' = [up EXCEPT !.phase = "handshaking", !.cand = f.to]
             /\ wire' = IF dm.cand = f.to THEN wire \cup {f.to} ELSE wire
             /\ UNCHANGED <<host, probe, retry>>
        ELSE AttemptFails /\ UNCHANGED wire
     /\ UNCHANGED <<live, dm, call>>

(* SESSION_ESTABLISHED on the candidate: the switch begins, unless the     *)
(* session moved on.                                                       *)
Prepared ==
  LET c == up.cand
  IN /\ up.phase = "handshaking" /\ d2c[c] # <<>> /\ Head(d2c[c]).op = "hello"
     /\ IF host.stopped \/ host.transport # up.relay \/ ~host.net
        THEN Abandon
        ELSE /\ up' = [up EXCEPT !.phase = "draining"]
             /\ host' = [host EXCEPT !.deferred = None]
             /\ d2c' = [d2c EXCEPT ![c] = Tail(@)]
             /\ UNCHANGED <<probe, retry, live, wire, pending, call>>
     /\ UNCHANGED <<c2d, dm>>

MutDrained ==
  /\ up.phase = "draining"
  /\ IF up.relay \in live
     THEN /\ up' = [up EXCEPT !.phase = "committing"]
          /\ Send(up.relay, "commit")
     ELSE /\ up' = [up EXCEPT !.phase = "committed"]
          /\ UNCHANGED <<pending, c2d, d2c>>
  /\ UNCHANGED <<host, probe, retry, live, wire, dm, call>>

(* waitIdle, then TransportCommit; on a stopped relay transport the RPC is *)
(* refused with an uncertain code.                                         *)
Drained ==
  /\ up.phase = "draining" /\ pending[up.relay] = {}
  /\ IF up.relay \in live
     THEN /\ up' = [up EXCEPT !.phase = "committing"]
          /\ Send(up.relay, "commit")
     ELSE /\ up' = [up EXCEPT !.phase = "committed"]
          /\ UNCHANGED <<pending, c2d, d2c>>
  /\ UNCHANGED <<host, probe, retry, live, wire, dm, call>>

DrainTimeout ==
  /\ up.phase = "draining" /\ pending[up.relay] # {}
  /\ Abandon
  /\ UNCHANGED <<c2d, dm>>

CommitAnswered ==
  /\ up.phase = "committing" /\ Answered(up.relay, "commit")
  /\ Head(d2c[up.relay]).ok
  /\ up' = [up EXCEPT !.phase = "committed"]
  /\ UNCHANGED <<host, probe, retry, live, wire, dm, call>>

CommitRefused ==
  LET f == Head(d2c[up.relay])
  IN /\ up.phase = "committing" /\ up.relay \in live /\ d2c[up.relay] # <<>>
     /\ f.op = "commit" /\ f.awaited /\ ~f.ok
     /\ AttemptFails
     /\ Retire({up.cand}, "closed", [pending EXCEPT ![up.relay] = @ \ {"commit"}],
               [d2c EXCEPT ![up.relay] = Tail(@)])
     /\ UNCHANGED <<c2d, dm>>

(* The outcome is uncertain: the direct route will tell.                   *)
CommitTimeout ==
  /\ up.phase = "committing" /\ Timeout(up.relay, "commit")
  /\ up' = [up EXCEPT !.phase = "committed"]
  /\ UNCHANGED <<host, probe, retry, live, wire, dm, call>>

CommitLost ==
  /\ up.phase = "committing" /\ "commit" \notin pending[up.relay]
  /\ IF host.deferred = "uncertain"
     THEN /\ up' = [up EXCEPT !.phase = "committed"]
          /\ UNCHANGED <<host, probe, retry, live, wire, pending, d2c, call>>
     ELSE Abandon
  /\ UNCHANGED <<c2d, dm>>

(* A transport on the candidate's channel, and a Ping over it.             *)
ProbeBegin ==
  LET c == up.cand
  IN /\ up.phase = "committed"
     /\ IF c \in wire
        THEN /\ up' = [up EXCEPT !.phase = "probing"]
             /\ live' = live \cup {c}
             /\ Send(c, "ping")
             /\ UNCHANGED <<host, probe, retry, wire, call>>
        ELSE Abandon /\ UNCHANGED c2d
     /\ UNCHANGED dm

MutProbeAnswered ==
  LET c == up.cand
      p == [pending EXCEPT ![c] = @ \ {"ping"}]
      d == [d2c EXCEPT ![c] = Tail(@)]
  IN /\ up.phase = "probing" /\ c \in live /\ d2c[c] # <<>>
     /\ Head(d2c[c]).op = "ping" /\ Head(d2c[c]).awaited
     /\ host' = [host EXCEPT !.transport = c, !.deferred = None, !.checking = host.hidden]
     /\ up' = NoAttempt
     /\ retry' = None
     /\ probe' = IF probe = up.relay THEN None ELSE probe
     /\ Retire({up.relay}, "closed", p, d)
     /\ UNCHANGED <<c2d, dm>>

(* The answer: the session is moved to the direct transport and the relay  *)
(* transport closed, unless the session moved on.                          *)
ProbeAnswered ==
  LET c == up.cand
      p == [pending EXCEPT ![c] = @ \ {"ping"}]
      d == [d2c EXCEPT ![c] = Tail(@)]
  IN /\ up.phase = "probing" /\ c \in live /\ d2c[c] # <<>>
     /\ Head(d2c[c]).op = "ping" /\ Head(d2c[c]).awaited
     /\ IF host.stopped \/ host.transport # up.relay \/ ~host.net
        THEN AttemptFails /\ Retire({c}, "closed", p, d)
        ELSE /\ host' = [host EXCEPT !.transport = c, !.deferred = None, !.checking = host.hidden]
             /\ up' = NoAttempt
             /\ retry' = None
             /\ probe' = IF probe = up.relay THEN None ELSE probe
             /\ Retire({up.relay}, "closed", p, d)
     /\ UNCHANGED <<c2d, dm>>

(* Its timer, or the candidate's transport stopped.                        *)
ProbeFails ==
  /\ up.phase = "probing"
  /\ Abandon
  /\ UNCHANGED <<c2d, dm>>

RetryFires ==
  /\ retry # None
  /\ IF CanAutoUpgrade(host, retry) /\ up.phase = "none" THEN up' = Attempt(retry) ELSE UNCHANGED up
  /\ retry' = None
  /\ UNCHANGED <<host, probe, live, wire, pending, c2d, d2c, dm, call>>

-----------------------------------------------------------------------------
(* What a transport receives by itself.                                    *)

(* ERROR, DAEMON_REPLACED, or a frame that does not open.                  *)
ErrorFrame(r) ==
  /\ r \in live /\ d2c[r] # <<>> /\ Head(d2c[r]).op = "error"
  /\ Disconnect(host, r, Head(d2c[r]).to)
  /\ UNCHANGED <<up, dm>>

(* An answer nobody waits for.                                             *)
LateReply(r) ==
  /\ r \in live /\ d2c[r] # <<>>
  /\ Head(d2c[r]).op # "error" /\ ~Head(d2c[r]).awaited
  /\ d2c' = [d2c EXCEPT ![r] = Tail(@)]
  /\ UNCHANGED <<host, up, probe, retry, live, wire, pending, c2d, dm, call>>

(* The channel's close, or a heartbeat without its PONG.                   *)
NoticeClose(r) ==
  /\ r \in live \ wire /\ d2c[r] = <<>>
  /\ Disconnect(host, r, "uncertain")
  /\ UNCHANGED <<up, dm>>

WireBreaks(r) ==
  /\ r \in wire
  /\ wire' = wire \ {r}
  /\ d2c' = [d2c EXCEPT ![r] = <<>>]
  /\ c2d' \in {c2d, [c2d EXCEPT ![r] = <<>>]}
  /\ UNCHANGED <<host, up, probe, retry, live, pending, dm, call>>

-----------------------------------------------------------------------------
(* A mutation of the application: mutationRPC.                             *)

(* captureTransport has returned the transport, or nothing.                *)
CallOn(r) ==
  IF host.checking \/ r \notin live
  THEN /\ call' = Returned("notsent")
       /\ UNCHANGED <<pending, c2d, d2c>>
  ELSE /\ call' = [call EXCEPT !.st = "sent", !.route = r]
       /\ Send(r, "call")

CallBegin ==
  /\ call.st = "idle" /\ ~host.stopped
  /\ IF ~host.checking /\ Switching
     THEN call' = [call EXCEPT !.st = "waiting"] /\ UNCHANGED <<pending, c2d, d2c>>
     ELSE CallOn(host.transport)
  /\ UNCHANGED <<host, up, probe, retry, live, wire, dm>>

CallResume ==
  /\ call.st = "waiting" /\ ~Switching
  /\ CallOn(host.transport)
  /\ UNCHANGED <<host, up, probe, retry, live, wire, dm>>

CallAnswered ==
  /\ call.st = "sent" /\ Answered(call.route, "call")
  /\ call' = Returned("ok")
  /\ UNCHANGED <<host, up, probe, retry, live, wire, dm>>

CallTimeout ==
  /\ call.st = "sent" /\ Timeout(call.route, "call")
  /\ call' = Returned(Delivery("uncertain"))
  /\ UNCHANGED <<host, up, probe, retry, live, wire, dm>>

(* The application moves on; bound: not while a frame of it is under way.  *)
CallReturn ==
  /\ call.st = "done"
  /\ \A r \in Routes : \A i \in DOMAIN c2d[r] : c2d[r][i].op # "call"
  /\ call' = NoCall
  /\ UNCHANGED <<host, up, probe, retry, live, wire, pending, c2d, d2c, dm>>

-----------------------------------------------------------------------------
(* The daemon and the relay, for this phone (see Session).                 *)

ReplyOn(r, op, awaited, ok, to) ==
  d2c' = IF r \in wire
         THEN [d2c EXCEPT ![r] = Append(@, [op |-> op, awaited |-> awaited, ok |-> ok, to |-> to])]
         ELSE d2c

(* handleSessFWD, dispatch: requests of the session's route, in order.     *)
(* TransportOffer runs beside them; TransportCommit answers first and      *)
(* switches in a later step, holding back the session's frames.            *)
DaemonRequest(r) ==
  LET f == Head(c2d[r])
  IN /\ c2d[r] # <<>> /\ dm.serving = r /\ dm.committing = None
     /\ Len(d2c[r]) < MaxFrames
     /\ c2d' = [c2d EXCEPT ![r] = Tail(@)]
     /\ \/ /\ f.op \in {"ping", "health"}
           /\ ReplyOn(r, f.op, f.awaited, TRUE, None)
           /\ UNCHANGED <<dm, call>>
        \/ /\ f.op = "call"
           /\ call' = [call EXCEPT !.ran = TRUE]
           /\ ReplyOn(r, f.op, f.awaited, TRUE, None)
           /\ UNCHANGED dm
        \/ /\ f.op = "offer" /\ dm.offer # r
           /\ dm' = [dm EXCEPT !.offer = r, !.awaited = f.awaited]
           /\ UNCHANGED <<d2c, call>>
        \/ /\ f.op = "offer" /\ dm.offer = r
           /\ ReplyOn(r, f.op, f.awaited, FALSE, None)
           /\ UNCHANGED <<dm, call>>
        \/ /\ f.op = "commit" /\ dm.from = r /\ dm.ready
           /\ dm' = [dm EXCEPT !.committing = dm.cand]
           /\ ReplyOn(r, f.op, f.awaited, TRUE, None)
           /\ UNCHANGED call
        \/ /\ f.op = "commit" /\ ~(dm.from = r /\ dm.ready)
           /\ ReplyOn(r, f.op, f.awaited, FALSE, None)
           /\ UNCHANGED <<dm, call>>
     /\ UNCHANGED <<host, up, probe, retry, live, wire, pending>>

NoCandidate(d) == [d EXCEPT !.cand = None, !.from = None, !.ready = FALSE]

(* A frame for a route the daemon does not know is dropped; one for a      *)
(* candidate that is not committed yet fails its hello.                    *)
DaemonDrop(r) ==
  /\ c2d[r] # <<>> /\ dm.serving # r
  /\ c2d' = [c2d EXCEPT ![r] = Tail(@)]
  /\ IF dm.cand = r
     THEN /\ dm' = NoCandidate(dm)
          /\ ReplyOn(r, "error", TRUE, FALSE, "bad_frame")
          /\ wire' = wire \ {r}
     ELSE UNCHANGED <<dm, d2c, wire>>
  /\ UNCHANGED <<host, up, probe, retry, live, pending, call>>

(* Direct.Accept has an answer: a candidate, in place of an older one.     *)
DaemonAccept(d) ==
  LET r == dm.offer
  IN /\ r # None /\ Fresh(d) /\ "direct" \in host.may
     /\ "overlap" \in host.may \/ \A e \in DirectRoutes : Fresh(e)
     /\ IF dm.serving = r
        THEN /\ dm' = [dm EXCEPT !.offer = None, !.awaited = FALSE, !.cand = d, !.from = r, !.ready = FALSE]
             /\ wire' = wire \ {dm.cand}
             /\ ReplyOn(r, "offer", dm.awaited, TRUE, d)
        ELSE dm' = [dm EXCEPT !.offer = None, !.awaited = FALSE] /\ UNCHANGED <<wire, d2c>>
     /\ UNCHANGED <<host, up, probe, retry, live, pending, c2d, call>>

DaemonRefuse ==
  /\ dm.offer # None
  /\ dm' = [dm EXCEPT !.offer = None, !.awaited = FALSE]
  /\ IF dm.serving = dm.offer THEN ReplyOn(dm.offer, "offer", dm.awaited, FALSE, None)
     ELSE UNCHANGED d2c
  /\ UNCHANGED <<host, up, probe, retry, live, wire, pending, c2d, call>>

(* DeviceHello1/2/3 over the candidate's channel.                          *)
DaemonHello3 ==
  /\ up.phase = "handshaking" /\ up.cand = dm.cand /\ up.cand \in wire /\ ~dm.ready
  /\ IF dm.serving = dm.from
     THEN /\ dm' = [dm EXCEPT !.ready = TRUE]
          /\ ReplyOn(dm.cand, "hello", TRUE, TRUE, None)
          /\ UNCHANGED wire
     ELSE /\ dm' = NoCandidate(dm)
          /\ wire' = wire \ {dm.cand}
          /\ UNCHANGED d2c
  /\ UNCHANGED <<host, up, probe, retry, live, pending, c2d, call>>

DaemonSwitch ==
  /\ dm.committing # None
  /\ dm' = IF dm.committing = dm.cand /\ dm.serving = dm.from
           THEN NoCandidate([dm EXCEPT !.serving = dm.cand, !.committing = None])
           ELSE [dm EXCEPT !.committing = None]
  /\ UNCHANGED <<host, up, probe, retry, live, wire, pending, c2d, d2c, call>>

CandidateExpires ==
  /\ dm.cand # None
  /\ dm' = NoCandidate(dm)
  /\ wire' = wire \ {dm.cand}
  /\ UNCHANGED <<host, up, probe, retry, live, pending, c2d, d2c, call>>

(* The relay tells the daemon that the phone's socket is gone, or the      *)
(* direct link reports its close.                                          *)
DaemonNotices ==
  /\ dm.serving # None /\ dm.serving \notin wire /\ c2d[dm.serving] = <<>>
  /\ dm' = [dm EXCEPT !.serving = None]
  /\ UNCHANGED <<host, up, probe, retry, live, wire, pending, c2d, d2c, call>>

(* FinishHello3 of the route the phone is dialling: the device's older     *)
(* session is kicked.                                                      *)
DaemonEstablishes ==
  LET r == host.connecting
      old == dm.serving
  IN /\ r # None /\ r \in wire /\ old # r
     /\ dm' = [dm EXCEPT !.serving = r]
     /\ IF old = None THEN UNCHANGED <<wire, d2c>>
        ELSE ReplyOn(old, "error", TRUE, FALSE, "kicked") /\ wire' = wire \ {old}
     /\ UNCHANGED <<host, up, probe, retry, live, pending, c2d, call>>

(* The daemon's relay socket dies or is replaced: the relay sends every    *)
(* phone an ERROR daemon_offline or a DAEMON_REPLACED and closes it, and   *)
(* the daemon keeps only an established direct session (ResetTransport).   *)
(* What the daemon has just sent may be lost with its socket.              *)
DaemonGone(code) ==
  /\ "drop" \in host.may
  /\ \E kept \in {d2c, [r \in Routes |-> <<>>]} :
       d2c' = [r \in Routes |->
         IF r \in wire \cap RelayRoutes
         THEN Append(kept[r], [op |-> "error", awaited |-> TRUE, ok |-> FALSE, to |-> code])
         ELSE d2c[r]]
  /\ wire' = wire \ (RelayRoutes \cup {dm.cand})
  /\ c2d' = [r \in Routes |-> IF r \in RelayRoutes THEN <<>> ELSE c2d[r]]
  /\ dm' = NoCandidate([dm EXCEPT !.serving = IF @ \in RelayRoutes THEN None ELSE @])
  /\ wire \cap RelayRoutes # {} \/ dm.serving \in RelayRoutes
  /\ UNCHANGED <<host, up, probe, retry, live, pending, call>>

-----------------------------------------------------------------------------
Calls == CallBegin \/ CallResume \/ CallAnswered \/ CallTimeout \/ CallReturn

Environment ==
  \/ Online \/ Offline \/ Hide \/ Show \/ ChooseRelay \/ ChooseAuto \/ Close
  \/ \E r \in Routes : WireBreaks(r)
  \/ \E code \in {"daemon_offline", "uncertain"} : DaemonGone(code)

Upgrade ==
  \/ SendOffer \/ PrepareFails \/ OfferAnswered \/ Prepared \/ Drained \/ DrainTimeout
  \/ CommitAnswered \/ CommitRefused \/ CommitTimeout \/ CommitLost
  \/ ProbeBegin \/ ProbeAnswered \/ ProbeFails

Daemon ==
  \/ \E r \in Routes : DaemonRequest(r) \/ DaemonDrop(r)
  \/ \E d \in DirectRoutes : DaemonAccept(d)
  \/ DaemonRefuse \/ DaemonHello3 \/ DaemonSwitch \/ CandidateExpires
  \/ DaemonNotices \/ DaemonEstablishes

Transports ==
  \E r \in Routes : \/ HealthAnswered(r) \/ HealthFails(r) \/ ErrorFrame(r)
                    \/ LateReply(r) \/ NoticeClose(r)

Connect ==
  \/ \E r \in RelayRoutes : TimerFires(r)
  \/ ConnectDone \/ ConnectFails

Next == Calls \/ Environment \/ Upgrade \/ RetryFires \/ Daemon \/ Transports \/ Connect

Spec == Init /\ [][Next]_vars

(* Every timer fires and every event is handled in the end; frames are     *)
(* handled by the daemon; and a phone that dials again and again gets      *)
(* through.                                                                *)
Fairness ==
  /\ WF_vars(Upgrade) /\ SF_vars(Drained \/ DrainTimeout) /\ WF_vars(RetryFires)
  /\ SF_vars(CallResume) /\ WF_vars(CallTimeout)
  /\ \A r \in Routes : /\ WF_vars(DaemonRequest(r) \/ DaemonDrop(r))
                       /\ WF_vars(HealthFails(r)) /\ WF_vars(ErrorFrame(r))
                       /\ WF_vars(LateReply(r)) /\ WF_vars(NoticeClose(r))
  /\ WF_vars(\E d \in DirectRoutes : DaemonAccept(d)) /\ WF_vars(DaemonSwitch)
  /\ WF_vars(CandidateExpires) /\ WF_vars(DaemonNotices)
  /\ WF_vars(\E r \in RelayRoutes : TimerFires(r)) /\ WF_vars(ConnectFails)
  /\ SF_vars(DaemonEstablishes) /\ SF_vars(ConnectDone)

FairSpec == Spec /\ Fairness

-----------------------------------------------------------------------------
(* Properties.                                                             *)

(* A phone never kicks itself: by the time its new relay session makes the *)
(* daemon kick the device's older one, the older transport is closed, so   *)
(* the terminal "kicked" cannot reach it: only close() ends the session.   *)
NeverSelfKicked == [][~host.stopped /\ host.stopped' => Close]_vars

(* Once TransportCommit is sent no mutation is outstanding on the relay    *)
(* route: the barrier holds new ones back and waitIdle waited for the old  *)
(* ones, so none is cut off when the relay transport is closed.            *)
NoCallIsCutOff ==
  up.phase \in {"committing", "committed", "probing"} =>
    ~(call.st = "sent" /\ call.route = up.relay)

(* A mutation reported as not sent was not and will not be run: it is      *)
(* never replayed on another transport.                                    *)
NotSentNotRun ==
  call.res = "notsent" =>
    /\ ~call.ran
    /\ \A r \in Routes : \A i \in DOMAIN c2d[r] : c2d[r][i].op # "call"

(* A mutation whose frame was sent and that got no answer is reported as   *)
(* unknown_outcome, whatever ended its transport.                          *)
SentIsUncertain == call.st = "done" /\ call.ran => call.res \in {"ok", "unknown"}

(* ... and so it is as long as the daemon keeps its relay socket and the   *)
(* user does not close the session.                                        *)
SentIsUncertainWhileServed == host.may \cap {"drop", "close"} = {} => SentIsUncertain

(* A failed attempt leaves the authenticated relay session active: when    *)
(* no attempt and no frame is under way, a phone on an open relay route is *)
(* on the route the daemon serves.                                         *)
FailedAttemptKeepsRelay ==
  /\ up.phase = "none" /\ dm.committing = None
  /\ \A r \in Routes : c2d[r] = <<>> /\ d2c[r] = <<>>
  /\ host.transport \in RelayRoutes \cap live \cap wire
  => dm.serving = host.transport

(* In relay mode, with no attempt under way, the session uses the relay.   *)
RelayModeUsesRelay ==
  host.mode = "relay" /\ up.phase = "none" => host.transport \notin DirectRoutes

(* A session that is over holds no socket and no peer connection.          *)
ClosedIsClosed ==
  host.stopped /\ host.connecting = None /\ up.phase = "none" => live = {} /\ wire \subseteq {dm.cand}

(* The phone never stops trying: online, visible and not stopped, it has a *)
(* working transport again and again, whatever step of a dial or of a      *)
(* switch the last one was lost in.                                        *)
NeverGivesUp ==
  []<>(host.transport \in live \/ host.stopped \/ ~host.net \/ host.hidden)

(* Every mutation gets an outcome: one that waits for a switch goes on when *)
(* it is over, and one that was sent fails with its transport.             *)
CallsReturn == call.st \in {"waiting", "sent"} ~> call.st = "done"

(* What the phone tells the caller of a mutation is what the daemon did:  *)
(* not sent means never run, and what a served session sent is reported   *)
(* as uncertain, not as refused.                                          *)
OutcomesAreHonest ==
  /\ SentIsUncertainWhileServed
  /\ NotSentNotRun

=============================================================================
