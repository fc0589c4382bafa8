-------------------------------- MODULE Room --------------------------------
(***************************************************************************)
(* The relay's room for one computer (workers/pairfob-origin/src/room): a  *)
(* Durable Object that holds the websocket of the daemon and those of its  *)
(* phones, and forwards between them.                                      *)
(*                                                                         *)
(* Events are handled one at a time, but a handler that awaits lets other  *)
(* events in: a daemon HELLO awaits the hash of its token, an attach       *)
(* awaits alarm storage.  Each part of a handler between two awaits is one *)
(* action.  Time is abstract: a timeout may strike whenever its socket is  *)
(* in the state it watches (RoomAlarms has the clock and the alarm rows).  *)
(* The pairing slot is in RoomPairing, the hash of the room in Enrollment. *)
(***************************************************************************)
EXTENDS Naturals, FiniteSets, FiniteSetsExt

CONSTANTS
  Phones, Daemons,     \* websockets; each connects once
  NoDaemon,            \* no socket
  Strangers,           \* the phones whose account is not the owner's
  MAX_ESTABLISHED, MAX_RESUME, MAX_PAIRING

Sockets == Phones \cup Daemons

(* A websocket is a phone's or the daemon's.                               *)
ASSUME RoomAssumption == Phones \cap Daemons = {} /\ NoDaemon \notin Daemons

VARIABLES
  sock,      \* socket -> "new", "open", "closing" (we closed it), "gone"
  att,       \* socket -> its attachment
  daemon,    \* in memory: the registered daemon socket
  routes,    \* in memory: the phones findByRoute finds
  meta,      \* stored: the row is "none", "enrolled" or "kicked" (empty hash)
  hellos,    \* in memory: the daemons whose token is being hashed
  waits,     \* in memory: the phones whose attach awaits alarm storage
  view,      \* daemon -> routes it has been told of and not seen ended
  bound      \* phones whose route both ends were told of

conns == <<sock, att, daemon, routes>>
inflight == <<hellos, waits>>
told == <<view, bound>>
roomVars == <<conns, meta, inflight, told>>

\* A new socket is given the mode as its kind.
MutNewAttachment == [kind |-> "hello", hello |-> 0, created |-> 0]

(* newAttachment.  route_id is the phone itself and is set exactly while   *)
(* kind # "none"; hello is 0, or 1 for a phone that said HELLO, or the     *)
(* rank of a daemon's registration.  The mode is left out: it is "hello"   *)
(* until the attach and decides nothing after it.  An attachment goes with *)
(* its socket.                                                             *)
NewAttachment == [kind |-> "none", hello |-> 0, created |-> 0]

(* A socket we closed stays listed until the other end has closed it too.  *)
Listed(sk) == {s \in Sockets : sk[s] \in {"open", "closing"}}
Phoning == Listed(sock) \cap Phones

Closing(S, sk) ==
  [s \in Sockets |-> IF s \in S /\ sk[s] = "open" THEN "closing" ELSE sk[s]]

isRegisteredDaemon(s) == s \in Daemons /\ att[s].hello > 0

(* rebuildMaps with retainNewestDaemon: over the sockets listed in sk,     *)
(* with the attachments at.                                                *)
RebuildMaps(sk, at) ==
  LET ds == {s \in Listed(sk) : isRegisteredDaemon(s)}
      newest == {d \in ds : \A e \in ds : at[e].hello <= at[d].hello}
  IN
  /\ routes' = {p \in Listed(sk) \cap Phones : at[p].kind # "none"}
  /\ daemon' = IF ds = {} THEN NoDaemon ELSE CHOOSE d \in newest : TRUE
  /\ sock' = Closing(ds \ newest, sk)

Count(kind) == Cardinality({p \in Phoning : att[p].kind = kind})

(* closeBind of the phones in S: both ends are told.                       *)
CloseBind(S) ==
  /\ sock' = Closing(S, sock)
  /\ routes' = routes \ S
  /\ view' = IF daemon = NoDaemon THEN view ELSE [view EXCEPT ![daemon] = @ \ S]
-----------------------------------------------------------------------------
RoomInit ==
  /\ sock = [s \in Sockets |-> "new"]
  /\ att = [s \in Sockets |-> NewAttachment]
  /\ daemon = NoDaemon /\ routes = {}
  /\ meta = "none"
  /\ hellos = {} /\ waits = {}
  /\ view = [d \in Daemons |-> {}] /\ bound = {}

(* The worker enrolls the computer, kicks it, or undoes an enrollment.     *)
Enroll ==
  /\ meta = "none"
  /\ meta' = "enrolled"
  /\ UNCHANGED <<conns, inflight, told>>

DropAll ==
  /\ sock' = Closing(Sockets, sock)
  /\ routes' = routes \ Phoning
  /\ daemon' = NoDaemon
  /\ UNCHANGED <<att, inflight, told>>

Kick == meta = "enrolled" /\ meta' = "kicked" /\ DropAll

AbortEnroll == meta = "enrolled" /\ meta' = "none" /\ DropAll
-----------------------------------------------------------------------------
AttachSocket(s) ==
  /\ sock[s] = "new"
  /\ RebuildMaps([sock EXCEPT ![s] = "open"], att)
  /\ UNCHANGED <<att, meta, inflight, told>>

(* The room closes a socket and leaves the rest to onClose: reject, a      *)
(* HELLO or an attach that fails its checks, closeExpiredHellos, a PING    *)
(* that finds its deadline passed, a frame before a bind or without a      *)
(* daemon.                                                                 *)
Reject(s) ==
  /\ sock[s] = "open"
  /\ sock' = Closing({s}, sock)
  /\ UNCHANGED <<att, daemon, routes, meta, inflight, told>>

(* onClose of the daemon that serves: dropDaemon, and nothing is rebuilt.  *)
DaemonGone(d) ==
  /\ d \in Listed(sock) /\ daemon = d
  /\ sock' = [Closing(Phones, sock) EXCEPT ![d] = "gone"]
  /\ att' = [att EXCEPT ![d] = NewAttachment]
  /\ routes' = routes \ Phoning
  /\ daemon' = NoDaemon
  /\ view' = [view EXCEPT ![d] = {}]
  /\ UNCHANGED <<meta, inflight, bound>>

(* onClose of any other socket: its bind ends, the daemon is told, and the *)
(* maps are rebuilt while the socket is still listed.                      *)
SocketGone(s) ==
  LET ds == {e \in Listed(sock) : isRegisteredDaemon(e)}
      newest == {d \in ds : \A e \in ds : att[e].hello <= att[d].hello}
  IN
  /\ s \in Listed(sock) /\ daemon # s
  /\ att' = [att EXCEPT ![s] = NewAttachment]
  /\ routes' = {p \in Phoning : att'[p].kind # "none"}
  /\ daemon' = IF ds = {} THEN NoDaemon ELSE CHOOSE d \in newest : TRUE
  /\ sock' = [Closing(ds \ newest, sock) EXCEPT ![s] = "gone"]
  /\ view' = [d \in Daemons |-> IF d = daemon THEN view[d] \ {s} ELSE IF d = s THEN {} ELSE view[d]]
  /\ bound' = bound \ {s}
  /\ UNCHANGED <<meta, inflight>>

(* The object hibernates between two events; coldStart rebuilds the maps   *)
(* from the attachments.                                                   *)
Hibernate ==
  /\ hellos = {} /\ waits = {}
  /\ RebuildMaps(sock, att)
  /\ UNCHANGED <<att, meta, inflight, told>>

(* The platform drops the object in the middle of anything: its sockets    *)
(* and its memory are lost.                                                *)
Evict ==
  /\ Listed(sock) # {}
  /\ sock' = [s \in Sockets |-> IF sock[s] = "new" THEN "new" ELSE "gone"]
  /\ att' = [s \in Sockets |-> NewAttachment]
  /\ daemon' = NoDaemon /\ routes' = {}
  /\ hellos' = {} /\ waits' = {}
  /\ view' = [d \in Daemons |-> {}] /\ bound' = {}
  /\ UNCHANGED meta
-----------------------------------------------------------------------------
Newest == Max({0} \cup {att[d].hello : d \in Daemons})

(* handleDaemonHello up to the await of sha256Hex: the hash to compare     *)
(* with is read before it.  A token that will not match is a Reject.       *)
DaemonHello(d) ==
  /\ sock[d] = "open" /\ daemon # d /\ d \notin hellos
  /\ meta = "enrolled"
  /\ hellos' = hellos \cup {d}
  /\ UNCHANGED <<conns, meta, waits, told>>

\* The daemon that served is not closed.
MutRegisterDaemon(d) ==
  /\ d \in hellos
  /\ hellos' = hellos \ {d}
  /\ daemon' = d
  /\ att' = [att EXCEPT ![d].hello = 1 + Newest]
  /\ UNCHANGED <<sock, routes, meta, waits, told>>

(* ... and after it: the daemon that served is replaced.                   *)
RegisterDaemon(d) ==
  /\ d \in hellos
  /\ hellos' = hellos \ {d}
  /\ IF daemon \in {NoDaemon, d}
     THEN UNCHANGED <<sock, routes>>
     ELSE /\ sock' = Closing(Phones \cup {daemon}, sock)
          /\ routes' = routes \ Phoning
  /\ daemon' = d
  /\ att' = [att EXCEPT ![d].hello = 1 + Newest]
  /\ UNCHANGED <<meta, waits, told>>
-----------------------------------------------------------------------------
(* handleClientHello; a second HELLO before an attach is a Reject, one     *)
(* after it only sets the mode back, which nothing reads any more.         *)
ClientHello(p) ==
  /\ sock[p] = "open"
  /\ att[p].hello = 0
  /\ att' = [att EXCEPT ![p].hello = 1]
  /\ UNCHANGED <<sock, daemon, routes, meta, inflight, told>>

(* What both attaches check before they bind; otherwise the phone gets an  *)
(* error frame and nothing changes, or Reject.                             *)
MayBind(p) ==
  /\ sock[p] = "open" /\ p \notin Strangers
  /\ att[p].hello > 0 /\ att[p].kind = "none"
  /\ daemon # NoDaemon

Bind(p, kind) ==
  /\ att' = [att EXCEPT ![p].kind = kind,
               ![p].created = 1 + Max({0} \cup {att[q].created : q \in Phones})]
  /\ waits' = waits \cup {p}

(* handlePairAttach up to the await of armPairFirst (the slot it needs is  *)
(* in RoomPairing).                                                        *)
PairAttach(p) ==
  /\ MayBind(p)
  /\ Count("pairing") < MAX_PAIRING
  /\ Bind(p, "pairing")
  /\ routes' = routes \cup {p}
  /\ UNCHANGED <<sock, daemon, meta, hellos, told>>

lruResume ==
  LET resuming == {q \in Phoning : att[q].kind = "resumehello"}
  IN {q \in resuming : \A r \in resuming : att[q].created <= att[r].created}

(* handleSessionAttach up to the await of armResume: over the quota the    *)
(* oldest ResumeHello is closed, even one that is closing already.         *)
SessionAttach(p) ==
  LET out == IF Count("resumehello") >= MAX_RESUME THEN lruResume ELSE {} IN
  /\ MayBind(p)
  /\ Bind(p, "resumehello")
  /\ sock' = Closing(out, sock)
  /\ routes' = (routes \ out) \cup {p}
  /\ view' = [view EXCEPT ![daemon] = @ \ out]
  /\ UNCHANGED <<daemon, meta, hellos, bound>>

(* ... and after the await: the phone is told, then whoever is the daemon  *)
(* by now; without one the send throws.                                    *)
AttachDone(p) ==
  /\ p \in waits
  /\ waits' = waits \ {p}
  /\ bound' = IF daemon # NoDaemon /\ {sock[daemon], sock[p]} = {"open"}
              THEN bound \cup {p} ELSE bound
  /\ view' = IF daemon = NoDaemon THEN view ELSE [view EXCEPT ![daemon] = @ \cup {p}]
  /\ UNCHANGED <<conns, meta, hellos>>

(* handleSessionEstablished: only the serving daemon, only for a route     *)
(* that waits for it.                                                      *)
SessionEstablished(p) ==
  /\ daemon # NoDaemon /\ sock[daemon] = "open" /\ p \in view[daemon]
  /\ p \in routes /\ att[p].kind = "resumehello"
  /\ IF Count("established") >= MAX_ESTABLISHED
     THEN CloseBind({p}) /\ UNCHANGED att
     ELSE /\ att' = [att EXCEPT ![p].kind = "established"]
          /\ UNCHANGED <<sock, routes, view>>
  /\ UNCHANGED <<daemon, meta, inflight, bound>>

(* The daemon ends a route with ERROR (handleDaemonError), or a frame from *)
(* it could not be sent (fwdWireFromDaemon).                               *)
DaemonEndsRoute(p) ==
  /\ daemon # NoDaemon /\ sock[daemon] = "open" /\ p \in routes
  /\ CloseBind({p})
  /\ UNCHANGED <<att, daemon, meta, inflight, bound>>

(* closeBind by an alarm (closeExpiredResumes, timeoutPairing) or by a     *)
(* pairing slot that ends.                                                 *)
BindTimeout(p) ==
  /\ p \in Phoning /\ att[p].kind \in {"pairing", "resumehello"}
  /\ CloseBind({p})
  /\ UNCHANGED <<att, daemon, meta, inflight, bound>>

RoomNext ==
  \/ Enroll \/ Kick \/ AbortEnroll \/ Hibernate \/ Evict
  \/ \E s \in Sockets : AttachSocket(s) \/ Reject(s) \/ SocketGone(s)
  \/ \E d \in Daemons : DaemonGone(d) \/ DaemonHello(d) \/ RegisterDaemon(d)
  \/ \E p \in Phones : ClientHello(p) \/ PairAttach(p) \/ SessionAttach(p) \/ AttachDone(p)
  \/ \E p \in Phones : SessionEstablished(p) \/ DaemonEndsRoute(p) \/ BindTimeout(p)

RoomSpec == RoomInit /\ [][RoomNext]_roomVars
-----------------------------------------------------------------------------
(* The room's variables have their types.                                  *)
RoomTypeOK ==
  /\ sock \in [Sockets -> {"new", "open", "closing", "gone"}]
  /\ att \in [Sockets ->
       [kind: {"none", "pairing", "resumehello", "established"},
        hello: 0..Cardinality(Sockets), created: 0..Cardinality(Phones)]]
  /\ daemon \in Daemons \cup {NoDaemon}
  /\ routes \subseteq Phones /\ bound \subseteq Phones /\ waits \subseteq Phones
  /\ meta \in {"none", "enrolled", "kicked"}
  /\ hellos \subseteq Daemons
  /\ view \in [Daemons -> SUBSET Phones]

(* An open socket that registered as the daemon is the one that serves,    *)
(* whatever hellos, closes, kicks and hibernations came between            *)
(* (core.ts:118 "FWD must hit the newest").                                *)
OpenDaemonServes ==
  \A d \in Daemons : sock[d] = "open" /\ att[d].hello > 0 => daemon = d

(* A phone whose route both ends were told of, and whose socket the room   *)
(* has not closed, is known to the daemon that serves: a replaced, kicked  *)
(* or lost daemon takes all its phones with it.                            *)
BoundPhoneIsKnown ==
  \A p \in bound : sock[p] = "open" => daemon # NoDaemon /\ p \in view[daemon]

(* The daemon reaches every phone that holds a route: the map in memory    *)
(* has each open bound socket, also after it is rebuilt.                   *)
BoundPhoneIsRouted ==
  \A p \in Phones : sock[p] = "open" /\ att[p].kind # "none" => p \in routes

(* A kicked room has no open daemon, not even one whose HELLO read the     *)
(* hash before the kick and registers after it.                            *)
KickedRoomIsEmpty ==
  meta = "kicked" => \A d \in Daemons : ~ (sock[d] = "open" /\ att[d].hello > 0)

(* The room's sockets, its map and the daemon's view agree at every        *)
(* yield: the daemon that registered last serves, and each bound phone is  *)
(* routed by the room and known to that daemon.                            *)
RoomHolds == OpenDaemonServes /\ BoundPhoneIsKnown /\ BoundPhoneIsRouted /\ KickedRoomIsEmpty
=============================================================================
