--------------------------- MODULE PhoneInvariant ---------------------------
(***************************************************************************)
(* The inductive invariant behind the theorems of PhoneProofs, and why the *)
(* phone's reconnecting session and the daemon's steps keep it.            *)
(*                                                                         *)
(* That a phone does not kick itself needs most: which routes an error     *)
(* frame can be on depends on which candidate the daemon serves, which     *)
(* depends on the one offer whose answer the phone still waits for.        *)
(***************************************************************************)
EXTENDS PhoneSession, TLAPS

Frames(s) == {s[i] : i \in DOMAIN s}

PhoneTypes ==
  /\ TypeOK
  /\ c2d \in [Routes -> Seq(Request)] /\ d2c \in [Routes -> Seq(Reply)]

(* A phone that dials or is about to has no transport; during an attempt   *)
(* it is not on a direct route yet, and does not dial the attempt's relay  *)
(* route; a disconnect that was kept back is of a transport that stopped.  *)
HostInv ==
  /\ host.connecting # None \/ host.timer => host.transport = None
  /\ ~ (host.connecting # None /\ host.timer)
  /\ up.phase # "none" => /\ host.transport \notin DirectRoutes
                          /\ up.relay \in RelayRoutes /\ host.connecting # up.relay
  /\ IF up.phase \in {"none", "creating", "offering"} THEN up.cand = None ELSE up.cand \in DirectRoutes
  /\ Switching /\ host.deferred # None =>
       host.transport \notin live /\ (host.stopped \/ host.transport # None)
  /\ host.deferred # "kicked"
  /\ host.stopped => host.transport = None

(* Whose a transport and a channel are.                                    *)
RouteInv ==
  /\ \A r \in live : r = host.transport \/ (up.phase = "probing" /\ r = up.cand)
  /\ wire \subseteq {host.transport, host.connecting, up.cand}
  /\ Switching /\ host.deferred # None => host.transport \notin wire

HasCall == \E r \in Routes : \E f \in Frames(c2d[r]) : f.op = "call"

(* A mutation that was sent is on the session's transport, which is live   *)
(* and has it among its pending requests.                                  *)
CallInv ==
  /\ call.st = "sent" => /\ call.route = host.transport /\ call.route \in live
                         /\ "call" \in pending[call.route]
  /\ (call.st = "done") = (call.res # None)
  /\ call.ran \/ HasCall =>
       call.st = "sent" \/ (call.st = "done" /\ call.res # "notsent")
  /\ host.may \cap {"drop", "close"} = {} => call.res # "failed"

IsError(f, code) == f.op = "error" /\ f.to = code
IsOffer(f) == f.op = "offer" /\ f.awaited
OneOffer(s) == \A i, j \in DOMAIN s : IsOffer(s[i]) /\ IsOffer(s[j]) => i = j
HasOffer(s) == \E f \in Frames(s) : IsOffer(f)

(* One TransportOffer at most awaits its answer, and only while the        *)
(* attempt that sent it waits: it is a request, with Direct.Accept, or an  *)
(* answer; and the candidate an answer names serves nothing yet.           *)
AwaitedInv ==
  /\ \A r \in Routes : \A f \in Frames(c2d[r]) : f.op = "offer" => r \in RelayRoutes
  /\ \A r \in Routes : HasOffer(c2d[r]) \/ HasOffer(d2c[r]) => up.phase = "offering" /\ r = up.relay
  /\ dm.awaited => up.phase = "offering" /\ dm.offer = up.relay
  /\ \A r \in Routes :
       /\ OneOffer(c2d[r]) /\ OneOffer(d2c[r])
       /\ ~ (HasOffer(c2d[r]) /\ HasOffer(d2c[r]))
       /\ dm.awaited => ~ HasOffer(c2d[r]) /\ ~ HasOffer(d2c[r])
  /\ \A r \in Routes : \A f \in Frames(d2c[r]) :
       f.op = "offer" /\ f.ok =>
         /\ f.to \in DirectRoutes
         /\ f.awaited => /\ f.to # dm.serving /\ f.to # dm.committing
                         /\ dm.cand = f.to => ~ dm.ready
                         /\ \A g \in Frames(d2c[f.to]) : ~ IsError(g, "kicked")

(* Which routes an error may be on: "kicked" on none the phone uses or     *)
(* will use, a failed hello on none that was ever served.                  *)
ErrorInv ==
  /\ \A r \in Routes : \A f \in Frames(d2c[r]) : IsError(f, "kicked") =>
       /\ r \notin {host.transport, host.connecting}
       /\ up.phase # "none" /\ r = up.cand => host.transport # up.relay
  /\ \A r \in Routes : (r = dm.cand \/ \E f \in Frames(d2c[r]) : IsError(f, "bad_frame")) =>
       /\ r \notin {host.transport, host.connecting, dm.serving}
       /\ \A f \in Frames(d2c[r]) : f.op # "ping"
  /\ dm.cand # None => \A f \in Frames(d2c[dm.cand]) : ~ IsError(f, "bad_frame")
  /\ \A r \in Routes : \A f \in Frames(d2c[r]) : f.op = "error" =>
       f.to \in {"kicked", "bad_frame"} \/ ("drop" \in host.may /\ f.to \in Codes)

PhoneInv ==
  PhoneTypes /\ HostInv /\ RouteInv /\ CallInv /\ NoCallIsCutOff /\ AwaitedInv /\ ErrorInv

-----------------------------------------------------------------------------
(* What the operations on a queue of frames leave in it.                   *)

Weaker(f, g) == f = g \/ f = [g EXCEPT !.awaited = FALSE]

Shrinks(t, s) ==
  /\ \A f \in Frames(t) : \E g \in Frames(s) : Weaker(f, g)
  /\ OneOffer(s) => OneOffer(t)

(* ... or in which there is something new, but no offer and no kick.       *)
Adds(t, s) ==
  /\ \A f \in Frames(t) : (\E g \in Frames(s) : Weaker(f, g)) \/ (f.op # "offer" /\ ~ IsError(f, "kicked"))
  /\ OneOffer(s) => OneOffer(t)

LEMMA ShrinksAdds == ASSUME NEW t, NEW s, Shrinks(t, s) PROVE Adds(t, s)
BY Zenon DEF Shrinks, Adds

LEMMA ReplyWeaker ==
  ASSUME NEW f, NEW g \in Reply, Weaker(f, g)
  PROVE  f \in Reply /\ f.op = g.op /\ f.ok = g.ok /\ f.to = g.to /\ (f.awaited => g.awaited)
BY Zenon DEF Weaker, Reply

LEMMA RequestWeaker ==
  ASSUME NEW f, NEW g \in Request, Weaker(f, g)
  PROVE  f \in Request /\ f.op = g.op /\ (f.awaited => g.awaited)
BY Zenon DEF Weaker, Request

LEMMA SameShrinks == ASSUME NEW s PROVE Shrinks(s, s)
BY Zenon DEF Shrinks, Weaker, Frames

LEMMA EmptyShrinks == ASSUME NEW s PROVE Shrinks(<<>>, s) /\ Frames(<<>>) = {}
BY DEF Shrinks, Frames, OneOffer

LEMMA TailShrinks ==
  ASSUME NEW S, NEW s \in Seq(S), s # <<>>
  PROVE  /\ Tail(s) \in Seq(S) /\ Shrinks(Tail(s), s) /\ Frames(Tail(s)) \subseteq Frames(s)
         /\ Head(s) \in S /\ Head(s) \in Frames(s)
         /\ OneOffer(s) /\ IsOffer(Head(s)) => ~ HasOffer(Tail(s))
<1>1. /\ Tail(s) \in Seq(S) /\ Head(s) \in S /\ Head(s) = s[1] /\ Len(s) \in Nat /\ Len(s) > 0
      /\ DOMAIN s = 1 .. Len(s) /\ DOMAIN Tail(s) = 1 .. Len(s) - 1
      /\ \A i \in 1 .. Len(s) - 1 : Tail(s)[i] = s[i + 1] /\ i + 1 \in DOMAIN s
  OBVIOUS
<1>2. Head(s) \in Frames(s)
  BY <1>1 DEF Frames
<1>3. Frames(Tail(s)) \subseteq Frames(s)
  BY <1>1 DEF Frames
<1>4. OneOffer(s) => OneOffer(Tail(s))
  BY <1>1 DEF OneOffer
<1>5. ASSUME OneOffer(s), IsOffer(Head(s)) PROVE ~ HasOffer(Tail(s))
  <2> SUFFICES ASSUME NEW i \in DOMAIN Tail(s), IsOffer(Tail(s)[i]) PROVE FALSE
    BY Zenon DEF HasOffer, Frames
  <2>1. i + 1 \in DOMAIN s /\ 1 \in DOMAIN s /\ IsOffer(s[i + 1]) /\ IsOffer(s[1])
    BY <1>1, <1>5
  <2>2. i + 1 = 1
    BY Zenon, <1>5, <2>1 DEF OneOffer
  <2> QED BY <1>1, <2>2
<1> QED BY Zenon, <1>1, <1>2, <1>3, <1>4, <1>5 DEF Shrinks, Weaker

LEMMA AppendFrames ==
  ASSUME NEW S, NEW s \in Seq(S), NEW e \in S
  PROVE  /\ Append(s, e) \in Seq(S) /\ Frames(Append(s, e)) = Frames(s) \cup {e}
         /\ OneOffer(s) /\ (IsOffer(e) => ~ HasOffer(s)) => OneOffer(Append(s, e))
<1>1. /\ Append(s, e) \in Seq(S) /\ Len(s) \in Nat /\ DOMAIN s = 1 .. Len(s)
      /\ DOMAIN Append(s, e) = 1 .. Len(s) + 1 /\ Append(s, e)[Len(s) + 1] = e
      /\ \A i \in 1 .. Len(s) : Append(s, e)[i] = s[i]
  OBVIOUS
<1>2. Frames(Append(s, e)) = Frames(s) \cup {e}
  <2>1. ASSUME NEW f \in Frames(Append(s, e)) PROVE f \in Frames(s) \cup {e}
    <3>1. PICK i \in 1 .. Len(s) + 1 : f = Append(s, e)[i]
      BY <1>1 DEF Frames
    <3> QED BY <1>1, <3>1 DEF Frames
  <2>2. ASSUME NEW f \in Frames(s) PROVE f \in Frames(Append(s, e))
    <3>1. PICK i \in 1 .. Len(s) : f = s[i]
      BY Zenon, <1>1 DEF Frames
    <3>2. i \in DOMAIN Append(s, e) /\ f = Append(s, e)[i]
      BY <1>1, <3>1
    <3> QED BY Zenon, <3>2 DEF Frames
  <2>3. e \in Frames(Append(s, e))
    <3>1. Len(s) + 1 \in DOMAIN Append(s, e)
      BY <1>1
    <3> QED BY Zenon, <1>1, <3>1 DEF Frames
  <2> QED BY Zenon, <2>1, <2>2, <2>3
<1>3. ASSUME OneOffer(s), IsOffer(e) => ~ HasOffer(s) PROVE OneOffer(Append(s, e))
  <2> SUFFICES ASSUME NEW i \in 1 .. Len(s) + 1, NEW j \in 1 .. Len(s) + 1,
                      IsOffer(Append(s, e)[i]), IsOffer(Append(s, e)[j])
               PROVE  i = j
    BY Zenon, <1>1 DEF OneOffer
  <2>1. CASE i \in 1 .. Len(s) /\ j \in 1 .. Len(s)
    BY Zenon, <1>1, <1>3, <2>1 DEF OneOffer
  <2>2. CASE IsOffer(e)
    BY <1>1, <1>3, <2>2 DEF HasOffer, Frames
  <2> QED BY <1>1, <2>1, <2>2
<1> QED BY Zenon, <1>1, <1>2, <1>3

LEMMA ForgetShrinks ==
  ASSUME NEW S \in {Request, Reply}, NEW s \in Seq(S), NEW op \in Ops
  PROVE  /\ Forget(s, op) \in Seq(S) /\ Shrinks(Forget(s, op), s)
         /\ ~ HasOffer(Forget(s, "offer"))
<1>1. \A f \in S : [f EXCEPT !.awaited = FALSE] \in S /\ [f EXCEPT !.awaited = FALSE].op = f.op
                   /\ [f EXCEPT !.awaited = FALSE].awaited = FALSE
  <2>1. CASE S = Request
    BY Zenon, <2>1 DEF Request
  <2>2. CASE S = Reply
    BY Zenon, <2>2 DEF Reply
  <2> QED BY Zenon, <2>1, <2>2
<1>2. /\ Len(s) \in Nat /\ DOMAIN s = 1 .. Len(s) /\ \A i \in 1 .. Len(s) : s[i] \in S
      /\ DOMAIN Forget(s, op) = 1 .. Len(s) /\ DOMAIN Forget(s, "offer") = 1 .. Len(s)
  BY DEF Forget
<1>3. \A i \in 1 .. Len(s) : /\ Forget(s, op)[i] \in S
                             /\ Weaker(Forget(s, op)[i], s[i])
                             /\ IsOffer(Forget(s, op)[i]) => IsOffer(s[i])
                             /\ ~ IsOffer(Forget(s, "offer")[i])
  BY Zenon, <1>1, <1>2 DEF Forget, Weaker, IsOffer
<1>4. Forget(s, op) \in Seq(S)
  <2>1. Forget(s, op) = [i \in 1 .. Len(s) |-> Forget(s, op)[i]]
    BY Zenon, <1>2 DEF Forget
  <2> HIDE DEF Forget
  <2> QED BY <1>2, <1>3, <2>1
<1>5. Shrinks(Forget(s, op), s)
  BY Zenon, <1>2, <1>3 DEF Shrinks, Frames, OneOffer
<1>6. ~ HasOffer(Forget(s, "offer"))
  BY Zenon, <1>2, <1>3 DEF HasOffer, Frames
<1> QED BY Zenon, <1>4, <1>5, <1>6
-----------------------------------------------------------------------------
HostRec ==
  [transport : Routes \cup {None}, stopped : BOOLEAN, net : BOOLEAN, hidden : BOOLEAN,
   checking : BOOLEAN, mode : {"auto", "relay"}, deferred : Codes \cup {None}, timer : BOOLEAN,
   connecting : RelayRoutes \cup {None}, requested : BOOLEAN, may : Worlds]

UpRec ==
  [phase : {"none", "creating", "offering", "handshaking", "draining", "committing",
            "committed", "probing"},
   relay : RelayRoutes \cup {None}, cand : DirectRoutes \cup {None}, aborted : BOOLEAN]

DmRec ==
  [serving : Routes \cup {None}, cand : DirectRoutes \cup {None}, from : RelayRoutes \cup {None},
   ready : BOOLEAN, committing : DirectRoutes \cup {None}, offer : RelayRoutes \cup {None},
   awaited : BOOLEAN]

CallRec ==
  [st : {"idle", "waiting", "sent", "done"}, route : Routes \cup {None}, ran : BOOLEAN,
   res : {None, "ok", "notsent", "unknown", "failed"}]

LEMMA PhoneTypesAre ==
  PhoneTypes <=> /\ host \in HostRec /\ up \in UpRec /\ dm \in DmRec /\ call \in CallRec
                 /\ probe \in Routes \cup {None} /\ retry \in RelayRoutes \cup {None}
                 /\ live \subseteq Routes /\ wire \subseteq Routes /\ pending \in [Routes -> SUBSET Ops]
                 /\ c2d \in [Routes -> Seq(Request)] /\ d2c \in [Routes -> Seq(Reply)]
<1>1. ASSUME c2d \in [Routes -> Seq(Request)], d2c \in [Routes -> Seq(Reply)], NEW r \in Routes
      PROVE  /\ \A i \in DOMAIN c2d[r] : c2d[r][i] \in Request
             /\ \A i \in DOMAIN d2c[r] : d2c[r][i] \in Reply
  BY <1>1
<1> QED BY Zenon, <1>1 DEF PhoneTypes, TypeOK, HostRec, UpRec, DmRec, CallRec

LEMMA PhoneTypesNext ==
  PhoneTypes' <=> /\ host' \in HostRec /\ up' \in UpRec /\ dm' \in DmRec /\ call' \in CallRec
                  /\ probe' \in Routes \cup {None} /\ retry' \in RelayRoutes \cup {None}
                  /\ live' \subseteq Routes /\ wire' \subseteq Routes /\ pending' \in [Routes -> SUBSET Ops]
                  /\ c2d' \in [Routes -> Seq(Request)] /\ d2c' \in [Routes -> Seq(Reply)]
<1>1. ASSUME c2d' \in [Routes -> Seq(Request)], d2c' \in [Routes -> Seq(Reply)], NEW r \in Routes
      PROVE  /\ \A i \in DOMAIN c2d'[r] : c2d'[r][i] \in Request
             /\ \A i \in DOMAIN d2c'[r] : d2c'[r][i] \in Reply
  BY <1>1
<1> QED BY Zenon, <1>1 DEF PhoneTypes, TypeOK, HostRec, UpRec, DmRec, CallRec

(* A step that brings no new offer, candidate or transport.                *)
OffersCalm ==
  /\ \A r \in Routes : Adds(c2d'[r], c2d[r]) /\ Adds(d2c'[r], d2c[r])
  /\ dm'.cand \in {dm.cand, None} /\ dm'.serving \in {dm.serving, None}
  /\ dm'.committing \in {dm.committing, None} \/ (dm.ready /\ dm'.committing = dm.cand)
  /\ dm'.ready => dm.ready \/ up.phase # "offering"
  /\ dm'.awaited => dm.awaited /\ dm'.offer = dm.offer
  /\ \/ up.phase = "offering" => up'.phase = "offering" /\ up'.relay = up.relay
     \/ /\ ~ dm'.awaited
        /\ \A r \in Routes : ~ HasOffer(c2d'[r]) /\ ~ HasOffer(d2c'[r])

RoutesCalm ==
  /\ host'.transport \in {host.transport, None} /\ host'.connecting \in {host.connecting, None}
  /\ host'.may = host.may
  /\ \/ up'.cand = None
     \/ up'.cand = up.cand /\ up'.relay = up.relay /\ up.phase # "none"
     \/ \A f \in Frames(d2c[up'.cand]) : ~ IsError(f, "kicked")
  /\ dm'.cand \in {dm.cand, None} /\ dm'.serving \in {dm.serving, None}

Calm == OffersCalm /\ RoutesCalm

(* ... no error but for the relay's, and no ping on a route that is not    *)
(* served.                                                                 *)
NoNewErrors ==
  \A r \in Routes :
    /\ \A f \in Frames(d2c'[r]) : f.op = "error" =>
         \/ \E g \in Frames(d2c[r]) : g.op = "error" /\ g.to = f.to
         \/ "drop" \in host.may /\ f.to \in Codes \ {"kicked", "bad_frame"}
    /\ (\E f \in Frames(d2c'[r]) : f.op = "ping") =>
         r = dm.serving \/ \E f \in Frames(d2c[r]) : f.op = "ping"

(* ... in which the mutation under way goes on, or ends with its transport *)
(* or its answer.                                                          *)
CallGoesOn ==
  /\ call' = call
  /\ call.st = "sent" => /\ host'.transport = host.transport /\ call.route \in live'
                         /\ "call" \in pending'[call.route]
CallEnds ==
  /\ call.st = "sent" /\ call'.st = "done" /\ call'.res \in {"ok", "unknown", "failed"}
  /\ host.may \cap {"drop", "close"} = {} => call'.res # "failed"

LEMMA CalmErrors ==
  ASSUME PhoneInv, RoutesCalm, NoNewErrors PROVE ErrorInv'
<1>1. /\ host \in HostRec /\ up \in UpRec /\ dm \in DmRec
  BY Zenon, PhoneTypesAre DEF PhoneInv
<1>2. \A r \in Routes : r # None
  BY Zenon, PhoneAssumption
<1>3. \A r \in Routes, code \in {"kicked", "bad_frame"} :
        (\E f \in Frames(d2c'[r]) : IsError(f, code)) => \E f \in Frames(d2c[r]) : IsError(f, code)
  BY Zenon DEF NoNewErrors, IsError
<1>5. \A r \in Routes : \A f \in Frames(d2c'[r]) : IsError(f, "kicked") =>
       /\ r \notin {host'.transport, host'.connecting}
       /\ up'.phase # "none" /\ r = up'.cand => host'.transport # up'.relay
  <2> SUFFICES ASSUME NEW r \in Routes, NEW f \in Frames(d2c'[r]), IsError(f, "kicked")
               PROVE  /\ r \notin {host'.transport, host'.connecting}
                      /\ up'.phase # "none" /\ r = up'.cand => host'.transport # up'.relay
    OBVIOUS
  <2>1. PICK g \in Frames(d2c[r]) : IsError(g, "kicked")
    BY <1>3
  <2>2. /\ r \notin {host.transport, host.connecting}
        /\ up.phase # "none" /\ r = up.cand => host.transport # up.relay
    BY Zenon, <2>1 DEF PhoneInv, ErrorInv
  <2>3. up.phase # "none" => up.relay # None
    BY Zenon, PhoneAssumption DEF PhoneInv, HostInv, Routes
  <2> QED BY Zenon, <1>2, <2>1, <2>2, <2>3 DEF RoutesCalm
<1>6. \A r \in Routes : (r = dm'.cand \/ \E f \in Frames(d2c'[r]) : IsError(f, "bad_frame")) =>
       /\ r \notin {host'.transport, host'.connecting, dm'.serving}
       /\ \A f \in Frames(d2c'[r]) : f.op # "ping"
  <2> SUFFICES ASSUME NEW r \in Routes, r = dm'.cand \/ \E f \in Frames(d2c'[r]) : IsError(f, "bad_frame")
               PROVE  /\ r \notin {host'.transport, host'.connecting, dm'.serving}
                      /\ \A f \in Frames(d2c'[r]) : f.op # "ping"
    OBVIOUS
  <2>1. r = dm.cand \/ \E f \in Frames(d2c[r]) : IsError(f, "bad_frame")
    BY <1>2, <1>3 DEF RoutesCalm
  <2>2. /\ r \notin {host.transport, host.connecting, dm.serving}
        /\ \A f \in Frames(d2c[r]) : f.op # "ping"
    BY Zenon, <2>1 DEF PhoneInv, ErrorInv
  <2>3. r \notin {host'.transport, host'.connecting, dm'.serving}
    BY Zenon, <1>2, <2>2 DEF RoutesCalm
  <2>4. \A f \in Frames(d2c'[r]) : f.op # "ping"
    BY Zenon, <2>2 DEF NoNewErrors
  <2> QED BY Zenon, <2>3, <2>4
<1>7. dm'.cand # None => \A f \in Frames(d2c'[dm'.cand]) : ~ IsError(f, "bad_frame")
  <2> SUFFICES ASSUME dm'.cand # None PROVE \A f \in Frames(d2c'[dm.cand]) : ~ IsError(f, "bad_frame")
    BY Zenon DEF RoutesCalm
  <2>1. dm.cand \in Routes /\ dm.cand # None
    BY Zenon, <1>1 DEF RoutesCalm, DmRec, Routes
  <2>2. \A f \in Frames(d2c[dm.cand]) : ~ IsError(f, "bad_frame")
    BY Zenon, <2>1 DEF PhoneInv, ErrorInv
  <2> QED BY Zenon, <1>3, <2>1, <2>2
<1>8. \A r \in Routes : \A f \in Frames(d2c'[r]) : f.op = "error" =>
       f.to \in {"kicked", "bad_frame"} \/ ("drop" \in host'.may /\ f.to \in Codes)
  BY Zenon DEF PhoneInv, ErrorInv, RoutesCalm, NoNewErrors
<1> QED BY Zenon, <1>5, <1>6, <1>7, <1>8 DEF ErrorInv

LEMMA CalmOffers ==
  ASSUME PhoneInv, OffersCalm PROVE AwaitedInv'
<1>1. /\ up \in UpRec /\ dm \in DmRec /\ d2c \in [Routes -> Seq(Reply)] /\ c2d \in [Routes -> Seq(Request)]
  BY Zenon, PhoneTypesAre DEF PhoneInv
<1>2. \A r \in Routes : Frames(d2c[r]) \subseteq Reply /\ Frames(c2d[r]) \subseteq Request
  BY <1>1 DEF Frames
<1>3. \A r \in Routes : \A f \in Frames(d2c'[r]) : f.op = "offer" \/ IsError(f, "kicked") =>
        \E g \in Frames(d2c[r]) : f.op = g.op /\ f.ok = g.ok /\ f.to = g.to /\ (f.awaited => g.awaited)
  BY Zenon, <1>2, ReplyWeaker DEF OffersCalm, Adds
<1>4. \A r \in Routes : \A f \in Frames(c2d'[r]) : f.op = "offer" => \E g \in Frames(c2d[r]) :
        f.op = g.op /\ (f.awaited => g.awaited)
  BY <1>2, RequestWeaker DEF OffersCalm, Adds
<1>5. \A r \in Routes : /\ HasOffer(c2d'[r]) => HasOffer(c2d[r])
                        /\ HasOffer(d2c'[r]) => HasOffer(d2c[r])
                        /\ OneOffer(c2d[r]) => OneOffer(c2d'[r])
                        /\ OneOffer(d2c[r]) => OneOffer(d2c'[r])
  BY <1>3, <1>4 DEF HasOffer, IsOffer, OffersCalm, Adds
<1>6. /\ \A r \in Routes : HasOffer(c2d'[r]) \/ HasOffer(d2c'[r]) => up'.phase = "offering" /\ r = up'.relay
      /\ dm'.awaited => up'.phase = "offering" /\ dm'.offer = up'.relay
  BY Zenon, <1>5 DEF OffersCalm, PhoneInv, AwaitedInv
<1>7. \A r \in Routes :
       /\ OneOffer(c2d'[r]) /\ OneOffer(d2c'[r])
       /\ ~ (HasOffer(c2d'[r]) /\ HasOffer(d2c'[r]))
       /\ dm'.awaited => ~ HasOffer(c2d'[r]) /\ ~ HasOffer(d2c'[r])
  BY Zenon, <1>5 DEF OffersCalm, PhoneInv, AwaitedInv
<1>8. \A r \in Routes : \A f \in Frames(d2c'[r]) :
       f.op = "offer" /\ f.ok =>
         /\ f.to \in DirectRoutes
         /\ f.awaited => /\ f.to # dm'.serving /\ f.to # dm'.committing
                         /\ dm'.cand = f.to => ~ dm'.ready
                         /\ \A g \in Frames(d2c'[f.to]) : ~ IsError(g, "kicked")
  <2> SUFFICES ASSUME NEW r \in Routes, NEW f \in Frames(d2c'[r]), f.op = "offer", f.ok
               PROVE  /\ f.to \in DirectRoutes
                      /\ f.awaited => /\ f.to # dm'.serving /\ f.to # dm'.committing
                                      /\ dm'.cand = f.to => ~ dm'.ready
                                      /\ \A g \in Frames(d2c'[f.to]) : ~ IsError(g, "kicked")
    OBVIOUS
  <2>1. PICK g \in Frames(d2c[r]) : f.op = g.op /\ f.ok = g.ok /\ f.to = g.to /\ (f.awaited => g.awaited)
    BY Zenon, <1>3
  <2>2. /\ g.to \in DirectRoutes
        /\ g.awaited => /\ g.to # dm.serving /\ g.to # dm.committing
                        /\ dm.cand = g.to => ~ dm.ready
                        /\ \A e \in Frames(d2c[g.to]) : ~ IsError(e, "kicked")
    BY Zenon, <2>1 DEF PhoneInv, AwaitedInv
  <2>3. f.to \in Routes /\ f.to # None
    BY Zenon, <2>1, <2>2, PhoneAssumption DEF Routes
  <2>4. (\A e \in Frames(d2c[f.to]) : ~ IsError(e, "kicked")) =>
          \A e \in Frames(d2c'[f.to]) : ~ IsError(e, "kicked")
    BY <1>3, <2>3 DEF IsError
  <2>5. g.awaited => up.phase = "offering"
    BY Zenon, <2>1 DEF PhoneInv, AwaitedInv, HasOffer, IsOffer
  <2> QED BY Zenon, <2>1, <2>2, <2>3, <2>4, <2>5 DEF OffersCalm
<1>9. \A r \in Routes : \A f \in Frames(c2d'[r]) : f.op = "offer" => r \in RelayRoutes
  BY Zenon, <1>4 DEF PhoneInv, AwaitedInv
<1> QED BY Zenon, <1>6, <1>7, <1>8, <1>9 DEF AwaitedInv

LEMMA CalmCalls ==
  ASSUME PhoneInv, CallGoesOn \/ CallEnds, call' \in CallRec, host'.may = host.may,
         call'.ran = call.ran, HasCall' => HasCall
  PROVE  CallInv'
<1>4. CASE CallGoesOn
  BY Zenon, <1>4 DEF CallGoesOn, PhoneInv, CallInv
<1>5. CASE CallEnds
  BY Zenon, <1>5 DEF CallEnds, CallInv, None
<1> QED BY Zenon, <1>4, <1>5

(* The invariant after such a step.                                        *)
LEMMA AnswerStep ==
  ASSUME PhoneInv, PhoneTypes', HostInv', RouteInv', Calm, NoNewErrors, CallGoesOn \/ CallEnds,
         call'.ran = call.ran, HasCall' => HasCall,
         up'.phase \in {"committing", "committed", "probing"} =>
           /\ up'.relay = up.relay
           /\ up.phase \in {"committing", "committed", "probing"} \/ pending[up.relay] = {}
  PROVE  PhoneInv'
<1>1. CallInv'
  BY Zenon, CalmCalls, PhoneTypesNext DEF Calm, OffersCalm, RoutesCalm
<1>2. NoCallIsCutOff'
  <2>1. call'.st = "sent" => call' = call
    BY Zenon DEF CallGoesOn, CallEnds
  <2> QED BY Zenon, <2>1 DEF PhoneInv, CallInv, NoCallIsCutOff
<1> QED BY Zenon, <1>1, <1>2, CalmErrors, CalmOffers DEF PhoneInv, Calm

LEMMA ShrinksErrors ==
  ASSUME PhoneInv, \A r \in Routes : Shrinks(d2c'[r], d2c[r]) PROVE NoNewErrors
<1>1. d2c \in [Routes -> Seq(Reply)]
  BY Zenon, PhoneTypesAre DEF PhoneInv
<1>2. \A r \in Routes : Frames(d2c[r]) \subseteq Reply
  BY <1>1 DEF Frames
<1> QED BY <1>2, ReplyWeaker DEF NoNewErrors, Shrinks

LEMMA ShrinksOffers ==
  ASSUME NEW S \in {Request, Reply}, NEW s \in Seq(S), NEW t, Shrinks(t, s) PROVE HasOffer(t) => HasOffer(s)
<1>1. Frames(s) \subseteq S
  BY DEF Frames
<1>2. CASE S = Request
  BY Zenon, <1>1, <1>2, RequestWeaker DEF HasOffer, IsOffer, Shrinks
<1>3. CASE S = Reply
  BY <1>1, <1>3, ReplyWeaker DEF HasOffer, IsOffer, Shrinks
<1> QED BY Zenon, <1>2, <1>3

LEMMA ShrinksCalls ==
  ASSUME PhoneInv, \A r \in Routes : Shrinks(c2d'[r], c2d[r]) PROVE HasCall' => HasCall
<1>1. c2d \in [Routes -> Seq(Request)]
  BY Zenon, PhoneTypesAre DEF PhoneInv
<1>2. \A r \in Routes : Frames(c2d[r]) \subseteq Request
  BY <1>1 DEF Frames
<1> QED BY <1>2, RequestWeaker DEF HasCall, Shrinks

LEMMA CalmStep ==
  ASSUME PhoneInv, PhoneTypes', HostInv', RouteInv', Calm, CallGoesOn \/ CallEnds,
         \A r \in Routes : Shrinks(d2c'[r], d2c[r]), HasCall' => HasCall,
         call'.ran = call.ran,
         up'.phase \in {"committing", "committed", "probing"} =>
           /\ up'.relay = up.relay
           /\ up.phase \in {"committing", "committed", "probing"} \/ pending[up.relay] = {}
  PROVE  PhoneInv'
BY Zenon, AnswerStep, ShrinksErrors
-----------------------------------------------------------------------------
(* What the shared operations do.                                          *)

LEMMA RetireFacts ==
  ASSUME PhoneInv, NEW gone, NEW code \in Codes, NEW p \in [Routes -> SUBSET Ops],
         NEW d \in [Routes -> Seq(Reply)], Retire(gone, code, p, d),
         \A r \in Routes : Shrinks(d[r], d2c[r]),
         call.st = "sent" => "call" \in p[call.route],
         call.st = "sent" /\ call.route \in gone /\ host.may \cap {"drop", "close"} = {} => code = "uncertain",
         call.st = "sent" /\ call.route \notin gone => host'.transport = host.transport
  PROVE  /\ live' \subseteq Routes /\ wire' \subseteq Routes /\ pending' \in [Routes -> SUBSET Ops]
         /\ d2c' \in [Routes -> Seq(Reply)] /\ \A r \in Routes : Shrinks(d2c'[r], d2c[r])
         /\ call' \in CallRec /\ call'.ran = call.ran
         /\ CallGoesOn \/ CallEnds
<1>1. /\ live \subseteq Routes /\ wire \subseteq Routes /\ call \in CallRec
  BY Zenon, PhoneTypesAre DEF PhoneInv
<1>2. /\ live' \subseteq Routes /\ wire' \subseteq Routes /\ pending' \in [Routes -> SUBSET Ops]
      /\ d2c' \in [Routes -> Seq(Reply)] /\ \A r \in Routes : Shrinks(d2c'[r], d2c[r])
  BY <1>1, EmptyShrinks DEF Retire
<1>3. CASE call.st = "sent" /\ call.route \in gone
  <2>1. call' = [call EXCEPT !.st = "done", !.route = None, !.res = Delivery(code)]
    BY Zenon, <1>3 DEF Retire, Returned
  <2>2. Delivery(code) \in {"unknown", "failed"} /\ (code = "uncertain" => Delivery(code) = "unknown")
    BY Zenon DEF Delivery
  <2>3. call' \in CallRec /\ call'.ran = call.ran /\ call'.st = "done" /\ call'.res = Delivery(code)
    BY Zenon, <1>1, <2>1, <2>2 DEF CallRec
  <2>4. CallEnds
    BY Zenon, <1>3, <2>2, <2>3 DEF CallEnds
  <2> QED BY Zenon, <1>2, <2>3, <2>4
<1>4. CASE ~ (call.st = "sent" /\ call.route \in gone)
  <2>1. call' = call
    BY Zenon, <1>4 DEF Retire
  <2>2. CallGoesOn
    <3> SUFFICES ASSUME call.st = "sent" PROVE host'.transport = host.transport /\ call.route \in live'
                                               /\ "call" \in pending'[call.route]
      BY Zenon, <2>1 DEF CallGoesOn
    <3>1. call.route \in live /\ call.route \in Routes /\ call.route \notin gone
      BY Zenon, <1>1, <1>4 DEF PhoneInv, CallInv
    <3> QED BY Zenon, <3>1 DEF Retire
  <2> QED BY Zenon, <1>1, <1>2, <2>1, <2>2
<1> QED BY Zenon, <1>3, <1>4

LEMMA ScheduleFacts ==
  ASSUME NEW h \in HostRec, NEW n, n = ScheduleReconnect(h)
  PROVE  /\ n \in HostRec /\ n.may = h.may /\ n.stopped = h.stopped /\ n.connecting = h.connecting
         /\ n.transport = h.transport /\ n.deferred = h.deferred
         /\ n.timer => h.timer \/ n.connecting = None
BY Zenon DEF ScheduleReconnect, HostRec

LEMMA FinishFacts ==
  ASSUME NEW h \in HostRec, NEW code \in Codes, code # "kicked", NEW n, n = FinishDisconnect(h, code)
  PROVE  /\ n \in HostRec /\ n.may = h.may /\ n.stopped = h.stopped /\ n.connecting = h.connecting
         /\ n.transport = None /\ n.deferred = h.deferred
         /\ n.timer => h.timer \/ n.connecting = None
<1> DEFINE k == [h EXCEPT !.transport = None, !.checking = TRUE]
<1>1. /\ k \in HostRec /\ k.may = h.may /\ k.stopped = h.stopped /\ k.connecting = h.connecting
      /\ k.transport = None /\ k.deferred = h.deferred /\ k.timer = h.timer
  BY Zenon DEF HostRec
<1>2. n = ScheduleReconnect(k)
  BY Zenon DEF FinishDisconnect
<1> HIDE DEF k
<1> QED BY Zenon, <1>1, <1>2, ScheduleFacts

LEMMA OnDisconnectFacts ==
  ASSUME NEW h \in HostRec, NEW r \in Routes, NEW code \in Codes, code = "kicked" => h.transport # r,
         NEW n, n = OnDisconnect(h, r, code)
  PROVE  /\ n \in HostRec /\ n.may = h.may /\ n.stopped = h.stopped /\ n.connecting = h.connecting
         /\ n.transport = IF h.transport = r /\ ~ h.stopped /\ ~ Switching THEN None ELSE h.transport
         /\ n.deferred = IF h.transport = r /\ ~ h.stopped /\ Switching THEN code ELSE h.deferred
         /\ n.timer => h.timer \/ (n.transport = None /\ n.connecting = None)
<1>1. CASE h.stopped \/ h.transport # r
  BY Zenon, <1>1 DEF OnDisconnect
<1>2. CASE ~ h.stopped /\ h.transport = r /\ Switching
  BY Zenon, <1>2 DEF OnDisconnect, HostRec
<1>3. CASE ~ h.stopped /\ h.transport = r /\ ~ Switching
  <2>1. n = FinishDisconnect(h, code) /\ code # "kicked"
    BY Zenon, <1>3 DEF OnDisconnect
  <2>2. /\ n \in HostRec /\ n.may = h.may /\ n.stopped = h.stopped /\ n.connecting = h.connecting
        /\ n.transport = None /\ n.deferred = h.deferred
        /\ n.timer => h.timer \/ n.connecting = None
    BY Zenon, <2>1, FinishFacts
  <2> QED BY Zenon, <1>3, <2>2
<1> QED BY Zenon, <1>1, <1>2, <1>3

LEMMA DisconnectKeeps ==
  ASSUME PhoneInv, NEW h \in HostRec, h.transport = host.transport, h.stopped = host.stopped,
         h.connecting = host.connecting, h.deferred = host.deferred, h.may = host.may, h.timer = host.timer,
         NEW r \in Routes, NEW code \in Codes, code = "kicked" => host.transport # r,
         host.transport = r /\ host.may \cap {"drop", "close"} = {} => code = "uncertain",
         Disconnect(h, r, code),
         up' \in UpRec, up'.phase = up.phase, up'.relay = up.relay, up'.cand = up.cand, dm' = dm
  PROVE  PhoneInv'
<1>1. /\ host \in HostRec /\ dm \in DmRec /\ call \in CallRec /\ live \subseteq Routes /\ wire \subseteq Routes
      /\ pending \in [Routes -> SUBSET Ops] /\ d2c \in [Routes -> Seq(Reply)] /\ c2d \in [Routes -> Seq(Request)]
      /\ probe \in Routes \cup {None} /\ retry \in RelayRoutes \cup {None}
  BY Zenon, PhoneTypesAre DEF PhoneInv
<1>2. c2d' = c2d /\ Retire({r}, code, pending, d2c)
  BY Zenon DEF Disconnect
<1>3. /\ host' \in HostRec /\ host'.may = host.may /\ host'.stopped = host.stopped
      /\ host'.connecting = host.connecting
      /\ host'.transport = IF host.transport = r /\ ~ host.stopped /\ ~ Switching THEN None ELSE host.transport
      /\ host'.deferred = IF host.transport = r /\ ~ host.stopped /\ Switching THEN code ELSE host.deferred
      /\ host'.timer => host.timer \/ (host'.transport = None /\ host'.connecting = None)
  <2>1. host' = OnDisconnect(h, r, code)
    BY Zenon DEF Disconnect
  <2> QED BY <2>1, OnDisconnectFacts
<1>4. live' = live \ {r} /\ wire' = wire \ {r}
  BY Zenon, <1>2 DEF Retire
<1>5. call.st = "sent" => "call" \in pending[call.route] /\ call.route = host.transport
  BY Zenon DEF PhoneInv, CallInv
<1>6. /\ pending' \in [Routes -> SUBSET Ops]
      /\ d2c' \in [Routes -> Seq(Reply)] /\ \A x \in Routes : Shrinks(d2c'[x], d2c[x])
      /\ call' \in CallRec /\ call'.ran = call.ran
      /\ CallGoesOn \/ CallEnds
  <2>1. \A x \in Routes : Shrinks(d2c[x], d2c[x])
    BY Zenon, SameShrinks
  <2>2. call.st = "sent" /\ call.route \notin {r} => host'.transport = host.transport
    BY Zenon, <1>3, <1>5
  <2> QED BY Zenon, <1>1, <1>2, <1>5, <2>1, <2>2, RetireFacts
<1>7. probe' \in Routes \cup {None} /\ retry' \in RelayRoutes \cup {None}
  BY Zenon, <1>1 DEF Disconnect, Dispose
<1>8. PhoneTypes'
  BY Zenon, <1>1, <1>2, <1>3, <1>4, <1>6, <1>7, PhoneTypesNext
<1>9. HostInv'
  BY <1>1, <1>3, <1>4, PhoneAssumption DEF PhoneInv, HostInv, Switching, Codes, Routes, None
<1>10. RouteInv'
  BY Zenon, <1>3, <1>4 DEF PhoneInv, RouteInv, HostInv, Switching
<1>11. Calm
  <2>1. \A x \in Routes : Adds(c2d'[x], c2d[x])
    BY Zenon, <1>2, SameShrinks, ShrinksAdds
  <2>2. up'.cand = None \/ (up'.cand = up.cand /\ up'.relay = up.relay /\ up.phase # "none")
    BY Zenon DEF PhoneInv, HostInv
  <2> QED BY Zenon, <1>3, <1>6, <2>1, <2>2, ShrinksAdds DEF Calm, OffersCalm, RoutesCalm
<1>12. HasCall' => HasCall
  BY Zenon, <1>2 DEF HasCall
<1> QED BY Zenon, <1>6, <1>8, <1>9, <1>10, <1>11, <1>12, CalmStep

LEMMA AttemptFacts ==
  /\ NoAttempt \in UpRec /\ NoAttempt.phase = "none" /\ NoAttempt.cand = None
  /\ \A r \in RelayRoutes : /\ Attempt(r) \in UpRec /\ Attempt(r).phase = "creating"
                             /\ Attempt(r).relay = r /\ Attempt(r).cand = None
<1>1. NoAttempt \in UpRec /\ NoAttempt.phase = "none" /\ NoAttempt.cand = None
  BY Zenon DEF NoAttempt, UpRec
<1>2. ASSUME NEW r \in RelayRoutes
      PROVE  /\ Attempt(r) \in UpRec /\ Attempt(r).phase = "creating"
             /\ Attempt(r).relay = r /\ Attempt(r).cand = None
  BY Zenon DEF Attempt, NoAttempt, UpRec
<1> QED BY Zenon, <1>1, <1>2

LEMMA HostAfterFacts ==
  ASSUME PhoneInv, NEW n, n = HostAfter
  PROVE  /\ n \in HostRec /\ n.may = host.may /\ n.stopped = host.stopped /\ n.connecting = host.connecting
         /\ n.deferred \in {host.deferred, None} /\ n.transport \in {host.transport, None}
         /\ n.timer => host.timer \/ (n.transport = None /\ n.connecting = None)
         /\ n.transport # host.transport => host.transport \notin live \cup wire
<1>1. host \in HostRec
  BY Zenon, PhoneTypesAre DEF PhoneInv
<1>2. CASE Switching /\ host.deferred # None /\ host.transport # None
  <2> DEFINE k == [host EXCEPT !.deferred = None]
  <2>1. /\ k \in HostRec /\ k.may = host.may /\ k.stopped = host.stopped /\ k.connecting = host.connecting
        /\ k.deferred = None /\ k.timer = host.timer
    BY Zenon, <1>1 DEF HostRec
  <2>2. n = FinishDisconnect(k, host.deferred) /\ host.deferred \in Codes /\ host.deferred # "kicked"
    BY Zenon, <1>1, <1>2 DEF HostAfter, HostRec, PhoneInv, HostInv
  <2> HIDE DEF k
  <2>3. /\ n \in HostRec /\ n.may = host.may /\ n.stopped = host.stopped /\ n.connecting = host.connecting
        /\ n.transport = None /\ n.deferred = None
        /\ n.timer => host.timer \/ n.connecting = None
    BY <2>1, <2>2, FinishFacts
  <2>4. host.transport \notin live \cup wire
    BY Zenon, <1>2 DEF PhoneInv, HostInv, RouteInv
  <2> QED BY Zenon, <2>3, <2>4
<1>3. CASE ~ (Switching /\ host.deferred # None /\ host.transport # None)
  BY Zenon, <1>1, <1>3 DEF HostAfter
<1> QED BY Zenon, <1>2, <1>3

LEMMA FailKeeps ==
  ASSUME PhoneInv, up.phase # "none", AttemptFails,
         NEW p \in [Routes -> SUBSET Ops], NEW d \in [Routes -> Seq(Reply)],
         \A r \in Routes : Shrinks(d[r], d2c[r]), call.st = "sent" => "call" \in p[call.route],
         Retire({up.cand} \ {None}, "closed", p, d),
         c2d' \in [Routes -> Seq(Request)], \A r \in Routes : Shrinks(c2d'[r], c2d[r]),
         dm' \in {dm, [dm EXCEPT !.awaited = FALSE]},
         up.phase # "offering" \/ (/\ ~ dm'.awaited
                                   /\ \A r \in Routes : ~ HasOffer(c2d'[r]) /\ ~ HasOffer(d2c'[r]))
  PROVE  PhoneInv'
<1>1. /\ host \in HostRec /\ up \in UpRec /\ dm \in DmRec /\ call \in CallRec
      /\ live \subseteq Routes /\ wire \subseteq Routes
      /\ probe \in Routes \cup {None} /\ retry \in RelayRoutes \cup {None}
  BY Zenon, PhoneTypesAre DEF PhoneInv
<1>2. /\ host' \in HostRec /\ host'.may = host.may /\ host'.stopped = host.stopped
      /\ host'.connecting = host.connecting
      /\ host'.deferred \in {host.deferred, None} /\ host'.transport \in {host.transport, None}
      /\ host'.timer => host.timer \/ (host'.transport = None /\ host'.connecting = None)
      /\ host'.transport # host.transport => host.transport \notin live \cup wire
  <2>1. host' = HostAfter
    BY Zenon DEF AttemptFails
  <2> QED BY Zenon, <2>1, HostAfterFacts
<1>3. \/ up' = NoAttempt
      \/ up' = Attempt(host'.transport) /\ host'.transport \in RelayRoutes
  BY Zenon DEF AttemptFails, CanAutoUpgrade
<1>4. /\ up' \in UpRec /\ up'.cand = None /\ up'.phase \in {"none", "creating"}
      /\ up'.phase # "none" => up'.relay = host'.transport /\ host'.transport \in RelayRoutes
  BY <1>3, AttemptFacts
<1>5. call.st = "sent" => /\ call.route = host.transport /\ call.route \in live
                          /\ call.route \notin {up.cand} \ {None}
  BY Zenon, <1>1 DEF PhoneInv, CallInv, HostInv, UpRec
<1>6. /\ live' \subseteq Routes /\ wire' \subseteq Routes /\ pending' \in [Routes -> SUBSET Ops]
      /\ d2c' \in [Routes -> Seq(Reply)] /\ \A r \in Routes : Shrinks(d2c'[r], d2c[r])
      /\ call' \in CallRec /\ call'.ran = call.ran
      /\ CallGoesOn \/ CallEnds
  <2>1. "closed" \in Codes
    BY Zenon DEF Codes
  <2>2. call.st = "sent" => host'.transport = host.transport
    BY Zenon, <1>2, <1>5
  <2> QED BY Zenon, <1>5, <2>1, <2>2, RetireFacts
<1>7. live' = live \ ({up.cand} \ {None}) /\ wire' = wire \ ({up.cand} \ {None})
  BY Zenon DEF Retire
<1>8. probe' \in Routes \cup {None} /\ retry' \in RelayRoutes \cup {None}
  BY Zenon, <1>1 DEF AttemptFails, UpRec
<1>9. dm' \in DmRec /\ dm'.serving = dm.serving /\ dm'.cand = dm.cand /\ dm'.committing = dm.committing
      /\ dm'.ready = dm.ready /\ dm'.offer = dm.offer /\ (dm'.awaited => dm.awaited)
  BY Zenon, <1>1 DEF DmRec
<1>10. PhoneTypes'
  BY Zenon, <1>2, <1>4, <1>6, <1>8, <1>9, PhoneTypesNext
<1>11. HostInv'
  BY Zenon, <1>1, <1>2, <1>4, PhoneAssumption DEF PhoneInv, HostInv, Switching, Routes, None
<1>12. RouteInv'
  <2>1. ~ Switching'
    BY Zenon, <1>4 DEF Switching
  <2> QED BY Zenon, <1>1, <1>2, <1>7, <2>1, PhoneAssumption DEF PhoneInv, RouteInv
<1>13. Calm
  BY Zenon, <1>2, <1>4, <1>6, <1>9, ShrinksAdds DEF Calm, OffersCalm, RoutesCalm
<1> QED BY Zenon, <1>4, <1>6, <1>10, <1>11, <1>12, <1>13, CalmStep, ShrinksCalls

LEMMA SendFacts ==
  ASSUME PhoneInv, NEW r \in Routes, NEW op \in Ops, Send(r, op)
  PROVE  /\ pending' \in [Routes -> SUBSET Ops] /\ \A x \in Routes : pending[x] \subseteq pending'[x]
         /\ op \in pending'[r]
         /\ c2d' \in [Routes -> Seq(Request)] /\ d2c' \in [Routes -> Seq(Reply)]
         /\ \A x \in Routes : Shrinks(d2c'[x], d2c[x])
         /\ op # "offer" => \A x \in Routes : Adds(c2d'[x], c2d[x])
         /\ op # "call" => (HasCall' => HasCall)
<1>1. /\ pending \in [Routes -> SUBSET Ops] /\ d2c \in [Routes -> Seq(Reply)] /\ c2d \in [Routes -> Seq(Request)]
  BY Zenon, PhoneTypesAre DEF PhoneInv
<1>2. /\ pending' \in [Routes -> SUBSET Ops] /\ \A x \in Routes : pending[x] \subseteq pending'[x]
      /\ op \in pending'[r]
  BY Zenon, <1>1 DEF Send
<1> DEFINE e == [op |-> op, awaited |-> TRUE]
           s == Forget(c2d[r], op)
           t == Forget(d2c[r], op)
<1>3. e \in Request /\ e.op = op
  BY Zenon DEF Request
<1>4. s \in Seq(Request) /\ Shrinks(s, c2d[r]) /\ t \in Seq(Reply) /\ Shrinks(t, d2c[r])
  BY Zenon, <1>1, ForgetShrinks
<1>5. c2d' = [c2d EXCEPT ![r] = Append(s, e)] /\ d2c' = [d2c EXCEPT ![r] = t]
  BY Zenon DEF Send
<1> HIDE DEF e, s, t
<1>6. /\ Append(s, e) \in Seq(Request) /\ Frames(Append(s, e)) = Frames(s) \cup {e}
      /\ OneOffer(s) /\ (IsOffer(e) => ~ HasOffer(s)) => OneOffer(Append(s, e))
  BY Zenon, <1>3, <1>4, AppendFrames
<1>7. d2c' \in [Routes -> Seq(Reply)] /\ \A x \in Routes : Shrinks(d2c'[x], d2c[x])
  BY Zenon, <1>1, <1>4, <1>5, SameShrinks
<1>8. c2d' \in [Routes -> Seq(Request)]
  BY Zenon, <1>1, <1>5, <1>6
<1>9. ASSUME op # "offer", NEW x \in Routes PROVE Adds(c2d'[x], c2d[x])
  <2>1. CASE x = r
    <3>1. c2d'[x] = Append(s, e)
      BY Zenon, <1>1, <1>5, <2>1
    <3>2. Adds(Append(s, e), c2d[r])
      <4>1. ~ IsOffer(e) /\ e.op # "offer" /\ ~ IsError(e, "kicked")
        BY Zenon, <1>3, <1>9 DEF IsOffer, IsError, Ops
      <4> QED BY Zenon, <1>4, <1>6, <4>1 DEF Adds, Shrinks
    <3> QED BY Zenon, <2>1, <3>1, <3>2
  <2>2. CASE x # r
    <3>1. c2d'[x] = c2d[x]
      BY Zenon, <1>1, <1>5, <2>2
    <3> QED BY Zenon, <3>1, SameShrinks, ShrinksAdds
  <2> QED BY Zenon, <2>1, <2>2
<1>10. ASSUME op # "call", HasCall' PROVE HasCall
  <2>1. PICK x \in Routes : \E f \in Frames(c2d'[x]) : f.op = "call"
    BY Zenon, <1>10 DEF HasCall
  <2>2. PICK f \in Frames(c2d'[x]) : f.op = "call"
    BY Zenon, <2>1
  <2>3. CASE x # r
    <3>1. c2d'[x] = c2d[x]
      BY Zenon, <1>1, <1>5, <2>3
    <3> QED BY Zenon, <2>2, <3>1 DEF HasCall
  <2>4. CASE x = r
    <3>1. c2d'[x] = Append(s, e)
      BY Zenon, <1>1, <1>5, <2>4
    <3>2. f \in Frames(s)
      BY Zenon, <1>3, <1>6, <1>10, <2>2, <3>1
    <3>3. PICK g \in Frames(c2d[r]) : Weaker(f, g)
      BY Zenon, <1>4, <3>2 DEF Shrinks
    <3>4. g \in Request
      BY <1>1, <3>3 DEF Frames
    <3> QED BY Zenon, <2>2, <3>3, <3>4, RequestWeaker DEF HasCall
  <2> QED BY Zenon, <2>3, <2>4
<1> QED BY Zenon, <1>2, <1>7, <1>8, <1>9, <1>10

LEMMA TimeoutFacts ==
  ASSUME PhoneInv, NEW r \in Routes, NEW op \in Ops, Timeout(r, op)
  PROVE  /\ pending' \in [Routes -> SUBSET Ops]
         /\ \A x \in Routes : "call" \in pending[x] /\ op # "call" => "call" \in pending'[x]
         /\ c2d' \in [Routes -> Seq(Request)] /\ d2c' \in [Routes -> Seq(Reply)]
         /\ \A x \in Routes : Shrinks(d2c'[x], d2c[x]) /\ Shrinks(c2d'[x], c2d[x])
<1>1. /\ pending \in [Routes -> SUBSET Ops] /\ d2c \in [Routes -> Seq(Reply)] /\ c2d \in [Routes -> Seq(Request)]
  BY Zenon, PhoneTypesAre DEF PhoneInv
<1> DEFINE s == Forget(c2d[r], op)
           t == Forget(d2c[r], op)
<1>4. s \in Seq(Request) /\ Shrinks(s, c2d[r]) /\ t \in Seq(Reply) /\ Shrinks(t, d2c[r])
  BY Zenon, <1>1, ForgetShrinks
<1>5. c2d' = [c2d EXCEPT ![r] = s] /\ d2c' = [d2c EXCEPT ![r] = t]
  BY Zenon DEF Timeout
<1> HIDE DEF s, t
<1>6. /\ pending' \in [Routes -> SUBSET Ops]
      /\ \A x \in Routes : "call" \in pending[x] /\ op # "call" => "call" \in pending'[x]
  BY Zenon, <1>1 DEF Timeout
<1> QED BY Zenon, <1>1, <1>4, <1>5, <1>6, SameShrinks

LEMMA TailFacts ==
  ASSUME PhoneInv, NEW r \in Routes, d2c[r] # <<>>, NEW d, d = [d2c EXCEPT ![r] = Tail(@)]
  PROVE  /\ d \in [Routes -> Seq(Reply)] /\ \A x \in Routes : Shrinks(d[x], d2c[x])
         /\ Head(d2c[r]) \in Reply /\ Head(d2c[r]) \in Frames(d2c[r])
<1>1. d2c \in [Routes -> Seq(Reply)]
  BY Zenon, PhoneTypesAre DEF PhoneInv
<1>2. /\ Tail(d2c[r]) \in Seq(Reply) /\ Shrinks(Tail(d2c[r]), d2c[r])
      /\ Head(d2c[r]) \in Reply /\ Head(d2c[r]) \in Frames(d2c[r])
  BY Zenon, <1>1, TailShrinks
<1> QED BY Zenon, <1>1, <1>2, SameShrinks

LEMMA AnsweredFacts ==
  ASSUME PhoneInv, NEW r \in Routes, NEW op \in Ops, Answered(r, op)
  PROVE  /\ pending' \in [Routes -> SUBSET Ops]
         /\ \A x \in Routes : "call" \in pending[x] /\ op # "call" => "call" \in pending'[x]
         /\ c2d' = c2d /\ d2c' \in [Routes -> Seq(Reply)]
         /\ \A x \in Routes : Shrinks(d2c'[x], d2c[x]) /\ Shrinks(c2d'[x], c2d[x])
<1>1. pending \in [Routes -> SUBSET Ops]
  BY Zenon, PhoneTypesAre DEF PhoneInv
<1>2. d2c[r] # <<>> /\ d2c' = [d2c EXCEPT ![r] = Tail(@)] /\ c2d' = c2d
  BY Zenon DEF Answered
<1>3. /\ pending' \in [Routes -> SUBSET Ops]
      /\ \A x \in Routes : "call" \in pending[x] /\ op # "call" => "call" \in pending'[x]
  BY Zenon, <1>1 DEF Answered
<1>4. d2c' \in [Routes -> Seq(Reply)] /\ \A x \in Routes : Shrinks(d2c'[x], d2c[x])
  BY Zenon, <1>2, TailFacts
<1> QED BY Zenon, <1>2, <1>3, <1>4, SameShrinks

(* A step of the phone that changes neither its transport nor an attempt   *)
(* under way.                                                              *)
LEMMA QuietStep ==
  ASSUME PhoneInv, dm' = dm,
         host' \in HostRec, host'.transport = host.transport, host'.may = host.may,
         host'.stopped = host.stopped, host'.deferred = host.deferred,
         host'.timer => host.timer \/ (host.transport = None /\ host'.connecting = None),
         host'.connecting = host.connecting \/ (host'.connecting = None /\ host.connecting \notin wire'),
         \/ up' \in UpRec /\ up'.phase = up.phase /\ up'.relay = up.relay /\ up'.cand = up.cand
         \/ up.phase = "none" /\ host.transport \in RelayRoutes /\ up' = Attempt(host.transport),
         probe' \in Routes \cup {None}, retry' \in RelayRoutes \cup {None},
         live' = live, wire' \subseteq wire, pending' \in [Routes -> SUBSET Ops],
         c2d' \in [Routes -> Seq(Request)], d2c' \in [Routes -> Seq(Reply)],
         \A r \in Routes : Adds(c2d'[r], c2d[r]) /\ Shrinks(d2c'[r], d2c[r]), HasCall' => HasCall,
         CallEnds \/ (call' = call /\ (call.st = "sent" => "call" \in pending'[call.route])),
         call' \in CallRec, call'.ran = call.ran
  PROVE  PhoneInv'
<1>1. /\ host \in HostRec /\ up \in UpRec /\ dm \in DmRec /\ live \subseteq Routes /\ wire \subseteq Routes
  BY Zenon, PhoneTypesAre DEF PhoneInv
<1>2. CallGoesOn \/ CallEnds
  BY Zenon DEF CallGoesOn, PhoneInv, CallInv
<1>3. /\ up' \in UpRec
      /\ \/ up'.phase = up.phase /\ up'.relay = up.relay /\ up'.cand = up.cand
         \/ /\ up.phase = "none" /\ host.transport \in RelayRoutes /\ up'.phase = "creating"
            /\ up'.relay = host.transport /\ up'.cand = None
  BY AttemptFacts
<1>4. PhoneTypes'
  BY Zenon, <1>1, <1>3, PhoneTypesNext
<1>5. HostInv'
  <2>1. CASE up'.phase = up.phase /\ up'.relay = up.relay /\ up'.cand = up.cand
    BY Zenon, <1>1, <2>1, PhoneAssumption DEF PhoneInv, HostInv, Switching, Routes
  <2>2. CASE /\ up.phase = "none" /\ host.transport \in RelayRoutes /\ up'.phase = "creating"
             /\ up'.relay = host.transport /\ up'.cand = None
    BY Zenon, <1>1, <2>2, PhoneAssumption DEF PhoneInv, HostInv, Switching, Routes
  <2> QED BY Zenon, <1>3, <2>1, <2>2
<1>6. RouteInv'
  <2>1. CASE up'.phase = up.phase /\ up'.relay = up.relay /\ up'.cand = up.cand
    BY Zenon, <1>1, <2>1 DEF PhoneInv, RouteInv, Switching
  <2>2. CASE up.phase = "none" /\ up'.phase = "creating"
    BY Zenon, <1>1, <2>2, PhoneAssumption DEF PhoneInv, RouteInv, HostInv, Switching
  <2> QED BY Zenon, <1>3, <2>1, <2>2
<1>7. Calm
  <2>1. up.phase = "none" => up.cand = None
    BY Zenon DEF PhoneInv, HostInv
  <2> QED BY Zenon, <1>3, <2>1, ShrinksAdds DEF Calm, OffersCalm, RoutesCalm
<1>8. up'.phase \in {"committing", "committed", "probing"} =>
           up'.relay = up.relay /\ up.phase \in {"committing", "committed", "probing"}
  BY Zenon, <1>3
<1> QED BY Zenon, <1>2, <1>4, <1>5, <1>6, <1>7, <1>8, CalmStep

-----------------------------------------------------------------------------
(* The steps of the phone.                                                 *)

LEMMA ReconnectKeeps ==
  ASSUME PhoneInv, NEW h \in HostRec, h.transport = host.transport, h.stopped = host.stopped,
         h.connecting = host.connecting, h.deferred = host.deferred, h.may = host.may, h.timer = host.timer,
         ReconnectNow(h), UNCHANGED <<up, live, wire, dm, call>>
  PROVE  PhoneInv'
<1>1. /\ host \in HostRec /\ up \in UpRec /\ call \in CallRec /\ live \subseteq Routes
      /\ pending \in [Routes -> SUBSET Ops] /\ d2c \in [Routes -> Seq(Reply)] /\ c2d \in [Routes -> Seq(Request)]
      /\ probe \in Routes \cup {None} /\ retry \in RelayRoutes \cup {None}
  BY Zenon, PhoneTypesAre DEF PhoneInv
<1>2. retry' \in RelayRoutes \cup {None}
  BY Zenon, <1>1 DEF ReconnectNow
<1>3. call.st = "sent" => "call" \in pending[call.route] /\ call.route \in Routes
  BY Zenon, <1>1 DEF PhoneInv, CallInv
<1>4. CASE UNCHANGED <<pending, c2d, d2c>> /\ probe' \in {probe, None}
    /\ host' \in {h, [h EXCEPT !.requested = TRUE], [h EXCEPT !.checking = TRUE]}
  <2>1. /\ host' \in HostRec /\ host'.transport = host.transport /\ host'.may = host.may
        /\ host'.stopped = host.stopped /\ host'.deferred = host.deferred /\ host'.timer = host.timer
        /\ host'.connecting = host.connecting
    BY Zenon, <1>4 DEF HostRec
  <2>2. HasCall' => HasCall
    BY Zenon, <1>4 DEF HasCall
  <2>3. \A r \in Routes : Adds(c2d'[r], c2d[r]) /\ Shrinks(d2c'[r], d2c[r])
    BY Zenon, <1>4, SameShrinks, ShrinksAdds
  <2> QED BY Zenon, <1>1, <1>2, <1>3, <1>4, <2>1, <2>2, <2>3, QuietStep
<1>5. CASE UNCHANGED <<pending, c2d, d2c, probe>> /\ h.transport = None /\ host' = ScheduleReconnect(h)
  <2>1. /\ host' \in HostRec /\ host'.transport = host.transport /\ host'.may = host.may
        /\ host'.stopped = host.stopped /\ host'.deferred = host.deferred
        /\ host'.connecting = host.connecting /\ (host'.timer => host.timer \/ host'.connecting = None)
    BY Zenon, <1>5, ScheduleFacts
  <2>2. HasCall' => HasCall
    BY Zenon, <1>5 DEF HasCall
  <2>3. \A r \in Routes : Adds(c2d'[r], c2d[r]) /\ Shrinks(d2c'[r], d2c[r])
    BY Zenon, <1>5, SameShrinks, ShrinksAdds
  <2> QED BY Zenon, <1>1, <1>2, <1>3, <1>5, <2>1, <2>2, <2>3, QuietStep
<1>6. CASE /\ host' = [h EXCEPT !.checking = TRUE] /\ h.transport \in live
           /\ probe' = h.transport /\ Send(h.transport, "health")
  <2>1. /\ host' \in HostRec /\ host'.transport = host.transport /\ host'.may = host.may
        /\ host'.stopped = host.stopped /\ host'.deferred = host.deferred /\ host'.timer = host.timer
        /\ host'.connecting = host.connecting
    BY Zenon, <1>6 DEF HostRec
  <2>2. h.transport \in Routes /\ "health" \in Ops /\ "health" # "offer" /\ "health" # "call"
    BY Zenon, <1>1, <1>6 DEF Ops
  <2>3. /\ pending' \in [Routes -> SUBSET Ops] /\ \A x \in Routes : pending[x] \subseteq pending'[x]
        /\ c2d' \in [Routes -> Seq(Request)] /\ d2c' \in [Routes -> Seq(Reply)]
        /\ \A x \in Routes : Adds(c2d'[x], c2d[x]) /\ Shrinks(d2c'[x], d2c[x])
        /\ HasCall' => HasCall
    BY Zenon, <1>6, <2>2, SendFacts
  <2>4. probe' \in Routes \cup {None}
    BY Zenon, <1>6, <2>2
  <2> QED BY Zenon, <1>1, <1>2, <1>3, <2>1, <2>3, <2>4, QuietStep
<1> QED BY Zenon, <1>4, <1>5, <1>6 DEF ReconnectNow, StartProbe

LEMMA OnlineKeeps ==
  ASSUME PhoneInv, Online \/ Show PROVE PhoneInv'
<1>1. host \in HostRec
  BY Zenon, PhoneTypesAre DEF PhoneInv
<1>2. CASE Online
  <2> DEFINE h == [host EXCEPT !.net = TRUE]
  <2>1. /\ h \in HostRec /\ h.transport = host.transport /\ h.stopped = host.stopped
        /\ h.connecting = host.connecting /\ h.deferred = host.deferred /\ h.may = host.may
        /\ h.timer = host.timer
    BY Zenon, <1>1 DEF HostRec
  <2>2. ReconnectNow(h) /\ UNCHANGED <<up, live, wire, dm, call>>
    BY Zenon, <1>2 DEF Online
  <2> HIDE DEF h
  <2> QED BY Zenon, <2>1, <2>2, ReconnectKeeps
<1>3. CASE Show
  <2> DEFINE h == [host EXCEPT !.hidden = FALSE]
  <2>1. /\ h \in HostRec /\ h.transport = host.transport /\ h.stopped = host.stopped
        /\ h.connecting = host.connecting /\ h.deferred = host.deferred /\ h.may = host.may
        /\ h.timer = host.timer
    BY ZenonT(30), <1>1 DEF HostRec
  <2>2. ReconnectNow(h) /\ UNCHANGED <<up, live, wire, dm, call>>
    BY Zenon, <1>3 DEF Show
  <2> HIDE DEF h
  <2> QED BY Zenon, <2>1, <2>2, ReconnectKeeps
<1> QED BY Zenon, <1>2, <1>3

LEMMA SameFrames ==
  /\ UNCHANGED c2d => (\A r \in Routes : Adds(c2d'[r], c2d[r]) /\ Shrinks(c2d'[r], c2d[r])) /\ (HasCall' => HasCall)
  /\ UNCHANGED d2c => \A r \in Routes : Shrinks(d2c'[r], d2c[r])
BY Zenon, SameShrinks, ShrinksAdds DEF HasCall

LEMMA HideKeeps ==
  ASSUME PhoneInv, Hide PROVE PhoneInv'
<1>1. PhoneTypes
  BY Zenon DEF PhoneInv
<1>2. /\ host' \in HostRec /\ host'.transport = host.transport /\ host'.may = host.may
      /\ host'.stopped = host.stopped /\ host'.deferred = host.deferred /\ host'.timer = FALSE
      /\ host'.connecting = host.connecting
  BY Zenon, <1>1, PhoneTypesAre DEF HostRec, Hide
<1>3. UNCHANGED <<up, live, wire, pending, c2d, d2c, dm, call>> /\ probe' = None /\ retry' = None
  BY Zenon DEF Hide
<1>4. call.st = "sent" => "call" \in pending[call.route]
  BY Zenon DEF PhoneInv, CallInv
<1> QED BY Zenon, <1>1, <1>2, <1>3, <1>4, PhoneTypesAre, SameFrames, QuietStep

LEMMA StartFacts ==
  ASSUME PhoneInv, NEW h \in HostRec, NEW r, StartUpgrade(h, r)
  PROVE  /\ \/ up' = up
            \/ up.phase = "none" /\ h.transport \in RelayRoutes /\ up' = Attempt(h.transport)
         /\ retry' \in RelayRoutes \cup {None}
<1>1. retry \in RelayRoutes \cup {None}
  BY Zenon, PhoneTypesAre DEF PhoneInv
<1> QED BY Zenon, <1>1 DEF StartUpgrade, CanAutoUpgrade

LEMMA ChooseAutoKeeps ==
  ASSUME PhoneInv, ChooseAuto PROVE PhoneInv'
<1>1. PhoneTypes
  BY Zenon DEF PhoneInv
<1> DEFINE h == [host EXCEPT !.mode = "auto"]
<1>2. /\ h \in HostRec /\ h.transport = host.transport /\ h.may = host.may
      /\ h.stopped = host.stopped /\ h.deferred = host.deferred /\ h.timer = host.timer
      /\ h.connecting = host.connecting
  BY Zenon, <1>1, PhoneTypesAre DEF HostRec
<1>3. /\ UNCHANGED <<live, wire, probe, pending, c2d, d2c, dm, call>> /\ host' = h
      /\ StartUpgrade(h, host.transport)
  BY Zenon DEF ChooseAuto
<1> HIDE DEF h
<1>4. call.st = "sent" => "call" \in pending[call.route]
  BY Zenon DEF PhoneInv, CallInv
<1>5. /\ \/ up' = up
         \/ up.phase = "none" /\ host.transport \in RelayRoutes /\ up' = Attempt(host.transport)
      /\ retry' \in RelayRoutes \cup {None}
  BY Zenon, <1>2, <1>3, StartFacts
<1> QED BY Zenon, <1>1, <1>2, <1>3, <1>4, <1>5, PhoneTypesAre, SameFrames, QuietStep

LEMMA RetryFiresKeeps ==
  ASSUME PhoneInv, RetryFires PROVE PhoneInv'
<1>1. PhoneTypes
  BY Zenon DEF PhoneInv
<1>3. UNCHANGED <<host, live, wire, probe, pending, c2d, d2c, dm, call>> /\ retry' = None
  BY Zenon DEF RetryFires
<1>4. call.st = "sent" => "call" \in pending[call.route]
  BY Zenon DEF PhoneInv, CallInv
<1>5. \/ up' = up
      \/ up.phase = "none" /\ host.transport \in RelayRoutes /\ up' = Attempt(host.transport)
  BY Zenon DEF RetryFires, CanAutoUpgrade
<1> QED BY Zenon, <1>1, <1>3, <1>4, <1>5, PhoneTypesAre, SameFrames, QuietStep

LEMMA ChooseRelayKeeps ==
  ASSUME PhoneInv, ChooseRelay PROVE PhoneInv'
<1>1. PhoneTypes
  BY Zenon DEF PhoneInv
<1> DEFINE h == [host EXCEPT !.mode = "relay"]
<1>2. /\ h \in HostRec /\ h.transport = host.transport /\ h.may = host.may
      /\ h.stopped = host.stopped /\ h.deferred = host.deferred /\ h.timer = host.timer
      /\ h.connecting = host.connecting
  BY ZenonT(30), <1>1, PhoneTypesAre DEF HostRec
<1>3. dm' = dm /\ up' \in UpRec /\ up'.phase = up.phase /\ up'.relay = up.relay /\ up'.cand = up.cand
  <2> DEFINE b == up.phase \in {"creating", "offering"}
  <2>1. b \in BOOLEAN
    OBVIOUS
  <2>2. dm' = dm /\ up' = [up EXCEPT !.aborted = b]
    BY DEF ChooseRelay
  <2> HIDE DEF b
  <2>3. up \in UpRec
    BY Zenon, <1>1, PhoneTypesAre
  <2> QED BY Zenon, <2>1, <2>2, <2>3 DEF UpRec
<1>4. \/ host.transport \in live /\ Disconnect(h, host.transport, "uncertain")
      \/ host' = h /\ retry' = None /\ UNCHANGED <<probe, live, wire, pending, c2d, d2c, call>>
  BY Zenon DEF ChooseRelay
<1> HIDE DEF h
<1>5. CASE host.transport \in live /\ Disconnect(h, host.transport, "uncertain")
  <2>1. host.transport \in Routes /\ "uncertain" \in Codes
    BY Zenon, <1>1, <1>5, PhoneTypesAre DEF Codes
  <2> QED BY Zenon, <1>2, <1>3, <1>5, <2>1, DisconnectKeeps
<1>6. CASE host' = h /\ retry' = None /\ UNCHANGED <<probe, live, wire, pending, c2d, d2c, call>>
  <2>1. call.st = "sent" => "call" \in pending[call.route]
    BY Zenon DEF PhoneInv, CallInv
  <2> QED BY Zenon, <1>1, <1>2, <1>3, <1>6, <2>1, PhoneTypesAre, SameFrames, QuietStep
<1> QED BY Zenon, <1>4, <1>5, <1>6

LEMMA OfflineKeeps ==
  ASSUME PhoneInv, Offline PROVE PhoneInv'
<1>1. /\ host \in HostRec /\ up \in UpRec /\ dm \in DmRec /\ call \in CallRec
      /\ live \subseteq Routes /\ wire \subseteq Routes
      /\ pending \in [Routes -> SUBSET Ops] /\ d2c \in [Routes -> Seq(Reply)] /\ c2d \in [Routes -> Seq(Request)]
  BY Zenon, PhoneTypesAre DEF PhoneInv
<1> DEFINE h == [host EXCEPT !.net = FALSE, !.timer = FALSE]
           r == host.transport
           gone == {r, host.connecting} \ {None}
<1>2. /\ h \in HostRec /\ h.transport = host.transport /\ h.may = host.may
      /\ h.stopped = host.stopped /\ h.deferred = host.deferred /\ h.timer = FALSE
      /\ h.connecting = host.connecting
  BY Zenon, <1>1 DEF HostRec
<1>3. /\ Retire(gone, "uncertain", pending, d2c) /\ probe' = None /\ retry' = None
      /\ up' = up /\ c2d' = c2d /\ dm' = dm
      /\ host' = IF r \in live THEN OnDisconnect(h, r, "uncertain") ELSE h
  BY Zenon DEF Offline
<1> HIDE DEF h
<1>4. /\ host' \in HostRec /\ host'.may = host.may /\ host'.stopped = host.stopped
      /\ host'.connecting = host.connecting /\ host'.transport \in {host.transport, None}
      /\ host'.deferred = (IF r \in live /\ ~ host.stopped /\ Switching THEN "uncertain" ELSE host.deferred)
      /\ Switching => host'.transport = host.transport
      /\ host'.timer => host'.transport = None /\ host'.connecting = None
  <2>1. CASE r \in live
    <3>1. r \in Routes /\ "uncertain" \in Codes /\ "uncertain" # "kicked"
      BY Zenon, <1>1, <2>1 DEF Codes
    <3>2. host' = OnDisconnect(h, r, "uncertain")
      BY Zenon, <1>3, <2>1
    <3> QED BY <1>2, <2>1, <3>1, <3>2, OnDisconnectFacts
  <2>2. CASE r \notin live
    BY Zenon, <1>2, <1>3, <2>2
  <2> QED BY Zenon, <2>1, <2>2
<1>5. live' = live \ gone /\ wire' = wire \ gone
  BY Zenon, <1>3 DEF Retire
<1>6. call.st = "sent" => "call" \in pending[call.route] /\ call.route \in gone
  BY Zenon, <1>1, PhoneAssumption DEF PhoneInv, CallInv
<1>7. /\ pending' \in [Routes -> SUBSET Ops]
      /\ d2c' \in [Routes -> Seq(Reply)] /\ \A x \in Routes : Shrinks(d2c'[x], d2c[x])
      /\ call' \in CallRec /\ call'.ran = call.ran
      /\ CallGoesOn \/ CallEnds
  <2>1. \A x \in Routes : Shrinks(d2c[x], d2c[x])
    BY Zenon, SameShrinks
  <2>2. "uncertain" \in Codes
    BY Zenon DEF Codes
  <2> QED BY ZenonT(30), <1>1, <1>3, <1>6, <2>1, <2>2, RetireFacts
<1>8. PhoneTypes'
  BY Zenon, <1>1, <1>3, <1>4, <1>5, <1>7, PhoneTypesNext
<1>9. HostInv'
  BY <1>1, <1>3, <1>4, <1>5, PhoneAssumption DEF PhoneInv, HostInv, Switching, Routes, None
<1>10. RouteInv'
  BY <1>1, <1>3, <1>4, <1>5, PhoneAssumption DEF PhoneInv, RouteInv, HostInv, Switching
<1>11. Calm
  <2>1. up.phase = "none" => up.cand = None
    BY Zenon DEF PhoneInv, HostInv
  <2> QED BY Zenon, <1>3, <1>4, <1>7, <2>1, SameFrames, ShrinksAdds DEF Calm, OffersCalm, RoutesCalm
<1>12. up'.phase \in {"committing", "committed", "probing"} =>
           up'.relay = up.relay /\ up.phase \in {"committing", "committed", "probing"}
  BY Zenon, <1>3
<1> QED BY Zenon, <1>3, <1>7, <1>8, <1>9, <1>10, <1>11, <1>12, SameFrames, CalmStep

LEMMA CloseKeeps ==
  ASSUME PhoneInv, Close PROVE PhoneInv'
<1>1. /\ host \in HostRec /\ up \in UpRec /\ dm \in DmRec /\ call \in CallRec
      /\ live \subseteq Routes /\ wire \subseteq Routes
      /\ pending \in [Routes -> SUBSET Ops] /\ d2c \in [Routes -> Seq(Reply)] /\ c2d \in [Routes -> Seq(Request)]
  BY Zenon, PhoneTypesAre DEF PhoneInv
<1> DEFINE gone == {host.transport, host.connecting} \ {None}
<1>2. /\ host' \in HostRec /\ host'.may = host.may /\ host'.stopped /\ host'.connecting = host.connecting
      /\ host'.transport = None /\ host'.deferred = host.deferred /\ ~ host'.timer
  BY Zenon, <1>1 DEF Close, HostRec
<1>3. /\ Retire(gone, "closed", pending, d2c) /\ probe' = None /\ retry' = None
      /\ up' = up /\ c2d' = c2d /\ dm' = dm /\ "close" \in host.may
  BY Zenon DEF Close
<1>5. live' = live \ gone /\ wire' = wire \ gone
  BY Zenon, <1>3 DEF Retire
<1>6. call.st = "sent" => "call" \in pending[call.route] /\ call.route \in gone
  BY Zenon, <1>1, PhoneAssumption DEF PhoneInv, CallInv
<1>7. /\ pending' \in [Routes -> SUBSET Ops]
      /\ d2c' \in [Routes -> Seq(Reply)] /\ \A x \in Routes : Shrinks(d2c'[x], d2c[x])
      /\ call' \in CallRec /\ call'.ran = call.ran
      /\ CallGoesOn \/ CallEnds
  <2>1. \A x \in Routes : Shrinks(d2c[x], d2c[x])
    BY Zenon, SameShrinks
  <2>2. "closed" \in Codes /\ ~ (host.may \cap {"drop", "close"} = {})
    BY Zenon, <1>3 DEF Codes
  <2> QED BY ZenonT(30), <1>1, <1>3, <1>6, <2>1, <2>2, RetireFacts
<1>8. PhoneTypes'
  BY Zenon, <1>1, <1>2, <1>3, <1>5, <1>7, PhoneTypesNext
<1>9. HostInv'
  BY Zenon, <1>1, <1>2, <1>3, <1>5, PhoneAssumption DEF PhoneInv, HostInv, Switching, Routes, None
<1>10. RouteInv'
  BY Zenon, <1>1, <1>2, <1>3, <1>5, PhoneAssumption DEF PhoneInv, RouteInv, HostInv, Switching
<1>11. Calm
  <2>1. up.phase = "none" => up.cand = None
    BY Zenon DEF PhoneInv, HostInv
  <2> QED BY Zenon, <1>2, <1>3, <1>7, <2>1, SameFrames, ShrinksAdds DEF Calm, OffersCalm, RoutesCalm
<1>12. up'.phase \in {"committing", "committed", "probing"} =>
           up'.relay = up.relay /\ up.phase \in {"committing", "committed", "probing"}
  BY Zenon, <1>3
<1> QED BY Zenon, <1>3, <1>7, <1>8, <1>9, <1>10, <1>11, <1>12, SameFrames, CalmStep

LEMMA ClearFacts ==
  ASSUME PhoneInv, NEW r, NEW d, d = [d2c EXCEPT ![r] = <<>>]
  PROVE  d \in [Routes -> Seq(Reply)] /\ \A x \in Routes : Shrinks(d[x], d2c[x])
<1>1. d2c \in [Routes -> Seq(Reply)]
  BY Zenon, PhoneTypesAre DEF PhoneInv
<1>2. ASSUME NEW x \in Routes PROVE d[x] \in Seq(Reply) /\ Shrinks(d[x], d2c[x])
  <2>1. d[x] = d2c[x] \/ d[x] = <<>>
    BY Zenon, <1>1
  <2>2. <<>> \in Seq(Reply)
    OBVIOUS
  <2> QED BY <1>1, <2>1, <2>2, EmptyShrinks, SameShrinks
<1>3. DOMAIN d = Routes /\ d = [x \in DOMAIN d |-> d[x]]
  BY Zenon, <1>1
<1> QED BY Zenon, <1>2, <1>3

LEMMA ConnectFailsKeeps ==
  ASSUME PhoneInv, ConnectFails PROVE PhoneInv'
<1>1. PhoneTypes /\ host \in HostRec /\ d2c \in [Routes -> Seq(Reply)] /\ wire \subseteq Routes
  BY Zenon, PhoneTypesAre DEF PhoneInv
<1> DEFINE k == IF host.stopped \/ ~host.net \/ host.requested THEN Reconnected(host)
                ELSE [Reconnected(host) EXCEPT !.checking = FALSE]
<1>2. /\ k \in HostRec /\ k.transport = host.transport /\ k.may = host.may
      /\ k.stopped = host.stopped /\ k.deferred = host.deferred /\ k.connecting = None
  BY Zenon, <1>1 DEF HostRec, Reconnected
<1>3. /\ host.connecting # None /\ host' = ScheduleReconnect(k) /\ wire' = wire \ {host.connecting}
      /\ d2c' = [d2c EXCEPT ![host.connecting] = <<>>]
      /\ UNCHANGED <<up, probe, retry, live, pending, c2d, dm, call>>
  BY Zenon DEF ConnectFails
<1> HIDE DEF k
<1>4. /\ host' \in HostRec /\ host'.transport = host.transport /\ host'.may = host.may
      /\ host'.stopped = host.stopped /\ host'.deferred = host.deferred /\ host'.connecting = None
  BY Zenon, <1>2, <1>3, ScheduleFacts
<1>5. host.transport = None
  BY Zenon, <1>3 DEF PhoneInv, HostInv
<1>6. d2c' \in [Routes -> Seq(Reply)] /\ \A x \in Routes : Shrinks(d2c'[x], d2c[x])
  BY Zenon, <1>3, ClearFacts
<1>7. call.st = "sent" => "call" \in pending[call.route]
  BY Zenon DEF PhoneInv, CallInv
<1> QED BY Zenon, <1>1, <1>3, <1>4, <1>5, <1>6, <1>7, PhoneTypesAre, SameFrames, QuietStep

LEMMA TimerFiresKeeps ==
  ASSUME PhoneInv, NEW r \in RelayRoutes, TimerFires(r) PROVE PhoneInv'
<1>1. PhoneTypes /\ host \in HostRec /\ up \in UpRec /\ dm \in DmRec /\ wire \subseteq Routes
  BY Zenon, PhoneTypesAre DEF PhoneInv
<1>2. /\ host' \in HostRec /\ host'.transport = host.transport /\ host'.may = host.may
      /\ host'.stopped = host.stopped /\ host'.deferred = host.deferred /\ host'.connecting = r
      /\ host'.timer = FALSE
  BY ZenonT(30), <1>1 DEF TimerFires, HostRec
<1>3. wire' = wire \cup {r} /\ UNCHANGED <<up, probe, retry, live, pending, c2d, d2c, dm, call>>
  BY Zenon DEF TimerFires
<1>4. /\ r \in Routes /\ r # up.relay /\ r # dm.cand /\ r # dm.serving /\ d2c[r] = <<>>
      /\ host.transport = None /\ host.connecting = None
  BY Zenon DEF TimerFires, Fresh, Routes, PhoneInv, HostInv
<1>5. PhoneTypes'
  BY Zenon, <1>1, <1>2, <1>3, <1>4, PhoneTypesAre, PhoneTypesNext
<1>6. HostInv'
  BY Zenon, <1>2, <1>3, <1>4 DEF PhoneInv, HostInv, Switching
<1>7. RouteInv'
  <2>1. wire' \subseteq {host'.transport, host'.connecting, up'.cand}
    BY Zenon, <1>1, <1>2, <1>3, <1>4, PhoneAssumption DEF PhoneInv, RouteInv
  <2>2. None \notin wire'
    BY Zenon, <1>1, <1>3, <1>4, PhoneAssumption
  <2> QED BY Zenon, <1>2, <1>3, <1>4, <2>1, <2>2 DEF PhoneInv, RouteInv, Switching
<1>8. CallInv' /\ NoCallIsCutOff'
  BY Zenon, <1>2, <1>3 DEF PhoneInv, CallInv, NoCallIsCutOff, HasCall
<1>9. AwaitedInv'
  BY ZenonT(30), <1>3 DEF PhoneInv, AwaitedInv
<1>10. ErrorInv'
  BY Zenon, <1>2, <1>3, <1>4, EmptyShrinks DEF PhoneInv, ErrorInv
<1> QED BY Zenon, <1>5, <1>6, <1>7, <1>8, <1>9, <1>10 DEF PhoneInv

LEMMA ConnectDoneKeeps ==
  ASSUME PhoneInv, ConnectDone PROVE PhoneInv'
<1>1. PhoneTypes /\ host \in HostRec /\ up \in UpRec /\ dm \in DmRec /\ wire \subseteq Routes /\ live \subseteq Routes
  BY Zenon, PhoneTypesAre DEF PhoneInv
<1> DEFINE r == host.connecting
<1>2. /\ r \in RelayRoutes /\ r \in wire /\ dm.serving = r /\ host.transport = None
      /\ UNCHANGED <<probe, pending, c2d, d2c, dm, call>>
  BY Zenon, <1>1 DEF ConnectDone, PhoneInv, HostInv, HostRec
<1>3. CASE host.stopped \/ ~host.net
  <2>1. /\ Reconnected(host) \in HostRec /\ Reconnected(host).transport = host.transport
        /\ Reconnected(host).may = host.may /\ Reconnected(host).stopped = host.stopped
        /\ Reconnected(host).deferred = host.deferred /\ Reconnected(host).connecting = None
    BY Zenon, <1>1 DEF HostRec, Reconnected
  <2>2. host' = ScheduleReconnect(Reconnected(host)) /\ wire' = wire \ {r} /\ UNCHANGED <<live, up, retry>>
    BY Zenon, <1>3 DEF ConnectDone
  <2>3. /\ host' \in HostRec /\ host'.transport = host.transport /\ host'.may = host.may
        /\ host'.stopped = host.stopped /\ host'.deferred = host.deferred /\ host'.connecting = None
    BY Zenon, <2>1, <2>2, ScheduleFacts
  <2>4. call.st = "sent" => "call" \in pending[call.route]
    BY Zenon DEF PhoneInv, CallInv
  <2> QED BY Zenon, <1>1, <1>2, <2>2, <2>3, <2>4, PhoneTypesAre, SameFrames, QuietStep
<1>4. CASE ~ (host.stopped \/ ~host.net)
  <2> DEFINE h == [Reconnected(host) EXCEPT !.transport = r, !.checking = host.hidden]
  <2>1. /\ h \in HostRec /\ h.transport = r /\ h.may = host.may /\ h.stopped = host.stopped
        /\ h.deferred = host.deferred /\ h.connecting = None /\ h.timer = host.timer
    BY Zenon, <1>1, <1>2 DEF HostRec, Reconnected, Routes
  <2>2. /\ host' = h /\ live' = live \cup {r} /\ retry' = None /\ wire' = wire
        /\ up' \in {up, Attempt(r)} /\ (up' # up => up.phase = "none")
    BY Zenon, <1>4 DEF ConnectDone
  <2> HIDE DEF h
  <2>3. /\ up' \in UpRec
        /\ \/ up'.phase = up.phase /\ up'.relay = up.relay /\ up'.cand = up.cand
           \/ up.phase = "none" /\ up'.phase = "creating" /\ up'.relay = r /\ up'.cand = None
    BY Zenon, <1>1, <1>2, <2>2, AttemptFacts
  <2>4. ~ host.timer
    BY Zenon, <1>2, PhoneAssumption DEF PhoneInv, HostInv, Routes
  <2>5. PhoneTypes'
    BY Zenon, <1>1, <1>2, <2>1, <2>2, <2>3, PhoneTypesAre, PhoneTypesNext DEF Routes
  <2>6. HostInv'
    <3>1. ~ Switching \/ host.deferred = None
      BY Zenon, <1>2, <1>4 DEF PhoneInv, HostInv
    <3>2. r \notin DirectRoutes /\ (up.phase # "none" => up.relay \in RelayRoutes /\ r # up.relay)
      BY Zenon, <1>2, PhoneAssumption DEF PhoneInv, HostInv
    <3>3. host'.connecting = None /\ ~ host'.timer /\ host'.deferred # "kicked" /\ ~ host'.stopped
          /\ host'.transport \notin DirectRoutes
      BY Zenon, <1>4, <2>1, <2>2, <2>4, <3>2 DEF PhoneInv, HostInv
    <3>4. up'.phase # "none" => up'.relay \in RelayRoutes
      BY Zenon, <1>2, <2>3, <3>2
    <3>5. ~ (Switching' /\ host'.deferred # None)
      BY Zenon, <2>1, <2>2, <2>3, <3>1 DEF Switching
    <3>6. IF up'.phase \in {"none", "creating", "offering"} THEN up'.cand = None ELSE up'.cand \in DirectRoutes
      BY Zenon, <2>3 DEF PhoneInv, HostInv
    <3>7. up'.phase # "none" => up'.relay # None
      BY Zenon, <3>4, PhoneAssumption DEF Routes
    <3> QED BY Zenon, <3>3, <3>4, <3>5, <3>6, <3>7 DEF HostInv
  <2>7. RouteInv'
    <3>1. ~ (Switching' /\ host'.deferred # None)
      <4>1. ~ Switching \/ host.deferred = None
        BY Zenon, <1>2, <1>4 DEF PhoneInv, HostInv
      <4> QED BY Zenon, <2>1, <2>2, <2>3, <4>1 DEF Switching
    <3>2. up.phase = "none" => up.cand = None
      BY Zenon DEF PhoneInv, HostInv
    <3>3. None \notin live /\ None \notin wire
      BY Zenon, <1>1, PhoneAssumption
    <3> QED BY Zenon, <1>2, <2>1, <2>2, <2>3, <3>1, <3>2, <3>3 DEF PhoneInv, RouteInv
  <2>8. CallInv'
    <3>1. call.st # "sent"
      BY Zenon, <1>1, <1>2, PhoneAssumption DEF PhoneInv, CallInv
    <3> QED BY Zenon, <1>2, <2>1, <2>2, <3>1 DEF PhoneInv, CallInv, HasCall
  <2>9. NoCallIsCutOff'
    BY Zenon, <1>2, <2>3 DEF PhoneInv, NoCallIsCutOff
  <2>10. AwaitedInv'
    BY Zenon, <1>2, <2>3 DEF PhoneInv, AwaitedInv
  <2>11. ErrorInv'
    <3>1. r \in Routes /\ (up.phase # "none" => r # up.relay)
      BY Zenon, <1>2 DEF PhoneInv, HostInv, Routes
    <3>2. \A x \in Routes : x # None
      BY Zenon, PhoneAssumption
    <3> QED BY ZenonT(30), <1>2, <2>1, <2>2, <2>3, <3>1, <3>2 DEF PhoneInv, ErrorInv
  <2> QED BY Zenon, <2>5, <2>6, <2>7, <2>8, <2>9, <2>10, <2>11 DEF PhoneInv
<1> QED BY Zenon, <1>3, <1>4

-----------------------------------------------------------------------------
(* The steps of the daemon and the relay.                                  *)

LEMMA DaemonStep ==
  ASSUME PhoneInv, UNCHANGED <<host, up, probe, retry, live, pending>>, wire' \subseteq wire, dm' \in DmRec,
         call' = call \/ (HasCall /\ call' = [call EXCEPT !.ran = TRUE]),
         c2d' \in [Routes -> Seq(Request)], d2c' \in [Routes -> Seq(Reply)],
         \A x \in Routes : Shrinks(c2d'[x], c2d[x]), AwaitedInv', ErrorInv'
  PROVE  PhoneInv'
<1>1. PhoneTypes /\ call \in CallRec /\ wire \subseteq Routes
  BY Zenon, PhoneTypesAre DEF PhoneInv
<1>2. /\ call' \in CallRec /\ call'.st = call.st /\ call'.res = call.res /\ call'.route = call.route
      /\ call'.ran => call.ran \/ HasCall
  BY Zenon, <1>1 DEF CallRec
<1>3. PhoneTypes'
  BY Zenon, <1>1, <1>2, PhoneTypesAre, PhoneTypesNext
<1>4. HostInv' /\ RouteInv'
  BY Zenon DEF PhoneInv, HostInv, RouteInv, Switching
<1>5. HasCall' => HasCall
  BY Zenon, ShrinksCalls
<1>6. CallInv' /\ NoCallIsCutOff'
  BY Zenon, <1>2, <1>5 DEF PhoneInv, CallInv, NoCallIsCutOff
<1> QED BY Zenon, <1>3, <1>4, <1>6 DEF PhoneInv

LEMMA DaemonAnswers ==
  ASSUME PhoneInv, UNCHANGED <<host, up, probe, retry, live, pending>>, wire' \subseteq wire, dm' \in DmRec,
         call' = call \/ (HasCall /\ call' = [call EXCEPT !.ran = TRUE]),
         c2d' \in [Routes -> Seq(Request)], d2c' \in [Routes -> Seq(Reply)],
         \A x \in Routes : Shrinks(c2d'[x], c2d[x]), OffersCalm, NoNewErrors
  PROVE  PhoneInv'
<1>1. RoutesCalm
  <2>1. up.phase = "none" => up.cand = None
    BY Zenon DEF PhoneInv, HostInv
  <2> QED BY Zenon, <2>1 DEF RoutesCalm, OffersCalm
<1> QED BY Zenon, <1>1, CalmErrors, CalmOffers, DaemonStep

LEMMA ReplyFacts ==
  ASSUME PhoneInv, NEW r \in Routes, NEW e \in Reply,
         d2c' = IF r \in wire THEN [d2c EXCEPT ![r] = Append(@, e)] ELSE d2c
  PROVE  /\ d2c' \in [Routes -> Seq(Reply)] /\ \A x \in Routes : x # r => d2c'[x] = d2c[x]
         /\ \A x \in Routes : Frames(d2c'[x]) \subseteq Frames(d2c[x]) \cup {e}
         /\ OneOffer(d2c[r]) /\ (IsOffer(e) => ~ HasOffer(d2c[r])) => OneOffer(d2c'[r])
<1>1. d2c \in [Routes -> Seq(Reply)]
  BY Zenon, PhoneTypesAre DEF PhoneInv
<1> DEFINE t == Append(d2c[r], e)
<1>2. /\ t \in Seq(Reply) /\ Frames(t) = Frames(d2c[r]) \cup {e}
      /\ OneOffer(d2c[r]) /\ (IsOffer(e) => ~ HasOffer(d2c[r])) => OneOffer(t)
  BY Zenon, <1>1, AppendFrames
<1>3. d2c' = d2c \/ d2c' = [d2c EXCEPT ![r] = t]
  OBVIOUS
<1> HIDE DEF t
<1>4. CASE d2c' = d2c
  BY <1>1, <1>4
<1>5. CASE d2c' = [d2c EXCEPT ![r] = t]
  <2>1. d2c'[r] = t /\ \A x \in Routes : x # r => d2c'[x] = d2c[x]
    BY Zenon, <1>1, <1>5
  <2>2. d2c' \in [Routes -> Seq(Reply)]
    BY Zenon, <1>1, <1>2, <1>5
  <2>3. \A x \in Routes : Frames(d2c'[x]) \subseteq Frames(d2c[x]) \cup {e}
    BY Zenon, <1>2, <2>1
  <2> QED BY Zenon, <1>2, <2>1, <2>2, <2>3
<1> QED BY Zenon, <1>3, <1>4, <1>5

(* A reply that is no offer and no error.                                  *)
LEMMA PlainReply ==
  ASSUME PhoneInv, NEW r \in Routes, NEW e \in Reply, e.op \notin {"offer", "error"},
         e.op = "ping" => r = dm.serving,
         d2c' = IF r \in wire THEN [d2c EXCEPT ![r] = Append(@, e)] ELSE d2c
  PROVE  /\ d2c' \in [Routes -> Seq(Reply)] /\ \A x \in Routes : Adds(d2c'[x], d2c[x])
         /\ NoNewErrors
<1>1. /\ d2c' \in [Routes -> Seq(Reply)] /\ \A x \in Routes : x # r => d2c'[x] = d2c[x]
      /\ \A x \in Routes : Frames(d2c'[x]) \subseteq Frames(d2c[x]) \cup {e}
      /\ OneOffer(d2c[r]) /\ (IsOffer(e) => ~ HasOffer(d2c[r])) => OneOffer(d2c'[r])
  BY Zenon, ReplyFacts
<1>2. ~ IsOffer(e) /\ ~ IsError(e, "kicked")
  BY Zenon DEF IsOffer, IsError
<1>3. \A x \in Routes : Adds(d2c'[x], d2c[x])
  BY Zenon, <1>1, <1>2 DEF Adds, Weaker
<1>4. NoNewErrors
  <2>1. \A x \in Routes : \A f \in Frames(d2c'[x]) : f \in Frames(d2c[x]) \/ (f = e /\ x = r)
    BY Zenon, <1>1
  <2> QED BY Zenon, <2>1 DEF NoNewErrors
<1> QED BY Zenon, <1>1, <1>3, <1>4

LEMMA RequestFacts ==
  ASSUME PhoneInv, NEW r \in Routes, c2d[r] # <<>>, c2d' = [c2d EXCEPT ![r] = Tail(@)]
  PROVE  /\ c2d' \in [Routes -> Seq(Request)] /\ \A x \in Routes : Shrinks(c2d'[x], c2d[x])
         /\ Head(c2d[r]) \in Request /\ Head(c2d[r]) \in Frames(c2d[r])
         /\ IsOffer(Head(c2d[r])) => ~ HasOffer(c2d'[r])
         /\ \A x \in Routes : x # r => c2d'[x] = c2d[x]
<1>1. c2d \in [Routes -> Seq(Request)] /\ OneOffer(c2d[r])
  BY Zenon, PhoneTypesAre DEF PhoneInv, AwaitedInv
<1>2. /\ Tail(c2d[r]) \in Seq(Request) /\ Shrinks(Tail(c2d[r]), c2d[r])
      /\ Head(c2d[r]) \in Request /\ Head(c2d[r]) \in Frames(c2d[r])
      /\ IsOffer(Head(c2d[r])) => ~ HasOffer(Tail(c2d[r]))
  BY Zenon, <1>1, TailShrinks
<1>3. c2d'[r] = Tail(c2d[r]) /\ \A x \in Routes : x # r => c2d'[x] = c2d[x]
  BY Zenon, <1>1
<1>4. c2d' \in [Routes -> Seq(Request)]
  BY Zenon, <1>1, <1>2
<1>5. \A x \in Routes : Shrinks(c2d'[x], c2d[x])
  BY Zenon, <1>2, <1>3, SameShrinks
<1> QED BY Zenon, <1>2, <1>3, <1>4, <1>5

(* The answer to an offer takes the place of the request in AwaitedInv.    *)
LEMMA OfferReply ==
  ASSUME PhoneInv, NEW r \in Routes, NEW e \in Reply, e.op = "offer",
         d2c' = IF r \in wire THEN [d2c EXCEPT ![r] = Append(@, e)] ELSE d2c,
         c2d' \in [Routes -> Seq(Request)], \A x \in Routes : Shrinks(c2d'[x], c2d[x]), up' = up,
         dm'.serving = dm.serving, dm'.committing = dm.committing,
         dm'.awaited => dm.awaited /\ dm'.offer = dm.offer,
         dm'.ready => dm.ready /\ dm'.cand = dm.cand,
         e.awaited => /\ up.phase = "offering" /\ r = up.relay /\ ~ dm'.awaited
                      /\ \A x \in Routes : ~ HasOffer(c2d'[x]) /\ ~ HasOffer(d2c[x]),
         e.ok => /\ e.to \in DirectRoutes /\ e.to # dm.serving /\ e.to # dm.committing
                 /\ ~ dm'.ready /\ d2c'[e.to] = <<>>
  PROVE  AwaitedInv'
<1>1. c2d \in [Routes -> Seq(Request)] /\ d2c \in [Routes -> Seq(Reply)]
  BY Zenon, PhoneTypesAre DEF PhoneInv
<1>2. /\ d2c' \in [Routes -> Seq(Reply)] /\ \A x \in Routes : x # r => d2c'[x] = d2c[x]
      /\ \A x \in Routes : Frames(d2c'[x]) \subseteq Frames(d2c[x]) \cup {e}
      /\ OneOffer(d2c[r]) /\ (IsOffer(e) => ~ HasOffer(d2c[r])) => OneOffer(d2c'[r])
  BY Zenon, ReplyFacts
<1>3. \A x \in Routes : /\ HasOffer(c2d'[x]) => HasOffer(c2d[x])
                        /\ OneOffer(c2d'[x]) /\ OneOffer(d2c'[x])
  <2>1. \A x \in Routes : OneOffer(c2d[x]) /\ OneOffer(d2c[x])
    BY Zenon DEF PhoneInv, AwaitedInv
  <2>2. \A x \in Routes : HasOffer(c2d'[x]) => HasOffer(c2d[x])
    BY Zenon, <1>1, ShrinksOffers
  <2>3. \A x \in Routes : OneOffer(c2d'[x]) /\ OneOffer(d2c'[x])
    BY Zenon, <1>2, <2>1 DEF Shrinks, IsOffer
  <2> QED BY Zenon, <2>2, <2>3
<1>4. \A x \in Routes : HasOffer(d2c'[x]) => HasOffer(d2c[x]) \/ (e.awaited /\ x = r)
  <2>1. \A x \in Routes : \A f \in Frames(d2c'[x]) : f \in Frames(d2c[x]) \/ (f = e /\ x = r)
    BY Zenon, <1>2
  <2> QED BY Zenon, <2>1 DEF HasOffer, IsOffer
<1>5. /\ \A x \in Routes : HasOffer(c2d'[x]) \/ HasOffer(d2c'[x]) => up'.phase = "offering" /\ x = up'.relay
      /\ dm'.awaited => up'.phase = "offering" /\ dm'.offer = up'.relay
  BY Zenon, <1>3, <1>4 DEF PhoneInv, AwaitedInv
<1>6. \A x \in Routes : /\ ~ (HasOffer(c2d'[x]) /\ HasOffer(d2c'[x]))
                        /\ dm'.awaited => ~ HasOffer(c2d'[x]) /\ ~ HasOffer(d2c'[x])
  BY Zenon, <1>3, <1>4 DEF PhoneInv, AwaitedInv
<1>7. \A x \in Routes : \A f \in Frames(d2c'[x]) :
       f.op = "offer" /\ f.ok =>
         /\ f.to \in DirectRoutes
         /\ f.awaited => /\ f.to # dm'.serving /\ f.to # dm'.committing
                         /\ dm'.cand = f.to => ~ dm'.ready
                         /\ \A g \in Frames(d2c'[f.to]) : ~ IsError(g, "kicked")
  <2> SUFFICES ASSUME NEW x \in Routes, NEW f \in Frames(d2c'[x]), f.op = "offer", f.ok
               PROVE  /\ f.to \in DirectRoutes
                      /\ f.awaited => /\ f.to # dm'.serving /\ f.to # dm'.committing
                                      /\ dm'.cand = f.to => ~ dm'.ready
                                      /\ \A g \in Frames(d2c'[f.to]) : ~ IsError(g, "kicked")
    OBVIOUS
  <2>1. CASE f \in Frames(d2c[x])
    <3>1. /\ f.to \in DirectRoutes
          /\ f.awaited => /\ f.to # dm.serving /\ f.to # dm.committing
                          /\ dm.cand = f.to => ~ dm.ready
                          /\ \A g \in Frames(d2c[f.to]) : ~ IsError(g, "kicked")
      BY <2>1 DEF PhoneInv, AwaitedInv
    <3>2. f.to \in Routes /\ ~ IsError(e, "kicked")
      BY Zenon, <3>1 DEF Routes, IsError
    <3> QED BY ZenonT(30), <1>2, <3>1, <3>2
  <2>2. CASE f = e
    BY Zenon, <2>2, EmptyShrinks
  <2> QED BY ZenonT(30), <1>2, <2>1, <2>2
<1>8. \A x \in Routes : \A f \in Frames(c2d'[x]) : f.op = "offer" => x \in RelayRoutes
  <2>1. \A x \in Routes : Frames(c2d[x]) \subseteq Request
    BY <1>1 DEF Frames
  <2>2. \A x \in Routes : \A f \in Frames(c2d'[x]) : \E g \in Frames(c2d[x]) : f.op = g.op
    BY Zenon, <2>1, RequestWeaker DEF Shrinks
  <2>3. \A x \in Routes : \A g \in Frames(c2d[x]) : g.op = "offer" => x \in RelayRoutes
    BY Zenon DEF PhoneInv, AwaitedInv
  <2> QED BY <2>2, <2>3
<1> QED BY Zenon, <1>3, <1>5, <1>6, <1>7, <1>8 DEF AwaitedInv

LEMMA DaemonRequestKeeps ==
  ASSUME PhoneInv, NEW r \in Routes, DaemonRequest(r) PROVE PhoneInv'
<1>1. PhoneTypes /\ dm \in DmRec /\ call \in CallRec /\ d2c \in [Routes -> Seq(Reply)]
  BY Zenon, PhoneTypesAre DEF PhoneInv
<1> DEFINE f == Head(c2d[r])
<1>2. /\ c2d[r] # <<>> /\ dm.serving = r /\ dm.committing = None /\ c2d' = [c2d EXCEPT ![r] = Tail(@)]
      /\ UNCHANGED <<host, up, probe, retry, live, wire, pending>>
  BY Zenon DEF DaemonRequest
<1>3. /\ c2d' \in [Routes -> Seq(Request)] /\ \A x \in Routes : Shrinks(c2d'[x], c2d[x])
      /\ f \in Request /\ f \in Frames(c2d[r])
      /\ IsOffer(f) => ~ HasOffer(c2d'[r])
      /\ \A x \in Routes : x # r => c2d'[x] = c2d[x]
  BY Zenon, <1>2, RequestFacts
<1>4. \A x \in Routes : Adds(c2d'[x], c2d[x])
  BY Zenon, <1>3, ShrinksAdds
<1>5. f.op \in Ops /\ f.awaited \in BOOLEAN
  BY Zenon, <1>3 DEF Request
<1>6. ASSUME NEW op \in Ops \ {"offer"}, NEW ok \in BOOLEAN, ReplyOn(r, op, f.awaited, ok, None)
      PROVE  /\ d2c' \in [Routes -> Seq(Reply)] /\ \A x \in Routes : Adds(d2c'[x], d2c[x])
             /\ NoNewErrors
  <2> DEFINE e == [op |-> op, awaited |-> f.awaited, ok |-> ok, to |-> None]
  <2>1. e \in Reply /\ e.op = op /\ op # "error"
    BY Zenon, <1>5 DEF Reply, Ops
  <2>2. d2c' = IF r \in wire THEN [d2c EXCEPT ![r] = Append(@, e)] ELSE d2c
    BY Zenon, <1>6 DEF ReplyOn
  <2> HIDE DEF e
  <2> QED BY Zenon, <1>2, <2>1, <2>2, PlainReply
<1>7. ASSUME IsOffer(f)
      PROVE  /\ up.phase = "offering" /\ r = up.relay /\ ~ dm.awaited
             /\ \A x \in Routes : ~ HasOffer(c2d'[x]) /\ ~ HasOffer(d2c[x])
  <2>1. HasOffer(c2d[r])
    BY Zenon, <1>3, <1>7 DEF HasOffer
  <2>2. up.phase = "offering" /\ r = up.relay /\ ~ dm.awaited /\ ~ HasOffer(d2c[r])
    BY Zenon, <2>1 DEF PhoneInv, AwaitedInv
  <2>3. \A x \in Routes : x # r => ~ HasOffer(c2d[x]) /\ ~ HasOffer(d2c[x])
    BY Zenon, <2>2 DEF PhoneInv, AwaitedInv
  <2> QED BY Zenon, <1>3, <1>7, <2>2, <2>3
<1> HIDE DEF f
<1>8. CASE f.op \in {"ping", "health"} /\ ReplyOn(r, f.op, f.awaited, TRUE, None) /\ UNCHANGED <<dm, call>>
  <2>1. f.op \in Ops \ {"offer"}
    BY Zenon, <1>5, <1>8
  <2>2. /\ d2c' \in [Routes -> Seq(Reply)] /\ \A x \in Routes : Adds(d2c'[x], d2c[x])
        /\ NoNewErrors
    BY Zenon, <1>6, <1>8, <2>1
  <2>3. OffersCalm
    BY Zenon, <1>2, <1>4, <1>8, <2>2 DEF OffersCalm
  <2> QED BY Zenon, <1>1, <1>2, <1>3, <1>8, <2>2, <2>3, DaemonAnswers
<1>9. CASE /\ f.op = "call" /\ call' = [call EXCEPT !.ran = TRUE]
           /\ ReplyOn(r, f.op, f.awaited, TRUE, None) /\ UNCHANGED dm
  <2>1. f.op \in Ops \ {"offer"} /\ HasCall
    BY Zenon, <1>3, <1>5, <1>9 DEF HasCall
  <2>2. /\ d2c' \in [Routes -> Seq(Reply)] /\ \A x \in Routes : Adds(d2c'[x], d2c[x])
        /\ NoNewErrors
    BY Zenon, <1>6, <1>9, <2>1
  <2>3. OffersCalm
    BY Zenon, <1>2, <1>4, <1>9, <2>2 DEF OffersCalm
  <2> QED BY Zenon, <1>1, <1>2, <1>3, <1>9, <2>1, <2>2, <2>3, DaemonAnswers
<1>10. CASE /\ f.op = "commit" /\ dm.from = r /\ dm.ready /\ dm' = [dm EXCEPT !.committing = dm.cand]
            /\ ReplyOn(r, f.op, f.awaited, TRUE, None) /\ UNCHANGED call
  <2>1. f.op \in Ops \ {"offer"}
    BY Zenon, <1>5, <1>10
  <2>2. /\ d2c' \in [Routes -> Seq(Reply)] /\ \A x \in Routes : Adds(d2c'[x], d2c[x])
        /\ NoNewErrors
    BY Zenon, <1>6, <1>10, <2>1
  <2>3. /\ dm' \in DmRec /\ dm'.committing = dm.cand /\ dm'.cand = dm.cand /\ dm'.serving = dm.serving
        /\ dm'.ready = dm.ready /\ dm'.awaited = dm.awaited /\ dm'.offer = dm.offer
    BY Zenon, <1>1, <1>10 DEF DmRec
  <2>4. OffersCalm
    BY Zenon, <1>2, <1>4, <1>10, <2>2, <2>3 DEF OffersCalm
  <2> QED BY Zenon, <1>2, <1>3, <1>10, <2>2, <2>3, <2>4, DaemonAnswers
<1>11. CASE f.op = "commit" /\ ReplyOn(r, f.op, f.awaited, FALSE, None) /\ UNCHANGED <<dm, call>>
  <2>1. f.op \in Ops \ {"offer"}
    BY Zenon, <1>5, <1>11
  <2>2. /\ d2c' \in [Routes -> Seq(Reply)] /\ \A x \in Routes : Adds(d2c'[x], d2c[x])
        /\ NoNewErrors
    BY Zenon, <1>6, <1>11, <2>1
  <2>3. OffersCalm
    BY Zenon, <1>2, <1>4, <1>11, <2>2 DEF OffersCalm
  <2> QED BY Zenon, <1>1, <1>2, <1>3, <1>11, <2>2, <2>3, DaemonAnswers
<1>12. CASE /\ f.op = "offer" /\ dm' = [dm EXCEPT !.offer = r, !.awaited = f.awaited]
            /\ UNCHANGED <<d2c, call>>
  <2>1. /\ dm' \in DmRec /\ dm'.committing = dm.committing /\ dm'.cand = dm.cand /\ dm'.serving = dm.serving
        /\ dm'.ready = dm.ready /\ dm'.awaited = f.awaited /\ dm'.offer = r
    <3>1. r \in RelayRoutes
      BY Zenon, <1>3, <1>12 DEF PhoneInv, AwaitedInv
    <3> QED BY Zenon, <1>1, <1>5, <1>12, <3>1 DEF DmRec
  <2>2. ErrorInv'
    <3>1. up.phase = "none" => up.cand = None
      BY Zenon DEF PhoneInv, HostInv
    <3>2. RoutesCalm
      BY Zenon, <1>2, <2>1, <3>1 DEF RoutesCalm
    <3>3. NoNewErrors
      BY Zenon, <1>12 DEF NoNewErrors
    <3> QED BY Zenon, <3>2, <3>3, CalmErrors
  <2>3. AwaitedInv'
    <3>1. CASE ~ f.awaited
      <4>1. OffersCalm
        BY Zenon, <1>2, <1>4, <1>12, <2>1, <3>1, SameFrames, ShrinksAdds DEF OffersCalm
      <4> QED BY Zenon, <4>1, CalmOffers
    <3>2. CASE f.awaited
      <4>1. /\ up.phase = "offering" /\ r = up.relay /\ ~ dm.awaited
            /\ \A x \in Routes : ~ HasOffer(c2d'[x]) /\ ~ HasOffer(d2c[x])
        BY Zenon, <1>7, <1>12, <3>2 DEF IsOffer
      <4>2. \A x \in Routes : OneOffer(c2d'[x]) /\ OneOffer(d2c[x])
        BY Zenon, <1>3 DEF Shrinks, PhoneInv, AwaitedInv
      <4>3. \A x \in Routes : \A g \in Frames(c2d'[x]) : g.op = "offer" => x \in RelayRoutes
        <5>1. \A x \in Routes : Frames(c2d[x]) \subseteq Request
          BY <1>1, PhoneTypesAre DEF Frames
        <5>2. \A x \in Routes : \A g \in Frames(c2d'[x]) : \E h \in Frames(c2d[x]) : g.op = h.op
          BY Zenon, <1>3, <5>1, RequestWeaker DEF Shrinks
        <5> QED BY Zenon, <5>2 DEF PhoneInv, AwaitedInv
      <4> QED BY <1>2, <1>12, <2>1, <4>1, <4>2, <4>3 DEF PhoneInv, AwaitedInv
    <3> QED BY Zenon, <3>1, <3>2
  <2> QED BY Zenon, <1>1, <1>2, <1>3, <1>12, <2>1, <2>2, <2>3, PhoneTypesAre, DaemonStep
<1>13. CASE f.op = "offer" /\ ReplyOn(r, f.op, f.awaited, FALSE, None) /\ UNCHANGED <<dm, call>>
  <2> DEFINE e == [op |-> f.op, awaited |-> f.awaited, ok |-> FALSE, to |-> None]
  <2>1. e \in Reply /\ e.op = "offer" /\ e.awaited = f.awaited /\ ~ e.ok
    BY Zenon, <1>5, <1>13 DEF Reply, Ops
  <2>2. d2c' = IF r \in wire THEN [d2c EXCEPT ![r] = Append(@, e)] ELSE d2c
    BY Zenon, <1>13 DEF ReplyOn
  <2> HIDE DEF e
  <2>3. AwaitedInv'
    <3>1. e.awaited => /\ up.phase = "offering" /\ r = up.relay /\ ~ dm.awaited
                       /\ \A x \in Routes : ~ HasOffer(c2d'[x]) /\ ~ HasOffer(d2c[x])
      BY Zenon, <1>7, <1>13, <2>1 DEF IsOffer
    <3> QED BY Zenon, <1>2, <1>3, <1>13, <2>1, <2>2, <3>1, OfferReply
  <2>4. NoNewErrors /\ d2c' \in [Routes -> Seq(Reply)]
    <3>1. d2c' \in [Routes -> Seq(Reply)] /\ \A x \in Routes : Frames(d2c'[x]) \subseteq Frames(d2c[x]) \cup {e}
      BY Zenon, <2>1, <2>2, ReplyFacts
    <3> QED BY Zenon, <2>1, <3>1 DEF NoNewErrors
  <2>5. ErrorInv'
    <3>1. up.phase = "none" => up.cand = None
      BY Zenon DEF PhoneInv, HostInv
    <3>2. RoutesCalm
      BY Zenon, <1>2, <1>13, <3>1 DEF RoutesCalm
    <3> QED BY Zenon, <2>4, <3>2, CalmErrors
  <2> QED BY Zenon, <1>1, <1>2, <1>3, <1>13, <2>3, <2>4, <2>5, DaemonStep
<1> QED BY Zenon, <1>8, <1>9, <1>10, <1>11, <1>12, <1>13 DEF DaemonRequest, f

LEMMA NoCandidateFacts ==
  ASSUME NEW d \in DmRec, NEW n, n = NoCandidate(d)
  PROVE  /\ n \in DmRec /\ n.serving = d.serving /\ n.cand = None /\ ~ n.ready /\ n.committing = d.committing
         /\ n.offer = d.offer /\ n.awaited = d.awaited
BY Zenon DEF NoCandidate, DmRec

LEMMA DaemonDropKeeps ==
  ASSUME PhoneInv, NEW r \in Routes, DaemonDrop(r) PROVE PhoneInv'
<1>1. PhoneTypes /\ dm \in DmRec /\ d2c \in [Routes -> Seq(Reply)] /\ host \in HostRec
  BY Zenon, PhoneTypesAre DEF PhoneInv
<1>2. /\ c2d[r] # <<>> /\ dm.serving # r /\ c2d' = [c2d EXCEPT ![r] = Tail(@)]
      /\ UNCHANGED <<host, up, probe, retry, live, pending, call>>
  BY Zenon DEF DaemonDrop
<1>3. c2d' \in [Routes -> Seq(Request)] /\ \A x \in Routes : Shrinks(c2d'[x], c2d[x]) /\ Adds(c2d'[x], c2d[x])
  BY Zenon, <1>2, RequestFacts, ShrinksAdds
<1>4. CASE dm.cand # r
  <2>1. UNCHANGED <<dm, d2c, wire>>
    BY Zenon, <1>4 DEF DaemonDrop
  <2>2. OffersCalm /\ NoNewErrors
    BY Zenon, <1>2, <1>3, <2>1, SameFrames, ShrinksAdds DEF OffersCalm, NoNewErrors
  <2> QED BY Zenon, <1>1, <1>2, <1>3, <2>1, <2>2, PhoneTypesAre, DaemonAnswers
<1>5. CASE dm.cand = r
  <2> DEFINE e == [op |-> "error", awaited |-> TRUE, ok |-> FALSE, to |-> "bad_frame"]
  <2>1. e \in Reply /\ e.op = "error" /\ e.to = "bad_frame"
    BY Zenon DEF Reply, Codes
  <2>2. /\ dm' = NoCandidate(dm) /\ wire' = wire \ {r}
        /\ d2c' = IF r \in wire THEN [d2c EXCEPT ![r] = Append(@, e)] ELSE d2c
    BY Zenon, <1>5 DEF DaemonDrop, ReplyOn
  <2> HIDE DEF e
  <2>3. /\ dm' \in DmRec /\ dm'.serving = dm.serving /\ dm'.cand = None /\ ~ dm'.ready
        /\ dm'.committing = dm.committing /\ dm'.offer = dm.offer /\ dm'.awaited = dm.awaited
    BY Zenon, <1>1, <2>2, NoCandidateFacts
  <2>4. /\ d2c' \in [Routes -> Seq(Reply)] /\ \A x \in Routes : x # r => d2c'[x] = d2c[x]
        /\ \A x \in Routes : Frames(d2c'[x]) \subseteq Frames(d2c[x]) \cup {e}
        /\ OneOffer(d2c[r]) /\ (IsOffer(e) => ~ HasOffer(d2c[r])) => OneOffer(d2c'[r])
    BY Zenon, <2>1, <2>2, ReplyFacts
  <2>5. ~ IsOffer(e) /\ ~ IsError(e, "kicked") /\ IsError(e, "bad_frame") /\ e.op # "ping" /\ e.op # "offer"
    BY Zenon, <2>1 DEF IsOffer, IsError
  <2>6. \A x \in Routes : Adds(d2c'[x], d2c[x])
    BY Zenon, <2>4, <2>5 DEF Adds, Weaker
  <2>7. AwaitedInv'
    <3>1. OffersCalm
      BY Zenon, <1>2, <1>3, <2>3, <2>6 DEF OffersCalm
    <3> QED BY Zenon, <3>1, CalmOffers
  <2>8. \A x \in Routes : \A f \in Frames(d2c'[x]) : f \in Frames(d2c[x]) \/ (f = e /\ x = r)
    BY Zenon, <2>4
  <2>9. /\ r \notin {host.transport, host.connecting, dm.serving}
        /\ \A f \in Frames(d2c[r]) : f.op # "ping"
    BY Zenon, <1>5 DEF PhoneInv, ErrorInv
  <2>10. ErrorInv'
    <3>1. \A x \in Routes : \A f \in Frames(d2c'[x]) : IsError(f, "kicked") =>
            /\ x \notin {host'.transport, host'.connecting}
            /\ up'.phase # "none" /\ x = up'.cand => host'.transport # up'.relay
      BY Zenon, <1>2, <2>5, <2>8 DEF PhoneInv, ErrorInv
    <3>2. \A x \in Routes : (x = dm'.cand \/ \E f \in Frames(d2c'[x]) : IsError(f, "bad_frame")) =>
            /\ x \notin {host'.transport, host'.connecting, dm'.serving}
            /\ \A f \in Frames(d2c'[x]) : f.op # "ping"
      <4> SUFFICES ASSUME NEW x \in Routes, x = dm'.cand \/ \E f \in Frames(d2c'[x]) : IsError(f, "bad_frame")
                   PROVE  /\ x \notin {host'.transport, host'.connecting, dm'.serving}
                          /\ \A f \in Frames(d2c'[x]) : f.op # "ping"
        OBVIOUS
      <4>1. x = r \/ \E f \in Frames(d2c[x]) : IsError(f, "bad_frame")
        BY <2>3, <2>8, PhoneAssumption
      <4>2. /\ x \notin {host.transport, host.connecting, dm.serving}
            /\ \A f \in Frames(d2c[x]) : f.op # "ping"
        BY Zenon, <2>9, <4>1 DEF PhoneInv, ErrorInv
      <4> QED BY Zenon, <1>2, <2>3, <2>5, <2>8, <4>2
    <3>3. \A x \in Routes : \A f \in Frames(d2c'[x]) : f.op = "error" =>
            f.to \in {"kicked", "bad_frame"} \/ ("drop" \in host'.may /\ f.to \in Codes)
      BY Zenon, <1>2, <2>1, <2>8 DEF PhoneInv, ErrorInv
    <3> QED BY Zenon, <2>3, <3>1, <3>2, <3>3 DEF ErrorInv
  <2>11. wire' \subseteq wire
    BY Zenon, <2>2
  <2> QED BY Zenon, <1>2, <1>3, <2>3, <2>4, <2>7, <2>10, <2>11, DaemonStep
<1> QED BY Zenon, <1>4, <1>5

LEMMA OfferDone ==
  ASSUME NEW d \in DmRec, NEW n, n = [d EXCEPT !.offer = None, !.awaited = FALSE]
  PROVE  /\ n \in DmRec /\ n.serving = d.serving /\ n.cand = d.cand /\ n.ready = d.ready
         /\ n.committing = d.committing /\ ~ n.awaited
BY Zenon DEF DmRec

LEMMA DaemonRefuseKeeps ==
  ASSUME PhoneInv, DaemonRefuse PROVE PhoneInv'
<1>1. /\ PhoneTypes /\ dm \in DmRec /\ d2c \in [Routes -> Seq(Reply)] /\ c2d \in [Routes -> Seq(Request)]
  BY Zenon, PhoneTypesAre DEF PhoneInv
<1> DEFINE r == dm.offer
<1>2. /\ r \in RelayRoutes /\ r \in Routes /\ dm' = [dm EXCEPT !.offer = None, !.awaited = FALSE]
      /\ UNCHANGED <<host, up, probe, retry, live, wire, pending, c2d, call>>
  BY Zenon, <1>1 DEF DaemonRefuse, DmRec, Routes
<1>3. /\ dm' \in DmRec /\ dm'.serving = dm.serving /\ dm'.cand = dm.cand /\ dm'.ready = dm.ready
      /\ dm'.committing = dm.committing /\ ~ dm'.awaited
  BY Zenon, <1>1, <1>2, OfferDone
<1>4. CASE UNCHANGED d2c
  <2>1. OffersCalm /\ NoNewErrors
    BY Zenon, <1>2, <1>3, <1>4, SameFrames, ShrinksAdds DEF OffersCalm, NoNewErrors
  <2> QED BY Zenon, <1>1, <1>2, <1>3, <1>4, <2>1, SameFrames, DaemonAnswers
<1>5. CASE ReplyOn(r, "offer", dm.awaited, FALSE, None)
  <2> DEFINE e == [op |-> "offer", awaited |-> dm.awaited, ok |-> FALSE, to |-> None]
  <2>1. e \in Reply /\ e.op = "offer" /\ e.awaited = dm.awaited /\ ~ e.ok
    BY Zenon, <1>1 DEF Reply, Ops, DmRec
  <2>2. d2c' = IF r \in wire THEN [d2c EXCEPT ![r] = Append(@, e)] ELSE d2c
    BY Zenon, <1>5 DEF ReplyOn
  <2> HIDE DEF e
  <2>3. e.awaited => /\ up.phase = "offering" /\ r = up.relay
                     /\ \A x \in Routes : ~ HasOffer(c2d'[x]) /\ ~ HasOffer(d2c[x])
    BY Zenon, <1>2, <2>1 DEF PhoneInv, AwaitedInv
  <2>4. AwaitedInv'
    BY Zenon, <1>1, <1>2, <1>3, <2>1, <2>2, <2>3, SameFrames, OfferReply
  <2>5. NoNewErrors /\ d2c' \in [Routes -> Seq(Reply)]
    <3>1. d2c' \in [Routes -> Seq(Reply)] /\ \A x \in Routes : Frames(d2c'[x]) \subseteq Frames(d2c[x]) \cup {e}
      BY Zenon, <1>2, <2>1, <2>2, ReplyFacts
    <3> QED BY Zenon, <2>1, <3>1 DEF NoNewErrors
  <2>6. ErrorInv'
    <3>1. up.phase = "none" => up.cand = None
      BY Zenon DEF PhoneInv, HostInv
    <3>2. RoutesCalm
      BY Zenon, <1>2, <1>3, <3>1 DEF RoutesCalm
    <3> QED BY Zenon, <2>5, <3>2, CalmErrors
  <2> QED BY Zenon, <1>1, <1>2, <1>3, <2>4, <2>5, <2>6, SameFrames, DaemonStep
<1> QED BY Zenon, <1>4, <1>5 DEF DaemonRefuse

LEMMA DaemonAcceptKeeps ==
  ASSUME PhoneInv, NEW d \in DirectRoutes, DaemonAccept(d) PROVE PhoneInv'
<1>1. /\ PhoneTypes /\ dm \in DmRec /\ d2c \in [Routes -> Seq(Reply)] /\ c2d \in [Routes -> Seq(Request)]
  BY Zenon, PhoneTypesAre DEF PhoneInv
<1> DEFINE r == dm.offer
<1>2. /\ r \in RelayRoutes /\ r \in Routes /\ d \in Routes
      /\ UNCHANGED <<host, up, probe, retry, live, pending, c2d, call>>
  BY Zenon, <1>1 DEF DaemonAccept, DmRec, Routes
<1>3. CASE dm.serving # r
  <2>1. dm' = [dm EXCEPT !.offer = None, !.awaited = FALSE] /\ UNCHANGED <<wire, d2c>>
    BY Zenon, <1>3 DEF DaemonAccept
  <2>2. /\ dm' \in DmRec /\ dm'.serving = dm.serving /\ dm'.cand = dm.cand /\ dm'.ready = dm.ready
        /\ dm'.committing = dm.committing /\ ~ dm'.awaited
    BY Zenon, <1>1, <2>1, OfferDone
  <2>3. OffersCalm /\ NoNewErrors
    BY Zenon, <1>2, <2>1, <2>2, SameFrames, ShrinksAdds DEF OffersCalm, NoNewErrors
  <2> QED BY Zenon, <1>1, <1>2, <2>1, <2>2, <2>3, SameFrames, DaemonAnswers
<1>4. CASE dm.serving = r
  <2>1. /\ dm' = [dm EXCEPT !.offer = None, !.awaited = FALSE, !.cand = d, !.from = r, !.ready = FALSE]
        /\ wire' = wire \ {dm.cand} /\ ReplyOn(r, "offer", dm.awaited, TRUE, d)
    BY Zenon, <1>4 DEF DaemonAccept
  <2>2. /\ dm' \in DmRec /\ dm'.serving = dm.serving /\ dm'.cand = d /\ ~ dm'.ready
        /\ dm'.committing = dm.committing /\ ~ dm'.awaited
    BY Zenon, <1>1, <1>2, <2>1 DEF DmRec
  <2>3. /\ d \notin {host.transport, host.connecting, dm.serving, dm.committing} /\ d # r
        /\ d2c[d] = <<>>
    BY Zenon DEF DaemonAccept, Fresh
  <2> DEFINE e == [op |-> "offer", awaited |-> dm.awaited, ok |-> TRUE, to |-> d]
  <2>4. e \in Reply /\ e.op = "offer" /\ e.awaited = dm.awaited /\ e.ok /\ e.to = d
    BY Zenon, <1>1, <1>2 DEF Reply, Ops, DmRec
  <2>5. d2c' = IF r \in wire THEN [d2c EXCEPT ![r] = Append(@, e)] ELSE d2c
    BY Zenon, <2>1 DEF ReplyOn
  <2> HIDE DEF e
  <2>6. /\ d2c' \in [Routes -> Seq(Reply)] /\ \A x \in Routes : x # r => d2c'[x] = d2c[x]
        /\ \A x \in Routes : Frames(d2c'[x]) \subseteq Frames(d2c[x]) \cup {e}
    BY ZenonT(30), <1>2, <2>4, <2>5, ReplyFacts
  <2>7. d2c'[d] = <<>>
    BY Zenon, <1>2, <2>3, <2>6
  <2>8. e.awaited => /\ up.phase = "offering" /\ r = up.relay
                     /\ \A x \in Routes : ~ HasOffer(c2d'[x]) /\ ~ HasOffer(d2c[x])
    BY Zenon, <1>2, <2>4 DEF PhoneInv, AwaitedInv
  <2>9. AwaitedInv'
    BY ZenonT(30), <1>1, <1>2, <2>2, <2>3, <2>4, <2>5, <2>7, <2>8, SameFrames, OfferReply
  <2>10. \A x \in Routes : \A f \in Frames(d2c'[x]) : f \in Frames(d2c[x]) \/ (f = e /\ x = r)
    BY Zenon, <2>6
  <2>11. \A code : ~ IsError(e, code)
    BY Zenon, <2>4 DEF IsError
  <2>12. ErrorInv'
    <3>1. \A x \in Routes : \A f \in Frames(d2c'[x]) : IsError(f, "kicked") =>
            /\ x \notin {host'.transport, host'.connecting}
            /\ up'.phase # "none" /\ x = up'.cand => host'.transport # up'.relay
      BY Zenon, <1>2, <2>10, <2>11 DEF PhoneInv, ErrorInv
    <3>2. \A x \in Routes : (x = dm'.cand \/ \E f \in Frames(d2c'[x]) : IsError(f, "bad_frame")) =>
            /\ x \notin {host'.transport, host'.connecting, dm'.serving}
            /\ \A f \in Frames(d2c'[x]) : f.op # "ping"
      <4> SUFFICES ASSUME NEW x \in Routes, x = dm'.cand \/ \E f \in Frames(d2c'[x]) : IsError(f, "bad_frame")
                   PROVE  /\ x \notin {host'.transport, host'.connecting, dm'.serving}
                          /\ \A f \in Frames(d2c'[x]) : f.op # "ping"
        OBVIOUS
      <4>1. CASE x = d
        BY <1>2, <2>2, <2>3, <2>7, <4>1, EmptyShrinks
      <4>2. CASE x # d
        <5>1. \E f \in Frames(d2c[x]) : IsError(f, "bad_frame")
          BY Zenon, <2>2, <2>10, <2>11, <4>2
        <5>2. /\ x \notin {host.transport, host.connecting, dm.serving}
              /\ \A f \in Frames(d2c[x]) : f.op # "ping"
          BY Zenon, <5>1 DEF PhoneInv, ErrorInv
        <5> QED BY Zenon, <1>2, <2>2, <2>4, <2>10, <5>2
      <4> QED BY Zenon, <4>1, <4>2
    <3>3. \A f \in Frames(d2c'[dm'.cand]) : ~ IsError(f, "bad_frame")
      BY Zenon, <2>2, <2>7, EmptyShrinks
    <3>4. \A x \in Routes : \A f \in Frames(d2c'[x]) : f.op = "error" =>
            f.to \in {"kicked", "bad_frame"} \/ ("drop" \in host'.may /\ f.to \in Codes)
      BY Zenon, <1>2, <2>4, <2>10 DEF PhoneInv, ErrorInv
    <3> QED BY Zenon, <3>1, <3>2, <3>3, <3>4 DEF ErrorInv
  <2>13. wire' \subseteq wire
    BY Zenon, <2>1
  <2> QED BY Zenon, <1>1, <1>2, <2>2, <2>6, <2>9, <2>12, <2>13, SameFrames, DaemonStep
<1> QED BY Zenon, <1>3, <1>4

LEMMA DaemonHello3Keeps ==
  ASSUME PhoneInv, DaemonHello3 PROVE PhoneInv'
<1>1. /\ PhoneTypes /\ dm \in DmRec /\ d2c \in [Routes -> Seq(Reply)] /\ c2d \in [Routes -> Seq(Request)]
  BY Zenon, PhoneTypesAre DEF PhoneInv
<1>2. /\ up.phase = "handshaking" /\ dm.cand \in Routes
      /\ UNCHANGED <<host, up, probe, retry, live, pending, c2d, call>>
  BY Zenon, <1>1 DEF DaemonHello3, PhoneInv, HostInv, Routes
<1>3. CASE dm.serving = dm.from
  <2> DEFINE e == [op |-> "hello", awaited |-> TRUE, ok |-> TRUE, to |-> None]
  <2>1. e \in Reply /\ e.op = "hello"
    BY Zenon DEF Reply, Ops
  <2>2. /\ dm' = [dm EXCEPT !.ready = TRUE] /\ wire' = wire
        /\ d2c' = IF dm.cand \in wire THEN [d2c EXCEPT ![dm.cand] = Append(@, e)] ELSE d2c
    BY Zenon, <1>3 DEF DaemonHello3, ReplyOn
  <2> HIDE DEF e
  <2>3. /\ dm' \in DmRec /\ dm'.serving = dm.serving /\ dm'.cand = dm.cand /\ dm'.committing = dm.committing
        /\ dm'.offer = dm.offer /\ dm'.awaited = dm.awaited
    BY Zenon, <1>1, <2>2 DEF DmRec
  <2>4. d2c' \in [Routes -> Seq(Reply)] /\ NoNewErrors /\ \A x \in Routes : Adds(d2c'[x], d2c[x])
    BY Zenon, <1>2, <2>1, <2>2, PlainReply
  <2>5. OffersCalm
    BY Zenon, <1>2, <2>3, <2>4, SameFrames, ShrinksAdds DEF OffersCalm
  <2> QED BY Zenon, <1>1, <1>2, <2>2, <2>3, <2>4, <2>5, SameFrames, DaemonAnswers
<1>4. CASE dm.serving # dm.from
  <2>1. dm' = NoCandidate(dm) /\ wire' = wire \ {dm.cand} /\ UNCHANGED d2c
    BY Zenon, <1>4 DEF DaemonHello3
  <2>2. /\ dm' \in DmRec /\ dm'.serving = dm.serving /\ dm'.cand = None /\ ~ dm'.ready
        /\ dm'.committing = dm.committing /\ dm'.offer = dm.offer /\ dm'.awaited = dm.awaited
    BY Zenon, <1>1, <2>1, NoCandidateFacts
  <2>3. OffersCalm /\ NoNewErrors
    BY Zenon, <1>2, <2>1, <2>2, SameFrames, ShrinksAdds DEF OffersCalm, NoNewErrors
  <2> QED BY Zenon, <1>1, <1>2, <2>1, <2>2, <2>3, SameFrames, DaemonAnswers
<1> QED BY Zenon, <1>3, <1>4

LEMMA CandidateExpiresKeeps ==
  ASSUME PhoneInv, CandidateExpires \/ DaemonNotices PROVE PhoneInv'
<1>1. /\ PhoneTypes /\ dm \in DmRec /\ d2c \in [Routes -> Seq(Reply)] /\ c2d \in [Routes -> Seq(Request)]
  BY Zenon, PhoneTypesAre DEF PhoneInv
<1>2. UNCHANGED <<host, up, probe, retry, live, pending, c2d, d2c, call>> /\ wire' \subseteq wire
  BY Zenon DEF CandidateExpires, DaemonNotices
<1>3. /\ dm' \in DmRec /\ dm'.serving \in {dm.serving, None} /\ dm'.cand \in {dm.cand, None}
      /\ dm'.committing = dm.committing /\ dm'.offer = dm.offer /\ dm'.awaited = dm.awaited
      /\ dm'.ready => dm.ready
  <2>1. CASE CandidateExpires
    BY Zenon, <1>1, <2>1, NoCandidateFacts DEF CandidateExpires
  <2>2. CASE DaemonNotices
    BY Zenon, <1>1, <2>2 DEF DaemonNotices, DmRec
  <2> QED BY Zenon, <2>1, <2>2
<1>4. OffersCalm /\ NoNewErrors
  BY Zenon, <1>2, <1>3, SameFrames, ShrinksAdds DEF OffersCalm, NoNewErrors
<1> QED BY Zenon, <1>1, <1>2, <1>3, <1>4, SameFrames, DaemonAnswers

LEMMA DaemonSwitchKeeps ==
  ASSUME PhoneInv, DaemonSwitch PROVE PhoneInv'
<1>1. /\ PhoneTypes /\ dm \in DmRec /\ d2c \in [Routes -> Seq(Reply)] /\ c2d \in [Routes -> Seq(Request)]
  BY Zenon, PhoneTypesAre DEF PhoneInv
<1>2. dm.committing # None /\ UNCHANGED <<host, up, probe, retry, live, wire, pending, c2d, d2c, call>>
  BY Zenon DEF DaemonSwitch
<1>3. CASE dm.committing = dm.cand /\ dm.serving = dm.from
  <2> DEFINE n == [dm EXCEPT !.serving = dm.cand, !.committing = None]
  <2>1. /\ n \in DmRec /\ n.serving = dm.cand /\ n.committing = None /\ n.offer = dm.offer
        /\ n.awaited = dm.awaited
    BY ZenonT(30), <1>1 DEF DmRec, Routes
  <2>2. dm' = NoCandidate(n)
    BY Zenon, <1>3 DEF DaemonSwitch
  <2> HIDE DEF n
  <2>3. /\ dm' \in DmRec /\ dm'.serving = dm.cand /\ dm'.cand = None /\ ~ dm'.ready
        /\ dm'.committing = None /\ dm'.offer = dm.offer /\ dm'.awaited = dm.awaited
    BY Zenon, <2>1, <2>2, NoCandidateFacts
  <2>4. dm.cand # None /\ dm.cand \in Routes
    BY Zenon, <1>1, <1>2, <1>3 DEF DmRec, Routes
  <2>5. AwaitedInv'
    <3>1. \A r \in Routes : \A f \in Frames(d2c[r]) :
            f.op = "offer" /\ f.ok =>
              /\ f.to \in DirectRoutes
              /\ f.awaited => /\ f.to # dm'.serving /\ f.to # dm'.committing
                              /\ dm'.cand = f.to => ~ dm'.ready
                              /\ \A g \in Frames(d2c[f.to]) : ~ IsError(g, "kicked")
      <4>1. None \notin DirectRoutes
        BY Zenon, PhoneAssumption DEF None, Routes
      <4> QED BY Zenon, <1>3, <2>3, <4>1 DEF PhoneInv, AwaitedInv
    <3> QED BY Zenon, <1>2, <2>3, <3>1 DEF PhoneInv, AwaitedInv
  <2>6. ErrorInv'
    <3>1. None \notin Routes
      BY Zenon, PhoneAssumption DEF None, Routes
    <3>2. \A x \in Routes : (x = dm'.cand \/ \E f \in Frames(d2c[x]) : IsError(f, "bad_frame")) =>
            /\ x \notin {host.transport, host.connecting, dm'.serving}
            /\ \A f \in Frames(d2c[x]) : f.op # "ping"
      BY Zenon, <2>3, <2>4, <3>1 DEF PhoneInv, ErrorInv
    <3> QED BY Zenon, <1>2, <2>3, <3>2 DEF PhoneInv, ErrorInv
  <2> QED BY Zenon, <1>1, <1>2, <2>3, <2>5, <2>6, SameFrames, DaemonStep
<1>4. CASE ~ (dm.committing = dm.cand /\ dm.serving = dm.from)
  <2>1. dm' = [dm EXCEPT !.committing = None]
    BY Zenon, <1>4 DEF DaemonSwitch
  <2>2. /\ dm' \in DmRec /\ dm'.serving = dm.serving /\ dm'.cand = dm.cand /\ dm'.ready = dm.ready
        /\ dm'.committing = None /\ dm'.offer = dm.offer /\ dm'.awaited = dm.awaited
    BY Zenon, <1>1, <2>1 DEF DmRec
  <2>3. OffersCalm /\ NoNewErrors
    BY Zenon, <1>2, <2>1, <2>2, SameFrames, ShrinksAdds DEF OffersCalm, NoNewErrors
  <2> QED BY Zenon, <1>1, <1>2, <2>1, <2>2, <2>3, SameFrames, DaemonAnswers
<1> QED BY Zenon, <1>3, <1>4

LEMMA DaemonEstablishesKeeps ==
  ASSUME PhoneInv, DaemonEstablishes PROVE PhoneInv'
<1>1. /\ PhoneTypes /\ dm \in DmRec /\ host \in HostRec
      /\ d2c \in [Routes -> Seq(Reply)] /\ c2d \in [Routes -> Seq(Request)]
  BY Zenon, PhoneTypesAre DEF PhoneInv
<1> DEFINE r == host.connecting
           old == dm.serving
           e == [op |-> "error", awaited |-> TRUE, ok |-> FALSE, to |-> "kicked"]
<1>2. /\ r # None /\ old # r /\ dm' = [dm EXCEPT !.serving = r]
      /\ UNCHANGED <<host, up, probe, retry, live, pending, c2d, call>>
  BY Zenon DEF DaemonEstablishes
<1>3. r \in RelayRoutes /\ r \notin DirectRoutes /\ r \in Routes /\ host.transport = None
  BY Zenon, <1>1, <1>2, PhoneAssumption DEF HostRec, Routes, PhoneInv, HostInv
<1>4. /\ dm' \in DmRec /\ dm'.serving = r /\ dm'.cand = dm.cand /\ dm'.ready = dm.ready
      /\ dm'.committing = dm.committing /\ dm'.offer = dm.offer /\ dm'.awaited = dm.awaited
  BY Zenon, <1>1, <1>2, <1>3 DEF DmRec
<1>5. None \notin Routes /\ None \notin RelayRoutes
  BY Zenon, PhoneAssumption DEF Routes
<1>6. e \in Reply /\ e.op = "error" /\ e.to = "kicked"
  BY Zenon DEF Reply, Codes
<1>7. wire' \subseteq wire /\ \/ UNCHANGED d2c
                              \/ /\ old \in Routes
                                 /\ d2c' = IF old \in wire THEN [d2c EXCEPT ![old] = Append(@, e)] ELSE d2c
  BY Zenon, <1>1 DEF DaemonEstablishes, ReplyOn, DmRec
<1> HIDE DEF e
<1>8. ~ IsOffer(e) /\ ~ IsError(e, "bad_frame") /\ e.op # "ping" /\ e.op # "offer"
  BY Zenon, <1>6 DEF IsOffer, IsError
<1>9. /\ d2c' \in [Routes -> Seq(Reply)]
      /\ \A x \in Routes : \A f \in Frames(d2c'[x]) : f \in Frames(d2c[x]) \/ (f = e /\ x = old)
      /\ \A x \in Routes : OneOffer(d2c[x]) => OneOffer(d2c'[x])
  <2>1. CASE UNCHANGED d2c
    BY Zenon, <1>1, <2>1
  <2>2. CASE /\ old \in Routes
             /\ d2c' = IF old \in wire THEN [d2c EXCEPT ![old] = Append(@, e)] ELSE d2c
    <3>1. /\ d2c' \in [Routes -> Seq(Reply)] /\ \A x \in Routes : x # old => d2c'[x] = d2c[x]
          /\ \A x \in Routes : Frames(d2c'[x]) \subseteq Frames(d2c[x]) \cup {e}
          /\ OneOffer(d2c[old]) /\ (IsOffer(e) => ~ HasOffer(d2c[old])) => OneOffer(d2c'[old])
      BY Zenon, <1>6, <2>2, ReplyFacts
    <3> QED BY Zenon, <1>8, <3>1
  <2> QED BY Zenon, <1>7, <2>1, <2>2
<1>10. \A x \in Routes : HasOffer(d2c'[x]) => HasOffer(d2c[x])
  BY Zenon, <1>8, <1>9 DEF HasOffer
<1>11. AwaitedInv'
  <2>1. \A x \in Routes : \A f \in Frames(d2c'[x]) :
          f.op = "offer" /\ f.ok =>
            /\ f.to \in DirectRoutes
            /\ f.awaited => /\ f.to # dm'.serving /\ f.to # dm'.committing
                            /\ dm'.cand = f.to => ~ dm'.ready
                            /\ \A g \in Frames(d2c'[f.to]) : ~ IsError(g, "kicked")
    <3> SUFFICES ASSUME NEW x \in Routes, NEW f \in Frames(d2c'[x]), f.op = "offer", f.ok
                 PROVE  /\ f.to \in DirectRoutes
                        /\ f.awaited => /\ f.to # dm'.serving /\ f.to # dm'.committing
                                        /\ dm'.cand = f.to => ~ dm'.ready
                                        /\ \A g \in Frames(d2c'[f.to]) : ~ IsError(g, "kicked")
      OBVIOUS
    <3>1. f \in Frames(d2c[x])
      BY <1>8, <1>9
    <3>2. /\ f.to \in DirectRoutes
          /\ f.awaited => /\ f.to # dm.serving /\ f.to # dm.committing
                          /\ dm.cand = f.to => ~ dm.ready
                          /\ \A g \in Frames(d2c[f.to]) : ~ IsError(g, "kicked")
      BY Zenon, <3>1 DEF PhoneInv, AwaitedInv
    <3>3. f.to \in Routes /\ f.to # r
      BY Zenon, <1>3, <3>2 DEF Routes
    <3> QED BY Zenon, <1>4, <1>9, <3>2, <3>3
  <2>2. \A x \in Routes :
          /\ OneOffer(d2c[x]) /\ OneOffer(c2d[x]) /\ ~ (HasOffer(c2d[x]) /\ HasOffer(d2c[x]))
          /\ dm.awaited => ~ HasOffer(c2d[x]) /\ ~ HasOffer(d2c[x])
          /\ HasOffer(c2d[x]) \/ HasOffer(d2c[x]) => up.phase = "offering" /\ x = up.relay
    BY Zenon DEF PhoneInv, AwaitedInv
  <2>3. /\ \A x \in Routes : \A f \in Frames(c2d[x]) : f.op = "offer" => x \in RelayRoutes
        /\ dm.awaited => up.phase = "offering" /\ dm.offer = up.relay
    BY Zenon DEF PhoneInv, AwaitedInv
  <2> QED BY Zenon, <1>2, <1>4, <1>9, <1>10, <2>1, <2>2, <2>3 DEF AwaitedInv
<1>12. ErrorInv'
  <2>1. \A x \in Routes : \A f \in Frames(d2c'[x]) : IsError(f, "kicked") =>
          /\ x \notin {host.transport, host.connecting}
          /\ up.phase # "none" /\ x = up.cand => host.transport # up.relay
    <3> SUFFICES ASSUME NEW x \in Routes, NEW f \in Frames(d2c'[x]), IsError(f, "kicked")
                 PROVE  /\ x \notin {host.transport, host.connecting}
                        /\ up.phase # "none" /\ x = up.cand => host.transport # up.relay
      OBVIOUS
    <3>1. up.phase # "none" => host.transport # up.relay
      BY <1>3, <1>5 DEF PhoneInv, HostInv
    <3>2. x # host.connecting
      BY Zenon, <1>2, <1>9 DEF PhoneInv, ErrorInv
    <3> QED BY Zenon, <1>3, <1>5, <3>1, <3>2
  <2>2. \A x \in Routes : (x = dm'.cand \/ \E f \in Frames(d2c'[x]) : IsError(f, "bad_frame")) =>
          /\ x \notin {host.transport, host.connecting, dm'.serving}
          /\ \A f \in Frames(d2c'[x]) : f.op # "ping"
    <3> SUFFICES ASSUME NEW x \in Routes, x = dm'.cand \/ \E f \in Frames(d2c'[x]) : IsError(f, "bad_frame")
                 PROVE  /\ x \notin {host.transport, host.connecting, dm'.serving}
                        /\ \A f \in Frames(d2c'[x]) : f.op # "ping"
      OBVIOUS
    <3>1. x = dm.cand \/ \E f \in Frames(d2c[x]) : IsError(f, "bad_frame")
      BY <1>4, <1>8, <1>9
    <3>2. /\ x \notin {host.transport, host.connecting, dm.serving}
          /\ \A f \in Frames(d2c[x]) : f.op # "ping"
      BY Zenon, <3>1 DEF PhoneInv, ErrorInv
    <3> QED BY Zenon, <1>4, <1>8, <1>9, <3>2
  <2>3. dm'.cand # None => \A f \in Frames(d2c'[dm'.cand]) : ~ IsError(f, "bad_frame")
    <3>1. dm.cand # None => dm.cand \in Routes
      BY Zenon, <1>1 DEF DmRec, Routes
    <3> QED BY Zenon, <1>4, <1>8, <1>9, <3>1 DEF PhoneInv, ErrorInv
  <2>4. \A x \in Routes : \A f \in Frames(d2c'[x]) : f.op = "error" =>
          f.to \in {"kicked", "bad_frame"} \/ ("drop" \in host.may /\ f.to \in Codes)
    BY Zenon, <1>6, <1>9 DEF PhoneInv, ErrorInv
  <2> QED BY Zenon, <1>2, <2>1, <2>2, <2>3, <2>4 DEF ErrorInv
<1> QED BY Zenon, <1>1, <1>2, <1>4, <1>7, <1>9, <1>11, <1>12, SameFrames, DaemonStep

LEMMA DaemonGoneKeeps ==
  ASSUME PhoneInv, NEW code \in {"daemon_offline", "uncertain"}, DaemonGone(code) PROVE PhoneInv'
<1>1. /\ PhoneTypes /\ dm \in DmRec /\ d2c \in [Routes -> Seq(Reply)] /\ c2d \in [Routes -> Seq(Request)]
  BY Zenon, PhoneTypesAre DEF PhoneInv
<1> DEFINE e == [op |-> "error", awaited |-> TRUE, ok |-> FALSE, to |-> code]
           none == [r \in Routes |-> <<>>]
           n == [dm EXCEPT !.serving = IF @ \in RelayRoutes THEN None ELSE @]
<1>2. /\ "drop" \in host.may /\ wire' \subseteq wire
      /\ c2d' = [r \in Routes |-> IF r \in RelayRoutes THEN <<>> ELSE c2d[r]]
      /\ dm' = NoCandidate(n)
      /\ UNCHANGED <<host, up, probe, retry, live, pending, call>>
  BY Zenon DEF DaemonGone
<1>3. PICK kept \in {d2c, none} : d2c' = [r \in Routes |->
         IF r \in wire \cap RelayRoutes THEN Append(kept[r], e) ELSE d2c[r]]
  BY Zenon DEF DaemonGone
<1>4. e \in Reply /\ e.op = "error" /\ e.to \in Codes \ {"kicked", "bad_frame"}
  BY Zenon DEF Reply, Codes
<1>5. n \in DmRec /\ n.serving \in {dm.serving, None} /\ n.committing = dm.committing
      /\ n.offer = dm.offer /\ n.awaited = dm.awaited
  BY Zenon, <1>1 DEF DmRec
<1> HIDE DEF n
<1>6. /\ dm' \in DmRec /\ dm'.serving \in {dm.serving, None} /\ dm'.cand = None /\ ~ dm'.ready
      /\ dm'.committing = dm.committing /\ dm'.offer = dm.offer /\ dm'.awaited = dm.awaited
  BY Zenon, <1>2, <1>5, NoCandidateFacts
<1>7. c2d' \in [Routes -> Seq(Request)] /\ \A x \in Routes : c2d'[x] = c2d[x] \/ c2d'[x] = <<>>
  BY <1>1, <1>2
<1>8. \A x \in Routes : Shrinks(c2d'[x], c2d[x]) /\ Adds(c2d'[x], c2d[x])
  BY Zenon, <1>7, EmptyShrinks, SameShrinks, ShrinksAdds
<1> HIDE DEF e
<1>9. ~ IsOffer(e) /\ ~ IsError(e, "kicked") /\ e.op # "ping" /\ e.op # "offer"
  BY Zenon, <1>4 DEF IsOffer, IsError
<1>10. \A x \in Routes : /\ d2c'[x] \in Seq(Reply) /\ Adds(d2c'[x], d2c[x])
                         /\ Frames(d2c'[x]) \subseteq Frames(d2c[x]) \cup {e}
  <2> SUFFICES ASSUME NEW x \in Routes
               PROVE  /\ d2c'[x] \in Seq(Reply) /\ Adds(d2c'[x], d2c[x])
                      /\ Frames(d2c'[x]) \subseteq Frames(d2c[x]) \cup {e}
    OBVIOUS
  <2>1. CASE d2c'[x] = d2c[x]
    BY <1>1, <2>1, SameShrinks, ShrinksAdds
  <2>2. CASE d2c'[x] = Append(kept[x], e)
    <3>1. kept[x] \in Seq(Reply) /\ (kept[x] = d2c[x] \/ kept[x] = <<>>)
      <4>1. none[x] = <<>>
        OBVIOUS
      <4>2. CASE kept = d2c
        BY <1>1, <4>2
      <4>3. CASE kept = none
        BY <4>1, <4>3
      <4> QED BY Zenon, <1>3, <4>2, <4>3
    <3>2. Shrinks(kept[x], d2c[x])
      BY Zenon, <3>1, EmptyShrinks, SameShrinks
    <3>3. /\ Append(kept[x], e) \in Seq(Reply) /\ Frames(Append(kept[x], e)) = Frames(kept[x]) \cup {e}
          /\ OneOffer(kept[x]) /\ (IsOffer(e) => ~ HasOffer(kept[x])) => OneOffer(Append(kept[x], e))
      BY Zenon, <1>4, <3>1, AppendFrames
    <3>4. Frames(kept[x]) \subseteq Frames(d2c[x])
      BY Zenon, <3>1, EmptyShrinks
    <3>5. Adds(d2c'[x], d2c[x])
      BY Zenon, <1>9, <2>2, <3>2, <3>3 DEF Adds, Shrinks
    <3> QED BY Zenon, <2>2, <3>3, <3>4, <3>5
  <2> QED BY Zenon, <1>3, <2>1, <2>2
<1>11. d2c' \in [Routes -> Seq(Reply)]
  <2>1. DOMAIN d2c' = Routes /\ d2c' = [r \in Routes |-> d2c'[r]]
    BY Zenon, <1>3
  <2> QED BY Zenon, <1>10, <2>1
<1>12. NoNewErrors
  BY Zenon, <1>2, <1>4, <1>9, <1>10 DEF NoNewErrors
<1>13. OffersCalm
  BY Zenon, <1>2, <1>6, <1>8, <1>10 DEF OffersCalm
<1> QED BY Zenon, <1>1, <1>2, <1>6, <1>7, <1>8, <1>11, <1>12, <1>13, DaemonAnswers

=============================================================================
