----------------------------- MODULE PhoneProofs -----------------------------
(***************************************************************************)
(* The phone's end of a session, proved for any number of routes and       *)
(* frames: types, the switch barrier (NoCallIsCutOff), what callers are    *)
(* told (OutcomesAreHonest), what a closed session leaves                  *)
(* (ClosedIsClosed), and that a phone does not kick itself                 *)
(* (NeverSelfKicked).                                                      *)
(***************************************************************************)
EXTENDS PhoneInvariant

-----------------------------------------------------------------------------
(* What transports receive, and the application's calls.                   *)

LEMMA HealthAnsweredKeeps ==
  ASSUME PhoneInv, NEW r \in Routes, HealthAnswered(r) PROVE PhoneInv'
<1>1. PhoneTypes /\ host \in HostRec /\ up \in UpRec /\ call \in CallRec
  BY Zenon, PhoneTypesAre DEF PhoneInv
<1>2. /\ pending' \in [Routes -> SUBSET Ops] /\ \A x \in Routes : "call" \in pending[x] => "call" \in pending'[x]
      /\ c2d' = c2d /\ d2c' \in [Routes -> Seq(Reply)] /\ \A x \in Routes : Shrinks(d2c'[x], d2c[x])
  <2>1. Answered(r, "health") /\ "health" \in Ops /\ "health" # "call"
    BY Zenon DEF HealthAnswered, Ops
  <2> QED BY Zenon, <2>1, AnsweredFacts
<1> DEFINE h == [host EXCEPT !.checking = FALSE]
<1>3. /\ h \in HostRec /\ h.transport = host.transport /\ h.may = host.may
      /\ h.stopped = host.stopped /\ h.deferred = host.deferred /\ h.timer = host.timer
      /\ h.connecting = host.connecting
  BY Zenon, <1>1 DEF HostRec
<1>4. /\ UNCHANGED <<live, wire, dm, call>> /\ probe' \in {probe, None}
      /\ (host' = h /\ StartUpgrade(h, r)) \/ UNCHANGED <<host, up, retry>>
  BY Zenon DEF HealthAnswered
<1> HIDE DEF h
<1>5. /\ host' \in {h, host}
      /\ \/ up' = up
         \/ up.phase = "none" /\ host.transport \in RelayRoutes /\ up' = Attempt(host.transport)
      /\ retry' \in RelayRoutes \cup {None}
  BY Zenon, <1>1, <1>3, <1>4, StartFacts, PhoneTypesAre
<1>6. call.st = "sent" => "call" \in pending'[call.route]
  <2>1. call.st = "sent" => "call" \in pending[call.route] /\ call.route \in live
    BY Zenon DEF PhoneInv, CallInv
  <2>2. live \subseteq Routes
    BY Zenon, <1>1, PhoneTypesAre
  <2> QED BY Zenon, <1>2, <2>1, <2>2
<1>7. probe' \in Routes \cup {None}
  BY Zenon, <1>1, <1>4, PhoneTypesAre
<1>8. /\ host' \in HostRec /\ host'.transport = host.transport /\ host'.may = host.may
      /\ host'.stopped = host.stopped /\ host'.deferred = host.deferred /\ host'.timer = host.timer
      /\ host'.connecting = host.connecting
  BY Zenon, <1>1, <1>3, <1>5
<1> QED BY Zenon, <1>1, <1>2, <1>4, <1>5, <1>6, <1>7, <1>8, PhoneTypesAre, SameFrames, QuietStep

LEMMA HealthFailsKeeps ==
  ASSUME PhoneInv, NEW r \in Routes, HealthFails(r) PROVE PhoneInv'
<1>1. PhoneTypes /\ host \in HostRec /\ up \in UpRec /\ call \in CallRec /\ live \subseteq Routes
  BY Zenon, PhoneTypesAre DEF PhoneInv
<1>2. up' = up /\ dm' = dm
  BY Zenon DEF HealthFails
<1>3. CASE Disconnect(host, r, "uncertain")
  <2>1. "uncertain" \in Codes
    BY Zenon DEF Codes
  <2> QED BY Zenon, <1>1, <1>2, <1>3, <2>1, DisconnectKeeps
<1>4. CASE /\ Timeout(r, "health") /\ probe' = (IF probe = r THEN None ELSE probe)
           /\ UNCHANGED <<host, retry, live, wire, call>>
  <2>1. "health" \in Ops /\ "health" # "call"
    BY Zenon DEF Ops
  <2>2. /\ pending' \in [Routes -> SUBSET Ops] /\ \A x \in Routes : "call" \in pending[x] => "call" \in pending'[x]
        /\ c2d' \in [Routes -> Seq(Request)] /\ d2c' \in [Routes -> Seq(Reply)]
        /\ \A x \in Routes : Shrinks(d2c'[x], d2c[x]) /\ Shrinks(c2d'[x], c2d[x])
    BY Zenon, <1>4, <2>1, TimeoutFacts
  <2>3. call.st = "sent" => "call" \in pending'[call.route]
    BY Zenon, <1>1, <2>2 DEF PhoneInv, CallInv
  <2>4. probe' \in Routes \cup {None}
    BY Zenon, <1>1, <1>4, PhoneTypesAre
  <2>5. \A x \in Routes : Adds(c2d'[x], c2d[x])
    BY Zenon, <2>2, ShrinksAdds
  <2>6. HasCall' => HasCall
    BY Zenon, <2>2, ShrinksCalls
  <2> QED BY Zenon, <1>1, <1>2, <1>4, <2>2, <2>3, <2>4, <2>5, <2>6, PhoneTypesAre, QuietStep
<1> QED BY Zenon, <1>3, <1>4 DEF HealthFails

LEMMA ErrorFrameKeeps ==
  ASSUME PhoneInv, NEW r \in Routes, ErrorFrame(r) PROVE PhoneInv'
<1>1. PhoneTypes /\ host \in HostRec /\ up \in UpRec /\ d2c \in [Routes -> Seq(Reply)]
  BY Zenon, PhoneTypesAre DEF PhoneInv
<1> DEFINE f == Head(d2c[r])
<1>2. up' = up /\ dm' = dm /\ d2c[r] # <<>> /\ f.op = "error" /\ Disconnect(host, r, f.to)
  BY Zenon DEF ErrorFrame
<1>3. f \in Frames(d2c[r])
  BY Zenon, <1>2, TailFacts
<1> HIDE DEF f
<1>4. f.to \in {"kicked", "bad_frame"} \/ ("drop" \in host.may /\ f.to \in Codes)
  BY Zenon, <1>2, <1>3 DEF PhoneInv, ErrorInv
<1>5. f.to = "kicked" => r # host.transport
  BY Zenon, <1>2, <1>3 DEF PhoneInv, ErrorInv, IsError
<1>6. f.to = "bad_frame" => r # host.transport
  BY Zenon, <1>2, <1>3 DEF PhoneInv, ErrorInv, IsError
<1>7. f.to \in Codes
  BY Zenon, <1>4 DEF Codes
<1> QED BY Zenon, <1>1, <1>2, <1>4, <1>5, <1>6, <1>7, DisconnectKeeps

LEMMA NoticeCloseKeeps ==
  ASSUME PhoneInv, NEW r \in Routes, NoticeClose(r) PROVE PhoneInv'
<1>1. PhoneTypes /\ host \in HostRec /\ up \in UpRec
  BY Zenon, PhoneTypesAre DEF PhoneInv
<1>2. up' = up /\ dm' = dm /\ Disconnect(host, r, "uncertain") /\ "uncertain" \in Codes
  BY Zenon DEF NoticeClose, Codes
<1> QED BY Zenon, <1>1, <1>2, DisconnectKeeps

LEMMA LateReplyKeeps ==
  ASSUME PhoneInv, NEW r \in Routes, LateReply(r) PROVE PhoneInv'
<1>1. PhoneTypes
  BY Zenon DEF PhoneInv
<1>2. /\ UNCHANGED <<host, up, probe, retry, live, wire, pending, c2d, dm, call>>
      /\ d2c[r] # <<>> /\ d2c' = [d2c EXCEPT ![r] = Tail(@)]
  BY Zenon DEF LateReply
<1>3. d2c' \in [Routes -> Seq(Reply)] /\ \A x \in Routes : Shrinks(d2c'[x], d2c[x])
  BY Zenon, <1>2, TailFacts
<1>4. call.st = "sent" => "call" \in pending[call.route]
  BY Zenon DEF PhoneInv, CallInv
<1> QED BY Zenon, <1>1, <1>2, <1>3, <1>4, PhoneTypesAre, SameFrames, QuietStep

LEMMA WireBreaksKeeps ==
  ASSUME PhoneInv, NEW r \in Routes, WireBreaks(r) PROVE PhoneInv'
<1>1. PhoneTypes /\ c2d \in [Routes -> Seq(Request)]
  BY Zenon, PhoneTypesAre DEF PhoneInv
<1>2. /\ UNCHANGED <<host, up, probe, retry, live, pending, dm, call>> /\ wire' = wire \ {r}
      /\ d2c' = [d2c EXCEPT ![r] = <<>>] /\ c2d' \in {c2d, [c2d EXCEPT ![r] = <<>>]}
  BY Zenon DEF WireBreaks
<1>3. d2c' \in [Routes -> Seq(Reply)] /\ \A x \in Routes : Shrinks(d2c'[x], d2c[x])
  BY Zenon, <1>2, ClearFacts
<1>4. ASSUME NEW x \in Routes PROVE c2d'[x] \in Seq(Request) /\ Shrinks(c2d'[x], c2d[x])
  <2>1. c2d'[x] = c2d[x] \/ c2d'[x] = <<>>
    BY Zenon, <1>1, <1>2
  <2>2. <<>> \in Seq(Request)
    OBVIOUS
  <2> QED BY Zenon, <1>1, <2>1, <2>2, EmptyShrinks, SameShrinks
<1>5. c2d' \in [Routes -> Seq(Request)]
  <2>1. DOMAIN c2d' = Routes /\ c2d' = [x \in DOMAIN c2d' |-> c2d'[x]]
    BY Zenon, <1>1, <1>2
  <2> QED BY Zenon, <1>4, <2>1
<1>6. call.st = "sent" => "call" \in pending[call.route]
  BY Zenon DEF PhoneInv, CallInv
<1>7. /\ \A x \in Routes : Adds(c2d'[x], c2d[x])
      /\ HasCall' => HasCall
  BY Zenon, <1>4, ShrinksAdds, ShrinksCalls
<1>8. wire' \subseteq wire
  BY Zenon, <1>2
<1> QED BY Zenon, <1>1, <1>2, <1>3, <1>5, <1>6, <1>7, <1>8, PhoneTypesAre, QuietStep

(* Steps of a mutation leave everything but the requests alone.            *)
LEMMA CallFrame ==
  ASSUME PhoneInv, UNCHANGED <<host, up, probe, retry, live, wire, dm>>,
         call' \in CallRec, pending' \in [Routes -> SUBSET Ops],
         c2d' \in [Routes -> Seq(Request)], d2c' \in [Routes -> Seq(Reply)],
         \A r \in Routes : Adds(c2d'[r], c2d[r]) /\ Shrinks(d2c'[r], d2c[r]),
         CallInv', NoCallIsCutOff'
  PROVE  PhoneInv'
<1>1. PhoneTypes'
  BY Zenon, PhoneTypesAre, PhoneTypesNext DEF PhoneInv
<1>2. HostInv' /\ RouteInv'
  BY Zenon DEF PhoneInv, HostInv, RouteInv, Switching
<1>3. Calm
  <2>1. up.phase = "none" => up.cand = None
    BY Zenon DEF PhoneInv, HostInv
  <2> QED BY Zenon, <2>1, ShrinksAdds DEF Calm, OffersCalm, RoutesCalm
<1> QED BY Zenon, <1>1, <1>2, <1>3, CalmErrors, CalmOffers, ShrinksErrors DEF PhoneInv, Calm

LEMMA CallOnKeeps ==
  ASSUME PhoneInv, call.st \in {"idle", "waiting"}, CallOn(host.transport), host.checking \/ ~ Switching,
         UNCHANGED <<host, up, probe, retry, live, wire, dm>>
  PROVE  PhoneInv'
<1>1. PhoneTypes /\ call \in CallRec /\ live \subseteq Routes
  BY Zenon, PhoneTypesAre DEF PhoneInv
<1>2. ~ call.ran /\ ~ HasCall /\ call.res = None
  BY Zenon DEF PhoneInv, CallInv
<1>3. CASE call' = Returned("notsent") /\ UNCHANGED <<pending, c2d, d2c>>
  <2>1. call' \in CallRec /\ call'.st = "done" /\ call'.res = "notsent" /\ call'.ran = call.ran
    BY Zenon, <1>1, <1>3 DEF Returned, CallRec
  <2>2. ~ HasCall'
    BY Zenon, <1>2, <1>3 DEF HasCall
  <2>3. CallInv'
    BY Zenon, <1>2, <2>1, <2>2 DEF CallInv, None
  <2>4. NoCallIsCutOff'
    BY Zenon, <2>1 DEF NoCallIsCutOff
  <2> QED BY Zenon, <1>1, <1>3, <2>1, <2>3, <2>4, PhoneTypesAre, SameFrames, CallFrame
<1>4. CASE /\ ~ (host.checking \/ host.transport \notin live)
           /\ call' = [call EXCEPT !.st = "sent", !.route = host.transport]
           /\ Send(host.transport, "call")
  <2>1. /\ call' \in CallRec /\ call'.st = "sent" /\ call'.route = host.transport /\ call'.ran = call.ran
        /\ call'.res = None
    BY Zenon, <1>1, <1>2, <1>4 DEF CallRec
  <2>2. host.transport \in Routes /\ "call" \in Ops /\ "call" # "offer"
    BY Zenon, <1>1, <1>4 DEF Ops
  <2>3. /\ pending' \in [Routes -> SUBSET Ops] /\ "call" \in pending'[host.transport]
        /\ c2d' \in [Routes -> Seq(Request)] /\ d2c' \in [Routes -> Seq(Reply)]
        /\ \A x \in Routes : Adds(c2d'[x], c2d[x]) /\ Shrinks(d2c'[x], d2c[x])
    BY Zenon, <1>4, <2>2, SendFacts
  <2>4. CallInv'
    BY <1>4, <2>1, <2>3 DEF CallInv, None
  <2>5. NoCallIsCutOff'
    BY Zenon, <1>4 DEF NoCallIsCutOff, Switching
  <2> QED BY Zenon, <2>1, <2>3, <2>4, <2>5, CallFrame
<1> QED BY Zenon, <1>3, <1>4 DEF CallOn

LEMMA CallsKeep ==
  ASSUME PhoneInv, Calls PROVE PhoneInv'
<1>1. PhoneTypes /\ call \in CallRec /\ live \subseteq Routes /\ c2d \in [Routes -> Seq(Request)]
  BY Zenon, PhoneTypesAre DEF PhoneInv
<1>2. CASE CallBegin
  <2>1. CASE ~host.checking /\ Switching
    <3>1. /\ UNCHANGED <<host, up, probe, retry, live, wire, dm, pending, c2d, d2c>>
          /\ call.st = "idle" /\ call' = [call EXCEPT !.st = "waiting"]
      BY Zenon, <1>2, <2>1 DEF CallBegin
    <3>2. ~ call.ran /\ ~ HasCall /\ call.res = None
      BY Zenon, <3>1 DEF PhoneInv, CallInv
    <3>3. call' \in CallRec /\ call'.st = "waiting" /\ call'.res = call.res /\ call'.ran = call.ran
      BY Zenon, <1>1, <3>1 DEF CallRec
    <3>4. ~ HasCall'
      BY Zenon, <3>1, <3>2 DEF HasCall
    <3>5. CallInv'
      BY Zenon, <3>2, <3>3, <3>4 DEF CallInv, None
    <3>6. NoCallIsCutOff'
      BY Zenon, <3>3 DEF NoCallIsCutOff
    <3> QED BY Zenon, <1>1, <3>1, <3>3, <3>5, <3>6, PhoneTypesAre, SameFrames, CallFrame
  <2>2. CASE ~ (~host.checking /\ Switching)
    BY Zenon, <1>2, <2>2, CallOnKeeps DEF CallBegin
  <2> QED BY Zenon, <2>1, <2>2
<1>3. CASE CallResume
  BY Zenon, <1>3, CallOnKeeps DEF CallResume
<1>4. call.st = "sent" => call.route \in Routes
  BY Zenon, <1>1 DEF PhoneInv, CallInv
<1>5. CASE CallAnswered
  <2>1. call.st = "sent" /\ Answered(call.route, "call") /\ call' = Returned("ok") /\ "call" \in Ops
        /\ UNCHANGED <<host, up, probe, retry, live, wire, dm>>
    BY Zenon, <1>5 DEF CallAnswered, Ops
  <2>2. /\ pending' \in [Routes -> SUBSET Ops] /\ c2d' = c2d /\ d2c' \in [Routes -> Seq(Reply)]
        /\ \A x \in Routes : Shrinks(d2c'[x], d2c[x])
    BY Zenon, <1>4, <2>1, AnsweredFacts
  <2>3. call' \in CallRec /\ call'.st = "done" /\ call'.res = "ok" /\ call'.ran = call.ran
    BY Zenon, <1>1, <2>1 DEF Returned, CallRec
  <2>4. CallEnds
    BY Zenon, <2>1, <2>3 DEF CallEnds
  <2> QED BY Zenon, <1>1, <2>1, <2>2, <2>3, <2>4, PhoneTypesAre, SameFrames, QuietStep
<1>6. CASE CallTimeout
  <2>1. call.st = "sent" /\ Timeout(call.route, "call") /\ call' = Returned("unknown") /\ "call" \in Ops
        /\ UNCHANGED <<host, up, probe, retry, live, wire, dm>>
    BY Zenon, <1>6 DEF CallTimeout, Ops, Delivery
  <2>2. /\ pending' \in [Routes -> SUBSET Ops]
        /\ c2d' \in [Routes -> Seq(Request)] /\ d2c' \in [Routes -> Seq(Reply)]
        /\ \A x \in Routes : Shrinks(d2c'[x], d2c[x]) /\ Shrinks(c2d'[x], c2d[x])
    BY Zenon, <1>4, <2>1, TimeoutFacts
  <2>3. call' \in CallRec /\ call'.st = "done" /\ call'.res = "unknown" /\ call'.ran = call.ran
    BY Zenon, <1>1, <2>1 DEF Returned, CallRec
  <2>4. CallEnds
    BY Zenon, <2>1, <2>3 DEF CallEnds
  <2>5. \A x \in Routes : Adds(c2d'[x], c2d[x])
    BY Zenon, <2>2, ShrinksAdds
  <2>6. HasCall' => HasCall
    BY Zenon, <2>2, ShrinksCalls
  <2> QED BY Zenon, <1>1, <2>1, <2>2, <2>3, <2>4, <2>5, <2>6, PhoneTypesAre, QuietStep
<1>7. CASE CallReturn
  <2>1. /\ \A r \in Routes : \A i \in DOMAIN c2d[r] : c2d[r][i].op # "call"
        /\ call' = NoCall /\ UNCHANGED <<host, up, probe, retry, live, wire, pending, c2d, d2c, dm>>
    BY Zenon, <1>7 DEF CallReturn
  <2>2. call' \in CallRec /\ call'.st = "idle" /\ call'.res = None /\ ~ call'.ran
    BY Zenon, <2>1 DEF NoCall, CallRec
  <2>3. ~ HasCall'
    BY Zenon, <2>1 DEF HasCall, Frames
  <2>4. CallInv'
    BY Zenon, <2>2, <2>3 DEF CallInv, None
  <2>5. NoCallIsCutOff'
    BY Zenon, <2>2 DEF NoCallIsCutOff
  <2> QED BY Zenon, <1>1, <2>1, <2>2, <2>4, <2>5, PhoneTypesAre, SameFrames, CallFrame
<1> QED BY Zenon, <1>2, <1>3, <1>5, <1>6, <1>7 DEF Calls

LEMMA ForgetOfferFacts ==
  ASSUME PhoneInv, NEW r \in Routes
  PROVE  /\ [c2d EXCEPT ![r] = Forget(@, "offer")] \in [Routes -> Seq(Request)]
         /\ [d2c EXCEPT ![r] = Forget(@, "offer")] \in [Routes -> Seq(Reply)]
         /\ \A x \in Routes : /\ Shrinks([c2d EXCEPT ![r] = Forget(@, "offer")][x], c2d[x])
                              /\ Shrinks([d2c EXCEPT ![r] = Forget(@, "offer")][x], d2c[x])
         /\ ~ HasOffer([c2d EXCEPT ![r] = Forget(@, "offer")][r])
         /\ ~ HasOffer([d2c EXCEPT ![r] = Forget(@, "offer")][r])
<1>1. c2d \in [Routes -> Seq(Request)] /\ d2c \in [Routes -> Seq(Reply)] /\ "offer" \in Ops
  BY Zenon, PhoneTypesAre DEF PhoneInv, Ops
<1> DEFINE s == Forget(c2d[r], "offer")
           t == Forget(d2c[r], "offer")
<1>2. /\ s \in Seq(Request) /\ Shrinks(s, c2d[r]) /\ ~ HasOffer(s)
      /\ t \in Seq(Reply) /\ Shrinks(t, d2c[r]) /\ ~ HasOffer(t)
  BY Zenon, <1>1, ForgetShrinks
<1>3. /\ [c2d EXCEPT ![r] = Forget(@, "offer")] = [c2d EXCEPT ![r] = s]
      /\ [d2c EXCEPT ![r] = Forget(@, "offer")] = [d2c EXCEPT ![r] = t]
  OBVIOUS
<1> HIDE DEF s, t
<1>4. [c2d EXCEPT ![r] = s] \in [Routes -> Seq(Request)] /\ [d2c EXCEPT ![r] = t] \in [Routes -> Seq(Reply)]
  BY <1>1, <1>2
<1>5. ASSUME NEW x \in Routes
      PROVE  Shrinks([c2d EXCEPT ![r] = s][x], c2d[x]) /\ Shrinks([d2c EXCEPT ![r] = t][x], d2c[x])
  BY Zenon, <1>1, <1>2, SameShrinks
<1>6. ~ HasOffer([c2d EXCEPT ![r] = s][r]) /\ ~ HasOffer([d2c EXCEPT ![r] = t][r])
  BY Zenon, <1>1, <1>2
<1> QED BY Zenon, <1>3, <1>4, <1>5, <1>6

LEMMA SendOfferKeeps ==
  ASSUME PhoneInv, SendOffer PROVE PhoneInv'
<1>1. /\ PhoneTypes /\ host \in HostRec /\ up \in UpRec /\ live \subseteq Routes
      /\ c2d \in [Routes -> Seq(Request)] /\ d2c \in [Routes -> Seq(Reply)] /\ "offer" \in Ops
  BY Zenon, PhoneTypesAre DEF PhoneInv, Ops
<1> DEFINE r == up.relay
<1>2. /\ up.phase = "creating" /\ r \in Routes /\ Send(r, "offer")
      /\ UNCHANGED <<host, probe, retry, live, wire, dm, call>>
      /\ up' \in UpRec /\ up'.phase = "offering" /\ up'.relay = r /\ up'.cand = up.cand
  BY ZenonT(30), <1>1 DEF SendOffer, UpRec
<1> HIDE DEF r
<1>3. /\ pending' \in [Routes -> SUBSET Ops] /\ \A x \in Routes : pending[x] \subseteq pending'[x]
      /\ c2d' \in [Routes -> Seq(Request)] /\ d2c' \in [Routes -> Seq(Reply)]
      /\ \A x \in Routes : Shrinks(d2c'[x], d2c[x])
      /\ HasCall' => HasCall
  <2>1. "offer" # "call"
    OBVIOUS
  <2> QED BY <1>1, <1>2, <2>1, SendFacts
<1>4. PhoneTypes'
  BY Zenon, <1>1, <1>2, <1>3, PhoneTypesAre, PhoneTypesNext
<1>5. HostInv' /\ RouteInv'
  BY Zenon, <1>2 DEF PhoneInv, HostInv, RouteInv, Switching, r
<1>6. CallInv'
  <2>1. call.st = "sent" => call.route \in Routes
    BY Zenon, <1>1 DEF PhoneInv, CallInv
  <2> QED BY Zenon, <1>2, <1>3, <2>1 DEF PhoneInv, CallInv
<1>7. NoCallIsCutOff'
  BY Zenon, <1>2 DEF NoCallIsCutOff
<1>8. ErrorInv'
  <2>1. RoutesCalm
    BY Zenon, <1>2 DEF RoutesCalm, r
  <2> QED BY Zenon, <1>3, <2>1, CalmErrors, ShrinksErrors
<1>9. AwaitedInv'
  <2>1. ~ dm.awaited /\ \A x \in Routes : ~ HasOffer(c2d[x]) /\ ~ HasOffer(d2c[x])
    BY Zenon, <1>2 DEF PhoneInv, AwaitedInv
  <2>2. \A x \in Routes : ~ HasOffer(d2c'[x])
    BY Zenon, <1>1, <1>3, <2>1, ShrinksOffers
  <2> DEFINE e == [op |-> "offer", awaited |-> TRUE]
             s == Forget(c2d[r], "offer")
  <2>3. s \in Seq(Request) /\ ~ HasOffer(s)
    BY Zenon, <1>1, <1>2, ForgetShrinks
  <2>4. c2d' = [c2d EXCEPT ![r] = Append(s, e)] /\ e \in Request
    BY Zenon, <1>2 DEF Send, Request, Ops
  <2> HIDE DEF e, s
  <2>5. OneOffer(s)
    BY Zenon, <2>3 DEF HasOffer, OneOffer, Frames
  <2>6. OneOffer(Append(s, e))
    BY Zenon, <2>3, <2>4, <2>5, AppendFrames
  <2>7. c2d'[r] = Append(s, e) /\ \A x \in Routes : x # r => c2d'[x] = c2d[x]
    BY Zenon, <1>1, <1>2, <2>4
  <2>8. ASSUME NEW x \in Routes
        PROVE  /\ HasOffer(c2d'[x]) => x = r
               /\ OneOffer(c2d'[x]) /\ OneOffer(d2c'[x])
    <3>1. OneOffer(c2d[x]) /\ OneOffer(d2c[x])
      BY Zenon DEF PhoneInv, AwaitedInv
    <3> QED BY Zenon, <1>3, <2>1, <2>6, <2>7, <3>1 DEF Shrinks
  <2>9. \A x \in Routes : \A f \in Frames(d2c'[x]) : f.op = "offer" /\ f.ok => f.to \in DirectRoutes /\ ~ f.awaited
    <3>1. \A x \in Routes : Frames(d2c[x]) \subseteq Reply
      BY <1>1 DEF Frames
    <3>2. \A x \in Routes : \A f \in Frames(d2c'[x]) : \E g \in Frames(d2c[x]) :
            f.op = g.op /\ f.ok = g.ok /\ f.to = g.to
      BY Zenon, <1>3, <3>1, ReplyWeaker DEF Shrinks
    <3>3. \A x \in Routes : \A f \in Frames(d2c'[x]) : f.op = "offer" => ~ f.awaited
      BY Zenon, <2>2 DEF HasOffer, IsOffer
    <3>4. \A x \in Routes : \A g \in Frames(d2c[x]) : g.op = "offer" /\ g.ok => g.to \in DirectRoutes
      BY Zenon DEF PhoneInv, AwaitedInv
    <3> QED BY <3>2, <3>3, <3>4
  <2>10. \A x \in Routes : \A f \in Frames(c2d'[x]) : f.op = "offer" => x \in RelayRoutes
    <3>1. r \in RelayRoutes
      BY Zenon, <1>2 DEF PhoneInv, HostInv, r
    <3> QED BY Zenon, <2>7, <3>1 DEF PhoneInv, AwaitedInv
  <2> QED BY Zenon, <1>2, <2>1, <2>2, <2>8, <2>9, <2>10 DEF AwaitedInv
<1> QED BY Zenon, <1>4, <1>5, <1>6, <1>7, <1>8, <1>9 DEF PhoneInv

LEMMA PrepareFailsKeeps ==
  ASSUME PhoneInv, PrepareFails PROVE PhoneInv'
<1>1. /\ PhoneTypes /\ up \in UpRec /\ pending \in [Routes -> SUBSET Ops] /\ call \in CallRec
      /\ c2d \in [Routes -> Seq(Request)] /\ d2c \in [Routes -> Seq(Reply)] /\ dm \in DmRec /\ live \subseteq Routes
  BY Zenon, PhoneTypesAre DEF PhoneInv
<1>2. up.phase # "none" /\ up.relay \in Routes /\ AttemptFails
  BY Zenon DEF PrepareFails, PhoneInv, HostInv, Routes
<1> DEFINE p == [pending EXCEPT ![up.relay] = @ \ {"offer"}]
           d == [d2c EXCEPT ![up.relay] = Forget(@, "offer")]
           c == [c2d EXCEPT ![up.relay] = Forget(@, "offer")]
<1>3. /\ Retire({up.cand} \ {None}, "closed", p, d) /\ c2d' = c /\ dm' = [dm EXCEPT !.awaited = FALSE]
  BY Zenon DEF PrepareFails
<1>4. /\ p \in [Routes -> SUBSET Ops] /\ \A x \in Routes : "call" \in pending[x] => "call" \in p[x]
  BY Zenon, <1>1
<1>5. /\ c \in [Routes -> Seq(Request)] /\ d \in [Routes -> Seq(Reply)]
      /\ \A x \in Routes : Shrinks(c[x], c2d[x]) /\ Shrinks(d[x], d2c[x])
      /\ ~ HasOffer(c[up.relay]) /\ ~ HasOffer(d[up.relay])
  BY Zenon, <1>2, ForgetOfferFacts
<1> HIDE DEF p, d, c
<1>6. call.st = "sent" => "call" \in p[call.route]
  BY Zenon, <1>1, <1>4 DEF PhoneInv, CallInv
<1>7. ~ dm'.awaited
  BY Zenon, <1>1, <1>3 DEF DmRec
<1>8. ASSUME NEW x \in Routes PROVE ~ HasOffer(c2d'[x]) /\ ~ HasOffer(d2c'[x])
  <2>1. ~ HasOffer(c[x]) /\ ~ HasOffer(d[x])
    <3>1. CASE x = up.relay
      BY Zenon, <1>5, <3>1
    <3>2. CASE x # up.relay
      <4>1. ~ HasOffer(c2d[x]) /\ ~ HasOffer(d2c[x])
        BY Zenon, <3>2 DEF PhoneInv, AwaitedInv
      <4> QED BY Zenon, <1>1, <1>5, <4>1, ShrinksOffers
    <3> QED BY Zenon, <3>1, <3>2
  <2>2. d2c'[x] = <<>> \/ d2c'[x] = d[x]
    BY Zenon, <1>3 DEF Retire
  <2>3. ~ HasOffer(<<>>)
    BY Zenon, EmptyShrinks DEF HasOffer
  <2> QED BY Zenon, <1>3, <2>1, <2>2, <2>3
<1> QED BY Zenon, <1>2, <1>3, <1>4, <1>5, <1>6, <1>7, <1>8, FailKeeps

LEMMA OfferAnsweredKeeps ==
  ASSUME PhoneInv, OfferAnswered PROVE PhoneInv'
<1>1. /\ PhoneTypes /\ host \in HostRec /\ up \in UpRec /\ dm \in DmRec /\ call \in CallRec
      /\ live \subseteq Routes /\ wire \subseteq Routes /\ pending \in [Routes -> SUBSET Ops]
      /\ c2d \in [Routes -> Seq(Request)] /\ d2c \in [Routes -> Seq(Reply)] /\ "offer" \in Ops /\ "offer" # "call"
  BY Zenon, PhoneTypesAre DEF PhoneInv, Ops
<1> DEFINE r == up.relay
           f == Head(d2c[r])
<1>2. /\ up.phase = "offering" /\ r \in Routes /\ Answered(r, "offer") /\ UNCHANGED <<live, dm, call>>
      /\ d2c[r] # <<>> /\ f.op = "offer" /\ f.awaited
      /\ d2c' = [d2c EXCEPT ![r] = Tail(@)] /\ c2d' = c2d
      /\ pending' = [pending EXCEPT ![r] = @ \ {"offer"}]
  BY Zenon, <1>1 DEF OfferAnswered, Answered
<1>3. /\ pending' \in [Routes -> SUBSET Ops] /\ \A x \in Routes : "call" \in pending[x] => "call" \in pending'[x]
      /\ d2c' \in [Routes -> Seq(Reply)] /\ \A x \in Routes : Shrinks(d2c'[x], d2c[x])
  BY Zenon, <1>1, <1>2, AnsweredFacts
<1>4. f \in Frames(d2c[r]) /\ (OneOffer(d2c[r]) => ~ HasOffer(Tail(d2c[r])))
  BY Zenon, <1>1, <1>2, TailShrinks DEF IsOffer
<1>5. call.st = "sent" => call.route \in Routes /\ "call" \in pending'[call.route]
  BY Zenon, <1>1, <1>3 DEF PhoneInv, CallInv
<1>6. /\ ~ dm.awaited /\ \A x \in Routes : ~ HasOffer(c2d'[x]) /\ ~ HasOffer(d2c'[x])
      /\ f.ok => f.to \in DirectRoutes /\ \A g \in Frames(d2c[f.to]) : ~ IsError(g, "kicked")
  <2>1. HasOffer(d2c[r])
    BY Zenon, <1>2, <1>4 DEF HasOffer, IsOffer
  <2>2. ~ dm.awaited /\ \A x \in Routes : ~ HasOffer(c2d[x])
    BY Zenon, <1>2, <2>1 DEF PhoneInv, AwaitedInv
  <2>3. ~ HasOffer(d2c'[r])
    BY Zenon, <1>1, <1>2, <1>4 DEF PhoneInv, AwaitedInv
  <2>4. \A x \in Routes : x # r => ~ HasOffer(d2c[x]) /\ d2c'[x] = d2c[x]
    BY Zenon, <1>1, <1>2 DEF PhoneInv, AwaitedInv
  <2>5. f.ok => f.to \in DirectRoutes /\ \A g \in Frames(d2c[f.to]) : ~ IsError(g, "kicked")
    BY Zenon, <1>2, <1>4 DEF PhoneInv, AwaitedInv
  <2> QED BY Zenon, <1>2, <2>2, <2>3, <2>4, <2>5
<1> HIDE DEF f
<1>7. CASE f.ok /\ ~up.aborted
  <2>1. /\ up' = [up EXCEPT !.phase = "handshaking", !.cand = f.to] /\ wire' \subseteq wire \cup {f.to}
        /\ UNCHANGED <<host, probe, retry>>
    BY Zenon, <1>7 DEF OfferAnswered, f
  <2>2. up' \in UpRec /\ up'.phase = "handshaking" /\ up'.cand = f.to /\ up'.relay = up.relay
    BY Zenon, <1>1, <1>6, <1>7, <2>1 DEF UpRec
  <2>3. wire' \subseteq Routes
    BY Zenon, <1>1, <1>6, <1>7, <2>1 DEF Routes
  <2>4. PhoneTypes'
    BY Zenon, <1>1, <1>2, <1>3, <2>1, <2>2, <2>3, PhoneTypesAre, PhoneTypesNext
  <2>5. HostInv'
    BY Zenon, <1>2, <1>6, <1>7, <2>1, <2>2 DEF PhoneInv, HostInv, Switching
  <2>6. RouteInv'
    <3>1. up.cand = None /\ None \notin wire
      BY Zenon, <1>1, <1>2, PhoneAssumption DEF PhoneInv, HostInv
    <3> QED BY Zenon, <1>2, <2>1, <2>2, <3>1 DEF PhoneInv, RouteInv, Switching
  <2>7. Calm
    BY Zenon, <1>2, <1>3, <1>6, <1>7, <2>1, <2>2, SameFrames, ShrinksAdds DEF Calm, OffersCalm, RoutesCalm
  <2>8. CallGoesOn
    BY Zenon, <1>2, <1>5, <2>1 DEF CallGoesOn, PhoneInv, CallInv
  <2>9. HasCall' => HasCall
    BY Zenon, <1>2, SameFrames
  <2>10. up'.phase \notin {"committing", "committed", "probing"} /\ call'.ran = call.ran
    BY Zenon, <1>2, <2>2
  <2> QED BY Zenon, <1>3, <2>4, <2>5, <2>6, <2>7, <2>8, <2>9, <2>10, CalmStep
<1>8. CASE ~ (f.ok /\ ~up.aborted)
  <2>1. AttemptFails /\ wire' = wire
    BY Zenon, <1>8 DEF OfferAnswered, f
  <2>2. up.cand = None
    BY Zenon, <1>2 DEF PhoneInv, HostInv
  <2> DEFINE p == [pending EXCEPT ![r] = @ \ {"offer"}]
             d == [d2c EXCEPT ![r] = Tail(@)]
  <2>3. p = pending' /\ d = d2c'
    BY Zenon, <1>2
  <2>4. p \in [Routes -> SUBSET Ops] /\ d \in [Routes -> Seq(Reply)]
    BY Zenon, <1>3, <2>3
  <2> HIDE DEF p, d
  <2>5. Retire({up.cand} \ {None}, "closed", p, d)
    <3>1. {up.cand} \ {None} = {}
      BY Zenon, <2>2
    <3>2. Retire({}, "closed", p, d)
      BY ZenonT(30), <1>2, <2>1, <2>3, <2>4 DEF Retire
    <3> QED BY Zenon, <3>1, <3>2
  <2>6. \A x \in Routes : Shrinks(d[x], d2c[x])
    BY Zenon, <1>3, <2>3
  <2>7. call.st = "sent" => "call" \in p[call.route]
    BY Zenon, <1>5, <2>3
  <2>8. c2d' \in [Routes -> Seq(Request)] /\ \A x \in Routes : Shrinks(c2d'[x], c2d[x])
    BY Zenon, <1>1, <1>2, SameFrames
  <2>9. up.phase # "none" /\ dm' = dm /\ ~ dm'.awaited
    BY Zenon, <1>2, <1>6
  <2> QED BY Zenon, <1>6, <2>1, <2>4, <2>5, <2>6, <2>7, <2>8, <2>9, FailKeeps
<1> QED BY Zenon, <1>7, <1>8

LEMMA AbandonKeeps ==
  ASSUME PhoneInv, up.phase \notin {"none", "offering"}, Abandon, UNCHANGED <<c2d, dm>>
  PROVE  PhoneInv'
<1>1. /\ pending \in [Routes -> SUBSET Ops]
      /\ c2d \in [Routes -> Seq(Request)] /\ d2c \in [Routes -> Seq(Reply)]
  BY Zenon, PhoneTypesAre DEF PhoneInv
<1>2. AttemptFails /\ Retire({up.cand} \ {None}, "closed", pending, d2c)
  BY Zenon DEF Abandon
<1>3. call.st = "sent" => "call" \in pending[call.route]
  BY Zenon DEF PhoneInv, CallInv
<1>4. \A x \in Routes : Shrinks(d2c[x], d2c[x])
  BY Zenon, SameShrinks
<1>5. c2d' \in [Routes -> Seq(Request)] /\ \A x \in Routes : Shrinks(c2d'[x], c2d[x])
  BY Zenon, <1>1, SameFrames
<1> QED BY Zenon, <1>1, <1>2, <1>3, <1>4, <1>5, FailKeeps

(* A step that takes the attempt on to its next phase.                     *)
LEMMA PhaseStep ==
  ASSUME PhoneInv, NEW ph \in {"draining", "committing", "committed", "probing"},
         up.phase \in {"handshaking", "draining", "committing", "committed"},
         up' = [up EXCEPT !.phase = ph], UNCHANGED <<probe, retry, wire, dm, call>>,
         host' = host \/ host' = [host EXCEPT !.deferred = None],
         up.phase = "handshaking" => host' = [host EXCEPT !.deferred = None],
         live' = live \/ (ph = "probing" /\ live' = live \cup {up.cand}),
         up.phase = "draining" => pending[up.relay] = {},
         up.phase = "handshaking" => ph = "draining", up.phase # "handshaking" => ph # "draining",
         pending' \in [Routes -> SUBSET Ops],
         \A x \in Routes : "call" \in pending[x] => "call" \in pending'[x],
         c2d' \in [Routes -> Seq(Request)], d2c' \in [Routes -> Seq(Reply)],
         \A x \in Routes : Adds(c2d'[x], c2d[x]) /\ Shrinks(d2c'[x], d2c[x]), HasCall' => HasCall
  PROVE  PhoneInv'
<1>1. /\ PhoneTypes /\ host \in HostRec /\ up \in UpRec /\ dm \in DmRec /\ call \in CallRec
      /\ live \subseteq Routes /\ wire \subseteq Routes
  BY Zenon, PhoneTypesAre DEF PhoneInv
<1>2. up' \in UpRec /\ up'.phase = ph /\ up'.relay = up.relay /\ up'.cand = up.cand
  BY Zenon, <1>1 DEF UpRec
<1>3. /\ host' \in HostRec /\ host'.transport = host.transport /\ host'.may = host.may
      /\ host'.stopped = host.stopped /\ host'.connecting = host.connecting /\ host'.timer = host.timer
      /\ host'.deferred \in {host.deferred, None}
      /\ up.phase = "handshaking" => host'.deferred = None
  BY Zenon, <1>1 DEF HostRec
<1>4. up.cand \in DirectRoutes /\ host.transport # up.cand
  BY Zenon DEF PhoneInv, HostInv
<1>5. live' \subseteq Routes
  BY Zenon, <1>1, <1>4 DEF Routes
<1>6. PhoneTypes'
  BY Zenon, <1>1, <1>2, <1>3, <1>5, PhoneTypesAre, PhoneTypesNext
<1>7. HostInv'
  <2>1. Switching' /\ host'.deferred # None => Switching /\ host.deferred # None
    BY Zenon, <1>2, <1>3 DEF Switching
  <2>2. host'.deferred # "kicked"
    BY Zenon, <1>3 DEF PhoneInv, HostInv, None
  <2> QED BY Zenon, <1>2, <1>3, <1>4, <2>1, <2>2 DEF PhoneInv, HostInv
<1>8. RouteInv'
  <2>1. Switching' /\ host'.deferred # None => Switching /\ host.deferred # None
    BY Zenon, <1>2, <1>3 DEF Switching
  <2> QED BY Zenon, <1>2, <1>3, <2>1 DEF PhoneInv, RouteInv
<1>9. Calm
  BY Zenon, <1>2, <1>3, ShrinksAdds DEF Calm, OffersCalm, RoutesCalm
<1>10. CallGoesOn
  BY Zenon, <1>1, <1>3 DEF CallGoesOn, PhoneInv, CallInv
<1>11. up'.phase \in {"committing", "committed", "probing"} =>
         /\ up'.relay = up.relay
         /\ up.phase \in {"committing", "committed", "probing"} \/ pending[up.relay] = {}
  BY Zenon, <1>2
<1> QED BY Zenon, <1>6, <1>7, <1>8, <1>9, <1>10, <1>11, CalmStep

LEMMA PreparedKeeps ==
  ASSUME PhoneInv, Prepared PROVE PhoneInv'
<1>1. /\ PhoneTypes /\ up \in UpRec /\ up.phase = "handshaking" /\ up.cand \in Routes
      /\ d2c[up.cand] # <<>> /\ UNCHANGED <<c2d, dm>>
  BY Zenon, PhoneTypesAre DEF PhoneInv, HostInv, Prepared, Routes
<1>2. CASE Abandon
  BY Zenon, <1>1, <1>2, AbandonKeeps
<1>3. CASE /\ up' = [up EXCEPT !.phase = "draining"] /\ host' = [host EXCEPT !.deferred = None]
           /\ d2c' = [d2c EXCEPT ![up.cand] = Tail(@)]
           /\ UNCHANGED <<probe, retry, live, wire, pending, call>>
  <2>1. d2c' \in [Routes -> Seq(Reply)] /\ \A x \in Routes : Shrinks(d2c'[x], d2c[x])
    BY Zenon, <1>1, <1>3, TailFacts
  <2> QED BY Zenon, <1>1, <1>3, <2>1, PhoneTypesAre, SameFrames, PhaseStep
<1> QED BY Zenon, <1>2, <1>3 DEF Prepared

LEMMA DrainedKeeps ==
  ASSUME PhoneInv, Drained PROVE PhoneInv'
<1>1. /\ PhoneTypes /\ up.phase = "draining" /\ up.relay \in Routes /\ pending[up.relay] = {}
      /\ UNCHANGED <<host, probe, retry, live, wire, dm, call>>
  BY Zenon DEF PhoneInv, HostInv, Drained, Routes
<1>2. CASE up' = [up EXCEPT !.phase = "committing"] /\ Send(up.relay, "commit")
  <2>1. "commit" \in Ops /\ "commit" # "offer" /\ "commit" # "call"
    BY Zenon DEF Ops
  <2>2. /\ pending' \in [Routes -> SUBSET Ops] /\ \A x \in Routes : pending[x] \subseteq pending'[x]
        /\ c2d' \in [Routes -> Seq(Request)] /\ d2c' \in [Routes -> Seq(Reply)]
        /\ \A x \in Routes : Adds(c2d'[x], c2d[x]) /\ Shrinks(d2c'[x], d2c[x])
        /\ HasCall' => HasCall
    BY Zenon, <1>1, <1>2, <2>1, SendFacts
  <2>3. \A x \in Routes : "call" \in pending[x] => "call" \in pending'[x]
    BY Zenon, <2>2
  <2> QED BY Zenon, <1>1, <1>2, <2>2, <2>3, PhaseStep
<1>3. CASE up' = [up EXCEPT !.phase = "committed"] /\ UNCHANGED <<pending, c2d, d2c>>
  BY Zenon, <1>1, <1>3, PhoneTypesAre, SameFrames, PhaseStep
<1> QED BY Zenon, <1>2, <1>3 DEF Drained

LEMMA CommitKeeps ==
  ASSUME PhoneInv, CommitAnswered \/ CommitTimeout \/ CommitLost PROVE PhoneInv'
<1>1. PhoneTypes /\ up.phase = "committing" /\ up.relay \in Routes /\ "commit" \in Ops /\ "commit" # "call"
  BY Zenon DEF PhoneInv, HostInv, CommitAnswered, CommitTimeout, CommitLost, Routes, Ops
<1>2. CASE CommitAnswered
  <2>1. /\ Answered(up.relay, "commit") /\ up' = [up EXCEPT !.phase = "committed"]
        /\ UNCHANGED <<host, probe, retry, live, wire, dm, call>>
    BY Zenon, <1>2 DEF CommitAnswered
  <2>2. /\ pending' \in [Routes -> SUBSET Ops] /\ \A x \in Routes : "call" \in pending[x] => "call" \in pending'[x]
        /\ c2d' = c2d /\ d2c' \in [Routes -> Seq(Reply)] /\ \A x \in Routes : Shrinks(d2c'[x], d2c[x])
    BY Zenon, <1>1, <2>1, AnsweredFacts
  <2> QED BY Zenon, <1>1, <2>1, <2>2, PhoneTypesAre, SameFrames, PhaseStep
<1>3. CASE CommitTimeout
  <2>1. /\ Timeout(up.relay, "commit") /\ up' = [up EXCEPT !.phase = "committed"]
        /\ UNCHANGED <<host, probe, retry, live, wire, dm, call>>
    BY Zenon, <1>3 DEF CommitTimeout
  <2>2. /\ pending' \in [Routes -> SUBSET Ops] /\ \A x \in Routes : "call" \in pending[x] => "call" \in pending'[x]
        /\ c2d' \in [Routes -> Seq(Request)] /\ d2c' \in [Routes -> Seq(Reply)]
        /\ \A x \in Routes : Shrinks(d2c'[x], d2c[x]) /\ Shrinks(c2d'[x], c2d[x])
    BY Zenon, <1>1, <2>1, TimeoutFacts
  <2>3. \A x \in Routes : Adds(c2d'[x], c2d[x])
    BY Zenon, <2>2, ShrinksAdds
  <2>4. HasCall' => HasCall
    BY Zenon, <2>2, ShrinksCalls
  <2> QED BY Zenon, <1>1, <2>1, <2>2, <2>3, <2>4, PhaseStep
<1>4. CASE CommitLost
  <2>1. UNCHANGED <<c2d, dm>>
    BY Zenon, <1>4 DEF CommitLost
  <2>2. CASE Abandon
    BY Zenon, <1>1, <2>1, <2>2, AbandonKeeps
  <2>3. CASE /\ up' = [up EXCEPT !.phase = "committed"]
             /\ UNCHANGED <<host, probe, retry, live, wire, pending, d2c, call>>
    BY Zenon, <1>1, <2>1, <2>3, PhoneTypesAre, SameFrames, PhaseStep
  <2> QED BY Zenon, <1>4, <2>2, <2>3 DEF CommitLost
<1> QED BY Zenon, <1>2, <1>3, <1>4

LEMMA CommitRefusedKeeps ==
  ASSUME PhoneInv, CommitRefused PROVE PhoneInv'
<1>1. /\ PhoneTypes /\ up.phase = "committing" /\ up.relay \in Routes /\ up.cand \in DirectRoutes
      /\ pending \in [Routes -> SUBSET Ops] /\ c2d \in [Routes -> Seq(Request)] /\ live \subseteq Routes
  BY Zenon, PhoneTypesAre DEF PhoneInv, HostInv, CommitRefused, Routes
<1> DEFINE p == [pending EXCEPT ![up.relay] = @ \ {"commit"}]
           d == [d2c EXCEPT ![up.relay] = Tail(@)]
<1>2. AttemptFails /\ Retire({up.cand}, "closed", p, d) /\ UNCHANGED <<c2d, dm>> /\ d2c[up.relay] # <<>>
  BY Zenon DEF CommitRefused
<1>3. d \in [Routes -> Seq(Reply)] /\ \A x \in Routes : Shrinks(d[x], d2c[x])
  BY Zenon, <1>1, <1>2, TailFacts
<1>4. p \in [Routes -> SUBSET Ops] /\ \A x \in Routes : "call" \in pending[x] => "call" \in p[x]
  BY Zenon, <1>1
<1> HIDE DEF p, d
<1>5. call.st = "sent" => "call" \in p[call.route]
  BY Zenon, <1>1, <1>4 DEF PhoneInv, CallInv
<1>6. {up.cand} \ {None} = {up.cand}
  BY Zenon, <1>1, PhoneAssumption DEF Routes
<1>7. c2d' \in [Routes -> Seq(Request)] /\ \A x \in Routes : Shrinks(c2d'[x], c2d[x])
  BY Zenon, <1>1, <1>2, SameFrames
<1> QED BY Zenon, <1>1, <1>2, <1>3, <1>4, <1>5, <1>6, <1>7, FailKeeps

LEMMA ProbeBeginKeeps ==
  ASSUME PhoneInv, ProbeBegin PROVE PhoneInv'
<1>1. PhoneTypes /\ up.phase = "committed" /\ up.cand \in Routes /\ dm' = dm
  BY Zenon DEF PhoneInv, HostInv, ProbeBegin, Routes
<1>2. CASE Abandon /\ UNCHANGED c2d
  BY Zenon, <1>1, <1>2, AbandonKeeps
<1>3. CASE /\ up' = [up EXCEPT !.phase = "probing"] /\ live' = live \cup {up.cand}
           /\ Send(up.cand, "ping") /\ UNCHANGED <<host, probe, retry, wire, call>>
  <2>1. "ping" \in Ops /\ "ping" # "offer" /\ "ping" # "call"
    BY Zenon DEF Ops
  <2>2. /\ pending' \in [Routes -> SUBSET Ops] /\ \A x \in Routes : pending[x] \subseteq pending'[x]
        /\ c2d' \in [Routes -> Seq(Request)] /\ d2c' \in [Routes -> Seq(Reply)]
        /\ \A x \in Routes : Adds(c2d'[x], c2d[x]) /\ Shrinks(d2c'[x], d2c[x])
        /\ HasCall' => HasCall
    BY Zenon, <1>1, <1>3, <2>1, SendFacts
  <2>3. \A x \in Routes : "call" \in pending[x] => "call" \in pending'[x]
    BY Zenon, <2>2
  <2> QED BY Zenon, <1>1, <1>3, <2>2, <2>3, PhaseStep
<1> QED BY Zenon, <1>2, <1>3 DEF ProbeBegin

LEMMA ProbeAnsweredKeeps ==
  ASSUME PhoneInv, ProbeAnswered PROVE PhoneInv'
<1>1. /\ PhoneTypes /\ host \in HostRec /\ up \in UpRec /\ dm \in DmRec /\ call \in CallRec
      /\ live \subseteq Routes /\ wire \subseteq Routes
      /\ pending \in [Routes -> SUBSET Ops] /\ c2d \in [Routes -> Seq(Request)] /\ d2c \in [Routes -> Seq(Reply)]
  BY Zenon, PhoneTypesAre DEF PhoneInv
<1> DEFINE c == up.cand
           p == [pending EXCEPT ![c] = @ \ {"ping"}]
           d == [d2c EXCEPT ![c] = Tail(@)]
<1>2. /\ up.phase = "probing" /\ c \in DirectRoutes /\ c \in Routes /\ up.relay \in RelayRoutes
      /\ d2c[c] # <<>> /\ Head(d2c[c]).op = "ping" /\ UNCHANGED <<c2d, dm>>
  BY Zenon DEF PhoneInv, HostInv, ProbeAnswered, Routes
<1>3. /\ d \in [Routes -> Seq(Reply)] /\ \A x \in Routes : Shrinks(d[x], d2c[x])
      /\ Head(d2c[c]) \in Frames(d2c[c])
  BY Zenon, <1>2, TailFacts
<1>4. p \in [Routes -> SUBSET Ops] /\ \A x \in Routes : "call" \in pending[x] => "call" \in p[x]
  BY Zenon, <1>1
<1>5. call.st = "sent" => "call" \in p[call.route]
  BY Zenon, <1>1, <1>4 DEF PhoneInv, CallInv
<1>6. CASE host.stopped \/ host.transport # up.relay \/ ~host.net
  <2>1. AttemptFails /\ Retire({c}, "closed", p, d)
    BY Zenon, <1>6 DEF ProbeAnswered
  <2> HIDE DEF p, d
  <2>2. {up.cand} \ {None} = {c}
    BY Zenon, <1>2, PhoneAssumption
  <2>3. c2d' \in [Routes -> Seq(Request)] /\ \A x \in Routes : Shrinks(c2d'[x], c2d[x])
    BY Zenon, <1>1, <1>2, SameFrames
  <2> QED BY Zenon, <1>2, <1>3, <1>4, <1>5, <2>1, <2>2, <2>3, FailKeeps
<1>7. CASE ~ (host.stopped \/ host.transport # up.relay \/ ~host.net)
  <2>1. /\ host' = [host EXCEPT !.transport = c, !.deferred = None, !.checking = host.hidden]
        /\ up' = NoAttempt /\ retry' = None /\ probe' \in {probe, None}
        /\ Retire({up.relay}, "closed", p, d)
    BY Zenon, <1>7 DEF ProbeAnswered
  <2> HIDE DEF p, d
  <2>2. /\ host' \in HostRec /\ host'.transport = c /\ host'.may = host.may /\ ~ host'.stopped
        /\ host'.deferred = None /\ host'.connecting = host.connecting /\ host'.timer = host.timer
    BY Zenon, <1>1, <1>2, <1>7, <2>1 DEF HostRec
  <2>3. host.connecting = None /\ ~ host.timer
    BY Zenon, <1>2, <1>7, PhoneAssumption DEF PhoneInv, HostInv, Routes
  <2>4. up' \in UpRec /\ up'.phase = "none" /\ up'.cand = None
    BY Zenon, <2>1, AttemptFacts
  <2>5. call.st # "sent"
    BY Zenon, <1>2, <1>7 DEF PhoneInv, CallInv, NoCallIsCutOff
  <2>6. /\ pending' \in [Routes -> SUBSET Ops] /\ call' = call
        /\ d2c' \in [Routes -> Seq(Reply)] /\ \A x \in Routes : Shrinks(d2c'[x], d2c[x])
    <3>1. "closed" \in Codes
      BY Zenon DEF Codes
    <3>2. call' = call
      BY Zenon, <2>1, <2>5 DEF Retire
    <3> QED BY ZenonT(30), <1>3, <1>4, <2>1, <2>5, <3>1, <3>2, RetireFacts
  <2>7. live' = live \ {up.relay} /\ wire' = wire \ {up.relay}
    BY Zenon, <2>1 DEF Retire
  <2>8. PhoneTypes'
    BY <1>1, <1>2, <2>1, <2>2, <2>4, <2>6, <2>7, PhoneTypesAre, PhoneTypesNext
  <2>9. HostInv'
    BY Zenon, <2>2, <2>3, <2>4, PhoneAssumption DEF HostInv, Switching, Routes, None
  <2>10. RouteInv'
    BY Zenon, <1>7, <2>2, <2>4, <2>7 DEF PhoneInv, RouteInv, Switching
  <2>11. HasCall' => HasCall
    BY Zenon, <1>2, SameFrames
  <2>12. CallInv' /\ NoCallIsCutOff'
    BY <2>2, <2>4, <2>5, <2>6, <2>11 DEF PhoneInv, CallInv, NoCallIsCutOff
  <2>13. AwaitedInv'
    <3>1. OffersCalm
      BY Zenon, <1>2, <2>6, SameFrames, ShrinksAdds DEF OffersCalm
    <3> QED BY Zenon, <3>1, CalmOffers
  <2>14. ErrorInv'
    <3>1. NoNewErrors
      BY Zenon, <2>6, ShrinksErrors
    <3>2. \A f \in Frames(d2c[c]) : ~ IsError(f, "kicked")
      BY Zenon, <1>2, <1>7 DEF PhoneInv, ErrorInv
    <3>3. c # dm.cand /\ \A f \in Frames(d2c[c]) : ~ IsError(f, "bad_frame")
      BY Zenon, <1>2, <1>3 DEF PhoneInv, ErrorInv
    <3>4. \A r \in Routes, code \in {"kicked", "bad_frame"} :
            (\E f \in Frames(d2c'[r]) : IsError(f, code)) => \E f \in Frames(d2c[r]) : IsError(f, code)
      BY Zenon, <3>1 DEF NoNewErrors, IsError
    <3>5. \A r \in Routes : \A f \in Frames(d2c'[r]) : IsError(f, "kicked") => r \notin {host'.transport, host'.connecting}
      BY <2>2, <2>3, <3>2, <3>4, PhoneAssumption DEF PhoneInv, ErrorInv
    <3>6. \A r \in Routes : (r = dm'.cand \/ \E f \in Frames(d2c'[r]) : IsError(f, "bad_frame")) =>
            /\ r \notin {host'.transport, host'.connecting, dm'.serving}
            /\ \A f \in Frames(d2c'[r]) : f.op # "ping"
      <4> SUFFICES ASSUME NEW r \in Routes, r = dm'.cand \/ \E f \in Frames(d2c'[r]) : IsError(f, "bad_frame")
                   PROVE  /\ r \notin {host'.transport, host'.connecting, dm'.serving}
                          /\ \A f \in Frames(d2c'[r]) : f.op # "ping"
        OBVIOUS
      <4>1. r = dm.cand \/ \E f \in Frames(d2c[r]) : IsError(f, "bad_frame")
        BY <1>2, <3>4
      <4>2. r # c /\ r # dm.serving /\ r # host.connecting /\ \A f \in Frames(d2c[r]) : f.op # "ping"
        BY Zenon, <3>3, <4>1 DEF PhoneInv, ErrorInv
      <4>3. \A f \in Frames(d2c'[r]) : f.op # "ping"
        BY Zenon, <3>1, <4>2 DEF NoNewErrors
      <4> QED BY Zenon, <1>2, <2>2, <4>2, <4>3
    <3>7. dm'.cand # None => \A f \in Frames(d2c'[dm'.cand]) : ~ IsError(f, "bad_frame")
      BY Zenon, <1>1, <1>2, <3>4 DEF PhoneInv, ErrorInv, DmRec, Routes
    <3>8. \A r \in Routes : \A f \in Frames(d2c'[r]) : f.op = "error" =>
            f.to \in {"kicked", "bad_frame"} \/ ("drop" \in host'.may /\ f.to \in Codes)
      BY <2>2, <3>1 DEF PhoneInv, ErrorInv, NoNewErrors
    <3> QED BY Zenon, <2>4, <3>5, <3>6, <3>7, <3>8 DEF ErrorInv
  <2> QED BY Zenon, <2>8, <2>9, <2>10, <2>12, <2>13, <2>14 DEF PhoneInv
<1> QED BY Zenon, <1>6, <1>7

LEMMA UpgradeKeeps ==
  ASSUME PhoneInv, Upgrade PROVE PhoneInv'
<1>1. CASE DrainTimeout
  BY Zenon, <1>1, AbandonKeeps DEF DrainTimeout
<1>2. CASE ProbeFails
  BY Zenon, <1>2, AbandonKeeps DEF ProbeFails
<1> QED BY Zenon, <1>1, <1>2, SendOfferKeeps, PrepareFailsKeeps, OfferAnsweredKeeps, PreparedKeeps, DrainedKeeps,
           CommitKeeps, CommitRefusedKeeps, ProbeBeginKeeps, ProbeAnsweredKeeps DEF Upgrade

-----------------------------------------------------------------------------
(* The invariant is inductive.                                             *)

LEMMA InitInv == Init => PhoneInv
<1> SUFFICES ASSUME NEW r \in RelayRoutes, NEW may \in Worlds,
                    host = [transport |-> r, stopped |-> FALSE, net |-> TRUE, hidden |-> FALSE,
                            checking |-> FALSE, mode |-> "auto", deferred |-> None, timer |-> FALSE,
                            connecting |-> None, requested |-> FALSE, may |-> may],
                    up = Attempt(r), probe = None, retry = None, live = {r}, wire = {r},
                    pending = [x \in Routes |-> {}],
                    c2d = [x \in Routes |-> <<>>], d2c = [x \in Routes |-> <<>>],
                    dm = [serving |-> r, cand |-> None, from |-> None, ready |-> FALSE,
                          committing |-> None, offer |-> None, awaited |-> FALSE],
                    call = NoCall
             PROVE  PhoneInv
  BY Zenon DEF Init
<1>1. r \in Routes /\ None \notin Routes /\ None \notin DirectRoutes /\ r \notin DirectRoutes
  BY Zenon, PhoneAssumption DEF Routes
<1>2. \A x \in Routes : c2d[x] = <<>> /\ d2c[x] = <<>>
  OBVIOUS
<1>3. \A x \in Routes : Frames(c2d[x]) = {} /\ Frames(d2c[x]) = {}
  BY <1>2, EmptyShrinks
<1>4. \A x \in Routes : OneOffer(c2d[x]) /\ OneOffer(d2c[x])
  <2>1. OneOffer(<<>>)
    BY DEF OneOffer
  <2> QED BY Zenon, <1>2, <2>1
<1>5. \A x \in Routes : ~ HasOffer(c2d[x]) /\ ~ HasOffer(d2c[x])
  BY Zenon, <1>3 DEF HasOffer
<1>6. host \in HostRec /\ dm \in DmRec
  BY Zenon, <1>1, PhoneAssumption DEF HostRec, DmRec
<1>7. up \in UpRec /\ call \in CallRec
  BY Zenon DEF Attempt, NoAttempt, UpRec, NoCall, CallRec
<1>8. c2d \in [Routes -> Seq(Request)] /\ d2c \in [Routes -> Seq(Reply)] /\ pending \in [Routes -> SUBSET Ops]
  <2>1. <<>> \in Seq(Request) /\ <<>> \in Seq(Reply) /\ {} \in SUBSET Ops
    OBVIOUS
  <2> QED BY <2>1
<1>9. PhoneTypes
  BY Zenon, <1>1, <1>6, <1>7, <1>8, PhoneTypesAre
<1>10. up.phase = "creating" /\ up.relay = r /\ up.cand = None
  BY Zenon DEF Attempt, NoAttempt
<1>11. HostInv
  BY Zenon, <1>1, <1>10 DEF HostInv, Switching, None
<1>12. RouteInv
  BY Zenon, <1>10 DEF RouteInv, Switching
<1>13. ~ HasCall
  BY Zenon, <1>3 DEF HasCall
<1>14. CallInv /\ NoCallIsCutOff
  BY Zenon, <1>10, <1>13 DEF CallInv, NoCallIsCutOff, NoCall, None
<1>15. AwaitedInv
  BY Zenon, <1>3, <1>4, <1>5 DEF AwaitedInv
<1>16. ErrorInv
  BY Zenon, <1>1, <1>3 DEF ErrorInv
<1> QED BY Zenon, <1>9, <1>11, <1>12, <1>14, <1>15, <1>16 DEF PhoneInv

LEMMA StutterKeeps == ASSUME PhoneInv, UNCHANGED vars PROVE PhoneInv'
<1>1. UNCHANGED <<host, up, probe, retry, live, wire, pending, c2d, d2c, dm, call>>
  BY Zenon DEF vars
<1>2. PhoneTypes' /\ HostInv' /\ RouteInv'
  <2>1. PhoneTypes'
    BY <1>1 DEF PhoneInv, PhoneTypes, TypeOK
  <2>2. HostInv'
    BY Zenon, <1>1 DEF PhoneInv, HostInv, Switching
  <2>3. RouteInv'
    BY Zenon, <1>1 DEF PhoneInv, RouteInv, Switching
  <2> QED BY Zenon, <2>1, <2>2, <2>3
<1>3. CallInv' /\ NoCallIsCutOff'
  BY Zenon, <1>1 DEF PhoneInv, CallInv, HasCall, NoCallIsCutOff
<1>4. AwaitedInv' /\ ErrorInv'
  BY Zenon, <1>1 DEF PhoneInv, AwaitedInv, ErrorInv
<1> QED BY Zenon, <1>2, <1>3, <1>4 DEF PhoneInv

LEMMA DaemonKeeps ==
  ASSUME PhoneInv, Daemon PROVE PhoneInv'
BY Zenon, DaemonRequestKeeps, DaemonDropKeeps, DaemonAcceptKeeps, DaemonRefuseKeeps, DaemonHello3Keeps, DaemonSwitchKeeps,
   CandidateExpiresKeeps, DaemonEstablishesKeeps DEF Daemon

LEMMA EnvironmentKeeps ==
  ASSUME PhoneInv, Environment PROVE PhoneInv'
BY Zenon, OnlineKeeps, OfflineKeeps, HideKeeps, ChooseRelayKeeps, ChooseAutoKeeps, CloseKeeps, WireBreaksKeeps, DaemonGoneKeeps
   DEF Environment

LEMMA NextKeeps ==
  ASSUME PhoneInv, [Next]_vars PROVE PhoneInv'
<1>1. CASE Calls
  BY Zenon, <1>1, CallsKeep
<1>2. CASE Environment
  BY <1>2, EnvironmentKeeps
<1>3. CASE Upgrade
  BY Zenon, <1>3, UpgradeKeeps
<1>4. CASE RetryFires
  BY Zenon, <1>4, RetryFiresKeeps
<1>5. CASE Daemon
  BY Zenon, <1>5, DaemonKeeps
<1>6. CASE Transports
  BY Zenon, <1>6, HealthAnsweredKeeps, HealthFailsKeeps, ErrorFrameKeeps, LateReplyKeeps, NoticeCloseKeeps DEF Transports
<1>7. CASE Connect
  BY Zenon, <1>7, TimerFiresKeeps, ConnectDoneKeeps, ConnectFailsKeeps DEF Connect
<1>8. CASE UNCHANGED vars
  BY Zenon, <1>8, StutterKeeps
<1> QED BY Zenon, <1>1, <1>2, <1>3, <1>4, <1>5, <1>6, <1>7, <1>8 DEF Next

LEMMA PhoneInvHolds == Spec => []PhoneInv
<1>1. PhoneInv /\ [Next]_vars => PhoneInv'
  BY Zenon, NextKeeps
<1> QED BY <1>1, InitInv, PTL DEF Spec

-----------------------------------------------------------------------------
(* Only close() ends a session.                                            *)

LEMMA DisconnectStays ==
  ASSUME PhoneInv, NEW h \in HostRec, h.stopped = host.stopped, h.transport = host.transport,
         NEW r \in Routes, NEW code \in Codes, code = "kicked" => host.transport # r, Disconnect(h, r, code)
  PROVE  host'.stopped = host.stopped
<1>1. host' = OnDisconnect(h, r, code)
  BY Zenon DEF Disconnect
<1> QED BY Zenon, <1>1, OnDisconnectFacts

LEMMA FailStays == ASSUME PhoneInv, AttemptFails PROVE host'.stopped = host.stopped
<1>1. host' = HostAfter
  BY Zenon DEF AttemptFails
<1> QED BY Zenon, <1>1, HostAfterFacts

LEMMA ReconnectStays ==
  ASSUME NEW h \in HostRec, ReconnectNow(h) PROVE host'.stopped = h.stopped
<1>1. \/ host' = h \/ host' = [h EXCEPT !.checking = TRUE] \/ host' = [h EXCEPT !.requested = TRUE]
      \/ host' = ScheduleReconnect(h)
  BY Zenon DEF ReconnectNow, StartProbe
<1> QED BY Zenon, <1>1, ScheduleFacts DEF HostRec

LEMMA UpgradeStays == ASSUME PhoneInv, Upgrade PROVE host'.stopped = host.stopped
<1>1. host \in HostRec
  BY Zenon, PhoneTypesAre DEF PhoneInv
<1>2. \/ AttemptFails \/ host' = host \/ host' = [host EXCEPT !.deferred = None]
      \/ host' = [host EXCEPT !.transport = up.cand, !.deferred = None, !.checking = host.hidden]
  BY Zenon DEF Upgrade, SendOffer, PrepareFails, OfferAnswered, Prepared, Drained, DrainTimeout, CommitAnswered, CommitRefused,
         CommitTimeout, CommitLost, ProbeBegin, ProbeAnswered, ProbeFails, Abandon
<1> QED BY Zenon, <1>1, <1>2, FailStays DEF HostRec

LEMMA TransportsStay == ASSUME PhoneInv, Transports PROVE host'.stopped = host.stopped
<1>1. host \in HostRec /\ "uncertain" \in Codes
  BY Zenon, PhoneTypesAre DEF PhoneInv, Codes
<1>2. PICK r \in Routes : HealthAnswered(r) \/ HealthFails(r) \/ ErrorFrame(r) \/ LateReply(r) \/ NoticeClose(r)
  BY Zenon DEF Transports
<1>3. CASE HealthAnswered(r)
  BY Zenon, <1>1, <1>3 DEF HealthAnswered, HostRec
<1>4. CASE HealthFails(r) \/ NoticeClose(r)
  <2>1. host' = host \/ Disconnect(host, r, "uncertain")
    BY Zenon, <1>4 DEF HealthFails, NoticeClose
  <2> QED BY Zenon, <1>1, <2>1, DisconnectStays
<1>5. CASE LateReply(r)
  BY Zenon, <1>5 DEF LateReply
<1>6. CASE ErrorFrame(r)
  <2> DEFINE f == Head(d2c[r])
  <2>1. d2c[r] # <<>> /\ f.op = "error" /\ Disconnect(host, r, f.to) /\ d2c \in [Routes -> Seq(Reply)]
    BY Zenon, <1>6, PhoneTypesAre DEF ErrorFrame, PhoneInv
  <2>2. f \in Frames(d2c[r])
    BY ZenonT(30), <2>1, TailFacts
  <2> HIDE DEF f
  <2>3. f.to \in Codes
    BY Zenon, <2>1, <2>2 DEF PhoneInv, ErrorInv, Codes
  <2>4. f.to = "kicked" => host.transport # r
    BY Zenon, <2>1, <2>2 DEF PhoneInv, ErrorInv, IsError
  <2> QED BY Zenon, <1>1, <2>1, <2>3, <2>4, DisconnectStays
<1> QED BY Zenon, <1>2, <1>3, <1>4, <1>5, <1>6

LEMMA ConnectStays == ASSUME PhoneInv, Connect PROVE host'.stopped = host.stopped
<1>1. host \in HostRec
  BY Zenon, PhoneTypesAre DEF PhoneInv
<1>2. CASE \E r \in RelayRoutes : TimerFires(r)
  BY Zenon, <1>1, <1>2 DEF TimerFires, HostRec
<1> DEFINE k == Reconnected(host)
           m == [Reconnected(host) EXCEPT !.checking = FALSE]
<1>3. k \in HostRec /\ k.stopped = host.stopped /\ m \in HostRec /\ m.stopped = host.stopped
  BY Zenon, <1>1 DEF Reconnected, HostRec
<1>4. CASE ConnectFails
  <2>1. host' = ScheduleReconnect(k) \/ host' = ScheduleReconnect(m)
    BY Zenon, <1>4 DEF ConnectFails
  <2> HIDE DEF k, m
  <2> QED BY Zenon, <1>3, <2>1, ScheduleFacts
<1>5. CASE ConnectDone
  <2>1. \/ host' = ScheduleReconnect(k)
        \/ host' = [k EXCEPT !.transport = host.connecting, !.checking = host.hidden]
    BY Zenon, <1>5 DEF ConnectDone
  <2> HIDE DEF k, m
  <2>2. CASE host' = ScheduleReconnect(k)
    BY Zenon, <1>3, <2>2, ScheduleFacts
  <2>3. CASE host' = [k EXCEPT !.transport = host.connecting, !.checking = host.hidden]
    BY Zenon, <1>3, <2>3 DEF HostRec
  <2> QED BY Zenon, <2>1, <2>2, <2>3
<1> QED BY Zenon, <1>2, <1>4, <1>5 DEF Connect

LEMMA EnvironmentStays == ASSUME PhoneInv, Environment, ~ Close PROVE host'.stopped = host.stopped
<1>1. host \in HostRec /\ "uncertain" \in Codes /\ live \subseteq Routes
  BY Zenon, PhoneTypesAre DEF PhoneInv, Codes
<1>2. CASE Online
  <2> DEFINE h == [host EXCEPT !.net = TRUE]
  <2>1. h \in HostRec /\ h.stopped = host.stopped /\ ReconnectNow(h)
    BY Zenon, <1>1, <1>2 DEF Online, HostRec
  <2> HIDE DEF h
  <2> QED BY Zenon, <2>1, ReconnectStays
<1>3. CASE Show
  <2> DEFINE h == [host EXCEPT !.hidden = FALSE]
  <2>1. h \in HostRec /\ h.stopped = host.stopped /\ ReconnectNow(h)
    BY Zenon, <1>1, <1>3 DEF Show, HostRec
  <2> HIDE DEF h
  <2> QED BY Zenon, <2>1, ReconnectStays
<1>4. CASE Offline
  <2> DEFINE h == [host EXCEPT !.net = FALSE, !.timer = FALSE]
  <2>1. h \in HostRec /\ h.stopped = host.stopped
    BY Zenon, <1>1 DEF HostRec
  <2>2. host' = h \/ (host.transport \in Routes /\ host' = OnDisconnect(h, host.transport, "uncertain"))
    BY Zenon, <1>1, <1>4 DEF Offline
  <2> HIDE DEF h
  <2> QED BY <1>1, <2>1, <2>2, OnDisconnectFacts
<1>5. CASE ChooseRelay
  <2> DEFINE h == [host EXCEPT !.mode = "relay"]
  <2>1. h \in HostRec /\ h.stopped = host.stopped /\ h.transport = host.transport
    BY Zenon, <1>1 DEF HostRec
  <2>2. host' = h \/ (host.transport \in Routes /\ Disconnect(h, host.transport, "uncertain"))
    BY Zenon, <1>1, <1>5 DEF ChooseRelay
  <2> HIDE DEF h
  <2> QED BY Zenon, <1>1, <2>1, <2>2, DisconnectStays
<1>6. CASE Hide \/ ChooseAuto
  BY Zenon, <1>1, <1>6 DEF Hide, ChooseAuto, HostRec
<1>7. CASE (\E r \in Routes : WireBreaks(r)) \/ \E code \in {"daemon_offline", "uncertain"} : DaemonGone(code)
  BY Zenon, <1>7 DEF WireBreaks, DaemonGone
<1> QED BY Zenon, <1>2, <1>3, <1>4, <1>5, <1>6, <1>7 DEF Environment

LEMMA OnlyCloseStops ==
  ASSUME PhoneInv, [Next]_vars PROVE [~host.stopped /\ host.stopped' => Close]_vars
<1>1. CASE Calls
  BY Zenon, <1>1 DEF Calls, CallBegin, CallResume, CallAnswered, CallTimeout, CallReturn
<1>2. CASE RetryFires
  BY Zenon, <1>2 DEF RetryFires
<1>3. CASE Daemon
  BY Zenon, <1>3 DEF Daemon, DaemonRequest, DaemonDrop, DaemonAccept, DaemonRefuse, DaemonHello3, DaemonSwitch,
              CandidateExpires, DaemonNotices, DaemonEstablishes
<1> QED BY Zenon, <1>1, <1>2, <1>3, EnvironmentStays, UpgradeStays, TransportsStay, ConnectStays DEF Next

-----------------------------------------------------------------------------
(* What the phone's session promises, for any number of routes, any length *)
(* of the queues and any set of mishaps.                                   *)

(* The state of the phone, of the two directions of every route and of the *)
(* daemon's side of the session keeps its type.                            *)
THEOREM PhoneTypeOK == Spec => []TypeOK
<1>1. PhoneInv => TypeOK
  BY Zenon DEF PhoneInv, PhoneTypes
<1> QED BY <1>1, PhoneInvHolds, PTL

(* No mutation is outstanding on the relay route once TransportCommit is   *)
(* sent: beginSwitch and waitIdle of runDirectUpgrade see to it, in every  *)
(* order of answers, timeouts and losses.                                  *)
THEOREM NoCallIsCutOffHolds == Spec => []NoCallIsCutOff
<1>1. PhoneInv => NoCallIsCutOff
  BY Zenon DEF PhoneInv
<1> QED BY <1>1, PhoneInvHolds, PTL

(* What mutationRPC tells the caller is what the daemon did: a mutation    *)
(* reported as not sent is never run, and one that was run without an      *)
(* answer is reported as unknown_outcome while the relay serves the        *)
(* session and the user does not close it.                                 *)
THEOREM OutcomesAreHonestHolds == Spec => []OutcomesAreHonest
<1>1. PhoneInv => OutcomesAreHonest
  <2> SUFFICES ASSUME PhoneInv PROVE OutcomesAreHonest
    OBVIOUS
  <2>1. call \in CallRec
    BY PhoneTypesAre DEF PhoneInv
  <2>2. SentIsUncertainWhileServed
    BY Zenon, <2>1 DEF SentIsUncertainWhileServed, SentIsUncertain, PhoneInv, CallInv, CallRec
  <2>3. NotSentNotRun
    <3> SUFFICES ASSUME call.res = "notsent" PROVE ~ call.ran /\ ~ HasCall
      BY Zenon DEF NotSentNotRun, HasCall, Frames
    <3>1. call.st = "done"
      BY Zenon DEF PhoneInv, CallInv, None
    <3> QED BY Zenon, <3>1 DEF PhoneInv, CallInv
  <2> QED BY Zenon, <2>2, <2>3 DEF OutcomesAreHonest
<1> QED BY <1>1, PhoneInvHolds, PTL

(* A session that is over, with no dial and no attempt under way, holds no *)
(* transport and no socket of its own.                                     *)
THEOREM ClosedIsClosedHolds == Spec => []ClosedIsClosed
<1>1. PhoneInv => ClosedIsClosed
  <2> SUFFICES ASSUME PhoneInv, host.stopped, host.connecting = None, up.phase = "none"
               PROVE  live = {} /\ wire \subseteq {dm.cand}
    BY Zenon DEF ClosedIsClosed
  <2>1. live \subseteq Routes /\ wire \subseteq Routes /\ None \notin Routes
    BY Zenon, PhoneTypesAre, PhoneAssumption DEF PhoneInv
  <2>2. host.transport = None /\ up.cand = None
    BY Zenon DEF PhoneInv, HostInv
  <2>3. live \subseteq {None} /\ wire \subseteq {None}
    BY Zenon, <2>2 DEF PhoneInv, RouteInv
  <2> QED BY Zenon, <2>1, <2>3
<1> QED BY <1>1, PhoneInvHolds, PTL

(* The phone never kicks itself off: the "kicked" that the daemon sends to *)
(* the session it replaces is only ever on a route that is not the         *)
(* session's transport, so nothing but close() ends the session.           *)
THEOREM NeverSelfKickedHolds == Spec => NeverSelfKicked
<1>1. PhoneInv /\ [Next]_vars => [~host.stopped /\ host.stopped' => Close]_vars
  BY Zenon, OnlyCloseStops
<1> QED BY <1>1, PhoneInvHolds, PTL DEF Spec, NeverSelfKicked
=============================================================================
