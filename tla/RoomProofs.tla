----------------------------- MODULE RoomProofs -----------------------------
(***************************************************************************)
(* Proofs about the relay's room, its alarms and its passphrase gate, for  *)
(* every set of sockets and every limit.                                   *)
(***************************************************************************)
EXTENDS Room, RoomAlarms, RoomGate, FiniteSetTheorems, WellFoundedInduction, TLAPS

Attachments ==
  [kind: {"none", "pairing", "resumehello", "established"}, hello: Nat, created: Nat]

(* RoomTypeOK without the bounds that follow from the number of sockets.   *)
RoomTypes ==
  /\ sock \in [Sockets -> {"new", "open", "closing", "gone"}]
  /\ att \in [Sockets -> Attachments]
  /\ daemon \in Daemons \cup {NoDaemon}
  /\ routes \subseteq Phones /\ bound \subseteq Phones /\ waits \subseteq Phones
  /\ meta \in {"none", "enrolled", "kicked"}
  /\ hellos \subseteq Daemons
  /\ view \in [Daemons -> SUBSET Phones]

(* Ranks of registration are bounded at any time and given once.           *)
RankInv ==
  /\ \E n \in Nat : \A d \in Daemons : att[d].hello <= n
  /\ \A d, e \in Daemons : att[d].hello = att[e].hello /\ att[d].hello > 0 => d = e

CreatedInv == \E n \in Nat : \A p \in Phones : att[p].created <= n

(* A socket that has not connected has said nothing.                       *)
NewInv ==
  /\ \A s \in Sockets : sock[s] = "new" => att[s] = NewAttachment
  /\ \A d \in hellos : sock[d] # "new"
  /\ \A p \in bound \cup waits : sock[p] # "new"

(* An open registered daemon serves and registered last.                   *)
ServesInv ==
  /\ \A d \in Daemons : sock[d] = "open" /\ att[d].hello > 0 =>
       daemon = d /\ \A e \in Daemons : att[e].hello <= att[d].hello
  /\ \A d \in Daemons : daemon = d /\ sock[d] = "open" => att[d].hello > 0

(* While a bound phone is open, the daemon it is bound to is listed and    *)
(* registered last, so that rebuilding the maps finds it again.            *)
BoundInv ==
  \A p \in bound : sock[p] = "open" =>
    /\ daemon \in Daemons /\ sock[daemon] \in {"open", "closing"}
    /\ att[daemon].hello > 0 /\ p \in view[daemon]
    /\ \A e \in Daemons : att[e].hello <= att[daemon].hello

(* A kick reaches the daemons whose token is being hashed.                 *)
KickInv ==
  meta = "kicked" =>
    \A d \in Daemons : sock[d] = "open" => d \notin hellos /\ att[d].hello = 0

RoomInv ==
  /\ RoomTypes /\ RankInv /\ CreatedInv /\ NewInv /\ ServesInv /\ BoundInv
  /\ BoundPhoneIsRouted /\ KickInv
-----------------------------------------------------------------------------
(* Facts about sets of numbers, by well-founded induction on Nat.          *)
Smaller == {pair \in Nat \X Nat : pair[1] < pair[2]}

(* Every non-empty set of natural numbers has a least element.             *)
LEMMA LeastExists ==
  ASSUME NEW T, T \subseteq Nat, T # {}
  PROVE  \E x \in T : \A y \in T : x <= y
<1>1. IsWellFoundedOn(Smaller, Nat)
  BY Zenon, NatLessThanWellFounded DEF OpToRel, Smaller
<1>2. \E x \in T : \A y \in T : ~ (<<y, x>> \in Smaller)
  BY Zenon, <1>1, WFMin
<1>3. \A x, y \in Nat : <<y, x>> \in Smaller <=> y < x
  BY Zenon DEF Smaller
<1>4. PICK x \in T : \A y \in T : ~ (y < x)
  BY Zenon, <1>2, <1>3
<1> QED
  BY <1>4

(* A bounded one has a greatest element.                                   *)
LEMMA GreatestExists ==
  ASSUME NEW T, T \subseteq Nat, T # {}, NEW n \in Nat, \A x \in T : x <= n
  PROVE  \E x \in T : \A y \in T : y <= x
<1> DEFINE U == {n - x : x \in T}
<1>1. \A x \in T : n - x \in Nat
  OBVIOUS
<1>2. U \subseteq Nat /\ U # {}
  BY <1>1
<1>3. PICK u \in U : \A v \in U : u <= v
  <2> HIDE DEF U
  <2> QED BY Zenon, <1>2, LeastExists
<1>4. PICK x \in T : u = n - x
  BY Zenon, <1>3
<1>5. \A y \in T : n - x <= n - y
  BY Zenon, <1>3, <1>4
<1>6. \A y \in T : y <= x
  BY <1>5
<1> QED
  BY Zenon, <1>4, <1>6

LEMMA MaxIs ==
  ASSUME NEW T, T \subseteq Nat, T # {}, NEW n \in Nat, \A x \in T : x <= n
  PROVE  Max(T) \in Nat /\ \A y \in T : y <= Max(T)
<1>1. \E x \in T : \A y \in T : x >= y
  BY Zenon, GreatestExists
<1>2. Max(T) \in T /\ \A y \in T : Max(T) >= y
  BY Zenon, <1>1 DEF Max
<1> QED BY Zenon, <1>2

LEMMA MinIs ==
  ASSUME NEW T, T \subseteq Nat, T # {}
  PROVE  Min(T) \in T /\ \A y \in T : Min(T) <= y
<1>1. \E x \in T : \A y \in T : x <= y
  BY Zenon, LeastExists
<1> QED BY Zenon, <1>1 DEF Min

(* Newest is above every rank.                                             *)
LEMMA NewestBounds ==
  ASSUME RoomTypes, RankInv
  PROVE  Newest \in Nat /\ \A d \in Daemons : att[d].hello <= Newest
<1> DEFINE T == {0} \cup {att[d].hello : d \in Daemons}
<1>1. T \subseteq Nat /\ T # {}
  BY DEF RoomTypes, Attachments, Sockets
<1>2. PICK n \in Nat : \A d \in Daemons : att[d].hello <= n
  BY Zenon DEF RankInv
<1>3. \A x \in T : x <= n
  BY <1>2
<1>4. \A d \in Daemons : att[d].hello \in T
  OBVIOUS
<1>5. Newest = Max(T)
  BY DEF Newest
<1> HIDE DEF T
<1>6. Max(T) \in Nat /\ \A y \in T : y <= Max(T)
  BY Zenon, <1>1, <1>3, MaxIs
<1> QED BY Zenon, <1>4, <1>5, <1>6

(* The time of a bind is above every earlier one.                          *)
LEMMA BindIs ==
  ASSUME RoomTypes, CreatedInv, NEW p \in Phones,
         NEW kind \in {"pairing", "resumehello"}, Bind(p, kind)
  PROVE  /\ att' \in [Sockets -> Attachments] /\ CreatedInv'
         /\ \A s \in Sockets : s # p => att'[s] = att[s]
         /\ att'[p].kind = kind /\ att'[p].hello = att[p].hello
<1> DEFINE T == {0} \cup {att[q].created : q \in Phones}
<1>1. T \subseteq Nat /\ T # {}
  BY DEF RoomTypes, Attachments, Sockets
<1>2. PICK n \in Nat : \A q \in Phones : att[q].created <= n
  BY Zenon DEF CreatedInv
<1>3. \A x \in T : x <= n
  BY <1>2
<1>4. att' = [att EXCEPT ![p].kind = kind, ![p].created = 1 + Max(T)]
  BY Zenon DEF Bind
<1>5. \A q \in Phones : att[q].created \in T
  OBVIOUS
<1> HIDE DEF T
<1>6. Max(T) \in Nat /\ \A y \in T : y <= Max(T)
  BY <1>1, <1>3, MaxIs
<1>7. att' \in [Sockets -> Attachments]
  <2> DEFINE m == 1 + Max(T)
             a == [att[p] EXCEPT !.kind = kind, !.created = m]
  <2>1. m \in Nat
    BY <1>6
  <2>2. a \in Attachments
    <3> HIDE DEF m
    <3> QED BY Zenon, <2>1 DEF RoomTypes, Attachments, Sockets
  <2>3. att' = [att EXCEPT ![p] = a]
    BY Zenon, <1>4
  <2> HIDE DEF a
  <2> QED BY Zenon, <2>2, <2>3 DEF RoomTypes
<1>8. \A s \in Sockets : s # p => att'[s] = att[s]
  BY Zenon, <1>4 DEF RoomTypes
<1>9. att'[p].kind = kind /\ att'[p].hello = att[p].hello /\ att'[p].created = 1 + Max(T)
  BY Zenon, <1>4, <1>6 DEF RoomTypes, Attachments, Sockets
<1>10. CreatedInv'
  <2>1. \A q \in Phones : att'[q].created <= 1 + Max(T)
    <3> SUFFICES ASSUME NEW q \in Phones PROVE att'[q].created <= 1 + Max(T)
      OBVIOUS
    <3>1. att[q].created <= Max(T)
      BY <1>5, <1>6
    <3>2. q # p => att'[q].created = att[q].created
      BY Zenon, <1>8 DEF Sockets
    <3>3. att[q].created \in Nat
      BY Zenon DEF RoomTypes, Attachments, Sockets
    <3> QED BY <1>6, <1>9, <3>1, <3>2, <3>3
  <2>2. 1 + Max(T) \in Nat
    BY <1>6
  <2> QED BY Zenon, <2>1, <2>2 DEF CreatedInv
<1> QED BY Zenon, <1>7, <1>8, <1>9, <1>10
-----------------------------------------------------------------------------
(* Closing leaves new and gone sockets alone.                              *)
LEMMA ClosingIs ==
  ASSUME NEW S, NEW sk \in [Sockets -> {"new", "open", "closing", "gone"}]
  PROVE  /\ Closing(S, sk) \in [Sockets -> {"new", "open", "closing", "gone"}]
         /\ \A s \in Sockets :
              /\ Closing(S, sk)[s] = "open" <=> sk[s] = "open" /\ s \notin S
              /\ Closing(S, sk)[s] = "new" <=> sk[s] = "new"
              /\ Closing(S, sk)[s] \in {"open", "closing"} <=> sk[s] \in {"open", "closing"}
BY Zenon DEF Closing

(* Of a non-empty set of daemons one registered last.                      *)
LEMMA NewestOf ==
  ASSUME RoomTypes, RankInv, NEW ds, ds \subseteq Daemons, ds # {}
  PROVE  \E d \in ds : \A e \in ds : att[e].hello <= att[d].hello
<1> DEFINE T == {att[d].hello : d \in ds}
<1>1. T \subseteq Nat /\ T # {}
  BY DEF RoomTypes, Attachments, Sockets
<1>2. PICK n \in Nat : \A d \in Daemons : att[d].hello <= n
  BY Zenon DEF RankInv
<1>3. \A x \in T : x <= n
  BY Zenon, <1>2
<1>4. PICK x \in T : \A y \in T : y <= x
  <2> HIDE DEF T
  <2> QED BY Zenon, <1>1, <1>3, GreatestExists
<1>5. PICK d \in ds : x = att[d].hello
  BY Zenon, <1>4
<1> QED
  BY Zenon, <1>4, <1>5

Registered(sk) == {s \in Listed(sk) : isRegisteredDaemon(s)}
LastOf(ds) == {d \in ds : \A e \in ds : att[e].hello <= att[d].hello}
Chosen(ds) == IF ds = {} THEN NoDaemon ELSE CHOOSE d \in LastOf(ds) : TRUE

(* What rebuildMaps chooses: a daemon with the highest rank of all is      *)
(* found again, and is the only one left open.                             *)
LEMMA ChosenIs ==
  ASSUME RoomTypes, RankInv, NEW sk
  PROVE  /\ Registered(sk) \subseteq Daemons
         /\ Chosen(Registered(sk)) \in Registered(sk) \cup {NoDaemon}
         /\ Chosen(Registered(sk)) \in Daemons => Chosen(Registered(sk)) \in LastOf(Registered(sk))
         /\ \A d \in Registered(sk) :
              (\A e \in Daemons : att[e].hello <= att[d].hello) =>
                /\ d \in LastOf(Registered(sk))
                /\ Chosen(Registered(sk)) = d
         /\ \A d \in LastOf(Registered(sk)) : Chosen(Registered(sk)) = d
<1> DEFINE ds == Registered(sk)
<1>1. ds \subseteq Daemons /\ \A d \in ds : att[d].hello > 0
  BY Zenon DEF Registered, isRegisteredDaemon
<1>2. ds # {} => LastOf(ds) # {}
  <2> HIDE DEF ds
  <2> QED BY Zenon, <1>1, NewestOf DEF LastOf
<1>3. ds # {} => Chosen(ds) \in LastOf(ds)
  <2> HIDE DEF ds
  <2> QED BY Zenon, <1>2 DEF Chosen
<1>4. LastOf(ds) \subseteq ds
  BY Zenon DEF LastOf
<1>5. \A d, e \in LastOf(ds) : d = e
  <2> SUFFICES ASSUME NEW d \in LastOf(ds), NEW e \in LastOf(ds) PROVE d = e
    OBVIOUS
  <2> HIDE DEF ds
  <2>1. d \in Daemons /\ e \in Daemons /\ att[d].hello > 0
    BY <1>1, <1>4
  <2>2. att[d].hello \in Nat /\ att[e].hello \in Nat
    BY Zenon, <2>1 DEF RoomTypes, Attachments, Sockets
  <2>3. att[d].hello <= att[e].hello /\ att[e].hello <= att[d].hello
    BY Zenon DEF LastOf
  <2> QED BY <2>1, <2>2, <2>3 DEF RankInv
<1>6. \A d \in ds : (\A e \in Daemons : att[e].hello <= att[d].hello) => d \in LastOf(ds)
  <2> HIDE DEF ds
  <2> QED BY Zenon, <1>1 DEF LastOf
<1>7. ds = {} => Chosen(ds) = NoDaemon
  BY Zenon DEF Chosen
<1>8. NoDaemon \notin Daemons
  BY Zenon, RoomAssumption
<1>9. \A d \in LastOf(ds) : Chosen(ds) = d
  <2> HIDE DEF ds
  <2> QED BY Zenon, <1>3, <1>4, <1>5
<1> QED
  <2> HIDE DEF ds
  <2>1. Chosen(ds) \in ds \cup {NoDaemon}
    BY Zenon, <1>3, <1>4, <1>7
  <2>2. Chosen(ds) \in Daemons => Chosen(ds) \in LastOf(ds)
    BY Zenon, <1>3, <1>7, <1>8
  <2> QED
    BY Zenon, <1>1, <1>6, <1>9, <2>1, <2>2 DEF ds
-----------------------------------------------------------------------------
(* Ranks are only given up, or left alone.                                 *)
LEMMA RanksKept ==
  ASSUME RankInv, \A d \in Daemons : att'[d].hello \in {att[d].hello, 0}
  PROVE  RankInv'
<1>1. PICK n \in Nat : \A d \in Daemons : att[d].hello <= n
  BY Zenon DEF RankInv
<1>2. \A d \in Daemons : att'[d].hello <= n
  BY <1>1
<1>3. \A d, e \in Daemons : att'[d].hello = att'[e].hello /\ att'[d].hello > 0 => d = e
  BY DEF RankInv
<1> QED BY Zenon, <1>2, <1>3 DEF RankInv

LEMMA CreatedKept ==
  ASSUME CreatedInv, \A p \in Phones : att'[p].created \in {att[p].created, 0}
  PROVE  CreatedInv'
<1>1. PICK n \in Nat : \A p \in Phones : att[p].created <= n
  BY Zenon DEF CreatedInv
<1>2. \A p \in Phones : att'[p].created <= n
  BY <1>1
<1> QED BY Zenon, <1>2 DEF CreatedInv

(* A step that leaves the daemons' registrations alone and at most closes  *)
(* sockets.                                                                *)
Quiet ==
  /\ daemon' = daemon
  /\ \A d \in Daemons : att'[d].hello = att[d].hello
  /\ \A s \in Sockets : sock'[s] = sock[s] \/ (sock[s] = "open" /\ sock'[s] = "closing")

LEMMA QuietStep ==
  ASSUME RoomInv, Quiet
  PROVE  RankInv' /\ ServesInv'
<1>0. RankInv /\ \A d \in Daemons : att'[d].hello \in {att[d].hello, 0}
  BY Zenon DEF Quiet, RoomInv
<1>1. RankInv'
  BY Zenon, <1>0, RanksKept
<1>2. ServesInv'
  BY Zenon DEF Quiet, RoomInv, ServesInv, Sockets
<1> QED BY Zenon, <1>1, <1>2

(* Bound phones stay bound to the same daemon.                             *)
LEMMA QuietBound ==
  ASSUME RoomInv, Quiet, bound' \subseteq Phones,
         \A p \in Phones : p \in bound' /\ sock'[p] = "open" =>
           p \in bound /\ (daemon \in Daemons /\ p \in view[daemon] => p \in view'[daemon])
  PROVE  BoundInv'
<1> SUFFICES ASSUME NEW p \in bound', sock'[p] = "open"
             PROVE  /\ daemon' \in Daemons /\ sock'[daemon'] \in {"open", "closing"}
                    /\ att'[daemon'].hello > 0 /\ p \in view'[daemon']
                    /\ \A e \in Daemons : att'[e].hello <= att'[daemon'].hello
  BY Zenon DEF BoundInv
<1>1. p \in bound /\ sock[p] = "open"
  BY Zenon DEF Quiet, Sockets
<1> QED
  BY Zenon, <1>1 DEF Quiet, RoomInv, BoundInv, Sockets

LEMMA QuietRest ==
  ASSUME RoomInv, Quiet, RoomTypes', meta' = meta, hellos' = hellos,
         \A s \in Sockets : sock[s] = "new" => att'[s] = att[s],
         \A p \in bound' \cup waits' : p \in bound \cup waits \/ sock[p] = "open"
  PROVE  NewInv' /\ KickInv'
<1> USE DEF Quiet
<1>1. \A s \in Sockets : sock'[s] = "new" => att'[s] = NewAttachment
  BY Zenon DEF RoomInv, NewInv
<1>2. \A d \in hellos' : sock'[d] # "new"
  BY Zenon DEF RoomInv, NewInv, RoomTypes, Sockets
<1>3. \A p \in bound' \cup waits' : sock'[p] # "new"
  BY Zenon DEF RoomInv, NewInv, RoomTypes, Sockets
<1>4. KickInv'
  BY Zenon DEF RoomInv, KickInv, Sockets
<1> QED BY Zenon, <1>1, <1>2, <1>3, <1>4 DEF NewInv

(* The end of a bind.                                                      *)
LEMMA CloseBindKeeps ==
  ASSUME RoomInv, NEW p \in Phones, CloseBind({p}),
         UNCHANGED <<att, daemon, meta, inflight, bound>>
  PROVE  RoomInv'
<1> p \in Sockets /\ p \notin Daemons
  BY Zenon, RoomAssumption DEF Sockets
<1> USE DEF RoomInv, RoomTypes
<1>1. /\ sock' \in [Sockets -> {"new", "open", "closing", "gone"}]
      /\ \A s \in Sockets : sock'[s] = sock[s] \/ (sock[s] = "open" /\ sock'[s] = "closing")
      /\ sock'[p] # "open"
  BY Zenon DEF CloseBind, Closing
<1>2. RoomTypes'
  BY Zenon, <1>1 DEF CloseBind, inflight
<1>3. Quiet
  BY Zenon, <1>1 DEF Quiet
<1>4. BoundPhoneIsRouted'
  BY Zenon, <1>1 DEF BoundPhoneIsRouted, CloseBind, Sockets
<1>5. BoundInv'
  <2>1. \A q \in Phones : sock'[q] = "open" /\ daemon \in Daemons /\ q \in view[daemon]
                            => q \in view'[daemon]
    BY Zenon, <1>1 DEF CloseBind
  <2> QED BY Zenon, <1>2, <1>3, <2>1, QuietBound
<1>6. NewInv' /\ KickInv'
  BY Zenon, <1>2, <1>3, QuietRest DEF inflight
<1>7. CreatedInv'
  BY Zenon DEF CreatedInv
<1> QED BY Zenon, <1>2, <1>3, <1>4, <1>5, <1>6, <1>7, QuietStep

(* The handlers of phones, and the closing of sockets and binds.           *)
LEMMA PhoneSteps ==
  ASSUME RoomInv, NEW p \in Phones,
         \/ ClientHello(p) \/ PairAttach(p) \/ SessionAttach(p) \/ AttachDone(p)
         \/ SessionEstablished(p) \/ DaemonEndsRoute(p) \/ BindTimeout(p)
  PROVE  RoomInv'
<1> p \in Sockets /\ p \notin Daemons
  BY Zenon, RoomAssumption DEF Sockets
<1> USE DEF RoomInv, RoomTypes
<1>1. CASE ClientHello(p)
  <2> USE <1>1 DEF ClientHello
  <2>1. RoomTypes'
    BY Zenon DEF Attachments, inflight, told
  <2>2. Quiet
    BY Zenon DEF Quiet, Sockets
  <2>3. BoundPhoneIsRouted'
    BY Zenon DEF BoundPhoneIsRouted, Sockets, Attachments
  <2>4. BoundInv'
    BY Zenon, <2>1, <2>2, QuietBound DEF told
  <2>5. NewInv' /\ KickInv'
    BY Zenon, <2>1, <2>2, QuietRest DEF inflight, told
  <2>6. \A q \in Phones : att'[q].created \in {att[q].created, 0}
    BY Zenon DEF Attachments, Sockets
  <2>7. CreatedInv'
    BY Zenon, <2>6, CreatedKept
  <2> QED BY Zenon, <2>1, <2>2, <2>3, <2>4, <2>5, <2>7, QuietStep
<1>2. CASE PairAttach(p)
  <2> USE <1>2 DEF PairAttach
  <2>1. /\ att' \in [Sockets -> Attachments] /\ CreatedInv'
        /\ \A s \in Sockets : s # p => att'[s] = att[s]
        /\ att'[p].hello = att[p].hello /\ waits' = waits \cup {p} /\ sock[p] = "open"
    BY Zenon, BindIs DEF Bind, MayBind
  <2>2. RoomTypes'
    BY Zenon, <2>1 DEF told
  <2>3. Quiet
    BY Zenon, <2>1 DEF Quiet, Sockets
  <2>4. BoundPhoneIsRouted'
    BY Zenon, <2>1 DEF BoundPhoneIsRouted, Sockets
  <2>5. BoundInv'
    BY Zenon, <2>2, <2>3, QuietBound DEF told
  <2>6. NewInv' /\ KickInv'
    BY Zenon, <2>1, <2>2, <2>3, QuietRest DEF told
  <2> QED BY Zenon, <2>1, <2>2, <2>3, <2>4, <2>5, <2>6, QuietStep
<1>3. CASE SessionAttach(p)
  <2> DEFINE out == IF Count("resumehello") >= MAX_RESUME THEN lruResume ELSE {}
  <2>1. /\ att' \in [Sockets -> Attachments] /\ CreatedInv'
        /\ \A s \in Sockets : s # p => att'[s] = att[s]
        /\ att'[p].hello = att[p].hello /\ waits' = waits \cup {p} /\ sock[p] = "open"
    BY Zenon, <1>3, BindIs DEF Bind, MayBind, SessionAttach
  <2>2. /\ daemon \in Daemons /\ sock' = Closing(out, sock) /\ routes' = (routes \ out) \cup {p}
        /\ view' = [view EXCEPT ![daemon] = @ \ out]
        /\ UNCHANGED <<daemon, meta, hellos, bound>>
    BY Zenon, <1>3 DEF SessionAttach, MayBind
  <2> HIDE DEF out
  <2>3. /\ sock' \in [Sockets -> {"new", "open", "closing", "gone"}]
        /\ \A s \in Sockets : sock'[s] = sock[s] \/ (sock[s] = "open" /\ sock'[s] = "closing")
        /\ \A s \in Sockets : sock'[s] = "open" => s \notin out
    BY Zenon, <2>2 DEF Closing
  <2>4. RoomTypes'
    BY Zenon, <2>1, <2>2, <2>3
  <2>5. Quiet
    BY Zenon, <2>1, <2>2, <2>3 DEF Quiet, Sockets
  <2>6. BoundPhoneIsRouted'
    BY Zenon, <2>1, <2>2, <2>3 DEF BoundPhoneIsRouted, Sockets
  <2>7. BoundInv'
    BY <2>2, <2>3, <2>4, <2>5, QuietBound DEF Sockets
  <2>8. NewInv' /\ KickInv'
    BY Zenon, <2>1, <2>2, <2>4, <2>5, QuietRest
  <2> QED BY Zenon, <2>1, <2>4, <2>5, <2>6, <2>7, <2>8, QuietStep
<1>4. CASE AttachDone(p)
  <2> USE <1>4 DEF AttachDone, conns
  <2>1. RoomTypes'
    OBVIOUS
  <2>2. Quiet
    BY DEF Quiet
  <2>3. BoundPhoneIsRouted'
    BY Zenon DEF BoundPhoneIsRouted
  <2>4. BoundInv'
    <3> SUFFICES ASSUME NEW q \in bound', sock'[q] = "open"
                 PROVE  /\ daemon \in Daemons /\ sock[daemon] \in {"open", "closing"}
                        /\ att[daemon].hello > 0 /\ q \in view'[daemon]
                        /\ \A e \in Daemons : att[e].hello <= att[daemon].hello
      BY Zenon DEF BoundInv
    <3>1. CASE q \in bound
      BY Zenon, <3>1 DEF BoundInv
    <3>2. CASE q \notin bound
      <4>1. q = p /\ daemon \in Daemons /\ sock[daemon] = "open"
        BY Zenon, <3>2
      <4>2. att[daemon].hello > 0
        BY Zenon, <4>1 DEF ServesInv
      <4>3. \A e \in Daemons : att[e].hello <= att[daemon].hello
        BY Zenon, <4>1, <4>2 DEF ServesInv
      <4>4. daemon # NoDaemon
        BY Zenon, <4>1, RoomAssumption
      <4>5. p \in view'[daemon]
        BY Zenon, <4>1, <4>4
      <4> QED BY Zenon, <4>1, <4>2, <4>3, <4>5
    <3> QED BY Zenon, <3>1, <3>2
  <2>5. NewInv' /\ KickInv'
    BY Zenon, <2>1, <2>2, QuietRest
  <2>6. CreatedInv'
    BY Zenon DEF CreatedInv
  <2> QED BY Zenon, <2>1, <2>2, <2>3, <2>4, <2>5, <2>6, QuietStep
<1>5. CASE SessionEstablished(p)
  <2>1. CASE CloseBind({p}) /\ UNCHANGED att
    BY Zenon, <1>5, <2>1, CloseBindKeeps DEF SessionEstablished
  <2>2. CASE ~ (CloseBind({p}) /\ UNCHANGED att)
    <3>1. /\ p \in routes /\ att' = [att EXCEPT ![p].kind = "established"]
          /\ UNCHANGED <<sock, routes, view, daemon, meta, hellos, waits, bound>>
          /\ att[p].kind = "resumehello"
      BY Zenon, <1>5, <2>2 DEF SessionEstablished, inflight
    <3>2. RoomTypes'
      BY Zenon, <3>1 DEF Attachments
    <3>3. /\ \A s \in Sockets : s # p => att'[s] = att[s]
          /\ att'[p].created = att[p].created
      BY Zenon, <3>1 DEF Attachments
    <3>4. Quiet
      BY Zenon, <3>1, <3>3 DEF Quiet, Sockets
    <3>5. BoundPhoneIsRouted'
      BY Zenon, <3>1, <3>3 DEF BoundPhoneIsRouted, Sockets
    <3>6. BoundInv'
      BY Zenon, <3>1, <3>2, <3>4, QuietBound
    <3>7. NewInv' /\ KickInv'
      <4>1. sock[p] = "new" => FALSE
        BY <3>1 DEF NewInv, NewAttachment
      <4> QED BY Zenon, <3>1, <3>2, <3>3, <3>4, <4>1, QuietRest
    <3>8. \A q \in Phones : att'[q].created \in {att[q].created, 0}
      BY Zenon, <3>3 DEF Sockets
    <3>9. CreatedInv'
      BY Zenon, <3>8, CreatedKept
    <3> QED BY Zenon, <3>2, <3>4, <3>5, <3>6, <3>7, <3>9, QuietStep
  <2> QED BY Zenon, <2>1, <2>2
<1>6. CASE DaemonEndsRoute(p)
  BY Zenon, <1>6, CloseBindKeeps DEF DaemonEndsRoute
<1>7. CASE BindTimeout(p)
  BY Zenon, <1>7, CloseBindKeeps DEF BindTimeout
<1> QED BY Zenon, <1>1, <1>2, <1>3, <1>4, <1>5, <1>6, <1>7

(* rebuildMaps over the sockets sk, which differ from sock at most in one  *)
(* that has just connected.                                                *)
LEMMA RebuildKeeps ==
  ASSUME RoomInv, NEW sk \in [Sockets -> {"new", "open", "closing", "gone"}],
         \A s \in Sockets : sk[s] = sock[s] \/ (sock[s] = "new" /\ sk[s] = "open"),
         RebuildMaps(sk, att), UNCHANGED <<att, meta, inflight, told>>
  PROVE  RoomInv'
<1> USE DEF RoomInv
<1> DEFINE ds == Registered(sk)
           last == LastOf(ds)
<1>1. /\ routes' = {p \in Listed(sk) \cap Phones : att[p].kind # "none"}
      /\ daemon' = Chosen(ds)
      /\ sock' = Closing(ds \ last, sk)
  BY Zenon DEF RebuildMaps, Chosen, LastOf, Registered
<1>2. \A s \in Sockets : sk[s] # sock[s] => att[s] = NewAttachment /\ att[s].hello = 0
  BY DEF NewInv, NewAttachment
<1>3. \A d \in Daemons : d \in ds <=> sock[d] \in {"open", "closing"} /\ att[d].hello > 0
  BY <1>2 DEF Registered, Listed, isRegisteredDaemon, RoomTypes, Sockets, Attachments
<1>4. /\ Chosen(ds) \in ds \cup {NoDaemon} /\ ds \subseteq Daemons
      /\ Chosen(ds) \in Daemons => Chosen(ds) \in last
      /\ \A d \in ds : (\A e \in Daemons : att[e].hello <= att[d].hello) =>
                         d \in last /\ Chosen(ds) = d
      /\ \A d \in last : Chosen(ds) = d
  BY Zenon, ChosenIs
<1>5. last \subseteq ds
  BY Zenon DEF LastOf
<1> HIDE DEF ds, last
<1>6. /\ sock' \in [Sockets -> {"new", "open", "closing", "gone"}]
      /\ \A s \in Sockets :
           /\ sock'[s] = "open" <=> sk[s] = "open" /\ s \notin ds \ last
           /\ sock'[s] = "new" <=> sk[s] = "new"
           /\ sock'[s] \in {"open", "closing"} <=> sk[s] \in {"open", "closing"}
  BY <1>1, ClosingIs
<1>7. RoomTypes'
  BY Zenon, <1>1, <1>4, <1>6 DEF RoomTypes, inflight, told
<1>8. RankInv' /\ CreatedInv'
  BY Zenon DEF RankInv, CreatedInv
<1>9. NewInv'
  BY Zenon, <1>6 DEF NewInv, RoomTypes, Sockets, inflight, told
<1>10. ServesInv'
  <2>1. ASSUME NEW d \in Daemons, sock'[d] = "open", att[d].hello > 0
        PROVE  daemon' = d /\ \A e \in Daemons : att[e].hello <= att[d].hello
    <3>1. sk[d] = "open" /\ d \notin ds \ last
      BY Zenon, <1>6, <2>1 DEF Sockets
    <3>2. sock[d] = "open"
      BY <1>2, <2>1, <3>1 DEF Sockets
    <3>3. \A e \in Daemons : att[e].hello <= att[d].hello
      BY Zenon, <2>1, <3>2 DEF ServesInv
    <3>4. d \in ds
      BY Zenon, <1>3, <2>1, <3>2
    <3> QED BY Zenon, <1>1, <1>4, <3>3, <3>4
  <2>2. ASSUME NEW d \in Daemons, daemon' = d PROVE att[d].hello > 0
    BY Zenon, <1>1, <1>3, <1>4, <2>2, RoomAssumption
  <2> QED BY Zenon, <2>1, <2>2 DEF ServesInv
<1>11. BoundInv'
  <2> SUFFICES ASSUME NEW p \in bound, sock'[p] = "open"
               PROVE  /\ daemon' \in Daemons /\ sock'[daemon'] \in {"open", "closing"}
                      /\ att[daemon'].hello > 0 /\ p \in view[daemon']
                      /\ \A e \in Daemons : att[e].hello <= att[daemon'].hello
    BY Zenon DEF BoundInv, told
  <2>1. p \in Phones /\ p \in Sockets
    BY Zenon DEF RoomTypes, Sockets
  <2>2. sock[p] = "open"
    BY Zenon, <1>6, <2>1 DEF NewInv
  <2>3. /\ daemon \in Daemons /\ sock[daemon] \in {"open", "closing"}
        /\ att[daemon].hello > 0 /\ p \in view[daemon]
        /\ \A e \in Daemons : att[e].hello <= att[daemon].hello
    BY Zenon, <2>2 DEF BoundInv
  <2>4. daemon \in ds
    BY Zenon, <1>3, <2>3
  <2>5. daemon' = daemon
    BY Zenon, <1>1, <1>4, <2>3, <2>4
  <2>6. sock'[daemon] \in {"open", "closing"}
    <3>1. daemon \in Sockets
      BY Zenon, <2>3 DEF Sockets
    <3> QED BY Zenon, <1>6, <2>3, <3>1
  <2> QED BY Zenon, <2>3, <2>5, <2>6
<1>12. BoundPhoneIsRouted'
  <2> SUFFICES ASSUME NEW p \in Phones, sock'[p] = "open", att[p].kind # "none"
               PROVE  p \in routes'
    BY Zenon DEF BoundPhoneIsRouted
  <2>1. p \in Sockets /\ sk[p] = "open"
    BY Zenon, <1>6 DEF Sockets
  <2> QED BY Zenon, <1>1, <2>1 DEF Listed
<1>13. KickInv'
  <2> SUFFICES ASSUME meta = "kicked", NEW d \in Daemons, sock'[d] = "open"
               PROVE  d \notin hellos /\ att[d].hello = 0
    BY Zenon DEF KickInv, inflight
  <2>1. d \in Sockets /\ sk[d] = "open"
    BY Zenon, <1>6 DEF Sockets
  <2>2. CASE sock[d] = "open"
    BY Zenon, <2>2 DEF KickInv
  <2>3. CASE sock[d] = "new"
    BY Zenon, <1>2, <2>1, <2>3 DEF NewInv
  <2> QED BY Zenon, <2>1, <2>2, <2>3
<1> QED BY Zenon, <1>7, <1>8, <1>9, <1>10, <1>11, <1>12, <1>13

(* The maps are rebuilt while the socket that went is still listed.        *)
LEMMA SocketGoneKeeps ==
  ASSUME RoomInv, NEW s \in Sockets, SocketGone(s)
  PROVE  RoomInv'
<1> USE DEF RoomInv
<1> DEFINE ds == Registered(sock)
           last == LastOf(ds)
<1>1. /\ att' = [att EXCEPT ![s] = NewAttachment] /\ daemon # s
      /\ routes' = {p \in Phoning : att'[p].kind # "none"}
      /\ daemon' = Chosen(ds)
      /\ sock' = [Closing(ds \ last, sock) EXCEPT ![s] = "gone"]
      /\ bound' = bound \ {s} /\ meta' = meta /\ hellos' = hellos /\ waits' = waits
      /\ view' = [d \in Daemons |-> IF d = daemon THEN view[d] \ {s}
                                    ELSE IF d = s THEN {} ELSE view[d]]
  BY Zenon DEF SocketGone, Chosen, LastOf, Registered, inflight
<1>3. \A d \in Daemons : d \in ds <=> sock[d] \in {"open", "closing"} /\ att[d].hello > 0
  BY Zenon DEF Registered, Listed, isRegisteredDaemon, Sockets
<1>4. /\ Chosen(ds) \in ds \cup {NoDaemon} /\ ds \subseteq Daemons
      /\ \A d \in ds : (\A e \in Daemons : att[e].hello <= att[d].hello) =>
                         d \in last /\ Chosen(ds) = d
  BY Zenon, ChosenIs
<1> HIDE DEF ds, last
<1>5. /\ sock' \in [Sockets -> {"new", "open", "closing", "gone"}]
      /\ \A t \in Sockets :
           /\ sock'[t] = "open" => sock[t] = "open" /\ t # s
           /\ sock'[t] = "new" => sock[t] = "new"
           /\ t # s /\ sock[t] \in {"open", "closing"} => sock'[t] \in {"open", "closing"}
  BY <1>1, ClosingIs DEF RoomTypes
<1>6. /\ att' \in [Sockets -> Attachments] /\ att'[s] = NewAttachment
      /\ \A t \in Sockets : t # s => att'[t] = att[t]
  BY Zenon, <1>1 DEF RoomTypes, NewAttachment, Attachments
<1>7. RoomTypes'
  <2>1. routes' \subseteq Phones /\ view' \in [Daemons -> SUBSET Phones]
    BY Zenon, <1>1 DEF RoomTypes, Phoning
  <2>2. daemon' \in Daemons \cup {NoDaemon}
    BY Zenon, <1>1, <1>4
  <2> QED BY Zenon, <1>1, <1>5, <1>6, <2>1, <2>2 DEF RoomTypes
<1>8. RankInv' /\ CreatedInv'
  <2>1. \A d \in Daemons : att'[d].hello \in {att[d].hello, 0}
    BY <1>6 DEF NewAttachment, Sockets
  <2>2. \A p \in Phones : att'[p].created \in {att[p].created, 0}
    BY <1>6 DEF NewAttachment, Sockets
  <2>3. RankInv'
    BY Zenon, <2>1, RanksKept
  <2>4. CreatedInv'
    BY Zenon, <2>2, CreatedKept
  <2> QED BY Zenon, <2>3, <2>4
<1>9. NewInv'
  <2>1. \A t \in Sockets : sock'[t] = "new" => att'[t] = NewAttachment
    BY Zenon, <1>5, <1>6 DEF NewInv
  <2>2. hellos' \subseteq Sockets /\ bound' \cup waits' \subseteq Sockets
    BY Zenon, <1>7 DEF RoomTypes, Sockets
  <2>3. \A d \in hellos' : sock'[d] # "new"
    BY Zenon, <1>1, <1>5, <2>2 DEF NewInv
  <2>4. \A p \in bound' \cup waits' : sock'[p] # "new"
    BY Zenon, <1>1, <1>5, <2>2 DEF NewInv
  <2> QED BY Zenon, <2>1, <2>3, <2>4 DEF NewInv
<1>10. \A e \in Daemons : att'[e].hello <= att[e].hello
  BY <1>6 DEF RoomTypes, Attachments, NewAttachment, Sockets
<1>11. ServesInv'
  <2>1. ASSUME NEW d \in Daemons, sock'[d] = "open", att'[d].hello > 0
        PROVE  daemon' = d /\ \A e \in Daemons : att'[e].hello <= att'[d].hello
    <3>1. sock[d] = "open" /\ d # s /\ att'[d] = att[d]
      BY Zenon, <1>5, <1>6, <2>1 DEF Sockets
    <3>2. \A e \in Daemons : att[e].hello <= att[d].hello
      BY Zenon, <2>1, <3>1 DEF ServesInv
    <3>3. d \in ds
      BY Zenon, <1>3, <2>1, <3>1
    <3>4. \A e \in Daemons : att[e].hello \in Nat /\ att'[e].hello \in Nat
      BY Zenon, <1>6 DEF RoomTypes, Attachments, Sockets
    <3>5. \A e \in Daemons : att'[e].hello <= att'[d].hello
      BY <1>10, <3>1, <3>2, <3>4
    <3> QED BY Zenon, <1>1, <1>4, <3>2, <3>3, <3>5
  <2>2. ASSUME NEW d \in Daemons, daemon' = d, sock'[d] = "open" PROVE att'[d].hello > 0
    <3>1. d # s /\ att'[d] = att[d]
      BY Zenon, <1>5, <1>6, <2>2 DEF Sockets
    <3> QED BY Zenon, <1>1, <1>3, <1>4, <2>2, <3>1, RoomAssumption
  <2> QED BY Zenon, <2>1, <2>2 DEF ServesInv
<1>12. BoundInv'
  <2> SUFFICES ASSUME NEW p \in bound, p # s, sock'[p] = "open"
               PROVE  /\ daemon' \in Daemons /\ sock'[daemon'] \in {"open", "closing"}
                      /\ att'[daemon'].hello > 0 /\ p \in view'[daemon']
                      /\ \A e \in Daemons : att'[e].hello <= att'[daemon'].hello
    BY Zenon, <1>1 DEF BoundInv
  <2>1. sock[p] = "open"
    BY Zenon, <1>5 DEF RoomTypes, Sockets
  <2>2. /\ daemon \in Daemons /\ sock[daemon] \in {"open", "closing"}
        /\ att[daemon].hello > 0 /\ p \in view[daemon]
        /\ \A e \in Daemons : att[e].hello <= att[daemon].hello
    BY Zenon, <2>1 DEF BoundInv
  <2>3. daemon' = daemon
    BY Zenon, <1>1, <1>3, <1>4, <2>2
  <2>4. sock'[daemon] \in {"open", "closing"} /\ att'[daemon] = att[daemon]
    <3>1. daemon \in Sockets
      BY Zenon, <2>2 DEF Sockets
    <3> QED BY Zenon, <1>1, <1>5, <1>6, <2>2, <3>1
  <2>5. p \in view'[daemon]
    BY Zenon, <1>1, <2>2
  <2>6. \A e \in Daemons : att[e].hello \in Nat /\ att'[e].hello \in Nat
    BY Zenon, <1>6 DEF RoomTypes, Attachments, Sockets
  <2>7. \A e \in Daemons : att'[e].hello <= att'[daemon].hello
    BY <1>10, <2>2, <2>4, <2>6
  <2> QED BY Zenon, <2>2, <2>3, <2>4, <2>5, <2>7
<1>13. BoundPhoneIsRouted'
  <2> SUFFICES ASSUME NEW p \in Phones, sock'[p] = "open", att'[p].kind # "none"
               PROVE  p \in routes'
    BY Zenon DEF BoundPhoneIsRouted
  <2>1. p \in Sockets /\ sock[p] = "open"
    BY Zenon, <1>5 DEF Sockets
  <2> QED BY Zenon, <1>1, <2>1 DEF Listed, Phoning
<1>14. KickInv'
  BY Zenon, <1>1, <1>5, <1>6 DEF KickInv, Sockets
<1> QED BY Zenon, <1>7, <1>8, <1>9, <1>11, <1>12, <1>13, <1>14

(* Where no socket is left open the invariant is about attachments only.   *)
LEMMA NoneOpen ==
  ASSUME RoomTypes', RankInv', CreatedInv', NewInv',
         \A d \in Daemons : sock'[d] = "open" => att'[d].hello = 0 /\ daemon' # d,
         \A p \in Phones : sock'[p] # "open", KickInv'
  PROVE  RoomInv'
<1>1. ServesInv'
  BY DEF ServesInv, RoomTypes, Attachments, Sockets
<1>2. BoundInv'
  BY Zenon DEF BoundInv, RoomTypes
<1>3. BoundPhoneIsRouted'
  BY Zenon DEF BoundPhoneIsRouted
<1> QED BY Zenon, <1>1, <1>2, <1>3 DEF RoomInv

(* The room's own steps.                                                   *)
LEMMA RoomSteps ==
  ASSUME RoomInv, Enroll \/ Kick \/ AbortEnroll \/ Hibernate \/ Evict
  PROVE  RoomInv'
<1> USE DEF RoomInv
<1>1. CASE Enroll
  <2> USE <1>1 DEF Enroll, conns, inflight, told
  <2>1. RoomTypes' /\ RankInv' /\ CreatedInv' /\ NewInv' /\ ServesInv'
    BY Zenon DEF RoomTypes, RankInv, CreatedInv, NewInv, ServesInv
  <2>2. BoundInv' /\ BoundPhoneIsRouted' /\ KickInv'
    BY Zenon DEF BoundInv, BoundPhoneIsRouted, KickInv
  <2> QED BY Zenon, <2>1, <2>2
<1>2. CASE DropAll /\ meta' \in {"none", "kicked"}
  <2>1. /\ sock' \in [Sockets -> {"new", "open", "closing", "gone"}]
        /\ \A s \in Sockets : sock'[s] # "open" /\ (sock'[s] = "new" => sock[s] = "new")
    BY <1>2, ClosingIs DEF DropAll, RoomTypes
  <2>2. /\ routes' \subseteq routes /\ daemon' = NoDaemon
        /\ UNCHANGED <<att, hellos, waits, view, bound>>
    BY Zenon, <1>2 DEF DropAll, inflight, told
  <2>3. RoomTypes'
    BY Zenon, <1>2, <2>1, <2>2 DEF RoomTypes
  <2>4. RankInv' /\ CreatedInv'
    BY Zenon, <2>2 DEF RankInv, CreatedInv
  <2>5. NewInv'
    BY Zenon, <2>1, <2>2 DEF NewInv, RoomTypes, Sockets
  <2>6. KickInv'
    BY Zenon, <2>1 DEF KickInv, Sockets
  <2> QED BY Zenon, <2>1, <2>3, <2>4, <2>5, <2>6, NoneOpen DEF Sockets
<1>3. CASE Hibernate
  BY Zenon, <1>3, RebuildKeeps DEF Hibernate, RoomTypes
<1>4. CASE Evict
  <2> USE <1>4 DEF Evict
  <2>1. RoomTypes'
    BY Zenon DEF RoomTypes, NewAttachment, Attachments
  <2>2. \A s \in Sockets : sock'[s] # "open" /\ att'[s] = NewAttachment
    BY Zenon DEF RoomTypes
  <2>3. NewInv'
    BY Zenon, <2>2 DEF NewInv
  <2>4. \A d \in Daemons : att'[d].hello \in {att[d].hello, 0}
    BY Zenon, <2>2 DEF NewAttachment, Sockets
  <2>5. \A p \in Phones : att'[p].created \in {att[p].created, 0}
    BY Zenon, <2>2 DEF NewAttachment, Sockets
  <2>6. RankInv'
    BY Zenon, <2>4, RanksKept
  <2>7. CreatedInv'
    BY Zenon, <2>5, CreatedKept
  <2>8. KickInv'
    BY Zenon, <2>2 DEF KickInv, Sockets
  <2> QED BY Zenon, <2>1, <2>2, <2>3, <2>6, <2>7, <2>8, NoneOpen DEF Sockets
<1> QED BY Zenon, <1>1, <1>2, <1>3, <1>4 DEF Kick, AbortEnroll

(* A socket connects or is closed by the room.                             *)
LEMMA SocketSteps ==
  ASSUME RoomInv, NEW s \in Sockets, AttachSocket(s) \/ Reject(s)
  PROVE  RoomInv'
<1> USE DEF RoomInv
<1>1. CASE AttachSocket(s)
  <2> DEFINE sk == [sock EXCEPT ![s] = "open"]
  <2>1. /\ sk \in [Sockets -> {"new", "open", "closing", "gone"}]
        /\ \A t \in Sockets : sk[t] = sock[t] \/ (sock[t] = "new" /\ sk[t] = "open")
    BY Zenon, <1>1 DEF AttachSocket, RoomTypes
  <2>2. RebuildMaps(sk, att) /\ UNCHANGED <<att, meta, inflight, told>>
    BY Zenon, <1>1 DEF AttachSocket
  <2> HIDE DEF sk
  <2> QED BY Zenon, <2>1, <2>2, RebuildKeeps
<1>2. CASE Reject(s)
  <2>1. /\ sock' \in [Sockets -> {"new", "open", "closing", "gone"}]
        /\ \A t \in Sockets : sock'[t] = sock[t] \/ (sock[t] = "open" /\ sock'[t] = "closing")
        /\ UNCHANGED <<att, daemon, routes, meta, hellos, waits, view, bound>>
    BY Zenon, <1>2 DEF Reject, Closing, RoomTypes, inflight, told
  <2>2. RoomTypes'
    BY Zenon, <2>1 DEF RoomTypes
  <2>3. Quiet
    BY Zenon, <2>1 DEF Quiet
  <2>4. BoundPhoneIsRouted'
    BY Zenon, <2>1 DEF BoundPhoneIsRouted, Sockets
  <2>5. BoundInv'
    BY Zenon, <2>1, <2>2, <2>3, QuietBound DEF RoomTypes
  <2>6. NewInv' /\ KickInv'
    BY Zenon, <2>1, <2>2, <2>3, QuietRest
  <2>7. CreatedInv'
    BY Zenon, <2>1 DEF CreatedInv
  <2> QED BY Zenon, <2>2, <2>3, <2>4, <2>5, <2>6, <2>7, QuietStep
<1> QED BY Zenon, <1>1, <1>2

(* The daemon's socket closes, says HELLO, and registers.                  *)
LEMMA DaemonSteps ==
  ASSUME RoomInv, NEW d \in Daemons, DaemonGone(d) \/ DaemonHello(d) \/ RegisterDaemon(d)
  PROVE  RoomInv'
<1> d \in Sockets /\ d \notin Phones
  BY Zenon, RoomAssumption DEF Sockets
<1> USE DEF RoomInv
<1>1. CASE DaemonGone(d)
  <2>1. /\ sock' = [Closing(Phones, sock) EXCEPT ![d] = "gone"] /\ daemon = d
        /\ att' = [att EXCEPT ![d] = NewAttachment]
        /\ routes' \subseteq routes /\ daemon' = NoDaemon
        /\ view' = [view EXCEPT ![d] = {}] /\ UNCHANGED <<meta, hellos, waits, bound>>
    BY Zenon, <1>1 DEF DaemonGone, inflight
  <2>2. /\ sock' \in [Sockets -> {"new", "open", "closing", "gone"}]
        /\ \A t \in Sockets : /\ sock'[t] = "open" => sock[t] = "open" /\ t # d /\ t \notin Phones
                              /\ sock'[t] = "new" => sock[t] = "new"
    BY <2>1, ClosingIs DEF RoomTypes
  <2>3. /\ att' \in [Sockets -> Attachments] /\ att'[d] = NewAttachment
        /\ \A t \in Sockets : t # d => att'[t] = att[t]
    BY Zenon, <2>1 DEF RoomTypes, NewAttachment, Attachments
  <2>4. RoomTypes'
    BY Zenon, <2>1, <2>2, <2>3 DEF RoomTypes
  <2>5. \A e \in Daemons : att'[e].hello \in {att[e].hello, 0}
    BY <2>3 DEF NewAttachment, Sockets
  <2>6. \A p \in Phones : att'[p].created \in {att[p].created, 0}
    BY Zenon, <2>3 DEF NewAttachment, Sockets
  <2>7. RankInv'
    BY Zenon, <2>5, RanksKept
  <2>8. CreatedInv'
    BY Zenon, <2>6, CreatedKept
  <2>9. NewInv'
    BY Zenon, <2>1, <2>2, <2>3 DEF NewInv, RoomTypes, Sockets
  <2>10. \A e \in Daemons : sock'[e] = "open" => att'[e].hello = 0 /\ daemon' # e
    <3> SUFFICES ASSUME NEW e \in Daemons, sock'[e] = "open"
                 PROVE  att'[e].hello = 0 /\ daemon' # e
      OBVIOUS
    <3>1. sock[e] = "open" /\ e # d /\ att'[e] = att[e]
      BY <2>2, <2>3 DEF Sockets
    <3>2. ~ (att[e].hello > 0)
      BY Zenon, <2>1, <3>1 DEF ServesInv
    <3>3. att[e].hello \in Nat
      BY Zenon DEF RoomTypes, Attachments, Sockets
    <3> QED BY <2>1, <3>1, <3>2, <3>3, RoomAssumption
  <2>11. KickInv'
    BY Zenon, <2>1, <2>2, <2>3 DEF KickInv, Sockets
  <2> QED BY Zenon, <2>2, <2>4, <2>7, <2>8, <2>9, <2>10, <2>11, NoneOpen DEF Sockets
<1>2. CASE DaemonHello(d)
  <2>1. /\ hellos' = hellos \cup {d} /\ sock[d] = "open" /\ meta = "enrolled"
        /\ UNCHANGED <<sock, att, daemon, routes, meta, waits, view, bound>>
    BY Zenon, <1>2 DEF DaemonHello, conns, told
  <2>2. RoomTypes'
    BY Zenon, <2>1 DEF RoomTypes
  <2>3. NewInv'
    BY Zenon, <2>1 DEF NewInv
  <2>4. RankInv' /\ CreatedInv' /\ ServesInv'
    BY Zenon, <2>1 DEF RankInv, CreatedInv, ServesInv
  <2>5. BoundInv' /\ BoundPhoneIsRouted' /\ KickInv'
    BY Zenon, <2>1 DEF BoundInv, BoundPhoneIsRouted, KickInv
  <2> QED BY Zenon, <2>2, <2>3, <2>4, <2>5
<1>3. CASE RegisterDaemon(d)
  <2>1. /\ d \in hellos /\ hellos' = hellos \ {d} /\ daemon' = d
        /\ att' = [att EXCEPT ![d].hello = 1 + Newest]
        /\ UNCHANGED <<meta, waits, view, bound>>
    BY Zenon, <1>3 DEF RegisterDaemon, told
  <2>2. \/ daemon \in {NoDaemon, d} /\ UNCHANGED <<sock, routes>>
        \/ /\ daemon \notin {NoDaemon, d} /\ routes' \subseteq routes
           /\ sock' = Closing(Phones \cup {daemon}, sock)
    BY Zenon, <1>3 DEF RegisterDaemon
  <2>3. Newest \in Nat /\ \A e \in Daemons : att[e].hello <= Newest
    BY Zenon, NewestBounds
  <2>4. /\ att' \in [Sockets -> Attachments] /\ att'[d].hello = 1 + Newest
        /\ att'[d].kind = att[d].kind
        /\ \A t \in Sockets : t # d => att'[t] = att[t]
    BY <2>1, <2>3 DEF RoomTypes, Attachments
  <2>5. /\ sock' \in [Sockets -> {"new", "open", "closing", "gone"}]
        /\ \A t \in Sockets :
             /\ sock'[t] = "open" => sock[t] = "open"
             /\ sock'[t] = "new" => sock[t] = "new"
             /\ sock'[t] \in {"open", "closing"} <=> sock[t] \in {"open", "closing"}
    BY <2>2, ClosingIs DEF RoomTypes
  <2>6. \A t \in Phones \cup {daemon} : t \in Sockets /\ sock'[t] = "open" => daemon \in {NoDaemon, d}
    BY <2>2, ClosingIs DEF RoomTypes
  <2>7. RoomTypes'
    BY Zenon, <2>1, <2>2, <2>4, <2>5 DEF RoomTypes
  <2>8. /\ \A e \in Daemons : att[e].hello \in Nat /\ att'[e].hello \in Nat
        /\ \A e \in Daemons : att'[e].hello <= att'[d].hello
        /\ \A e \in Daemons \ {d} : att'[e].hello = att[e].hello /\ att[e].hello < att'[d].hello
    BY <2>3, <2>4 DEF RoomTypes, Attachments, Sockets
  <2>9. RankInv'
    <3>1. att'[d].hello \in Nat
      BY Zenon, <2>8
    <3>2. \A e, f \in Daemons : att'[e].hello = att'[f].hello /\ att'[e].hello > 0 => e = f
      BY <2>8 DEF RankInv
    <3> QED BY Zenon, <2>8, <3>1, <3>2 DEF RankInv
  <2>10. CreatedInv'
    <3>1. \A p \in Phones : att'[p].created \in {att[p].created, 0}
      BY Zenon, <2>4, RoomAssumption DEF Sockets
    <3> QED BY Zenon, <3>1, CreatedKept
  <2>11. NewInv'
    <3>1. sock[d] # "new"
      BY Zenon, <2>1 DEF NewInv
    <3>2. \A t \in Sockets : sock'[t] = "new" => att'[t] = NewAttachment
      BY Zenon, <2>4, <2>5, <3>1 DEF NewInv
    <3>3. hellos' \subseteq Sockets /\ bound' \cup waits' \subseteq Sockets
      BY Zenon, <2>7 DEF RoomTypes, Sockets
    <3>4. \A e \in hellos' : sock'[e] # "new"
      BY Zenon, <2>1, <2>5, <3>3 DEF NewInv
    <3>5. \A p \in bound' \cup waits' : sock'[p] # "new"
      BY Zenon, <2>1, <2>5, <3>3 DEF NewInv
    <3> QED BY Zenon, <3>2, <3>4, <3>5 DEF NewInv
  <2>12. ServesInv'
    <3>1. ASSUME NEW e \in Daemons, sock'[e] = "open", att'[e].hello > 0 PROVE e = d
      <4> SUFFICES ASSUME e # d PROVE FALSE
        OBVIOUS
      <4>1. sock[e] = "open" /\ att[e].hello > 0
        BY <2>5, <2>8, <3>1 DEF Sockets
      <4>2. daemon = e
        BY Zenon, <4>1 DEF ServesInv
      <4> QED BY Zenon, <2>6, <3>1, <4>2, RoomAssumption DEF Sockets
    <3> QED BY <2>1, <2>3, <2>4, <2>8, <3>1 DEF ServesInv
  <2>13. BoundInv'
    <3> SUFFICES ASSUME NEW p \in bound, sock'[p] = "open"
                 PROVE  /\ sock'[d] \in {"open", "closing"}
                        /\ att'[d].hello > 0 /\ p \in view[d]
                        /\ \A e \in Daemons : att'[e].hello <= att'[d].hello
      BY Zenon, <2>1 DEF BoundInv
    <3>1. p \in Phones /\ p \in Sockets
      BY Zenon DEF RoomTypes, Sockets
    <3>2. sock[p] = "open"
      BY Zenon, <2>5, <3>1
    <3>3. daemon \in Daemons /\ sock[daemon] \in {"open", "closing"} /\ p \in view[daemon]
      BY Zenon, <3>2 DEF BoundInv
    <3>4. daemon = d
      BY Zenon, <2>6, <3>1, <3>3, RoomAssumption
    <3> QED BY <2>3, <2>4, <2>5, <2>8, <3>3, <3>4
  <2>14. BoundPhoneIsRouted'
    <3> SUFFICES ASSUME NEW p \in Phones, sock'[p] = "open", att'[p].kind # "none"
                 PROVE  p \in routes'
      BY Zenon DEF BoundPhoneIsRouted
    <3>1. p \in Sockets /\ p # d
      BY Zenon DEF Sockets
    <3>2. daemon \in {NoDaemon, d}
      BY Zenon, <2>6, <3>1
    <3>3. sock[p] = "open" /\ att[p].kind # "none" /\ routes' = routes
      BY Zenon, <2>2, <2>4, <2>5, <3>1, <3>2
    <3> QED BY Zenon, <3>3 DEF BoundPhoneIsRouted
  <2>15. KickInv'
    <3> SUFFICES ASSUME meta = "kicked", NEW e \in Daemons, sock'[e] = "open"
                 PROVE  e \notin hellos' /\ att'[e].hello = 0
      BY Zenon, <2>1 DEF KickInv
    <3>1. sock[e] = "open"
      BY Zenon, <2>5 DEF Sockets
    <3>2. e \notin hellos /\ att[e].hello = 0
      BY Zenon, <3>1 DEF KickInv
    <3> QED BY Zenon, <2>1, <2>8, <3>2
  <2> QED BY Zenon, <2>7, <2>9, <2>10, <2>11, <2>12, <2>13, <2>14, <2>15
<1> QED BY Zenon, <1>1, <1>2, <1>3

LEMMA RoomInvariant == RoomSpec => []RoomInv
<1>1. RoomInit => RoomInv
  <2> SUFFICES ASSUME RoomInit PROVE RoomInv
    OBVIOUS
  <2> USE DEF RoomInit
  <2>1. RoomTypes
    BY DEF RoomTypes, NewAttachment, Attachments
  <2>2. \A s \in Sockets : sock[s] = "new" /\ att[s] = NewAttachment /\ att[s].hello = 0
                           /\ att[s].created = 0 /\ att[s].kind = "none"
    BY Zenon DEF NewAttachment
  <2>3. RankInv /\ CreatedInv
    <3>1. 0 \in Nat /\ \A s \in Sockets : att[s].hello <= 0 /\ att[s].created <= 0
      BY <2>2
    <3> QED BY <2>2, <3>1 DEF RankInv, CreatedInv, Sockets
  <2>4. NewInv
    BY Zenon, <2>2 DEF NewInv
  <2>5. ServesInv /\ BoundInv /\ BoundPhoneIsRouted /\ KickInv
    BY Zenon, <2>2 DEF ServesInv, BoundInv, BoundPhoneIsRouted, KickInv, Sockets
  <2> QED BY Zenon, <2>1, <2>3, <2>4, <2>5 DEF RoomInv
<1>2. RoomInv /\ [RoomNext]_roomVars => RoomInv'
  <2> SUFFICES ASSUME RoomInv, [RoomNext]_roomVars PROVE RoomInv'
    OBVIOUS
  <2>1. CASE Enroll \/ Kick \/ AbortEnroll \/ Hibernate \/ Evict
    BY <2>1, RoomSteps
  <2>2. ASSUME NEW s \in Sockets, AttachSocket(s) \/ Reject(s) PROVE RoomInv'
    BY Zenon, <2>2, SocketSteps
  <2>3. ASSUME NEW s \in Sockets, SocketGone(s) PROVE RoomInv'
    BY Zenon, <2>3, SocketGoneKeeps
  <2>4. ASSUME NEW d \in Daemons, DaemonGone(d) \/ DaemonHello(d) \/ RegisterDaemon(d)
        PROVE  RoomInv'
    BY Zenon, <2>4, DaemonSteps
  <2>5. ASSUME NEW p \in Phones,
               \/ ClientHello(p) \/ PairAttach(p) \/ SessionAttach(p) \/ AttachDone(p)
               \/ SessionEstablished(p) \/ DaemonEndsRoute(p) \/ BindTimeout(p)
        PROVE  RoomInv'
    BY Zenon, <2>5, PhoneSteps
  <2>6. CASE UNCHANGED roomVars
    <3> USE <2>6 DEF roomVars, conns, inflight, told, RoomInv
    <3>1. RoomTypes' /\ RankInv' /\ CreatedInv' /\ NewInv' /\ ServesInv'
      BY Zenon DEF RoomTypes, RankInv, CreatedInv, NewInv, ServesInv
    <3>2. BoundInv' /\ BoundPhoneIsRouted' /\ KickInv'
      BY Zenon DEF BoundInv, BoundPhoneIsRouted, KickInv
    <3> QED BY Zenon, <3>1, <3>2
  <2> QED BY Zenon, <2>1, <2>2, <2>3, <2>4, <2>5, <2>6 DEF RoomNext
<1> QED BY <1>1, <1>2, PTL DEF RoomSpec

(* room/core.ts and daemon.ts, for any sockets and limits: the open        *)
(* daemon that registered last serves, each bound phone is routed by the   *)
(* room and known to that daemon, and a kicked room has no open daemon,    *)
(* whatever hellos, attaches, closes, kicks and hibernations come between. *)
THEOREM RoomHoldsAlways == RoomSpec => []RoomHolds
<1>1. RoomInv => RoomHolds
  <2> SUFFICES ASSUME RoomInv PROVE RoomHolds
    OBVIOUS
  <2> USE DEF RoomInv
  <2>1. OpenDaemonServes
    BY DEF OpenDaemonServes, ServesInv
  <2>2. BoundPhoneIsKnown
    BY Zenon, RoomAssumption DEF BoundPhoneIsKnown, BoundInv
  <2>3. KickedRoomIsEmpty
    BY DEF KickedRoomIsEmpty, KickInv
  <2> QED BY Zenon, <2>1, <2>2, <2>3 DEF RoomHolds
<1> QED BY <1>1, RoomInvariant, PTL
-----------------------------------------------------------------------------
(* The timers.                                                             *)
GuestStates ==
  {"new", "silent", "hello", "resumehello", "pairing", "established", "closed"}

AlarmTypes ==
  /\ time \in Nat /\ time >= 1 /\ wake \in Nat /\ until \in Nat /\ before \in Nat
  /\ guest \in [Guests -> [s: GuestStates, t: Nat, f: Nat]]
  /\ \A p \in Guests : guest[p].t <= time

(* The table: ids are a key, and bounded.                                  *)
RowTypes(R) ==
  /\ \A r \in R : r.id \in Nat /\ r.at \in Nat
  /\ \A r, s \in R : r.id = s.id => r = s
  /\ \E n \in Nat : \A r \in R : r.id <= n

(* A harvest that waits began in the past, and is remembered.              *)
HarvestInv ==
  /\ harvest # NoHarvest => waited /\ harvest.at \in Nat /\ harvest.at <= time
  /\ lock = "expire" => waited

WakeInv == harvest = NoHarvest => \A r \in rows : wake <= time \/ wake <= r.at

AlarmInv ==
  /\ AlarmTypes /\ RowTypes(rows) /\ HarvestInv /\ WakeInv /\ TimersAreArmed

(* A part of the table is one.                                             *)
LEMMA PartOfTable ==
  ASSUME NEW R, RowTypes(R), NEW S, S \subseteq R
  PROVE  RowTypes(S)
BY Zenon DEF RowTypes

(* Sync leaves the alarm at or before every row (syncHeapAlarm).           *)
LEMMA SyncIs ==
  ASSUME NEW R, RowTypes(R), Sync(R)
  PROVE  rows' = R /\ wake' \in Nat /\ \A r \in R : wake' <= r.at
<1> DEFINE T == {r.at : r \in R} \cup {NoWake}
<1>1. NoWake \in Nat
  BY AlarmAssumption DEF NoWake
<1>2. T \subseteq Nat /\ T # {}
  BY <1>1 DEF RowTypes
<1>3. rows' = R /\ wake' = Min(T)
  BY Zenon DEF Sync
<1>4. \A r \in R : r.at \in T
  OBVIOUS
<1> HIDE DEF T
<1>5. Min(T) \in T /\ \A y \in T : Min(T) <= y
  BY Zenon, <1>2, MinIs
<1> QED BY Zenon, <1>2, <1>3, <1>4, <1>5

(* Upsert replaces the row of its kind and name, and the table stays one   *)
(* (upsertAlarm).                                                          *)
LEMMA UpsertIs ==
  ASSUME NEW R, RowTypes(R), NEW kind, NEW ref, NEW at \in Nat
  PROVE  /\ RowTypes(Upsert(R, kind, ref, at))
         /\ \E i \in Nat : Upsert(R, kind, ref, at) =
              Without(R, kind, ref) \cup {[id |-> i, at |-> at, kind |-> kind, ref |-> ref]}
<1> DEFINE S == Without(R, kind, ref)
           T == {r.id : r \in S} \cup {0}
           i == 1 + Max(T)
           new == [id |-> i, at |-> at, kind |-> kind, ref |-> ref]
<1>1. S \subseteq R
  BY Zenon DEF Without
<1> HIDE DEF S
<1>2. RowTypes(S)
  BY Zenon, <1>1, PartOfTable
<1>3. PICK n \in Nat : \A r \in S : r.id <= n
  BY Zenon, <1>2 DEF RowTypes
<1>4. T \subseteq Nat /\ T # {} /\ \A x \in T : x <= n
  BY <1>2, <1>3 DEF RowTypes
<1>5. \A r \in S : r.id \in T
  OBVIOUS
<1> HIDE DEF T
<1>6. Max(T) \in Nat /\ \A y \in T : y <= Max(T)
  BY Zenon, <1>4, MaxIs
<1>7. i \in Nat /\ \A r \in S : r.id \in Nat /\ r.id <= i /\ r.id # i
  BY <1>2, <1>5, <1>6 DEF RowTypes
<1> HIDE DEF i
<1>8. new.id = i /\ new.at = at
  BY Zenon
<1> HIDE DEF new
<1>9. RowTypes(S \cup {new})
  <2>1. \A r \in S \cup {new} : r.id \in Nat /\ r.at \in Nat
    BY Zenon, <1>2, <1>7, <1>8 DEF RowTypes
  <2>2. \A r, s \in S \cup {new} : r.id = s.id => r = s
    BY Zenon, <1>2, <1>7, <1>8 DEF RowTypes
  <2>3. \A r \in S \cup {new} : r.id <= i
    BY <1>7, <1>8
  <2> QED BY Zenon, <1>7, <2>1, <2>2, <2>3 DEF RowTypes
<1>10. Upsert(R, kind, ref, at) = S \cup {new}
  BY Zenon DEF Upsert, S, T, i, new
<1> QED BY Zenon, <1>7, <1>9, <1>10 DEF S, new

(* Arming a timer takes no other socket's row away: the row it replaces    *)
(* was of the same kind and name, and is not later than the new one.       *)
LEMMA ArmKeepsWatch ==
  ASSUME AlarmInv, NEW kind, NEW ref, NEW at \in Nat,
         rows' = Upsert(rows, kind, ref, at),
         kind = "hello_5s" => at >= time + HELLO_GRACE_MS,
         NEW q \in Guests, guest'[q] = guest[q], Watched(q)
  PROVE  Watched(q)'
<1>0. RowTypes(rows)
  BY Zenon DEF AlarmInv
<1>1. PICK i \in Nat : Upsert(rows, kind, ref, at) = Without(rows, kind, ref)
                         \cup {[id |-> i, at |-> at, kind |-> kind, ref |-> ref]}
  BY <1>0, UpsertIs
<1> DEFINE new == [id |-> i, at |-> at, kind |-> kind, ref |-> ref]
<1>2. new.at = at /\ new.kind = kind /\ new.ref = ref
  BY Zenon
<1>3. rows' = Without(rows, kind, ref) \cup {new}
  BY Zenon, <1>1
<1> HIDE DEF new
<1>4. \A r \in rows : r \in rows' \/ (r.kind = kind /\ r.ref = ref)
  BY Zenon, <1>3 DEF Without
<1>5. new \in rows'
  BY Zenon, <1>3
<1>6. kind = "hello_5s" => new.at >= guest[q].t + HELLO_GRACE_MS
  BY <1>2, AlarmAssumption DEF AlarmInv, AlarmTypes
<1>7. guest[q].s \in {"silent", "hello"} =>
        \E r \in rows' : r.kind = "hello_5s" /\ r.at >= guest[q].t + HELLO_GRACE_MS
  BY Zenon, <1>2, <1>4, <1>5, <1>6 DEF Watched
<1>8. guest[q].s = "pairing" => \E r \in rows' : r.kind = "pair_timeout" /\ r.ref = q
  BY Zenon, <1>2, <1>4, <1>5 DEF Watched
<1> QED BY Zenon, <1>7, <1>8 DEF Watched

(* A socket that arms its own deadline.                                    *)
LEMMA ArmStep ==
  ASSUME AlarmInv, NEW p \in Guests, NEW kind, NEW ref, NEW at \in Nat,
         NEW g \in [s: GuestStates, t: Nat, f: Nat], g.t <= time,
         guest' = [guest EXCEPT ![p] = g],
         Sync(Upsert(rows, kind, ref, at)),
         UNCHANGED <<time, until, lock, before, harvest, waited>>,
         kind = "hello_5s" => at >= time + HELLO_GRACE_MS,
         g.s \in {"silent", "hello"} => kind = "hello_5s",
         g.s = "pairing" => kind = "pair_timeout" /\ ref = p
  PROVE  AlarmInv'
<1>1. RowTypes(Upsert(rows, kind, ref, at))
  BY Zenon, UpsertIs DEF AlarmInv
<1>2. /\ rows' = Upsert(rows, kind, ref, at) /\ wake' \in Nat
      /\ \A r \in rows' : wake' <= r.at
  BY Zenon, <1>1, SyncIs
<1>3. guest'[p] = g /\ \A q \in Guests : q # p => guest'[q] = guest[q]
  BY Zenon DEF AlarmInv, AlarmTypes
<1>4. AlarmTypes'
  <2>1. guest' \in [Guests -> [s: GuestStates, t: Nat, f: Nat]]
    BY Zenon DEF AlarmInv, AlarmTypes
  <2>2. \A q \in Guests : guest'[q].t <= time
    BY Zenon, <1>3 DEF AlarmInv, AlarmTypes
  <2> QED BY Zenon, <1>2, <2>1, <2>2 DEF AlarmInv, AlarmTypes
<1>5. RowTypes(rows)'
  BY Zenon, <1>1, <1>2 DEF RowTypes
<1>6. HarvestInv' /\ WakeInv'
  BY Zenon, <1>2 DEF AlarmInv, HarvestInv, WakeInv, NoHarvest
<1>7. Watched(p)'
  <2>0. RowTypes(rows)
    BY Zenon DEF AlarmInv
  <2>1. PICK i \in Nat : Upsert(rows, kind, ref, at) = Without(rows, kind, ref)
                           \cup {[id |-> i, at |-> at, kind |-> kind, ref |-> ref]}
    BY <2>0, UpsertIs
  <2> DEFINE new == [id |-> i, at |-> at, kind |-> kind, ref |-> ref]
  <2>2. new.at = at /\ new.kind = kind /\ new.ref = ref /\ new \in rows'
    BY Zenon, <1>2, <2>1
  <2> HIDE DEF new
  <2>3. kind = "hello_5s" => new.at >= g.t + HELLO_GRACE_MS
    BY <2>2, AlarmAssumption DEF AlarmInv, AlarmTypes
  <2> QED BY Zenon, <1>3, <2>2, <2>3 DEF Watched
<1>8. \A q \in Guests : q # p /\ Watched(q) => Watched(q)'
  BY Zenon, <1>2, <1>3, ArmKeepsWatch
<1>9. TimersAreArmed'
  BY Zenon, <1>7, <1>8 DEF AlarmInv, TimersAreArmed
<1> QED BY Zenon, <1>4, <1>5, <1>6, <1>9 DEF AlarmInv

(* The handlers that arm a deadline for the socket they serve.             *)
LEMMA ArmingSteps ==
  ASSUME AlarmInv, NEW p \in Guests,
         Upgrade(p) \/ HelloArms(p) \/ ResumeArms(p) \/ PairArms(p)
  PROVE  AlarmInv'
<1> USE AlarmAssumption
<1>1. /\ time \in Nat /\ time + HELLO_GRACE_MS \in Nat /\ time + RESUME_MS \in Nat
      /\ time + PAIR_FIRST_MS \in Nat /\ time <= time
      /\ time + HELLO_GRACE_MS >= time + HELLO_GRACE_MS
  BY DEF AlarmInv, AlarmTypes
<1> DEFINE g(st) == [s |-> st, t |-> time, f |-> 0]
<1>2. \A st \in GuestStates : /\ g(st) \in [s: GuestStates, t: Nat, f: Nat]
                              /\ g(st).t = time /\ g(st).s = st
  BY <1>1
<1>3. g("silent").s = "silent" /\ g("hello").s = "hello"
      /\ g("resumehello").s = "resumehello" /\ g("pairing").s = "pairing"
  BY Zenon
<1>4. {"silent", "hello", "resumehello", "pairing"} \subseteq GuestStates
  BY Zenon DEF GuestStates
<1>5. CASE Upgrade(p)
  <2>1. guest' = [guest EXCEPT ![p] = g("silent")]
    BY Zenon, <1>5 DEF Upgrade
  <2> HIDE DEF g
  <2> QED BY Zenon, <1>1, <1>2, <1>3, <1>4, <1>5, <2>1, ArmStep DEF Upgrade
<1>6. CASE HelloArms(p)
  <2>1. guest' = [guest EXCEPT ![p] = g("hello")]
    BY Zenon, <1>6 DEF HelloArms
  <2> HIDE DEF g
  <2> QED BY Zenon, <1>1, <1>2, <1>3, <1>4, <1>6, <2>1, ArmStep DEF HelloArms
<1>7. CASE ResumeArms(p)
  <2>1. guest' = [guest EXCEPT ![p] = g("resumehello")]
    BY Zenon, <1>7 DEF ResumeArms
  <2> HIDE DEF g
  <2> QED BY Zenon, <1>1, <1>2, <1>3, <1>4, <1>7, <2>1, ArmStep DEF ResumeArms
<1>8. CASE PairArms(p)
  <2>1. guest' = [guest EXCEPT ![p] = g("pairing")]
    BY Zenon, <1>8 DEF PairArms
  <2> HIDE DEF g
  <2> QED BY Zenon, <1>1, <1>2, <1>3, <1>4, <1>8, <2>1, ArmStep DEF PairArms
<1> QED BY Zenon, <1>5, <1>6, <1>7, <1>8

(* The next frame of a pairing route moves its deadline                    *)
(* (advancePairFrames).                                                    *)
LEMMA PairFrameStep ==
  ASSUME AlarmInv, NEW p \in Guests, PairFrame(p)
  PROVE  AlarmInv'
<1> DEFINE remaining == IF until = 0 THEN DEFAULT_TTL_MS
                        ELSE IF until > time THEN until - time ELSE 1
           next == IF guest[p].f = 0 THEN PAIR_CONFIRM_MS ELSE remaining
           g == [guest[p] EXCEPT !.f = @ + 1]
<1>1. time + next \in Nat
  BY AlarmAssumption DEF AlarmInv, AlarmTypes
<1>2. /\ g \in [s: GuestStates, t: Nat, f: Nat] /\ g.t <= time
      /\ g.s = "pairing"
  BY DEF AlarmInv, AlarmTypes, PairFrame
<1>3. /\ guest' = [guest EXCEPT ![p] = g]
      /\ Sync(Upsert(rows, "pair_timeout", p, time + next))
      /\ UNCHANGED <<time, until, lock, before, harvest, waited>>
  BY Zenon DEF PairFrame
<1> HIDE DEF g, next
<1> QED BY Zenon, <1>1, <1>2, <1>3, ArmStep

(* Sockets that close, and nothing else about sockets.                     *)
Closures(gs) ==
  /\ gs \in [Guests -> [s: GuestStates, t: Nat, f: Nat]]
  /\ \A p \in Guests : gs[p] = guest[p] \/ (gs[p].s = "closed" /\ gs[p].t = guest[p].t)

LEMMA ClosuresAre ==
  ASSUME AlarmTypes
  PROVE  /\ Closures(guest) /\ Closures(ClosePairing(guest))
         /\ \A R, t : Closures(Apply(R, t, guest)) /\ Closures(ClosePairing(Apply(R, t, guest)))
         /\ Closures([p \in Guests |-> IF guest[p].s = "new" THEN guest[p]
                                       ELSE [guest[p] EXCEPT !.s = "closed"]])
<1>1. \A p \in Guests : guest[p] \in [s: GuestStates, t: Nat, f: Nat]
  BY Zenon DEF AlarmTypes
<1> DEFINE shut(p) == [guest[p] EXCEPT !.s = "closed"]
<1>2. "closed" \in GuestStates
  BY Zenon DEF GuestStates
<1>3. \A p \in Guests : /\ shut(p) \in [s: GuestStates, t: Nat, f: Nat]
                        /\ shut(p).s = "closed" /\ shut(p).t = guest[p].t
  BY <1>1, <1>2
<1>4. \A p \in Guests : [shut(p) EXCEPT !.s = "closed"] = shut(p)
  BY <1>1
<1>5. Closures(guest)
  BY Zenon DEF Closures, AlarmTypes
<1>6. Closures(ClosePairing(guest))
  BY <1>1, <1>3 DEF Closures, ClosePairing
<1>7. Closures([p \in Guests |-> IF guest[p].s = "new" THEN guest[p] ELSE shut(p)])
  BY <1>1, <1>3 DEF Closures
<1>8. ASSUME NEW R, NEW t
      PROVE  Closures(Apply(R, t, guest)) /\ Closures(ClosePairing(Apply(R, t, guest)))
  <2> DEFINE gs == Apply(R, t, guest)
  <2>1. \A p \in Guests : gs[p] = guest[p] \/ gs[p] = shut(p)
    BY Zenon DEF Apply
  <2>2. gs = [p \in Guests |-> gs[p]]
    BY Zenon DEF Apply
  <2> HIDE DEF gs
  <2>3. gs \in [Guests -> [s: GuestStates, t: Nat, f: Nat]]
    BY Zenon, <1>1, <1>3, <2>1, <2>2
  <2>4. Closures(gs)
    BY Zenon, <1>3, <2>1, <2>3 DEF Closures
  <2> DEFINE hs == ClosePairing(gs)
  <2>5. \A p \in Guests : hs[p] = gs[p] \/ hs[p] = [gs[p] EXCEPT !.s = "closed"]
    BY Zenon DEF ClosePairing
  <2>6. hs = [p \in Guests |-> hs[p]]
    BY Zenon DEF ClosePairing
  <2> HIDE DEF hs
  <2>7. \A p \in Guests : hs[p] = guest[p] \/ hs[p] = shut(p)
    BY Zenon, <1>4, <2>1, <2>5
  <2>8. hs \in [Guests -> [s: GuestStates, t: Nat, f: Nat]]
    BY Zenon, <1>1, <1>3, <2>6, <2>7
  <2>9. Closures(hs)
    BY Zenon, <1>3, <2>7, <2>8 DEF Closures
  <2> QED BY Zenon, <2>4, <2>9 DEF gs, hs
<1> QED BY Zenon, <1>5, <1>6, <1>7, <1>8

(* Closing sockets keeps the types and leaves no socket unwatched.         *)
LEMMA ClosuresKeep ==
  ASSUME AlarmTypes, Closures(guest'), time' = time
  PROVE  /\ guest' \in [Guests -> [s: GuestStates, t: Nat, f: Nat]]
         /\ \A p \in Guests : guest'[p].t <= time'
         /\ \A p \in Guests : Watched(p) /\ rows \subseteq rows' => Watched(p)'
<1>1. \A p \in Guests : guest'[p].t <= time'
  BY Zenon DEF AlarmTypes, Closures
<1>2. ASSUME NEW p \in Guests, Watched(p), rows \subseteq rows'
      PROVE  Watched(p)'
  <2>1. CASE guest'[p] = guest[p]
    BY Zenon, <1>2, <2>1 DEF Watched
  <2>2. CASE guest'[p].s = "closed"
    BY Zenon, <2>2 DEF Watched
  <2> QED BY Zenon, <2>1, <2>2 DEF Closures
<1> QED BY Zenon, <1>1, <1>2 DEF Closures

(* The steps that leave the table and the harvest alone.                   *)
LEMMA TableStays ==
  ASSUME AlarmInv, Closures(guest'), until' \in Nat, before' \in Nat,
         lock' = "expire" => lock = "expire",
         UNCHANGED <<time, rows, wake, harvest, waited>>
  PROVE  AlarmInv'
<1>1. AlarmTypes'
  BY Zenon, ClosuresKeep DEF AlarmInv, AlarmTypes
<1>2. RowTypes(rows)'
  BY Zenon DEF AlarmInv, RowTypes
<1>3. HarvestInv' /\ WakeInv'
  BY Zenon DEF AlarmInv, HarvestInv, WakeInv, NoHarvest
<1>4. rows \subseteq rows'
  BY Zenon
<1>5. TimersAreArmed'
  BY Zenon, <1>4, ClosuresKeep DEF AlarmInv, TimersAreArmed
<1> QED BY Zenon, <1>1, <1>2, <1>3, <1>5 DEF AlarmInv

(* The steps that write the table and set the alarm again.                 *)
LEMMA SyncStep ==
  ASSUME AlarmInv, NEW S, RowTypes(S), Sync(S), TimersAreArmed',
         guest' \in [Guests -> [s: GuestStates, t: Nat, f: Nat]],
         \A p \in Guests : guest'[p].t <= time,
         until' \in Nat, before' \in Nat, UNCHANGED <<time, waited>>,
         harvest' = harvest \/ harvest' = NoHarvest,
         lock' = "expire" => lock = "expire"
  PROVE  AlarmInv'
<1>1. rows' = S /\ wake' \in Nat /\ \A r \in rows' : wake' <= r.at
  BY Zenon, SyncIs
<1>2. AlarmTypes'
  BY Zenon, <1>1 DEF AlarmInv, AlarmTypes
<1>3. RowTypes(rows)'
  BY Zenon, <1>1 DEF RowTypes
<1>4. HarvestInv' /\ WakeInv'
  BY Zenon, <1>1 DEF AlarmInv, HarvestInv, WakeInv, NoHarvest
<1> QED BY Zenon, <1>2, <1>3, <1>4 DEF AlarmInv

(* Disarming takes only rows of a kind no socket is watched by.            *)
LEMMA DisarmingSteps ==
  ASSUME AlarmInv, (\E p \in Guests : EstablishedDisarms(p)) \/ CloseDisarms
  PROVE  AlarmInv'
<1>1. \A kind, ref : RowTypes(Without(rows, kind, ref))
  <2>1. \A kind, ref : Without(rows, kind, ref) \subseteq rows
    BY Zenon DEF Without
  <2> QED BY Zenon, <2>1, PartOfTable DEF AlarmInv
<1>2. \A kind, ref : kind \notin {"hello_5s", "pair_timeout"} =>
        \A r \in rows : r.kind \in {"hello_5s", "pair_timeout"} => r \in Without(rows, kind, ref)
  BY Zenon DEF Without
<1>3. ASSUME NEW p \in Guests, EstablishedDisarms(p)
      PROVE  AlarmInv'
  <2>1. /\ Sync(Without(rows, "resume_15s", p))
        /\ guest' = [guest EXCEPT ![p].s = "established"]
        /\ UNCHANGED <<time, until, lock, before, harvest, waited>>
    BY Zenon, <1>3 DEF EstablishedDisarms
  <2>2. rows' = Without(rows, "resume_15s", p)
    BY Zenon, <2>1 DEF Sync
  <2>3. \A r \in rows : r.kind \in {"hello_5s", "pair_timeout"} => r \in rows'
    BY Zenon, <1>2, <2>2
  <2>4. /\ guest' \in [Guests -> [s: GuestStates, t: Nat, f: Nat]]
        /\ \A q \in Guests : guest'[q].t <= time
        /\ guest'[p].s = "established" /\ \A q \in Guests : q # p => guest'[q] = guest[q]
    <3>1. guest \in [Guests -> [s: GuestStates, t: Nat, f: Nat]]
          /\ \A q \in Guests : guest[q].t <= time
      BY Zenon DEF AlarmInv, AlarmTypes
    <3> QED BY <2>1, <3>1 DEF GuestStates
  <2>5. Watched(p)'
    BY Zenon, <2>4 DEF Watched
  <2>6. \A q \in Guests : q # p /\ Watched(q) => Watched(q)'
    BY Zenon, <2>3, <2>4 DEF Watched
  <2>7. TimersAreArmed'
    BY Zenon, <2>1, <2>5, <2>6 DEF AlarmInv, TimersAreArmed
  <2>8. until \in Nat /\ before \in Nat
    BY Zenon DEF AlarmInv, AlarmTypes
  <2> QED BY Zenon, <1>1, <2>1, <2>4, <2>7, <2>8, SyncStep
<1>4. ASSUME CloseDisarms
      PROVE  AlarmInv'
  <2>1. /\ Sync(Without(rows, "pair_ttl", TtlRef)) /\ until' = 0
        /\ lock' = "free" /\ UNCHANGED <<time, guest, before, harvest, waited>>
    BY Zenon, <1>4 DEF CloseDisarms
  <2>2. rows' = Without(rows, "pair_ttl", TtlRef)
    BY Zenon, <2>1 DEF Sync
  <2>3. \A r \in rows : r.kind \in {"hello_5s", "pair_timeout"} => r \in rows'
    BY Zenon, <1>2, <2>2
  <2>4. \A q \in Guests : Watched(q) => Watched(q)'
    BY Zenon, <2>1, <2>3 DEF Watched
  <2>5. TimersAreArmed'
    BY Zenon, <2>1, <2>4 DEF AlarmInv, TimersAreArmed
  <2>6. /\ guest' \in [Guests -> [s: GuestStates, t: Nat, f: Nat]]
        /\ \A q \in Guests : guest'[q].t <= time
    BY Zenon, <2>1 DEF AlarmInv, AlarmTypes
  <2>7. until' \in Nat /\ before' \in Nat
    BY <2>1 DEF AlarmInv, AlarmTypes
  <2> QED BY Zenon, <1>1, <2>1, <2>5, <2>6, <2>7, SyncStep
<1> QED BY Zenon, <1>3, <1>4

(* A PAIR_OPEN arms pair_ttl.                                              *)
LEMMA OpenArmsStep ==
  ASSUME AlarmInv, OpenArms
  PROVE  AlarmInv'
<1>1. time + DEFAULT_TTL_MS \in Nat /\ until \in Nat
  BY AlarmAssumption DEF AlarmInv, AlarmTypes
<1> DEFINE S == Upsert(rows, "pair_ttl", TtlRef, time + DEFAULT_TTL_MS)
<1>2. /\ Sync(S) /\ until' = time + DEFAULT_TTL_MS /\ before' = until
      /\ lock' = "open" /\ UNCHANGED <<time, guest, harvest, waited>>
  BY Zenon DEF OpenArms
<1>3. RowTypes(S) /\ rows' = S
  BY Zenon, <1>1, <1>2, UpsertIs DEF AlarmInv, Sync
<1> HIDE DEF S
<1>4. \A q \in Guests : guest'[q] = guest[q]
  BY Zenon, <1>2
<1>5. \A q \in Guests : Watched(q) => Watched(q)'
  BY Zenon, <1>1, <1>3, <1>4, ArmKeepsWatch DEF S
<1>6. TimersAreArmed'
  BY Zenon, <1>2, <1>5 DEF AlarmInv, TimersAreArmed
<1>7. /\ guest' \in [Guests -> [s: GuestStates, t: Nat, f: Nat]]
      /\ \A q \in Guests : guest'[q].t <= time
  BY Zenon, <1>2 DEF AlarmInv, AlarmTypes
<1> QED BY Zenon, <1>1, <1>2, <1>3, <1>6, <1>7, SyncStep

(* A harvest that runs in one go: a socket whose row it deletes is closed  *)
(* by that row, and the other rows stay (harvestDue).                      *)
LEMMA StrikeWatches ==
  ASSUME AlarmInv, AlarmStrikes, NEW p \in Guests, Watched(p)
  PROVE  Watched(p)'
<1> DEFINE due == Due(time)
<1>1. /\ guest' = Apply(due, time, guest)
      /\ rows' = {r \in rows : r.id \notin {d.id : d \in due}}
  BY Zenon DEF AlarmStrikes, Finish, Sync
<1>2. due \subseteq rows /\ \A r \in rows : r \in due <=> r.at <= time
  BY Zenon DEF Due
<1> HIDE DEF due
<1>3. \A r \in rows : r \notin due => r \in rows'
  BY Zenon, <1>1, <1>2 DEF AlarmInv, RowTypes
<1>4. guest'[p] = guest[p] \/ guest'[p].s = "closed"
  <2>1. Closures(guest')
    BY Zenon, <1>1, ClosuresAre DEF AlarmInv
  <2> QED BY Zenon, <2>1 DEF Closures
<1>5. ASSUME guest'[p].s # "closed", NEW r \in due
      PROVE  /\ guest[p].s \in {"silent", "hello"} /\ r.kind = "hello_5s" =>
                  ~ (time >= guest[p].t + HELLO_GRACE_MS)
             /\ ~ (guest[p].s = "pairing" /\ r.kind = "pair_timeout" /\ r.ref = p)
  <2>1. guest'[p] # [guest[p] EXCEPT !.s = "closed"]
    <3>1. [guest[p] EXCEPT !.s = "closed"].s = "closed"
      BY DEF AlarmInv, AlarmTypes
    <3> QED BY Zenon, <1>5, <3>1
  <2> QED BY Zenon, <1>1, <1>5, <2>1 DEF Apply
<1>6. CASE guest'[p].s = "closed"
  BY Zenon, <1>6 DEF Watched
<1>7. CASE guest'[p].s # "closed" /\ guest'[p] = guest[p]
  <2>1. ASSUME guest[p].s \in {"silent", "hello"}
        PROVE  \E r \in rows' : r.kind = "hello_5s" /\ r.at >= guest[p].t + HELLO_GRACE_MS
    <3>1. PICK r \in rows : r.kind = "hello_5s" /\ r.at >= guest[p].t + HELLO_GRACE_MS
      BY Zenon, <2>1 DEF Watched
    <3>2. r.at \in Nat /\ time \in Nat /\ guest[p].t + HELLO_GRACE_MS \in Nat
      BY AlarmAssumption DEF AlarmInv, AlarmTypes, RowTypes
    <3>3. r \in due => time >= guest[p].t + HELLO_GRACE_MS
      BY <1>2, <3>1, <3>2
    <3> QED BY Zenon, <1>3, <1>5, <1>7, <2>1, <3>1, <3>3
  <2>2. ASSUME guest[p].s = "pairing"
        PROVE  \E r \in rows' : r.kind = "pair_timeout" /\ r.ref = p
    BY Zenon, <1>3, <1>5, <1>7, <2>2 DEF Watched
  <2> QED BY Zenon, <1>7, <2>1, <2>2 DEF Watched
<1> QED BY Zenon, <1>4, <1>6, <1>7

(* The end of a harvest.                                                   *)
LEMMA FinishKeeps ==
  ASSUME AlarmInv, NEW due, NEW left, NEW t, Finish(due, left, t, guest),
         TimersAreArmed', until' \in Nat, before' \in Nat, UNCHANGED <<time, waited>>,
         lock' = "expire" => lock = "expire"
  PROVE  AlarmInv'
<1> DEFINE S == {r \in rows : r.id \notin {d.id : d \in due}}
<1>1. Sync(S) /\ guest' = Apply(left, t, guest) /\ harvest' = NoHarvest
  BY Zenon DEF Finish
<1>2. S \subseteq rows
  BY Zenon
<1> HIDE DEF S
<1>3. RowTypes(S)
  BY Zenon, <1>2, PartOfTable DEF AlarmInv
<1>4. Closures(guest')
  BY Zenon, <1>1, ClosuresAre DEF AlarmInv
<1>5. /\ guest' \in [Guests -> [s: GuestStates, t: Nat, f: Nat]]
      /\ \A q \in Guests : guest'[q].t <= time
  BY Zenon, <1>4, ClosuresKeep DEF AlarmInv
<1> QED BY Zenon, <1>1, <1>3, <1>5, SyncStep

LEMMA HarvestSteps ==
  ASSUME AlarmInv, AlarmStrikes \/ AlarmWaits \/ AlarmResumes \/ ExpireAnswered
  PROVE  AlarmInv'
<1>1. until \in Nat /\ before \in Nat /\ time \in Nat /\ time >= 1
  BY Zenon DEF AlarmInv, AlarmTypes
<1>2. ASSUME AlarmStrikes
      PROVE  AlarmInv'
  <2>1. \A p \in Guests : Watched(p) => Watched(p)'
    BY Zenon, <1>2, StrikeWatches
  <2>2. UNCHANGED <<time, until, lock, before, waited>>
        /\ Finish(Due(time), Due(time), time, guest)
    BY Zenon, <1>2 DEF AlarmStrikes
  <2>3. TimersAreArmed'
    BY Zenon, <2>1, <2>2 DEF AlarmInv, TimersAreArmed
  <2> QED BY Zenon, <1>1, <2>2, <2>3, FinishKeeps
<1>3. ASSUME AlarmWaits
      PROVE  AlarmInv'
  <2>1. /\ wake' = NoWake /\ harvest' = [due |-> Due(time), at |-> time]
        /\ waited' = TRUE /\ UNCHANGED <<time, rows, before>>
        /\ until' = 0 \/ until' = until
        /\ lock' = "expire" \/ lock' = lock
    BY Zenon, <1>3 DEF AlarmWaits
  <2>2. Closures(guest')
    BY Zenon, <1>3, ClosuresAre DEF AlarmWaits, AlarmInv
  <2>3. wake' \in Nat /\ until' \in Nat
    BY <1>1, <2>1, AlarmAssumption DEF NoWake
  <2>4. AlarmTypes'
    BY Zenon, <2>1, <2>2, <2>3, ClosuresKeep DEF AlarmInv, AlarmTypes
  <2>5. RowTypes(rows)' /\ TimersAreArmed'
    BY Zenon, <2>1 DEF AlarmInv, RowTypes, TimersAreArmed
  <2>6. harvest'.at = time /\ time # 0 /\ NoHarvest.at = 0 /\ time <= time
    BY <1>1, <2>1 DEF NoHarvest
  <2>7. HarvestInv' /\ WakeInv'
    BY Zenon, <1>1, <2>1, <2>6 DEF HarvestInv, WakeInv, NoHarvest
  <2> QED BY Zenon, <2>4, <2>5, <2>7 DEF AlarmInv
<1>4. ASSUME ExpireAnswered
      PROVE  AlarmInv'
  <2>1. /\ UNCHANGED <<time, until, before, waited>> /\ lock' = "free" /\ lock = "expire"
        /\ \E left : Finish(harvest.due, left, harvest.at, guest)
    BY Zenon, <1>4 DEF ExpireAnswered
  <2>2. TimersAreArmed'
    BY Zenon, <2>1 DEF AlarmInv, HarvestInv, TimersAreArmed
  <2> QED BY Zenon, <1>1, <2>1, <2>2, FinishKeeps
<1>5. ASSUME AlarmResumes
      PROVE  AlarmInv'
  <2>1. harvest # NoHarvest /\ waited /\ UNCHANGED <<time, before, waited>>
    BY Zenon, <1>5 DEF AlarmResumes, AlarmInv, HarvestInv
  <2>2. TimersAreArmed'
    BY Zenon, <2>1 DEF TimersAreArmed
  <2>3. CASE until > 0 /\ until <= time
    <3>1. /\ lock' = "expire" /\ until' = 0 /\ guest' = ClosePairing(guest)
          /\ UNCHANGED <<rows, wake, harvest>>
      BY Zenon, <1>5, <2>3 DEF AlarmResumes
    <3>2. Closures(guest') /\ until' \in Nat
      BY Zenon, <1>1, <3>1, ClosuresAre DEF AlarmInv
    <3>3. AlarmTypes'
      BY Zenon, <2>1, <3>1, <3>2, ClosuresKeep DEF AlarmInv, AlarmTypes
    <3>4. RowTypes(rows)' /\ HarvestInv' /\ WakeInv'
      BY Zenon, <2>1, <3>1 DEF AlarmInv, RowTypes, HarvestInv, WakeInv, NoHarvest
    <3> QED BY Zenon, <2>2, <3>3, <3>4 DEF AlarmInv
  <2>4. CASE ~ (until > 0 /\ until <= time)
    <3>1. /\ UNCHANGED <<lock, until>>
          /\ \E left : Finish(harvest.due, left, harvest.at, guest)
      BY Zenon, <1>5, <2>4 DEF AlarmResumes
    <3> QED BY Zenon, <1>1, <2>1, <2>2, <3>1, FinishKeeps
  <2> QED BY Zenon, <2>3, <2>4
<1> QED BY Zenon, <1>2, <1>3, <1>4, <1>5

(* The rest: the clock, sockets and slots that go, and an eviction that    *)
(* cuts a harvest off, whose alarm the platform strikes again.             *)
LEMMA OtherSteps ==
  ASSUME AlarmInv,
         \/ Tick \/ AlarmsEvict \/ OpenAnswered \/ CloseAsksIndex \/ DaemonDrops
         \/ \E p \in Guests : GuestLeaves(p)
  PROVE  AlarmInv'
<1>1. until \in Nat /\ before \in Nat /\ time \in Nat /\ wake \in Nat /\ 0 \in Nat
  BY Zenon DEF AlarmInv, AlarmTypes
<1>2. CASE Tick
  <2>1. time' = time + 1
        /\ UNCHANGED <<rows, wake, guest, until, lock, before, harvest, waited>>
    BY Zenon, <1>2 DEF Tick
  <2>2. time' \in Nat /\ time' >= 1 /\ \A x \in Nat : x <= time => x <= time'
    BY <1>1, <2>1
  <2>3. AlarmTypes'
    <3>1. \A p \in Guests : guest[p].t \in Nat
      BY DEF AlarmInv, AlarmTypes
    <3> QED BY Zenon, <2>1, <2>2, <3>1 DEF AlarmInv, AlarmTypes
  <2>4. RowTypes(rows)' /\ HarvestInv' /\ WakeInv' /\ TimersAreArmed'
    BY Zenon, <1>1, <2>1, <2>2
       DEF AlarmInv, RowTypes, HarvestInv, WakeInv, NoHarvest, TimersAreArmed, Watched
  <2> QED BY Zenon, <2>3, <2>4 DEF AlarmInv
<1>3. CASE AlarmsEvict
  <2>1. /\ Closures(guest')
        /\ wake' = IF harvest = NoHarvest THEN wake ELSE harvest.at
        /\ harvest' = NoHarvest /\ lock' = "free" /\ before' = 0
        /\ UNCHANGED <<time, rows, until, waited>>
    BY Zenon, <1>3, ClosuresAre DEF AlarmsEvict, AlarmInv
  <2>2. wake' \in Nat /\ (harvest # NoHarvest => wake' <= time)
    BY Zenon, <1>1, <2>1 DEF AlarmInv, HarvestInv
  <2>3. AlarmTypes'
    BY Zenon, <1>1, <2>1, <2>2, ClosuresKeep DEF AlarmInv, AlarmTypes
  <2>4. RowTypes(rows)' /\ HarvestInv'
    BY Zenon, <2>1 DEF AlarmInv, RowTypes, HarvestInv, NoHarvest
  <2>5. WakeInv'
    BY Zenon, <2>1, <2>2 DEF AlarmInv, WakeInv, NoHarvest
  <2>6. rows \subseteq rows'
    BY Zenon, <2>1
  <2>7. TimersAreArmed'
    BY Zenon, <2>1, <2>6, ClosuresKeep DEF AlarmInv, TimersAreArmed
  <2> QED BY Zenon, <2>3, <2>4, <2>5, <2>7 DEF AlarmInv
<1>4. CASE OpenAnswered
  <2>1. Closures(guest') /\ until' \in Nat /\ before' \in Nat
    BY Zenon, <1>1, <1>4, ClosuresAre DEF OpenAnswered, AlarmInv
  <2> QED BY Zenon, <1>4, <2>1, TableStays DEF OpenAnswered
<1>5. CASE CloseAsksIndex
  <2>1. Closures(guest')
    BY Zenon, <1>5, ClosuresAre DEF CloseAsksIndex, AlarmInv
  <2> QED BY Zenon, <1>1, <1>5, <2>1, TableStays DEF CloseAsksIndex
<1>6. CASE DaemonDrops
  <2>1. Closures(guest')
    BY Zenon, <1>6, ClosuresAre DEF DaemonDrops, AlarmInv
  <2> QED BY Zenon, <1>1, <1>6, <2>1, TableStays DEF DaemonDrops
<1>7. ASSUME NEW p \in Guests, GuestLeaves(p)
      PROVE  AlarmInv'
  <2>1. guest' = [guest EXCEPT ![p].s = "closed"]
        /\ UNCHANGED <<time, rows, wake, until, lock, before, harvest, waited>>
    BY Zenon, <1>7 DEF GuestLeaves
  <2>2. Closures(guest')
    BY <2>1 DEF AlarmInv, AlarmTypes, Closures, GuestStates
  <2> QED BY Zenon, <1>1, <2>1, <2>2, TableStays
<1> QED BY Zenon, <1>2, <1>3, <1>4, <1>5, <1>6, <1>7

LEMMA AlarmInvariant == AlarmsSpec => []AlarmInv
<1>1. AlarmsInit => AlarmInv
  <2> SUFFICES ASSUME AlarmsInit PROVE AlarmInv
    OBVIOUS
  <2>1. AlarmTypes
    BY AlarmAssumption DEF AlarmsInit, AlarmTypes, GuestStates, NoWake
  <2>2. RowTypes(rows) /\ WakeInv
    BY Zenon DEF AlarmsInit, RowTypes, WakeInv
  <2>3. HarvestInv
    BY Zenon DEF AlarmsInit, HarvestInv
  <2>4. \A p \in Guests : guest[p].s = "new"
    BY Zenon DEF AlarmsInit
  <2>5. TimersAreArmed
    BY Zenon, <2>4 DEF TimersAreArmed, Watched
  <2> QED BY Zenon, <2>1, <2>2, <2>3, <2>5 DEF AlarmInv
<1>2. AlarmInv /\ [AlarmsNext]_alarmVars => AlarmInv'
  <2>1. ASSUME AlarmInv, AlarmsNext
        PROVE  AlarmInv'
    BY Zenon, <2>1, ArmingSteps, PairFrameStep, DisarmingSteps, OpenArmsStep,
       HarvestSteps, OtherSteps DEF AlarmsNext, Event
  <2>2. ASSUME AlarmInv, UNCHANGED alarmVars
        PROVE  AlarmInv'
    <3>1. Closures(guest') /\ UNCHANGED <<time, rows, wake, harvest, waited, lock, until, before>>
      BY Zenon, <2>2, ClosuresAre DEF alarmVars, AlarmInv
    <3>2. until' \in Nat /\ before' \in Nat
      BY Zenon, <2>2, <3>1 DEF AlarmInv, AlarmTypes
    <3> QED BY Zenon, <2>2, <3>1, <3>2, TableStays
  <2> QED BY Zenon, <2>1, <2>2
<1> QED BY <1>1, <1>2, PTL DEF AlarmsSpec

(* For any sockets, grace periods and any number of timers, the platform's *)
(* one alarm covers every row of the table, and as long as no harvest has  *)
(* let other events in, every waiting socket has its row (upsertAlarm,     *)
(* harvestDue, syncHeapAlarm).                                             *)
THEOREM AlarmsHoldAlways == AlarmsSpec => []AlarmsHold
<1>1. AlarmInv => AlarmsHold
  <2> SUFFICES ASSUME AlarmInv PROVE AlarmsHold
    OBVIOUS
  <2>1. WakeIsSet
    <3> SUFFICES ASSUME harvest = NoHarvest, rows # {}
                 PROVE  wake <= time \/ wake <= Min({r.at : r \in rows})
      BY Zenon DEF WakeIsSet
    <3> DEFINE T == {r.at : r \in rows}
    <3>1. T \subseteq Nat /\ T # {}
      BY DEF AlarmInv, RowTypes
    <3>2. \A x \in T : wake <= time \/ wake <= x
      BY Zenon DEF AlarmInv, WakeInv
    <3> HIDE DEF T
    <3>3. Min(T) \in T
      BY Zenon, <3>1, MinIs
    <3> QED BY Zenon, <3>2, <3>3 DEF T
  <2> QED BY Zenon, <2>1 DEF AlarmInv, AlarmsHold
<1> QED BY <1>1, AlarmInvariant, PTL

-----------------------------------------------------------------------------
(* The passphrase gate.  The failures since s up to and including r.       *)
UpTo(s, r) == {q \in Failures(history, s) : q.nr <= r.nr}

GateTypes ==
  /\ clock \in Nat /\ IsFiniteSet(history) /\ attempts \subseteq history
  /\ \A r \in history :
       /\ r \in [nr: Nat, at: Nat, ok: BOOLEAN]
       /\ r.nr < Cardinality(history) /\ r.at <= clock

(* A sweep has only dropped what no decision looks at any more.            *)
RetainInv == \A r \in history : r.at >= clock - GATE_WINDOW_MS => r \in attempts

(* Looking back from any failure over no more than a window: the cooldowns *)
(* of the failures past the first that is not free fit in between.         *)
PacedInv ==
  \A r \in history, s \in Int :
    ~ r.ok /\ s <= r.at /\ r.at - GATE_WINDOW_MS <= s =>
      LET paced == Cardinality(UpTo(s, r)) - GATE_FREE_ATTEMPTS - 1 IN
      paced > 0 => CooldownSum(paced) <= r.at - s

GateInv == GateTypes /\ RetainInv /\ PacedInv

(* The gate's cooldown grows with the failures.                            *)
LEMMA CooldownGrows ==
  /\ \A n \in Int : gateCooldownMs(n) \in Nat
  /\ \A m, n \in Int : m <= n => gateCooldownMs(m) <= gateCooldownMs(n)
<1> DEFINE e(n) == IF n - GATE_FREE_ATTEMPTS - 1 < 30 THEN n - GATE_FREE_ATTEMPTS - 1 ELSE 30
           w(n) == GATE_COOLDOWN_BASE_MS * 2^e(n)
<1>1. /\ GATE_FREE_ATTEMPTS \in Nat /\ GATE_COOLDOWN_BASE_MS \in Nat
      /\ GATE_COOLDOWN_MAX_MS \in Nat
  BY GateAssumption
<1>2. \A n \in Int : n - GATE_FREE_ATTEMPTS > 0 => e(n) \in 0..30
  BY <1>1
<1>3. \A m, n \in Int : m <= n => e(m) <= e(n)
  BY <1>1
<1>4. \A n \in Int : gateCooldownMs(n) =
        IF n - GATE_FREE_ATTEMPTS <= 0 THEN 0
        ELSE IF w(n) < GATE_COOLDOWN_MAX_MS THEN w(n) ELSE GATE_COOLDOWN_MAX_MS
  BY DEF gateCooldownMs
<1> HIDE DEF e
<1>5. \A n \in Int : n - GATE_FREE_ATTEMPTS > 0 => 2^e(n) \in Nat
  BY <1>2, DoublingGrows
<1>6. ASSUME NEW m \in Int, NEW n \in Int, m - GATE_FREE_ATTEMPTS > 0, m <= n
      PROVE  2^e(m) <= 2^e(n)
  <2>1. n - GATE_FREE_ATTEMPTS > 0
    BY <1>1, <1>6
  <2> QED BY Zenon, <1>2, <1>3, <1>6, <2>1, DoublingGrows
<1>7. \A a, b, c \in Nat : c * a \in Nat /\ (a <= b => c * a <= c * b)
  BY SMT
<1>8. \A n \in Int : n - GATE_FREE_ATTEMPTS > 0 => w(n) \in Nat
  BY Zenon, <1>1, <1>5, <1>7
<1>9. ASSUME NEW m \in Int, NEW n \in Int, m - GATE_FREE_ATTEMPTS > 0, m <= n
      PROVE  w(m) <= w(n)
  <2>1. n - GATE_FREE_ATTEMPTS > 0
    BY <1>1, <1>9
  <2> QED BY Zenon, <1>1, <1>5, <1>6, <1>7, <1>9, <2>1
<1> HIDE DEF w
<1>10. \A n \in Int : gateCooldownMs(n) \in Nat
  BY <1>1, <1>4, <1>8
<1>11. ASSUME NEW m \in Int, NEW n \in Int, m <= n
       PROVE  gateCooldownMs(m) <= gateCooldownMs(n)
  <2>1. CASE m - GATE_FREE_ATTEMPTS <= 0
    BY <1>4, <1>10, <2>1
  <2>2. CASE m - GATE_FREE_ATTEMPTS > 0
    BY <1>1, <1>4, <1>8, <1>9, <1>11, <2>2
  <2> QED BY <1>1, <2>1, <2>2
<1> QED BY Zenon, <1>10, <1>11

(* The sum of the cooldowns, unfolded.                                     *)
SumTo(n, g) ==
  g = [k \in 0..n |-> IF k = 0 THEN 0 ELSE g[k - 1] + gateCooldownMs(GATE_FREE_ATTEMPTS + k)]

LEMMA SumToIs ==
  ASSUME NEW n \in Nat, NEW g, SumTo(n, g)
  PROVE  /\ g[0] = 0
         /\ \A k \in 0..n : k # 0 => g[k] = g[k - 1] + gateCooldownMs(GATE_FREE_ATTEMPTS + k)
<1>1. \A k \in 0..n : g[k] = IF k = 0 THEN 0 ELSE g[k - 1] + gateCooldownMs(GATE_FREE_ATTEMPTS + k)
  BY Zenon DEF SumTo
<1>2. 0 \in 0..n
  OBVIOUS
<1> QED BY Zenon, <1>1, <1>2

LEMMA SumExists == \A n \in Nat : \E g : SumTo(n, g)
<1> DEFINE T == {n \in Nat : ~ \E g : SumTo(n, g)}
           c(k) == gateCooldownMs(GATE_FREE_ATTEMPTS + k)
<1>1. SUFFICES ASSUME T # {} PROVE FALSE
  BY Zenon
<1>2. PICK n \in T : \A m \in T : n <= m
  <2>1. T \subseteq Nat
    BY Zenon
  <2> HIDE DEF T
  <2> QED BY Zenon, <1>1, <2>1, LeastExists
<1>3. CASE n = 0
  <2> DEFINE g == [k \in 0..0 |-> 0]
  <2>1. g = [k \in 0..0 |-> IF k = 0 THEN 0 ELSE g[k - 1] + c(k)]
    OBVIOUS
  <2>2. SumTo(0, g)
    BY Zenon, <2>1 DEF SumTo
  <2> QED BY Zenon, <1>2, <1>3, <2>2
<1>4. CASE n # 0
  <2>1. n \in Nat /\ n - 1 \in Nat /\ ~ (n <= n - 1)
    BY <1>2, <1>4
  <2>2. n - 1 \notin T
    BY Zenon, <1>2, <2>1
  <2>3. PICK h : SumTo(n - 1, h)
    BY Zenon, <2>1, <2>2
  <2> DEFINE g == [k \in 0..n |-> IF k = n THEN h[n - 1] + c(n) ELSE h[k]]
  <2>4. /\ h[0] = 0
        /\ \A k \in 0..(n - 1) : k # 0 => h[k] = h[k - 1] + c(k)
    BY Zenon, <2>1, <2>3, SumToIs
  <2>5. g = [k \in 0..n |-> IF k = 0 THEN 0 ELSE g[k - 1] + c(k)]
    <3>1. ASSUME NEW k \in 0..n
          PROVE  g[k] = IF k = 0 THEN 0 ELSE g[k - 1] + c(k)
      <4> HIDE DEF c
      <4>1. CASE k = 0
        BY <1>4, <2>1, <2>4, <4>1
      <4>2. CASE k # 0
        <5>1. k - 1 \in 0..n /\ k - 1 # n /\ g[k - 1] = h[k - 1]
          BY <2>1, <4>2
        <5>2. CASE k = n
          BY <5>1, <5>2
        <5>3. CASE k # n
          <6>1. k \in 0..(n - 1)
            BY <2>1, <5>3
          <6> QED BY <2>4, <4>2, <5>1, <5>3, <6>1
        <5> QED BY <5>2, <5>3
      <4> QED BY <4>1, <4>2
    <3> QED BY Zenon, <3>1
  <2>6. SumTo(n, g)
    BY Zenon, <2>5 DEF SumTo
  <2> QED BY Zenon, <1>2, <2>6
<1> QED BY <1>3, <1>4

(* Two sums agree where both are defined.                                  *)
LEMMA SumsAgree ==
  ASSUME NEW m \in Nat, NEW n \in Nat, NEW g, NEW h, SumTo(m, g), SumTo(n, h)
  PROVE  \A k \in Nat : k <= m /\ k <= n => g[k] = h[k]
<1> DEFINE T == {k \in Nat : k <= m /\ k <= n /\ g[k] # h[k]}
<1>1. SUFFICES ASSUME T # {} PROVE FALSE
  BY Zenon
<1>2. PICK k \in T : \A j \in T : k <= j
  <2>1. T \subseteq Nat
    BY Zenon
  <2> HIDE DEF T
  <2> QED BY Zenon, <1>1, <2>1, LeastExists
<1>3. /\ g[0] = 0 /\ h[0] = 0
      /\ \A j \in 0..m : j # 0 => g[j] = g[j - 1] + gateCooldownMs(GATE_FREE_ATTEMPTS + j)
      /\ \A j \in 0..n : j # 0 => h[j] = h[j - 1] + gateCooldownMs(GATE_FREE_ATTEMPTS + j)
  BY Zenon, SumToIs
<1>4. k # 0
  BY Zenon, <1>2, <1>3
<1>5. k \in 0..m /\ k \in 0..n /\ k - 1 \in Nat /\ k - 1 <= m /\ k - 1 <= n /\ ~ (k <= k - 1)
  BY <1>2, <1>4
<1>6. g[k - 1] = h[k - 1]
  BY Zenon, <1>2, <1>5
<1> QED BY Zenon, <1>2, <1>3, <1>4, <1>5, <1>6

LEMMA CooldownSumIs ==
  /\ CooldownSum(0) = 0
  /\ \A n \in Nat : /\ CooldownSum(n) \in Nat
                    /\ CooldownSum(n + 1) =
                         CooldownSum(n) + gateCooldownMs(GATE_FREE_ATTEMPTS + (n + 1))
<1> DEFINE G(n) == CHOOSE g : SumTo(n, g)
<1>1. \A n \in Nat : SumTo(n, G(n))
  BY Zenon, SumExists
<1>2. \A n \in Nat : CooldownSum(n) = G(n)[n]
  BY Zenon DEF CooldownSum, SumTo
<1> HIDE DEF G
<1>3. CooldownSum(0) = 0
  BY <1>1, <1>2, SumToIs
<1>4. ASSUME NEW n \in Nat
      PROVE  CooldownSum(n + 1) = CooldownSum(n) + gateCooldownMs(GATE_FREE_ATTEMPTS + (n + 1))
  <2>1. n + 1 \in Nat /\ n + 1 \in 0..(n + 1) /\ n + 1 # 0 /\ n <= n + 1 /\ n <= n
        /\ (n + 1) - 1 = n
    OBVIOUS
  <2>2. SumTo(n, G(n)) /\ SumTo(n + 1, G(n + 1))
    BY Zenon, <1>1, <2>1
  <2>3. G(n + 1)[n + 1] = G(n + 1)[(n + 1) - 1] + gateCooldownMs(GATE_FREE_ATTEMPTS + (n + 1))
    BY Zenon, <2>1, <2>2, SumToIs
  <2>4. G(n + 1)[n] = G(n)[n]
    <3>1. PICK m : m = n + 1
      BY Zenon
    <3>2. PICK g, h : g = G(m) /\ h = G(n)
      BY Zenon
    <3>3. m \in Nat /\ SumTo(m, g) /\ SumTo(n, h)
      BY Zenon, <2>1, <2>2, <3>1, <3>2
    <3>4. \A k \in Nat : k <= m /\ k <= n => g[k] = h[k]
      BY <3>3, SumsAgree
    <3> QED BY Zenon, <2>1, <3>1, <3>2, <3>4
  <2> QED BY Zenon, <1>2, <2>1, <2>3, <2>4
<1> DEFINE T == {n \in Nat : CooldownSum(n) \notin Nat}
<1>5. ASSUME T # {} PROVE FALSE
  <2>1. PICK n \in T : \A m \in T : n <= m
    <3>1. T \subseteq Nat
      BY Zenon
    <3> HIDE DEF T
    <3> QED BY Zenon, <1>5, <3>1, LeastExists
  <2>2. n # 0
    BY <1>3, <2>1
  <2>3. n - 1 \in Nat /\ (n - 1) + 1 = n /\ ~ (n <= n - 1)
    BY <2>1, <2>2
  <2>4. CooldownSum(n - 1) \in Nat
    BY Zenon, <2>1, <2>3
  <2>5. CooldownSum(n) = CooldownSum(n - 1) + gateCooldownMs(GATE_FREE_ATTEMPTS + n)
    BY Zenon, <1>4, <2>3
  <2>6. gateCooldownMs(GATE_FREE_ATTEMPTS + n) \in Nat
    BY <2>1, CooldownGrows, GateAssumption
  <2> QED BY <2>1, <2>4, <2>5, <2>6
<1> QED BY Zenon, <1>3, <1>4, <1>5

(* What a sweep leaves decides every later attempt like what was written.  *)
LEMMA SameFailures ==
  ASSUME GateTypes, RetainInv, NEW later \in Int, clock <= later
  PROVE  Failures(attempts, later - GATE_WINDOW_MS) = Failures(history, later - GATE_WINDOW_MS)
<1>1. ASSUME NEW r \in history, r.at >= later - GATE_WINDOW_MS
      PROVE  r \in attempts
  <2>1. r.at >= clock - GATE_WINDOW_MS
    BY <1>1, GateAssumption DEF GateTypes
  <2> QED BY Zenon, <1>1, <2>1 DEF RetainInv
<1> QED BY Zenon, <1>1 DEF Failures, GateTypes

LEMMA FailuresAre ==
  ASSUME GateTypes, NEW s
  PROVE  /\ IsFiniteSet(Failures(history, s)) /\ Cardinality(Failures(history, s)) \in Nat
         /\ \A r \in Failures(history, s) :
              r \in history /\ ~ r.ok /\ r.nr \in Nat /\ r.at \in Nat /\ r.at <= clock /\ r.at >= s
<1>1. Failures(history, s) \in SUBSET history
  BY Zenon DEF Failures
<1>2. IsFiniteSet(Failures(history, s)) /\ Cardinality(Failures(history, s)) \in Nat
  BY Zenon, <1>1, FS_Subset, FS_CardinalityType DEF GateTypes
<1>3. \A r \in history : r.nr \in Nat /\ r.at \in Nat
  BY DEF GateTypes
<1> QED BY Zenon, <1>2, <1>3 DEF Failures, GateTypes

(* An attempt the gate lets through came a cooldown after every failure.   *)
LEMMA AllowedIsLate ==
  ASSUME GateTypes, RetainInv, gateAllowed,
         NEW q \in Failures(history, clock - GATE_WINDOW_MS)
  PROVE  gateCooldownMs(Cardinality(Failures(history, clock - GATE_WINDOW_MS))) <= clock - q.at
<1> DEFINE F == Failures(history, clock - GATE_WINDOW_MS)
           cooldown == gateCooldownMs(Cardinality(F))
           T == {r.at : r \in F}
<1>1. clock \in Int /\ clock \in Nat /\ clock <= clock
  BY DEF GateTypes
<1>2. Failures(attempts, clock - GATE_WINDOW_MS) = F
  BY Zenon, <1>1, SameFailures
<1>3. /\ \A r \in F : r.at \in Nat /\ r.at <= clock
      /\ Cardinality(F) \in Nat
  BY Zenon, FailuresAre
<1>4. cooldown \in Nat
  BY <1>3, CooldownGrows
<1>5. RetryAfter(attempts, clock) =
        IF cooldown = 0 THEN 0
        ELSE IF clock - Max(T) >= cooldown THEN 0 ELSE cooldown - (clock - Max(T))
  BY Zenon, <1>2 DEF RetryAfter
<1>6. RetryAfter(attempts, clock) = 0
  BY Zenon DEF gateAllowed
<1>7. q \in F /\ q.at \in T /\ T # {}
  BY Zenon
<1>8. T \subseteq Nat /\ \A x \in T : x <= clock
  BY Zenon, <1>3
<1> HIDE DEF T, F
<1>9. Max(T) \in Nat /\ \A y \in T : y <= Max(T)
  BY Zenon, <1>1, <1>7, <1>8, MaxIs
<1>10. q.at <= Max(T) /\ q.at \in Nat /\ q.at <= clock
  BY Zenon, <1>3, <1>7, <1>9
<1> HIDE DEF cooldown
<1>11. cooldown <= clock - q.at
  BY <1>1, <1>4, <1>5, <1>6, <1>9, <1>10
<1> QED BY Zenon, <1>11 DEF cooldown, F

(* A non-empty set of failures has a last one.                             *)
LEMMA LastFailure ==
  ASSUME GateTypes, NEW s, Failures(history, s) # {}
  PROVE  \E r \in Failures(history, s) : UpTo(s, r) = Failures(history, s)
<1> DEFINE F == Failures(history, s)
           T == {r.nr : r \in F}
<1>1. Cardinality(history) \in Nat
  BY Zenon, FS_CardinalityType DEF GateTypes
<1>2. \A r \in F : r.nr \in Nat /\ r.nr <= Cardinality(history)
  <2>1. \A r \in F : r.nr \in Nat /\ r.nr < Cardinality(history)
    BY Zenon, FailuresAre DEF GateTypes
  <2> QED BY <1>1, <2>1
<1>3. T \subseteq Nat /\ T # {} /\ \A x \in T : x <= Cardinality(history)
  BY Zenon, <1>2
<1>4. PICK x \in T : \A y \in T : y <= x
  <2> HIDE DEF T
  <2> QED BY Zenon, <1>1, <1>3, GreatestExists
<1>5. PICK r \in F : \A q \in F : q.nr <= r.nr
  BY Zenon, <1>4
<1> QED BY Zenon, <1>5 DEF UpTo

(* A new failure, a cooldown after the ones before it.                     *)
LEMMA NewFailure ==
  ASSUME GateInv, gateAllowed, NEW row, row.nr = Cardinality(history), row.at = clock,
         ~ row.ok, history' = history \cup {row}, NEW s \in Int,
         s <= clock, clock - GATE_WINDOW_MS <= s,
         Cardinality(UpTo(s, row)') - GATE_FREE_ATTEMPTS - 1 > 0
  PROVE  CooldownSum(Cardinality(UpTo(s, row)') - GATE_FREE_ATTEMPTS - 1) <= clock - s
<1> DEFINE F == Failures(history, s)
           W == Failures(history, clock - GATE_WINDOW_MS)
<1>1. GateTypes /\ RetainInv /\ PacedInv
  BY Zenon DEF GateInv
<1>2. clock \in Nat /\ Cardinality(history) \in Nat /\ GATE_FREE_ATTEMPTS \in Nat
      /\ GATE_WINDOW_MS \in Nat
  BY Zenon, <1>1, FS_CardinalityType, GateAssumption DEF GateTypes
<1>3. /\ IsFiniteSet(F) /\ Cardinality(F) \in Nat
      /\ \A r \in F : r \in history /\ ~ r.ok /\ r.nr \in Nat /\ r.at \in Nat
                      /\ r.at <= clock /\ r.at >= s
  BY Zenon, <1>1, FailuresAre
<1>4. row \notin F
  <2>1. \A r \in history : r.nr < Cardinality(history) /\ r.nr \in Nat
    BY <1>1 DEF GateTypes
  <2>2. row \notin history
    BY <1>2, <2>1
  <2> QED BY Zenon, <1>3, <2>2
<1>5. UpTo(s, row)' = F \cup {row}
  <2>1. \A q \in F : q.nr <= row.nr
    <3>1. \A r \in history : r.nr <= Cardinality(history)
      BY <1>1, <1>2 DEF GateTypes
    <3> QED BY Zenon, <1>3, <3>1
  <2>2. row.nr <= row.nr /\ row.at >= s
    BY <1>2
  <2>3. UpTo(s, row)' = {q \in history' : q.at >= s /\ ~ q.ok /\ q.nr <= row.nr}
    BY Zenon DEF UpTo, Failures
  <2> QED BY Zenon, <2>1, <2>2, <2>3 DEF Failures
<1>6. Cardinality(UpTo(s, row)') = Cardinality(F) + 1
  BY Zenon, <1>3, <1>4, <1>5, FS_AddElement
<1> DEFINE prior == Cardinality(F) - GATE_FREE_ATTEMPTS - 1
<1>7. /\ prior \in Nat /\ Cardinality(UpTo(s, row)') - GATE_FREE_ATTEMPTS - 1 = prior + 1
      /\ GATE_FREE_ATTEMPTS + (prior + 1) = Cardinality(F) /\ Cardinality(F) # 0
  <2> HIDE DEF F
  <2> QED BY <1>2, <1>3, <1>6
<1>8. F # {}
  BY Zenon, <1>7, FS_EmptySet
<1>9. PICK r \in F : UpTo(s, r) = F
  BY Zenon, <1>1, <1>8, LastFailure
<1>10. /\ r \in history /\ ~ r.ok /\ r.at \in Nat /\ s <= r.at /\ r.at <= clock
       /\ r.at - GATE_WINDOW_MS <= s
  <2>1. r \in history /\ ~ r.ok /\ r.at \in Nat /\ r.at >= s /\ r.at <= clock
    BY Zenon, <1>3, <1>9
  <2> QED BY <1>2, <2>1
<1>11. CooldownSum(prior) <= r.at - s
  <2>1. CASE prior = 0
    BY <1>2, <1>10, <2>1, CooldownSumIs
  <2>2. CASE prior > 0
    <3>1. prior > 0 => CooldownSum(prior) <= r.at - s
      BY Zenon, <1>1, <1>9, <1>10 DEF PacedInv
    <3> QED BY Zenon, <2>2, <3>1
  <2> HIDE DEF prior
  <2> QED BY <1>7, <2>1, <2>2
<1>12. F \in SUBSET W /\ r \in W
  <2>1. \A q \in F : q.at >= clock - GATE_WINDOW_MS
    BY <1>2, <1>3
  <2>2. F \in SUBSET W
    BY Zenon, <2>1 DEF Failures
  <2> QED BY Zenon, <1>9, <2>2
<1>13. Cardinality(F) <= Cardinality(W) /\ Cardinality(W) \in Nat
  BY Zenon, <1>1, <1>12, FailuresAre, FS_Subset
<1>14. gateCooldownMs(Cardinality(W)) <= clock - r.at
  BY Zenon, <1>1, <1>12, AllowedIsLate
<1>15. /\ gateCooldownMs(Cardinality(F)) <= gateCooldownMs(Cardinality(W))
       /\ gateCooldownMs(Cardinality(F)) \in Nat /\ gateCooldownMs(Cardinality(W)) \in Nat
  BY <1>3, <1>13, CooldownGrows
<1>16. CooldownSum(prior + 1) = CooldownSum(prior) + gateCooldownMs(Cardinality(F))
       /\ CooldownSum(prior) \in Nat
  BY Zenon, <1>7, CooldownSumIs
<1> HIDE DEF prior, F, W
<1>17. CooldownSum(prior + 1) <= clock - s
  BY <1>2, <1>10, <1>11, <1>14, <1>15, <1>16
<1> QED BY Zenon, <1>7, <1>17

(* record writes one row after a gate that let the attempt through.        *)
LEMMA RecordStep ==
  ASSUME GateInv, gateAllowed, NEW ok \in BOOLEAN, record(ok), clock' = clock
  PROVE  GateInv'
<1>1. GateTypes /\ RetainInv /\ PacedInv
  BY Zenon DEF GateInv
<1>2. PICK row : row = [nr |-> Cardinality(history), at |-> clock, ok |-> ok]
  BY Zenon
<1>3. /\ history' = history \cup {row}
      /\ \/ attempts' = attempts \cup {row}
         \/ attempts' = {r \in attempts \cup {row} : r.at >= clock - GATE_WINDOW_MS}
  BY Zenon, <1>2 DEF record, Swept, GATE_RETAIN_MS
<1>4. /\ IsFiniteSet(history) /\ Cardinality(history) \in Nat /\ clock \in Nat
      /\ GATE_WINDOW_MS \in Nat /\ GATE_FREE_ATTEMPTS \in Nat
  BY Zenon, <1>1, FS_CardinalityType, GateAssumption DEF GateTypes
<1>5. /\ row.nr = Cardinality(history) /\ row.at = clock /\ row.ok = ok
      /\ row \in [nr: Nat, at: Nat, ok: BOOLEAN]
  BY <1>2, <1>4
<1>6. \A r \in history : /\ r \in [nr: Nat, at: Nat, ok: BOOLEAN] /\ r.nr \in Nat /\ r.at \in Nat
                         /\ r.nr < Cardinality(history) /\ r.at <= clock
  BY <1>1 DEF GateTypes
<1>7. row \notin history
  BY <1>4, <1>5, <1>6
<1>8. Cardinality(history') = Cardinality(history) + 1 /\ IsFiniteSet(history')
  BY Zenon, <1>3, <1>4, <1>7, FS_AddElement
<1>9. GateTypes'
  <2>1. attempts' \subseteq history'
    BY Zenon, <1>1, <1>3 DEF GateTypes
  <2>2. ASSUME NEW r \in history'
        PROVE  /\ r \in [nr: Nat, at: Nat, ok: BOOLEAN]
               /\ r.nr < Cardinality(history') /\ r.at <= clock'
    <3>1. CASE r = row
      BY <1>4, <1>5, <1>8, <3>1
    <3>2. CASE r \in history
      BY <1>4, <1>6, <1>8, <3>2
    <3> QED BY Zenon, <1>3, <2>2, <3>1, <3>2
  <2> QED BY Zenon, <1>4, <1>8, <2>1, <2>2 DEF GateTypes
<1>10. RetainInv'
  <2>1. ASSUME NEW r \in history', r.at >= clock - GATE_WINDOW_MS
        PROVE  r \in attempts'
    BY Zenon, <1>1, <1>3, <2>1 DEF RetainInv
  <2> QED BY Zenon, <2>1 DEF RetainInv
<1>11. PacedInv'
  <2>1. SUFFICES ASSUME NEW r \in history', NEW s \in Int,
                        ~ r.ok, s <= r.at, r.at - GATE_WINDOW_MS <= s,
                        Cardinality(UpTo(s, r)') - GATE_FREE_ATTEMPTS - 1 > 0
                 PROVE  CooldownSum(Cardinality(UpTo(s, r)') - GATE_FREE_ATTEMPTS - 1) <= r.at - s
    BY Zenon DEF PacedInv, UpTo, Failures
  <2>2. CASE r = row
    BY Zenon, <1>3, <1>5, <2>1, <2>2, NewFailure
  <2>3. CASE r \in history
    <3>1. ~ (row.nr <= r.nr)
      BY <1>4, <1>5, <1>6, <2>3
    <3>2. UpTo(s, r)' = UpTo(s, r)
      BY Zenon, <1>3, <3>1 DEF UpTo, Failures
    <3>3. Cardinality(UpTo(s, r)) - GATE_FREE_ATTEMPTS - 1 > 0
      BY Zenon, <2>1, <3>2
    <3>4. CooldownSum(Cardinality(UpTo(s, r)) - GATE_FREE_ATTEMPTS - 1) <= r.at - s
      BY Zenon, <1>1, <2>1, <2>3, <3>3 DEF PacedInv
    <3> QED BY Zenon, <3>2, <3>4
  <2> QED BY Zenon, <1>3, <2>1, <2>2, <2>3
<1> QED BY Zenon, <1>9, <1>10, <1>11 DEF GateInv

LEMMA GateStep == GateInv /\ [GateNext]_gateVars => GateInv'
<1> SUFFICES ASSUME GateInv, [GateNext]_gateVars PROVE GateInv'
  BY Zenon
<1>1. CASE UNCHANGED <<attempts, history>> /\ (clock' = clock \/ clock' = clock + 1)
  <2>1. GateTypes /\ RetainInv /\ PacedInv
    BY Zenon DEF GateInv
  <2>2. attempts' = attempts /\ history' = history
    BY Zenon, <1>1
  <2>3. clock \in Nat /\ clock' \in Nat /\ clock <= clock' /\ GATE_WINDOW_MS \in Nat
    BY <1>1, <2>1, GateAssumption DEF GateTypes
  <2>4. \A r \in history : r.at \in Nat /\ r.at <= clock
    BY <2>1 DEF GateTypes
  <2>5. \A r \in history : /\ r.at <= clock'
                           /\ r.at >= clock' - GATE_WINDOW_MS => r.at >= clock - GATE_WINDOW_MS
    BY <2>3, <2>4
  <2>6. GateTypes' /\ RetainInv'
    BY Zenon, <2>1, <2>2, <2>3, <2>5 DEF GateTypes, RetainInv
  <2>7. PacedInv'
    BY Zenon, <2>1, <2>2 DEF PacedInv, UpTo, Failures
  <2> QED BY Zenon, <2>6, <2>7 DEF GateInv
<1>2. CASE gateAllowed /\ (record(TRUE) \/ record(FALSE)) /\ clock' = clock
  BY Zenon, <1>2, RecordStep
<1>3. CASE UNCHANGED gateVars
  BY Zenon, <1>1, <1>3 DEF gateVars
<1>4. CASE GateTick
  BY Zenon, <1>1, <1>4 DEF GateTick
<1>5. CASE GateHibernate
  BY Zenon, <1>1, <1>5 DEF GateHibernate
<1>6. CASE SlotChanges
  BY Zenon, <1>1, <1>6 DEF SlotChanges
<1>7. CASE TicketAlarm
  BY Zenon, <1>1, <1>7 DEF TicketAlarm
<1>8. CASE IssueMiss
  BY Zenon, <1>2, <1>8 DEF IssueMiss
<1>9. CASE ChargedAttach
  BY Zenon, <1>2, <1>9 DEF ChargedAttach
<1>10. ASSUME NEW t \in Tickets, IssueTicket(t) PROVE GateInv'
  BY Zenon, <1>2, <1>10 DEF IssueTicket
<1>11. ASSUME NEW t \in Tickets, ConsumeTicket(t) PROVE GateInv'
  BY Zenon, <1>2, <1>11 DEF ConsumeTicket
<1> QED BY Zenon, <1>3, <1>4, <1>5, <1>6, <1>7, <1>8, <1>9, <1>10, <1>11 DEF GateNext

LEMMA GateInvariant == GateSpec => []GateInv
<1>1. GateInit => GateInv
  <2> SUFFICES ASSUME GateInit PROVE GateInv
    BY Zenon
  <2>1. clock \in Nat /\ history = {} /\ attempts = {}
    BY GateAssumption DEF GateInit
  <2> QED BY Zenon, <2>1, FS_EmptySet DEF GateInv, GateTypes, RetainInv, PacedInv
<1> QED BY <1>1, GateStep, PTL DEF GateSpec

(* GateThrottle: for every setting of the window, the free allowance and   *)
(* the cooldowns, and any number of attempts, sweeps and hibernations, the *)
(* swept ledger decides like the full one and a window holds no more       *)
(* failures than the cooldowns leave room for.                             *)
THEOREM GateHoldsAlways == GateSpec => []GateHolds
<1>1. GateInv => SweepingIsInvisible
  <2> SUFFICES ASSUME GateInv, NEW later \in clock..MaxClock
               PROVE  RetryAfter(attempts, later) = RetryAfter(history, later)
    BY Zenon DEF SweepingIsInvisible
  <2>1. later \in Int /\ clock <= later
    BY GateAssumption DEF GateInv, GateTypes
  <2>2. Failures(attempts, later - GATE_WINDOW_MS) = Failures(history, later - GATE_WINDOW_MS)
    BY Zenon, <2>1, SameFailures DEF GateInv
  <2> QED BY Zenon, <2>2 DEF RetryAfter
<1>2. GateInv => GuessesPerWindow
  <2> DEFINE s == clock - GATE_WINDOW_MS
             F == Failures(history, s)
             paced == Cardinality(F) - GATE_FREE_ATTEMPTS - 1
  <2> SUFFICES ASSUME GateInv, paced > 0
               PROVE  CooldownSum(paced) <= GATE_WINDOW_MS
    BY Zenon DEF GuessesPerWindow
  <2>1. GateTypes /\ PacedInv
    BY Zenon DEF GateInv
  <2>2. clock \in Nat /\ GATE_WINDOW_MS \in Nat /\ GATE_FREE_ATTEMPTS \in Nat /\ s \in Int
    BY <2>1, GateAssumption DEF GateTypes
  <2>3. /\ Cardinality(F) \in Nat
        /\ \A r \in F : r \in history /\ ~ r.ok /\ r.at \in Nat /\ r.at <= clock /\ r.at >= s
    BY Zenon, <2>1, FailuresAre
  <2>4. Cardinality(F) # 0 /\ paced \in Nat
    <3> HIDE DEF F
    <3> QED BY <2>2, <2>3
  <2>5. F # {}
    BY Zenon, <2>4, FS_EmptySet
  <2>6. PICK r \in F : UpTo(s, r) = F
    BY Zenon, <2>1, <2>5, LastFailure
  <2>7. r \in history /\ ~ r.ok /\ r.at \in Nat /\ r.at <= clock /\ r.at >= s
    BY Zenon, <2>3, <2>6
  <2>8. s <= r.at /\ r.at - GATE_WINDOW_MS <= s /\ r.at - s <= GATE_WINDOW_MS
    BY <2>2, <2>7
  <2>9. CooldownSum(paced) <= r.at - s
    BY Zenon, <2>1, <2>2, <2>6, <2>7, <2>8 DEF PacedInv
  <2>10. CooldownSum(paced) \in Nat
    BY Zenon, <2>4, CooldownSumIs
  <2> HIDE DEF paced
  <2> QED BY <2>2, <2>7, <2>8, <2>9, <2>10
<1> QED BY <1>1, <1>2, GateInvariant, PTL DEF GateHolds
=============================================================================
