---------------------------- MODULE SessionProofs ---------------------------
(***************************************************************************)
(* Proofs about Session, for any set of devices and routes and any cap.    *)
(*                                                                         *)
(* The inductive invariant adds to the properties what the code relies on  *)
(* between two holds of the lock: an established session is a relay        *)
(* session or one that a commit moved to the route of a candidate that is  *)
(* closed since; the route of a pending offer is unused; and the two ends  *)
(* of a pending commit are what its validation found, or closed.           *)
(***************************************************************************)
EXTENDS Session, TLAPS

Active == {"resumehello", "hello2", "upgrade_ready", "established"}

Authenticated == {"hello2", "upgrade_ready", "established"}

RelayObjects ==
  \A s \in RelayRoutes :
    /\ sess[s].upgradeFrom = None
    /\ sess[s].state # "upgrade_ready"
    /\ sess[s].state = "unborn" => sess[s].transport = "relay"
    /\ sess[s].state \in Authenticated => sess[s].dev \in Devices
    /\ sess[s].transport = "relay" => sess[s].route = s /\ sess[s].link = None
    /\ sess[s].transport = "p2p" =>
         /\ sess[s].state \in {"established", "closed"}
         /\ sess[s].route \in DirectRoutes /\ sess[s].link = sess[s].route
         /\ sess[sess[s].route].state = "closed"
    /\ sess[s].state = "established" =>
         sess[s].keys = IF sess[s].transport = "relay" THEN s ELSE sess[s].link

DirectObjects ==
  \A c \in DirectRoutes :
    /\ sess[c].route = c
    /\ sess[c].state # "established"
    /\ sess[c].state \in Active =>
         /\ sess[c].transport = "p2p" /\ sess[c].link = c
         /\ sess[c].upgradeFrom \in RelayRoutes
         /\ sess[c].dev \in Devices
    /\ sess[c].state = "upgrade_ready" => sess[c].keys = c

TableInv ==
  \A r \in Routes : sessions[r] # None =>
    sess[sessions[r]].route = r /\ sess[sessions[r]].state \in Active

IndexInv ==
  \A d \in Devices : byDevice[d] # None =>
    /\ sessions[byDevice[d]] # None
    /\ sess[sessions[byDevice[d]]].dev = d
    /\ sess[sessions[byDevice[d]]].state = "established"

OfferInv ==
  \A s \in Routes : offer[s] # NoOffer =>
    /\ s \in RelayRoutes
    /\ offer[s].op = "accepting" => sess[offer[s].to].state = "unborn"
    /\ \A p \in Routes : offer[p].to = offer[s].to => p = s

CommitInv ==
  \A s \in Routes : commit[s] # None =>
    /\ s \in RelayRoutes
    /\ sess[s].state \in {"established", "closed"} /\ sess[s].transport = "relay"
    /\ sess[commit[s]].state \in {"upgrade_ready", "closed"}
    /\ sess[commit[s]].upgradeFrom = s
    /\ sess[commit[s]].dev = sess[s].dev

LinkInv ==
  \A c \in links : sessions[c] # None /\ sess[sessions[c]].link = c

ThreadInv ==
  \A t \in Threads : thread[t].op # "idle" =>
    /\ thread[t].s \in Routes /\ sess[thread[t].s].state # "unborn"
    /\ thread[t].op = "kick" => thread[t].old \in Routes

EpochInv == \A s \in Routes : sess[s].epochFailed => sess[s].state # "unborn"

IInv ==
  /\ TypeOK /\ ThreadInv /\ EpochInv
  /\ RelayObjects /\ DirectObjects /\ TableInv /\ IndexInv
  /\ OfferInv /\ CommitInv /\ LinkInv

(* A step that leaves the objects, the tables and the threads alone keeps  *)
(* what IInv says of them.                                                 *)
LEMMA Untouched ==
  ASSUME IInv, UNCHANGED <<sess, sessions, byDevice, thread>>
  PROVE  /\ ThreadInv' /\ EpochInv' /\ RelayObjects' /\ DirectObjects'
         /\ TableInv' /\ IndexInv'
<1>1. ThreadInv'
  BY Zenon DEF IInv, ThreadInv
<1>2. EpochInv'
  BY Zenon DEF IInv, EpochInv
<1>3. RelayObjects'
  BY Zenon DEF IInv, RelayObjects
<1>4. DirectObjects'
  BY Zenon DEF IInv, DirectObjects
<1>5. TableInv'
  BY Zenon DEF IInv, TableInv
<1>6. IndexInv'
  BY Zenon DEF IInv, IndexInv
<1> QED BY Zenon, <1>1, <1>2, <1>3, <1>4, <1>5, <1>6

(* Every session object, route and device starts out unused.               *)
LEMMA InitIInv == Init => IInv
<1> SUFFICES ASSUME Init PROVE IInv
  OBVIOUS
<1> USE SessionAssumption
<1>1. TypeOK
  BY DEF Init, TypeOK, Session, States, Unborn, Routes, Threads, Work, Idle, NoOffer
<1>2. RelayObjects /\ DirectObjects
  BY Zenon DEF Init, RelayObjects, DirectObjects, Unborn, Routes, Active, Authenticated
<1>3. TableInv /\ IndexInv /\ LinkInv /\ OfferInv /\ CommitInv
  BY Zenon DEF Init, TableInv, IndexInv, LinkInv, OfferInv, CommitInv
<1>4. ThreadInv /\ EpochInv
  BY Zenon DEF Init, ThreadInv, EpochInv, Idle, Unborn
<1> QED BY Zenon, <1>1, <1>2, <1>3, <1>4 DEF IInv

(* Wiping a session record sets its state and keys and no other field.     *)
LEMMA WipeFields ==
  ASSUME NEW r \in Session
  PROVE  /\ Wiped(r) \in Session /\ Wiped(r).state = "closed" /\ Wiped(r).keys = None
         /\ Wiped(r).dev = r.dev /\ Wiped(r).route = r.route
         /\ Wiped(r).transport = r.transport /\ Wiped(r).upgradeFrom = r.upgradeFrom
         /\ Wiped(r).link = r.link /\ Wiped(r).epochFailed = r.epochFailed
<1> DEFINE v == [r EXCEPT !.state = "closed"]
           w == [r EXCEPT !.state = "closed", !.keys = None]
<1>1. /\ v \in Session /\ v.state = "closed" /\ v.dev = r.dev /\ v.route = r.route
      /\ v.transport = r.transport /\ v.upgradeFrom = r.upgradeFrom /\ v.link = r.link
      /\ v.epochFailed = r.epochFailed
  BY Zenon DEF Session, States
<1>2. w = [v EXCEPT !.keys = None]
  OBVIOUS
<1> HIDE DEF v, w
<1>3. /\ w \in Session /\ w.state = v.state /\ w.keys = None
      /\ w.dev = v.dev /\ w.route = v.route /\ w.transport = v.transport
      /\ w.upgradeFrom = v.upgradeFrom /\ w.link = v.link /\ w.epochFailed = v.epochFailed
  BY <1>1, <1>2 DEF Session
<1> QED BY Zenon, <1>1, <1>3 DEF w, Wiped

(* The fields that closing a session leaves alone.                         *)
Same(x) ==
  /\ sess'[x].route = sess[x].route /\ sess'[x].dev = sess[x].dev
  /\ sess'[x].transport = sess[x].transport /\ sess'[x].link = sess[x].link
  /\ sess'[x].upgradeFrom = sess[x].upgradeFrom /\ sess'[x].epochFailed = sess[x].epochFailed

(* Closing session objects, whichever they are, keeps the invariant.       *)
LEMMA CloseStep ==
  ASSUME IInv, NEW gone \in SUBSET Routes, Close(gone), thread' \in [Threads -> Work],
         UNCHANGED <<devices, commit>>,
         offer' \in [Routes -> {NoOffer} \cup [op : {"accepting", "replying"}, to : DirectRoutes]],
         \A x \in Routes : offer'[x] \in {offer[x], NoOffer},
         revoke' \in [Devices -> [op : {"no", "marked", "unclosed", "closing"},
                                  left : SUBSET Routes]],
         \A x \in gone : sess[x].state # "unborn",
         \A t \in Threads :
           \/ thread'[t] = thread[t]
           \/ thread'[t] = Idle
           \/ /\ thread'[t] = [op |-> "announce", s |-> thread[t].s, old |-> None]
              /\ thread[t].op # "idle"
  PROVE  IInv'
<1> USE SessionAssumption
<1>0. TypeOK
  BY Zenon DEF IInv
<1>1. \A x \in Routes : sess[x] \in Session /\ sess'[x] = IF x \in gone THEN Wiped(sess[x]) ELSE sess[x]
  BY Zenon, <1>0 DEF Close, TypeOK
<1>2. \A x \in Routes : Same(x) /\ IF x \in gone THEN sess'[x].state = "closed" /\ sess'[x].keys = None
                                   ELSE sess'[x].state = sess[x].state /\ sess'[x].keys = sess[x].keys
  <2> TAKE x \in Routes
  <2>1. CASE x \in gone
    BY <1>1, <2>1, WipeFields DEF Same
  <2>2. CASE x \notin gone
    BY Zenon, <1>1, <2>2 DEF Same
  <2> QED BY Zenon, <2>1, <2>2
<1>3. sess' \in [Routes -> Session]
  <2>1. \A x \in Routes : Wiped(sess[x]) \in Session
    BY Zenon, <1>1, WipeFields
  <2>2. \A x \in Routes : sess'[x] \in Session
    BY <1>1, <2>1
  <2> QED BY Zenon, <2>2 DEF Close
<1>4. \A r \in Routes : sessions'[r] = IF sessions[r] \in gone THEN None ELSE sessions[r]
  BY Zenon DEF Close
<1>5. TypeOK'
  BY Zenon, <1>0, <1>3 DEF TypeOK, Close
<1>6. RelayObjects' /\ DirectObjects'
  BY <1>2 DEF IInv, RelayObjects, DirectObjects, Routes, Active, Authenticated, Same
<1>7. TableInv'
  BY <1>0, <1>2, <1>4 DEF IInv, TableInv, TypeOK, Same
<1>8. IndexInv'
  <2> SUFFICES ASSUME NEW d \in Devices, byDevice'[d] # None
               PROVE  /\ sessions'[byDevice'[d]] # None
                      /\ sess'[sessions'[byDevice'[d]]].dev = d
                      /\ sess'[sessions'[byDevice'[d]]].state = "established"
    BY Zenon DEF IndexInv
  <2>1. /\ byDevice'[d] = byDevice[d] /\ byDevice[d] \in Routes
        /\ ~\E s \in gone : sess[s].dev = d /\ Live(s) /\ byDevice[d] = sess[s].route
    BY <1>0 DEF Close, TypeOK
  <2> DEFINE r == byDevice[d]
             s == sessions[r]
  <2>2. r \in Routes /\ s # None /\ s \in Routes /\ sess[s].dev = d
        /\ sess[s].state = "established"
    BY <1>0, <2>1 DEF IInv, IndexInv, TypeOK
  <2>3. sess[s].route = r /\ Live(s)
    BY Zenon, <2>2 DEF IInv, TableInv, Live
  <2>4. s \notin gone
    BY Zenon, <2>1, <2>2, <2>3
  <2> QED BY <1>2, <1>4, <2>1, <2>2, <2>4 DEF Same
<1>9. OfferInv' /\ CommitInv'
  <2>1. \A x \in Routes : sess[x].state = "unborn" => sess'[x].state = "unborn"
    BY Zenon, <1>2
  <2>2. \A x \in Routes : sess'[x].state \in {sess[x].state, "closed"}
    BY Zenon, <1>2
  <2>3. OfferInv'
    <3> SUFFICES ASSUME NEW x \in Routes, offer'[x] # NoOffer
                 PROVE  /\ x \in RelayRoutes
                        /\ offer'[x].op = "accepting" => sess'[offer'[x].to].state = "unborn"
                        /\ \A p \in Routes : offer'[p].to = offer'[x].to => p = x
      BY Zenon DEF OfferInv
    <3>1. offer'[x] = offer[x] /\ offer[x].to \in DirectRoutes /\ offer[x].to \in Routes
      BY Zenon, <1>0 DEF TypeOK, Routes
    <3>2. \A p \in Routes : offer'[p].to = offer[x].to => offer[p].to = offer[x].to
      BY <3>1 DEF NoOffer, Routes
    <3> QED BY <2>1, <3>1, <3>2 DEF IInv, OfferInv
  <2>4. CommitInv'
    BY <1>0, <1>2, <2>2 DEF IInv, CommitInv, TypeOK, Routes, Same
  <2> QED BY Zenon, <2>3, <2>4
<1>10. LinkInv'
  <2> SUFFICES ASSUME NEW c \in links' PROVE sessions'[c] # None /\ sess'[sessions'[c]].link = c
    BY Zenon DEF LinkInv
  <2>1. c \in links /\ c \in DirectRoutes /\ c \in Routes
        /\ \A x \in gone : sess[x].transport = "p2p" => sess[x].link # c
    BY <1>0 DEF Close, TypeOK, Routes
  <2>2. sessions[c] # None /\ sess[sessions[c]].link = c /\ sessions[c] \in Routes
    BY <1>0, <2>1 DEF IInv, LinkInv, TypeOK
  <2>3. sess[sessions[c]].state \in Active
    BY Zenon, <2>1, <2>2 DEF IInv, TableInv
  <2>4. sess[sessions[c]].transport = "p2p"
    <3>1. CASE sessions[c] \in RelayRoutes
      <4>1. sess[sessions[c]].transport \in {"relay", "p2p"} /\ c # None
        BY Zenon, <1>0, <2>1, <2>2 DEF TypeOK, Session
      <4> QED BY Zenon, <3>1, <2>2, <4>1 DEF IInv, RelayObjects
    <3>2. CASE sessions[c] \in DirectRoutes
      BY Zenon, <3>2, <2>3 DEF IInv, DirectObjects
    <3> QED BY Zenon, <3>1, <3>2, <2>2 DEF Routes
  <2>5. sessions[c] \notin gone
    BY Zenon, <2>1, <2>2, <2>4
  <2> QED BY <1>2, <1>4, <2>1, <2>2, <2>5 DEF Same
<1>11. ThreadInv' /\ EpochInv'
  <2>1. \A x \in Routes : sess'[x].state = "unborn" => sess[x].state = "unborn"
    BY Zenon, <1>2
  <2>2. ThreadInv'
    BY <2>1, <1>0 DEF IInv, ThreadInv, Idle
  <2>3. EpochInv'
    BY Zenon, <2>1, <1>2 DEF IInv, EpochInv, Same
  <2> QED BY Zenon, <2>2, <2>3
<1> QED BY Zenon, <1>5, <1>6, <1>7, <1>8, <1>9, <1>10, <1>11 DEF IInv

(* A session found in the table is where it says it is and is alive; on a  *)
(* relay route it is the session created for that route, and on a direct   *)
(* route it is that candidate until a commit replaces it.                  *)
LEMMA Found ==
  ASSUME IInv, NEW r \in Routes, sessions[r] # None
  PROVE  /\ sessions[r] \in Routes /\ sess[sessions[r]] \in Session
         /\ sess[sessions[r]].route = r /\ Live(sessions[r])
         /\ sess[sessions[r]].state \in Active /\ sess[sessions[r]].state # "unborn"
         /\ r \in RelayRoutes => sessions[r] = r /\ sess[r].transport = "relay"
         /\ r \in DirectRoutes /\ sess[sessions[r]].state # "established" => sessions[r] = r
<1> DEFINE s == sessions[r]
<1> USE SessionAssumption
<1>1. s \in Routes /\ sess[s] \in Session /\ sess[s].transport \in {"relay", "p2p"}
  BY Zenon DEF IInv, TypeOK, Session
<1>2. sess[s].route = r /\ sess[s].state \in Active /\ Live(s)
  BY Zenon DEF IInv, TableInv, Live
<1>3. CASE s \in RelayRoutes
  BY <1>1, <1>2, <1>3 DEF IInv, RelayObjects, Routes, Active
<1>4. CASE s \in DirectRoutes
  BY <1>1, <1>2, <1>4 DEF IInv, DirectObjects, Routes, Active
<1> QED BY Zenon, <1>1, <1>2, <1>3, <1>4 DEF Routes

(* One session moves on in its handshake, or changes nothing but           *)
(* epochFailed, while the rest of the table stays.                         *)
LEMMA PatchStep ==
  ASSUME IInv, NEW s \in Routes, NEW rec \in Session,
         sess' = [sess EXCEPT ![s] = rec],
         rec.route = sess[s].route, rec.transport = sess[s].transport,
         rec.link = sess[s].link, rec.upgradeFrom = sess[s].upgradeFrom,
         sess[s].state # "unborn",
         \/ rec.state = sess[s].state /\ rec.keys = sess[s].keys /\ rec.dev = sess[s].dev
         \/ /\ sess[s].state \in {"resumehello", "hello2"} /\ rec.dev \in Devices
            /\ \/ rec.state = "hello2"
               \/ rec.state = "established" /\ s \in RelayRoutes /\ rec.keys = s
               \/ rec.state = "upgrade_ready" /\ s \in DirectRoutes /\ rec.keys = s,
         UNCHANGED <<devices, sessions, links, offer, revoke>>,
         commit' \in [Routes -> DirectRoutes \cup {None}],
         \A x \in Routes : commit'[x] \in {commit[x], None},
         byDevice' \in [Devices -> Routes \cup {None}],
         \A d \in Devices :
           \/ byDevice'[d] \in {byDevice[d], None}
           \/ /\ byDevice'[d] = rec.route /\ sessions[rec.route] = s
              /\ rec.dev = d /\ rec.state = "established",
         thread' \in [Threads -> Work],
         \A t \in Threads :
           \/ thread'[t] = thread[t]
           \/ thread'[t] = Idle
           \/ thread'[t].s = s /\ (thread'[t].op = "kick" => thread'[t].old \in Routes)
  PROVE  IInv'
<1> USE SessionAssumption
<1>0. TypeOK /\ sess[s] \in Session
  BY Zenon DEF IInv, TypeOK
<1>1. TypeOK'
  BY Zenon, <1>0 DEF TypeOK
<1>2. \A x \in Routes : sess'[x] = IF x = s THEN rec ELSE sess[x]
  BY Zenon, <1>0 DEF TypeOK
<1>3. \A x \in Routes :
        /\ sess'[x].route = sess[x].route /\ sess'[x].transport = sess[x].transport
        /\ sess'[x].link = sess[x].link /\ sess'[x].upgradeFrom = sess[x].upgradeFrom
        /\ sess'[x].state = "unborn" <=> sess[x].state = "unborn"
        /\ sess[x].state \in Active => sess'[x].state \in Active
        /\ sess[x].state = "closed" <=> sess'[x].state = "closed"
        /\ sess[x].state \in {"closed", "upgrade_ready", "established"} =>
             sess'[x].state = sess[x].state /\ sess'[x].dev = sess[x].dev
  BY <1>2 DEF Active
<1>4. RelayObjects'
  <2> SUFFICES ASSUME NEW x \in RelayRoutes, RelayObjects, DirectObjects
               PROVE  RelayObjects!(x)'
    BY Zenon DEF RelayObjects, IInv
  <2>1. CASE x # s
    BY <2>1, <1>2, <1>3 DEF RelayObjects, Routes
  <2>2. CASE x = s
    <3>1. sess[s].transport \in {"relay", "p2p"} /\ s \notin DirectRoutes
      BY Zenon, <1>0, <2>2 DEF Session
    <3>2. sess[s].transport = "p2p" => sess'[s].state = sess[s].state /\ sess'[s].keys = sess[s].keys
      BY <1>2, <2>2 DEF RelayObjects
    <3>3. sess[s].transport = "p2p" => sess[s].route \in Routes
      BY Zenon, <2>2 DEF RelayObjects, Routes
    <3> QED BY <2>2, <3>1, <3>2, <3>3, <1>2, <1>3 DEF RelayObjects, Authenticated
  <2> QED BY Zenon, <2>1, <2>2
<1>5. DirectObjects'
  BY <1>2 DEF IInv, DirectObjects, Routes, Active
<1>6. TableInv'
  BY <1>0, <1>3 DEF IInv, TableInv, TypeOK
<1>7. IndexInv'
  <2> SUFFICES ASSUME NEW d \in Devices, byDevice'[d] # None
               PROVE  /\ sessions'[byDevice'[d]] # None
                      /\ sess'[sessions'[byDevice'[d]]].dev = d
                      /\ sess'[sessions'[byDevice'[d]]].state = "established"
    BY Zenon DEF IndexInv
  <2>1. CASE byDevice'[d] = byDevice[d]
    <3>1. byDevice[d] \in Routes
      BY Zenon, <1>0, <2>1 DEF TypeOK
    <3>2. /\ sessions[byDevice[d]] # None /\ sessions[byDevice[d]] \in Routes
          /\ sess[sessions[byDevice[d]]].dev = d
          /\ sess[sessions[byDevice[d]]].state = "established"
      BY <1>0, <2>1, <3>1 DEF IInv, IndexInv, TypeOK
    <3> QED BY <1>3, <2>1, <3>2
  <2>2. CASE byDevice'[d] # byDevice[d]
    BY <1>2, <2>2
  <2> QED BY Zenon, <2>1, <2>2
<1>8. OfferInv'
  <2>1. \A p \in Routes : offer[p] # NoOffer => offer[p].to \in Routes
    BY Zenon, <1>0 DEF TypeOK, Routes
  <2>2. \A x \in Routes : sess[x].state = "unborn" => sess'[x].state = "unborn"
    BY Zenon, <1>3
  <2> QED BY Zenon, <2>1, <2>2 DEF IInv, OfferInv
<1>9. CommitInv'
  <2> SUFFICES ASSUME NEW x \in Routes, commit'[x] # None
               PROVE  CommitInv!(x)!2'
    BY Zenon DEF CommitInv
  <2>1. commit'[x] = commit[x] /\ commit[x] \in Routes
    BY Zenon, <1>0 DEF TypeOK, Routes
  <2>2. /\ x \in RelayRoutes
        /\ sess[x].state \in {"established", "closed"} /\ sess[x].transport = "relay"
        /\ sess[commit[x]].state \in {"upgrade_ready", "closed"}
        /\ sess[commit[x]].upgradeFrom = x /\ sess[commit[x]].dev = sess[x].dev
    BY Zenon, <2>1 DEF IInv, CommitInv
  <2>3. sess'[x].state = sess[x].state /\ sess'[x].transport = sess[x].transport
        /\ sess'[x].dev = sess[x].dev
    BY Zenon, <1>3, <2>2
  <2>4. sess'[commit[x]].state = sess[commit[x]].state
        /\ sess'[commit[x]].upgradeFrom = sess[commit[x]].upgradeFrom
        /\ sess'[commit[x]].dev = sess[commit[x]].dev
    BY Zenon, <1>3, <2>1, <2>2
  <2> QED BY <2>1, <2>2, <2>3, <2>4
<1>10. LinkInv'
  BY <1>0, <1>3 DEF IInv, LinkInv, TypeOK, Routes
<1>11. ThreadInv' /\ EpochInv'
  BY <1>0, <1>3 DEF IInv, ThreadInv, EpochInv, Idle
<1> QED BY Zenon, <1>1, <1>4, <1>5, <1>6, <1>7, <1>8, <1>9, <1>10, <1>11 DEF IInv

(* DeviceHello1 sets the state and the device of a session.                *)
LEMMA HelloFields ==
  ASSUME NEW r \in Session, NEW d \in Devices
  PROVE  LET w == [r EXCEPT !.state = "hello2", !.dev = d]
         IN /\ w \in Session /\ w.state = "hello2" /\ w.dev = d
            /\ w.route = r.route /\ w.transport = r.transport /\ w.link = r.link
            /\ w.upgradeFrom = r.upgradeFrom
<1> DEFINE v == [r EXCEPT !.state = "hello2"]
           w == [r EXCEPT !.state = "hello2", !.dev = d]
<1>1. /\ v \in Session /\ v.state = "hello2" /\ v.route = r.route
      /\ v.transport = r.transport /\ v.upgradeFrom = r.upgradeFrom /\ v.link = r.link
  BY Zenon DEF Session, States
<1>2. w = [v EXCEPT !.dev = d]
  OBVIOUS
<1> HIDE DEF v, w
<1>3. /\ w \in Session /\ w.state = v.state /\ w.dev = d
      /\ w.route = v.route /\ w.transport = v.transport
      /\ w.upgradeFrom = v.upgradeFrom /\ w.link = v.link
  BY <1>1, <1>2 DEF Session
<1> QED BY Zenon, <1>1, <1>3 DEF w

(* DeviceHello3 sets its state and its keys.                               *)
LEMMA FinishFields ==
  ASSUME NEW r \in Session, NEW st \in {"upgrade_ready", "established"}, NEW k \in Routes
  PROVE  /\ Finished(r, st, k) \in Session /\ Finished(r, st, k).state = st
         /\ Finished(r, st, k).keys = k /\ Finished(r, st, k).dev = r.dev
         /\ Finished(r, st, k).route = r.route /\ Finished(r, st, k).transport = r.transport
         /\ Finished(r, st, k).link = r.link /\ Finished(r, st, k).upgradeFrom = r.upgradeFrom
<1> DEFINE v == [r EXCEPT !.state = st]
           w == [r EXCEPT !.state = st, !.keys = k]
<1>1. /\ v \in Session /\ v.state = st /\ v.dev = r.dev /\ v.route = r.route
      /\ v.transport = r.transport /\ v.upgradeFrom = r.upgradeFrom /\ v.link = r.link
  BY Zenon DEF Session, States
<1>2. w = [v EXCEPT !.keys = k]
  OBVIOUS
<1> HIDE DEF v, w
<1>3. /\ w \in Session /\ w.state = v.state /\ w.keys = k /\ w.dev = v.dev
      /\ w.route = v.route /\ w.transport = v.transport
      /\ w.upgradeFrom = v.upgradeFrom /\ w.link = v.link
  BY <1>1, <1>2 DEF Session
<1> QED BY Zenon, <1>1, <1>3 DEF w, Finished

(* The actions that touch one session keep the invariant.                  *)
LEMMA Hello1Step ==
  ASSUME IInv, NEW t \in Threads, NEW r \in Routes, NEW d \in Devices, Hello1(t, r, d)
  PROVE  IInv'
<1> DEFINE s == sessions[r]
           rec == [sess[s] EXCEPT !.state = "hello2", !.dev = d]
<1>1. sessions[r] # None /\ sess[s].state = "resumehello"
  BY Zenon DEF Hello1, Receives
<1>2. s \in Routes /\ sess[s] \in Session
  BY Zenon, <1>1, Found
<1>3. sess' = [sess EXCEPT ![s] = rec]
  BY Zenon DEF Hello1
<1>4. /\ rec \in Session /\ rec.state = "hello2" /\ rec.dev = d
      /\ rec.route = sess[s].route /\ rec.transport = sess[s].transport
      /\ rec.link = sess[s].link /\ rec.upgradeFrom = sess[s].upgradeFrom
  BY Zenon, <1>2, HelloFields
<1> HIDE DEF s, rec
<1>5. /\ UNCHANGED <<devices, sessions, byDevice, links, thread, offer, commit, revoke>>
      /\ TypeOK
  BY Zenon DEF Hello1, IInv
<1>6. /\ commit' \in [Routes -> DirectRoutes \cup {None}] /\ thread' \in [Threads -> Work]
      /\ byDevice' \in [Devices -> Routes \cup {None}]
  BY Zenon, <1>5 DEF TypeOK
<1> QED BY Zenon, <1>1, <1>2, <1>3, <1>4, <1>5, <1>6, PatchStep

(* The fields of a session whose transport epoch has failed.               *)
LEMMA EpochFields ==
  ASSUME NEW r \in Session
  PROVE  LET w == [r EXCEPT !.epochFailed = TRUE]
         IN /\ w \in Session /\ w.state = r.state /\ w.keys = r.keys /\ w.dev = r.dev
            /\ w.route = r.route /\ w.transport = r.transport /\ w.link = r.link
            /\ w.upgradeFrom = r.upgradeFrom
BY Zenon DEF Session

(* What a thread does next, as far as the invariant is concerned.          *)
LEMMA ThenType ==
  ASSUME TypeOK, NEW t \in Threads, NEW op \in {"kick", "announce", "fail", "open"},
         NEW s \in Routes, NEW old \in Routes \cup {None}, op = "kick" => old \in Routes,
         Then(t, op, s, old)
  PROVE  /\ thread' \in [Threads -> Work]
         /\ \A u \in Threads :
              \/ thread'[u] = thread[u]
              \/ thread'[u] = Idle
              \/ thread'[u].s = s /\ (thread'[u].op = "kick" => thread'[u].old \in Routes)
BY Zenon DEF TypeOK, Then, Work

(* A thread that returns from its handler leaves a well-typed state.       *)
LEMMA DoneType ==
  ASSUME TypeOK, NEW t \in Threads, Done(t)
  PROVE  /\ thread' \in [Threads -> Work]
         /\ \A u \in Threads : thread'[u] = thread[u] \/ thread'[u] = Idle
BY Zenon DEF TypeOK, Done, Work, Idle

(* Steps that only change what a thread does next, about a session that    *)
(* was created.                                                            *)
LEMMA QuietStep ==
  ASSUME IInv, NEW s \in Routes, sess[s].state # "unborn",
         UNCHANGED <<devices, sess, sessions, byDevice, links, offer, commit, revoke>>,
         thread' \in [Threads -> Work],
         \A u \in Threads :
           \/ thread'[u] = thread[u]
           \/ thread'[u] = Idle
           \/ thread'[u].s = s /\ (thread'[u].op = "kick" => thread'[u].old \in Routes)
  PROVE  IInv'
<1>1. TypeOK /\ sess[s] \in Session
  BY Zenon DEF IInv, TypeOK
<1>2. sess' = [sess EXCEPT ![s] = sess[s]]
  BY Zenon, <1>1 DEF TypeOK
<1>3. commit' \in [Routes -> DirectRoutes \cup {None}] /\ byDevice' \in [Devices -> Routes \cup {None}]
  BY Zenon, <1>1 DEF TypeOK
<1> QED BY Zenon, <1>1, <1>2, <1>3, PatchStep

(* A refused hello and the receipt of a frame keep IInv.                   *)
LEMMA BadHelloStep ==
  ASSUME IInv, NEW t \in Threads, NEW r \in Routes, BadHello(t, r) \/ Receive(t, r)
  PROVE  IInv'
<1>1. sessions[r] # None
  BY Zenon DEF BadHello, Receive, Receives
<1>2. sessions[r] \in Routes /\ sess[sessions[r]].state # "unborn" /\ TypeOK
  BY Zenon, <1>1, Found DEF IInv
<1>3. CASE BadHello(t, r)
  BY Zenon, <1>2, <1>3, ThenType, QuietStep DEF BadHello
<1>4. CASE Receive(t, r)
  BY Zenon, <1>2, <1>4, ThenType, QuietStep DEF Receive
<1> QED BY Zenon, <1>3, <1>4

(* Opening a frame, or closing on one that does not open, keeps IInv.      *)
LEMMA OpenFrameStep ==
  ASSUME IInv, NEW t \in Threads, OpenFrame(t)
  PROVE  IInv'
<1>1. thread[t].s \in Routes /\ sess[thread[t].s].state # "unborn" /\ TypeOK
  BY Zenon DEF OpenFrame, IInv, ThreadInv
<1>2. CASE Done(t)
  BY Zenon, <1>1, <1>2, DoneType, QuietStep DEF OpenFrame
<1>3. CASE Then(t, "fail", thread[t].s, None)
  BY Zenon, <1>1, <1>3, ThenType, QuietStep DEF OpenFrame
<1> QED BY Zenon, <1>2, <1>3 DEF OpenFrame

(* A session's epoch is marked failed.                                     *)
LEMMA EpochStep ==
  ASSUME IInv, NEW s \in Routes, sess[s].state # "unborn",
         sess' = [sess EXCEPT ![s].epochFailed = TRUE],
         UNCHANGED <<devices, sessions, byDevice, links, offer, revoke>>,
         commit' \in [Routes -> DirectRoutes \cup {None}],
         \A x \in Routes : commit'[x] \in {commit[x], None},
         thread' \in [Threads -> Work],
         \A u \in Threads :
           \/ thread'[u] = thread[u]
           \/ thread'[u] = Idle
           \/ thread'[u].s = s /\ (thread'[u].op = "kick" => thread'[u].old \in Routes)
  PROVE  IInv'
<1> DEFINE rec == [sess[s] EXCEPT !.epochFailed = TRUE]
<1>1. sess[s] \in Session /\ byDevice' \in [Devices -> Routes \cup {None}]
  BY Zenon DEF IInv, TypeOK
<1>2. sess' = [sess EXCEPT ![s] = rec]
  OBVIOUS
<1>3. /\ rec \in Session /\ rec.state = sess[s].state /\ rec.keys = sess[s].keys
      /\ rec.dev = sess[s].dev /\ rec.route = sess[s].route
      /\ rec.transport = sess[s].transport /\ rec.link = sess[s].link
      /\ rec.upgradeFrom = sess[s].upgradeFrom
  BY <1>1, EpochFields
<1> HIDE DEF rec
<1> QED BY Zenon, <1>1, <1>2, <1>3, PatchStep

(* SESSION_ESTABLISHED, sent or not, keeps IInv.                           *)
LEMMA AnnounceStep ==
  ASSUME IInv, NEW t \in Threads, Announce(t)
  PROVE  IInv'
<1>1. thread[t].s \in Routes /\ sess[thread[t].s].state # "unborn" /\ TypeOK
  BY Zenon DEF Announce, IInv, ThreadInv
<1>2. CASE Done(t) /\ UNCHANGED sess
  BY Zenon, <1>1, <1>2, DoneType, QuietStep DEF Announce
<1>3. CASE /\ sess' = [sess EXCEPT ![thread[t].s].epochFailed = TRUE]
           /\ Then(t, "fail", thread[t].s, None)
  <2> DEFINE s == thread[t].s
  <2>1. commit' \in [Routes -> DirectRoutes \cup {None}] /\ \A x \in Routes : commit'[x] \in {commit[x], None}
    BY Zenon, <1>1 DEF Announce, TypeOK
  <2>2. /\ s \in Routes /\ sess[s].state # "unborn"
        /\ sess' = [sess EXCEPT ![s].epochFailed = TRUE] /\ Then(t, "fail", s, None)
        /\ UNCHANGED <<devices, sessions, byDevice, links, offer, commit, revoke>>
    BY Zenon, <1>1, <1>3 DEF Announce
  <2> HIDE DEF s
  <2>3. /\ thread' \in [Threads -> Work]
        /\ \A u \in Threads :
             \/ thread'[u] = thread[u]
             \/ thread'[u] = Idle
             \/ thread'[u].s = s /\ (thread'[u].op = "kick" => thread'[u].old \in Routes)
    BY Zenon, <1>1, <2>2, ThenType
  <2> QED BY Zenon, <2>1, <2>2, <2>3, EpochStep
<1> QED BY Zenon, <1>2, <1>3 DEF Announce

(* A failed send marks the epoch and keeps IInv.                           *)
LEMMA SendFailsStep ==
  ASSUME IInv, NEW s \in Routes, SendFails(s) \/ CommitSendFails(s)
  PROVE  IInv'
<1>0. TypeOK
  BY Zenon DEF IInv
<1>1. CASE SendFails(s)
  <2>1. sess[s].route \in Routes /\ sessions[sess[s].route] = s /\ s # None
    BY Zenon, <1>0, <1>1, SessionAssumption DEF SendFails, Live, TypeOK, Session
  <2>2. sess[s].state # "unborn"
    BY <2>1, Found
  <2> QED BY Zenon, <1>0, <1>1, <2>2, EpochStep DEF SendFails, TypeOK
<1>2. CASE CommitSendFails(s)
  <2>1. sess[s].state # "unborn"
    BY Zenon, <1>2 DEF CommitSendFails, IInv, CommitInv
  <2>2. /\ commit' \in [Routes -> DirectRoutes \cup {None}] /\ thread' \in [Threads -> Work]
        /\ \A x \in Routes : commit'[x] \in {commit[x], None}
    BY Zenon, <1>0, <1>2 DEF CommitSendFails, TypeOK
  <2> QED BY Zenon, <1>2, <2>1, <2>2, EpochStep DEF CommitSendFails
<1> QED BY Zenon, <1>1, <1>2

(* The end of a relay handshake, with its save, keeps IInv.                *)
LEMMA FinishHello3Step ==
  ASSUME IInv, NEW r \in RelayRoutes, FinishHello3(r)
  PROVE  IInv'
<1> DEFINE s == sessions[r]
           d == sess[s].dev
           old == byDevice[d]
           rec == Finished(sess[s], "established", s)
<1> USE SessionAssumption
<1>1. r \in Routes /\ sessions[r] # None /\ sess[s].state = "hello2"
  BY Zenon DEF FinishHello3, Receives, Routes
<1>2. /\ s = r /\ s \in Routes /\ s \in RelayRoutes /\ sess[s] \in Session
      /\ sess[s].route = r /\ TypeOK /\ "reader" \in Threads
  BY Zenon, <1>1, Found DEF IInv, Threads
<1>3. d \in Devices /\ old \in Routes \cup {None}
  BY <1>1, <1>2 DEF IInv, RelayObjects, Authenticated, TypeOK
<1>4. /\ rec \in Session /\ rec.state = "established" /\ rec.keys = s /\ rec.dev = d
      /\ rec.route = sess[s].route /\ rec.transport = sess[s].transport
      /\ rec.link = sess[s].link /\ rec.upgradeFrom = sess[s].upgradeFrom
  BY <1>2, FinishFields
<1>5. /\ commit' \in [Routes -> DirectRoutes \cup {None}]
      /\ \A x \in Routes : commit'[x] \in {commit[x], None}
      /\ UNCHANGED <<devices, sessions, links, offer, commit, revoke>>
  BY Zenon, <1>2 DEF FinishHello3, TypeOK
<1>6. CASE /\ sess' = [sess EXCEPT ![s] = Finished(sess[s], "established", s)]
           /\ byDevice' = [byDevice EXCEPT ![d] = sess[s].route]
           /\ Then("reader", IF old \in {None, sess[s].route} THEN "announce" ELSE "kick", s, old)
  <2>1. sess' = [sess EXCEPT ![s] = rec]
    BY Zenon, <1>6
  <2>2. /\ byDevice' \in [Devices -> Routes \cup {None}]
        /\ \A e \in Devices : \/ byDevice'[e] \in {byDevice[e], None}
                              \/ byDevice'[e] = sess[s].route /\ d = e
    BY Zenon, <1>2, <1>3, <1>6 DEF TypeOK
  <2>3. /\ thread' \in [Threads -> Work]
        /\ \A u \in Threads :
             \/ thread'[u] = thread[u]
             \/ thread'[u] = Idle
             \/ thread'[u].s = s /\ (thread'[u].op = "kick" => thread'[u].old \in Routes)
    <3>1. CASE old \in {None, sess[s].route}
      <4>1. Then("reader", "announce", s, old)
        BY Zenon, <1>6, <3>1
      <4> HIDE DEF s, old
      <4> QED BY Zenon, <4>1, <1>2, <1>3, ThenType
    <3>2. CASE old \notin {None, sess[s].route}
      <4>1. Then("reader", "kick", s, old) /\ old \in Routes
        BY Zenon, <1>3, <1>6, <3>2
      <4> HIDE DEF s, old
      <4> QED BY Zenon, <4>1, <1>2, <1>3, ThenType
    <3> QED BY Zenon, <3>1, <3>2
  <2>4. sessions[rec.route] = s /\ sess[s].state \in {"resumehello", "hello2"}
        /\ sess[s].state # "unborn"
    BY Zenon, <1>1, <1>2, <1>4
  <2>5. \A e \in Devices :
          \/ byDevice'[e] \in {byDevice[e], None}
          \/ /\ byDevice'[e] = rec.route /\ sessions[rec.route] = s
             /\ rec.dev = e /\ rec.state = "established"
    <3> HIDE DEF rec, s, d, old
    <3> QED BY Zenon, <1>4, <2>2, <2>4
  <2>6. rec.dev \in Devices /\ byDevice' \in [Devices -> Routes \cup {None}]
    BY Zenon, <1>3, <1>4, <2>2
  <2>7. s \in RelayRoutes /\ s \in Routes
    BY Zenon, <1>2
  <2> HIDE DEF rec, s, d, old
  <2> QED BY <1>4, <1>5, <2>1, <2>3, <2>4, <2>5, <2>6, <2>7, PatchStep, ZenonT(60)
<1>7. CASE /\ byDevice' \in [Devices -> Routes \cup {None}]
           /\ \A e \in Devices : byDevice'[e] \in {byDevice[e], None}
           /\ Then("reader", "fail", s, None)
           /\ UNCHANGED sess
  <2>1. sess' = [sess EXCEPT ![s] = sess[s]]
    BY Zenon, <1>2, <1>7 DEF TypeOK
  <2>2. /\ thread' \in [Threads -> Work]
        /\ \A u \in Threads :
             \/ thread'[u] = thread[u]
             \/ thread'[u] = Idle
             \/ thread'[u].s = s /\ (thread'[u].op = "kick" => thread'[u].old \in Routes)
    <3> HIDE DEF s
    <3> QED BY Zenon, <1>2, <1>7, ThenType
  <2>3. sess[s].state # "unborn"
    BY Zenon, <1>1
  <2> HIDE DEF s, d, old, rec
  <2> QED BY ZenonT(30), <1>2, <1>5, <1>7, <2>1, <2>2, <2>3, PatchStep
<1> QED BY Zenon, <1>1, <1>2, <1>3, <1>6, <1>7 DEF FinishHello3, TypeOK

(* The end of a candidate handshake keeps IInv.                            *)
LEMMA FinishHello3DirectStep ==
  ASSUME IInv, NEW r \in DirectRoutes, FinishHello3Direct(r)
  PROVE  IInv'
<1> DEFINE s == sessions[r]
           rec == Finished(sess[s], "upgrade_ready", s)
<1>1. r \in Routes /\ sessions[r] # None /\ sess[s].state = "hello2" /\ r \in Threads
  BY Zenon DEF FinishHello3Direct, Receives, Routes, Threads
<1>2. s \in Routes /\ s \in DirectRoutes /\ sess[s] \in Session /\ TypeOK
  BY Zenon, <1>1, Found DEF IInv
<1>3. sess[s].dev \in Devices /\ sess[s].state # "unborn" /\ sess[s].state \in {"resumehello", "hello2"}
  BY Zenon, <1>1, <1>2 DEF IInv, DirectObjects, Active
<1>4. /\ rec \in Session /\ rec.state = "upgrade_ready" /\ rec.keys = s /\ rec.dev = sess[s].dev
      /\ rec.route = sess[s].route /\ rec.transport = sess[s].transport
      /\ rec.link = sess[s].link /\ rec.upgradeFrom = sess[s].upgradeFrom
  BY <1>2, FinishFields
<1>5. /\ commit' \in [Routes -> DirectRoutes \cup {None}]
      /\ \A x \in Routes : commit'[x] \in {commit[x], None}
      /\ byDevice' \in [Devices -> Routes \cup {None}]
      /\ UNCHANGED <<devices, sessions, byDevice, links, offer, commit, revoke>>
  BY Zenon, <1>2 DEF FinishHello3Direct, TypeOK
<1>6. CASE sess' = [sess EXCEPT ![s] = rec] /\ Then(r, "announce", s, None)
  <2> HIDE DEF s, rec
  <2>1. /\ thread' \in [Threads -> Work]
        /\ \A u \in Threads :
             \/ thread'[u] = thread[u]
             \/ thread'[u] = Idle
             \/ thread'[u].s = s /\ (thread'[u].op = "kick" => thread'[u].old \in Routes)
    BY Zenon, <1>1, <1>2, <1>6, ThenType
  <2>2. rec.dev \in Devices
    BY Zenon, <1>3, <1>4
  <2> QED BY Zenon, <1>2, <1>3, <1>4, <1>5, <1>6, <2>1, <2>2, PatchStep
<1>7. CASE UNCHANGED sess /\ Then(r, "fail", s, None)
  <2> HIDE DEF s, rec
  <2>1. /\ thread' \in [Threads -> Work]
        /\ \A u \in Threads :
             \/ thread'[u] = thread[u]
             \/ thread'[u] = Idle
             \/ thread'[u].s = s /\ (thread'[u].op = "kick" => thread'[u].old \in Routes)
    BY Zenon, <1>1, <1>2, <1>7, ThenType
  <2> QED BY Zenon, <1>2, <1>3, <1>5, <1>7, <2>1, QuietStep
<1> QED BY Zenon, <1>6, <1>7 DEF FinishHello3Direct

(* Whatever is closed by its route, the invariant holds afterwards.        *)
LEMMA CloseSessionStep ==
  ASSUME IInv, NEW r \in Routes, CloseSession(r), thread' \in [Threads -> Work],
         UNCHANGED <<devices, offer, commit>>,
         revoke' \in [Devices -> [op : {"no", "marked", "unclosed", "closing"},
                                  left : SUBSET Routes]],
         \A t \in Threads :
           \/ thread'[t] = thread[t]
           \/ thread'[t] = Idle
           \/ /\ thread'[t] = [op |-> "announce", s |-> thread[t].s, old |-> None]
              /\ thread[t].op # "idle"
  PROVE  IInv'
<1> DEFINE gone == IF sessions[r] = None THEN {} ELSE {sessions[r]}
<1>1. Close(gone)
  BY Zenon DEF CloseSession
<1>2. gone \in SUBSET Routes /\ \A x \in gone : sess[x].state # "unborn"
  BY Found
<1>3. /\ offer' \in [Routes -> {NoOffer} \cup [op : {"accepting", "replying"}, to : DirectRoutes]]
      /\ \A x \in Routes : offer'[x] \in {offer[x], NoOffer}
  BY Zenon DEF IInv, TypeOK
<1> HIDE DEF gone
<1> QED BY Zenon, <1>1, <1>2, <1>3, CloseStep

(* The actions that close sessions.                                        *)
LEMMA ClosingSteps ==
  ASSUME IInv,
         \/ \E t \in Threads : FailHello(t)
         \/ Kick
         \/ \E r \in RelayRoutes : RelayError(r)
         \/ \E d \in Devices, r \in Routes : CloseDeviceSession(d, r)
  PROVE  IInv'
<1>0. TypeOK /\ "reader" \in Threads
  BY Zenon DEF IInv, Threads
<1>00. revoke \in [Devices -> [op : {"no", "marked", "unclosed", "closing"}, left : SUBSET Routes]]
       /\ thread \in [Threads -> Work]
  BY Zenon, <1>0 DEF TypeOK
<1>1. ASSUME NEW t \in Threads, FailHello(t) PROVE IInv'
  <2>1. thread[t].s \in Routes
    BY Zenon, <1>1 DEF FailHello, IInv, ThreadInv
  <2>2. sess[thread[t].s].route \in Routes
    BY Zenon, <1>0, <2>1 DEF TypeOK, Session
  <2> QED BY Zenon, <1>0, <1>00, <1>1, <2>2, DoneType, CloseSessionStep DEF FailHello
<1>2. ASSUME Kick PROVE IInv'
  <2> DEFINE w == thread["reader"]
  <2>1. w.op = "kick" /\ w.s \in Routes /\ w.old \in Routes
    BY Zenon, <1>0, <1>2 DEF Kick, IInv, ThreadInv
  <2>2. \A t \in Threads :
           \/ thread'[t] = thread[t]
           \/ /\ thread'[t] = [op |-> "announce", s |-> thread[t].s, old |-> None]
              /\ thread[t].op # "idle"
    BY Zenon, <1>0, <1>00, <1>2, <2>1 DEF Kick, Then
  <2>3. thread' \in [Threads -> Work]
    BY Zenon, <1>0, <1>00, <1>2, <2>1 DEF Kick, Then, Work
  <2>4. CloseSession(w.old) /\ UNCHANGED <<devices, offer, commit, revoke>>
    BY Zenon, <1>2 DEF Kick
  <2> HIDE DEF w
  <2> QED BY Zenon, <1>00, <2>1, <2>2, <2>3, <2>4, CloseSessionStep
<1>3. ASSUME NEW r \in RelayRoutes, RelayError(r) PROVE IInv'
  BY Zenon, <1>00, <1>3, CloseSessionStep DEF RelayError, Routes
<1>4. ASSUME NEW d \in Devices, NEW r \in Routes, CloseDeviceSession(d, r) PROVE IInv'
  <2>1. revoke' \in [Devices -> [op : {"no", "marked", "unclosed", "closing"}, left : SUBSET Routes]]
    BY <1>00, <1>4 DEF CloseDeviceSession
  <2> QED BY Zenon, <1>00, <1>4, <2>1, CloseSessionStep DEF CloseDeviceSession
<1> QED BY Zenon, <1>1, <1>2, <1>3, <1>4

(* Every step that only closes one session keeps IInv.                     *)
LEMMA DroppingSteps ==
  ASSUME IInv,
         \/ ResetTransport
         \/ \E s \in Routes : FailTransportEpoch(s) \/ OfferReply(s)
         \/ \E c \in DirectRoutes : ExpireDirectCandidate(c) \/ DirectClose(c)
  PROVE  IInv'
<1> USE SessionAssumption
<1>0. TypeOK
  BY Zenon DEF IInv
<1>1. /\ revoke \in [Devices -> [op : {"no", "marked", "unclosed", "closing"}, left : SUBSET Routes]]
      /\ thread \in [Threads -> Work]
      /\ offer \in [Routes -> {NoOffer} \cup [op : {"accepting", "replying"}, to : DirectRoutes]]
  BY Zenon, <1>0 DEF TypeOK
<1>2. \A s \in Routes : Live(s) => sess[s].state # "unborn"
  <2> TAKE s \in Routes
  <2>1. sess[s].route \in Routes /\ s # None
    BY <1>0 DEF TypeOK, Session
  <2> QED BY <2>1, Found DEF Live
<1>3. \A c \in DirectRoutes : /\ Expired(c) \in SUBSET Routes
                             /\ \A x \in Expired(c) : sess[x].state # "unborn"
  BY Found DEF Expired, Routes
<1>4. CASE ResetTransport
  <2> DEFINE gone == {s \in Routes : Live(s) /\ ~(sess[s].transport = "p2p" /\ sess[s].state = "established")}
  <2>1. Close(gone) /\ UNCHANGED <<devices, thread, offer, commit, revoke>>
    BY Zenon, <1>4 DEF ResetTransport
  <2>2. gone \in SUBSET Routes /\ \A x \in gone : sess[x].state # "unborn"
    BY Zenon, <1>2
  <2> HIDE DEF gone
  <2> QED BY Zenon, <1>1, <2>1, <2>2, CloseStep
<1>5. ASSUME NEW s \in Routes, FailTransportEpoch(s) PROVE IInv'
  <2>1. sess[s].state # "unborn"
    BY Zenon, <1>5 DEF FailTransportEpoch, IInv, EpochInv
  <2> QED BY Zenon, <1>1, <1>5, <2>1, CloseStep DEF FailTransportEpoch
<1>6. ASSUME NEW c \in DirectRoutes, ExpireDirectCandidate(c) PROVE IInv'
  BY Zenon, <1>1, <1>3, <1>6, CloseStep DEF ExpireDirectCandidate
<1>7. ASSUME NEW s \in Routes, OfferReply(s) PROVE IInv'
  <2> DEFINE c == offer[s].to
  <2>1. c \in DirectRoutes
    BY <1>1, <1>7 DEF OfferReply, NoOffer
  <2>2. /\ offer' \in [Routes -> {NoOffer} \cup [op : {"accepting", "replying"}, to : DirectRoutes]]
        /\ \A x \in Routes : offer'[x] \in {offer[x], NoOffer}
        /\ UNCHANGED <<devices, thread, commit, revoke>>
    BY Zenon, <1>1, <1>7 DEF OfferReply
  <2>3. \E gone \in SUBSET Routes : Close(gone) /\ \A x \in gone : sess[x].state # "unborn"
    <3>1. CASE UNCHANGED <<sess, sessions, byDevice, links>>
      <4>1. Close({})
        BY <1>0, <3>1 DEF Close, TypeOK
      <4> QED BY Zenon, <4>1
    <3>2. CASE Close(Expired(c))
      BY Zenon, <1>3, <2>1, <3>2
    <3> QED BY Zenon, <1>7, <3>1, <3>2 DEF OfferReply
  <2> HIDE DEF c
  <2> QED BY Zenon, <1>1, <2>2, <2>3, CloseStep
<1>8. ASSUME NEW c \in DirectRoutes, DirectClose(c) PROVE IInv'
  <2>1. CASE sessions[c] # None /\ sess[sessions[c]].link = c
    <3>1. sessions[c] \in Routes /\ sess[sessions[c]].state # "unborn"
      BY Zenon, <2>1, Found DEF Routes
    <3> QED BY Zenon, <1>1, <1>8, <2>1, <3>1, CloseStep DEF DirectClose
  <2>2. CASE ~(sessions[c] # None /\ sess[sessions[c]].link = c)
    <3>1. links' \in SUBSET links
          /\ UNCHANGED <<devices, sess, sessions, byDevice, thread, offer, commit, revoke>>
      BY Zenon, <1>8, <2>2 DEF DirectClose
    <3>2. TypeOK' /\ LinkInv'
      BY Zenon, <1>0, <3>1 DEF TypeOK, IInv, LinkInv
    <3>3. OfferInv'
      BY Zenon, <3>1 DEF IInv, OfferInv
    <3>4. CommitInv'
      BY Zenon, <3>1 DEF IInv, CommitInv
    <3> QED BY Zenon, <3>1, <3>2, <3>3, <3>4, Untouched DEF IInv
  <2> QED BY Zenon, <2>1, <2>2
<1> QED BY Zenon, <1>4, <1>5, <1>6, <1>7, <1>8

(* A new relay route keeps IInv.                                           *)
LEMMA SessionBoundStep ==
  ASSUME IInv, NEW r \in RelayRoutes, SessionBound(r)
  PROVE  IInv'
<1> DEFINE rec == [sess[r] EXCEPT !.state = "resumehello"]
<1> USE SessionAssumption
<1>0. TypeOK /\ r \in Routes /\ sess[r] \in Session /\ sess[r].state = "unborn"
  BY Zenon DEF IInv, TypeOK, Routes, SessionBound
<1>1. /\ rec \in Session /\ rec.state = "resumehello" /\ rec.dev = sess[r].dev
      /\ rec.route = sess[r].route /\ rec.transport = sess[r].transport
      /\ rec.link = sess[r].link /\ rec.upgradeFrom = sess[r].upgradeFrom
      /\ rec.epochFailed = sess[r].epochFailed
  BY Zenon, <1>0 DEF Session, States
<1>2. sess' = [sess EXCEPT ![r] = rec] /\ sessions' = [sessions EXCEPT ![r] = r]
  BY Zenon DEF SessionBound
<1>3. UNCHANGED <<devices, byDevice, links, thread, offer, commit, revoke>>
  BY Zenon DEF SessionBound
<1> HIDE DEF rec
<1>4. \A x \in Routes : sess'[x] = IF x = r THEN rec ELSE sess[x]
  BY Zenon, <1>0, <1>2 DEF TypeOK
<1>5. sessions[r] = None
  BY Zenon, <1>0, Found
<1>6. \A x \in Routes : sessions'[x] = IF x = r THEN r ELSE sessions[x]
  BY Zenon, <1>0, <1>2 DEF TypeOK
<1>7. TypeOK'
  BY Zenon, <1>0, <1>1, <1>2, <1>3 DEF TypeOK
<1>8. RelayObjects'
  BY <1>0, <1>1, <1>4 DEF IInv, RelayObjects, Routes, Authenticated
<1>9. DirectObjects'
  BY <1>4 DEF IInv, DirectObjects, Routes
<1>10. TableInv'
  <2>1. sess[r].route = r
    BY Zenon, <1>0 DEF IInv, RelayObjects
  <2>2. \A x \in Routes : sessions[x] # None => sessions[x] # r /\ sessions[x] \in Routes
    BY Zenon, <1>0, Found
  <2> QED BY <1>1, <1>4, <1>6, <2>1, <2>2 DEF IInv, TableInv, Active
<1>11. IndexInv' /\ LinkInv'
  <2>1. \A x \in Routes : sessions[x] # None =>
           sessions'[x] = sessions[x] /\ sess'[sessions[x]] = sess[sessions[x]]
    BY <1>0, <1>4, <1>5, <1>6, Found
  <2>2. IndexInv'
    BY <1>0, <1>3, <2>1 DEF IInv, IndexInv, TypeOK
  <2>3. LinkInv'
    BY <1>0, <1>3, <2>1 DEF IInv, LinkInv, TypeOK, Routes
  <2> QED BY Zenon, <2>2, <2>3
<1>12. OfferInv'
  <2>1. \A x \in DirectRoutes : sess'[x] = sess[x]
    BY Zenon, <1>4 DEF Routes
  <2> QED BY Zenon, <1>0, <1>3, <2>1 DEF IInv, OfferInv, TypeOK, NoOffer
<1>13. CommitInv'
  <2>1. \A x \in Routes : sess[x].state # "unborn" => sess'[x] = sess[x]
    BY Zenon, <1>0, <1>4
  <2> QED BY <1>0, <1>3, <2>1 DEF IInv, CommitInv, TypeOK, Routes
<1>14. ThreadInv' /\ EpochInv'
  BY Zenon, <1>0, <1>1, <1>3, <1>4 DEF IInv, ThreadInv, EpochInv
<1> QED BY Zenon, <1>7, <1>8, <1>9, <1>10, <1>11, <1>12, <1>13, <1>14 DEF IInv

(* Steps that change no session: an offer begins or fails, a commit is     *)
(* validated, a revocation is recorded.                                    *)
LEMMA BookkeepingSteps ==
  ASSUME IInv,
         \/ \E s \in Routes, c \in DirectRoutes : OfferBegin(s, c) \/ CommitBegin(s, c)
         \/ \E s \in Routes : OfferFails(s)
         \/ \E d \in Devices : MarkRevoked(d) \/ CollectRoutes(d) \/ RevokeAgain(d)
  PROVE  IInv'
<1> USE SessionAssumption
<1>0. TypeOK
  BY Zenon DEF IInv
<1>1. \A s \in Routes : /\ sess[s].transport = "relay" /\ Established(s) =>
                           s \in RelayRoutes /\ sess[s].route = s
  BY Zenon DEF IInv, RelayObjects, DirectObjects, Established, Routes
<1>2. SUFFICES ASSUME UNCHANGED <<sess, sessions, byDevice, links, thread>>
               PROVE  TypeOK' /\ OfferInv' /\ CommitInv'
  <2>1. UNCHANGED <<sess, sessions, byDevice, links, thread>>
    BY Zenon DEF OfferBegin, CommitBegin, OfferFails, MarkRevoked, CollectRoutes, RevokeAgain
  <2>2. LinkInv'
    BY Zenon, <2>1 DEF IInv, LinkInv
  <2> QED BY Zenon, <1>2, <2>1, <2>2, Untouched DEF IInv
<1>3. ASSUME NEW s \in Routes, NEW c \in DirectRoutes, OfferBegin(s, c)
      PROVE  TypeOK' /\ OfferInv' /\ CommitInv'
  <2>1. /\ offer' = [offer EXCEPT ![s] = [op |-> "accepting", to |-> c]]
        /\ s \in RelayRoutes /\ sess[c].state = "unborn" /\ c # None
        /\ \A p \in Routes : offer[p].to # c
        /\ UNCHANGED <<devices, commit, revoke>>
    BY Zenon, <1>1, <1>3 DEF OfferBegin, Routes
  <2>2. TypeOK'
    BY Zenon, <1>0, <1>2, <2>1 DEF TypeOK
  <2>3. OfferInv'
    <3>1. \A p \in Routes : offer'[p] = IF p = s THEN [op |-> "accepting", to |-> c] ELSE offer[p]
      BY Zenon, <1>0, <2>1 DEF TypeOK
    <3> QED BY <1>2, <2>1, <3>1 DEF IInv, OfferInv
  <2> QED BY Zenon, <1>2, <2>1, <2>2, <2>3 DEF IInv, CommitInv
<1>4. ASSUME NEW s \in Routes, OfferFails(s) PROVE TypeOK' /\ OfferInv' /\ CommitInv'
  <2>1. offer' = [offer EXCEPT ![s] = NoOffer] /\ UNCHANGED <<devices, commit, revoke>>
    BY Zenon, <1>4 DEF OfferFails
  <2>2. \A p \in Routes : offer'[p] = IF p = s THEN NoOffer ELSE offer[p]
    BY Zenon, <1>0, <2>1 DEF TypeOK
  <2>3. TypeOK'
    BY Zenon, <1>0, <1>2, <2>1 DEF TypeOK
  <2>4. OfferInv'
    <3>1. \A p \in Routes : offer[p] # NoOffer => offer[p].to \in DirectRoutes /\ offer[p].to # None
      BY Zenon, <1>0 DEF TypeOK, Routes
    <3>2. NoOffer.to = None
      BY Zenon DEF NoOffer
    <3> QED BY Zenon, <1>2, <2>2, <3>1, <3>2 DEF IInv, OfferInv
  <2> QED BY Zenon, <1>2, <2>1, <2>3, <2>4 DEF IInv, CommitInv
<1>5. ASSUME NEW s \in Routes, NEW c \in DirectRoutes, CommitBegin(s, c)
      PROVE  TypeOK' /\ OfferInv' /\ CommitInv'
  <2>1. /\ commit' = [commit EXCEPT ![s] = c]
        /\ s \in RelayRoutes /\ sess[s].route = s
        /\ sess[s].state = "established" /\ sess[s].transport = "relay"
        /\ sess[c].state = "upgrade_ready" /\ sess[c].upgradeFrom = s /\ sess[c].dev = sess[s].dev
        /\ UNCHANGED <<devices, offer, revoke>>
    BY Zenon, <1>1, <1>5 DEF CommitBegin, Established
  <2>2. \A p \in Routes : commit'[p] = IF p = s THEN c ELSE commit[p]
    BY Zenon, <1>0, <2>1 DEF TypeOK
  <2>3. TypeOK'
    BY Zenon, <1>0, <1>2, <2>1 DEF TypeOK
  <2> QED BY <1>2, <2>1, <2>2, <2>3 DEF IInv, OfferInv, CommitInv
<1>6. ASSUME NEW d \in Devices, MarkRevoked(d) \/ CollectRoutes(d) \/ RevokeAgain(d)
      PROVE  TypeOK' /\ OfferInv' /\ CommitInv'
  <2>1. UNCHANGED <<offer, commit>>
    BY Zenon, <1>6 DEF MarkRevoked, CollectRoutes, RevokeAgain
  <2>2. devices' \in [Devices -> {"paired", "revoked"}]
    BY <1>0, <1>6 DEF TypeOK, MarkRevoked, CollectRoutes, RevokeAgain
  <2>3. revoke' \in [Devices -> [op : {"no", "marked", "unclosed", "closing"}, left : SUBSET Routes]]
    <3>1. revoke \in [Devices -> [op : {"no", "marked", "unclosed", "closing"}, left : SUBSET Routes]]
      BY Zenon, <1>0 DEF TypeOK
    <3>2. CASE MarkRevoked(d)
      BY <3>1, <3>2 DEF MarkRevoked
    <3>3. CASE CollectRoutes(d)
      BY Zenon, <3>1, <3>3 DEF CollectRoutes
    <3>4. CASE RevokeAgain(d)
      BY Zenon, <3>1, <3>4 DEF RevokeAgain
    <3> QED BY Zenon, <1>6, <3>2, <3>3, <3>4
  <2> QED BY <1>0, <1>2, <2>1, <2>2, <2>3 DEF TypeOK, IInv, OfferInv, CommitInv
<1> QED BY Zenon, <1>3, <1>4, <1>5, <1>6

(* A new candidate, in place of an older one, keeps IInv.                  *)
LEMMA OfferAcceptedStep ==
  ASSUME IInv, NEW s \in Routes, OfferAccepted(s)
  PROVE  IInv'
<1> DEFINE c == offer[s].to
           old == Candidates(sess[s].route)
<1> USE SessionAssumption
<1>0. TypeOK /\ sess[s] \in Session /\ offer[s].op = "accepting"
  BY Zenon DEF IInv, TypeOK, OfferAccepted
<1>1. /\ c \in DirectRoutes /\ c \in Routes /\ s \in RelayRoutes /\ sess[c].state = "unborn"
      /\ \A p \in Routes : offer[p].to = c => p = s
  BY <1>0 DEF TypeOK, IInv, OfferInv, Routes, NoOffer
<1>2. CASE ~Established(s)
  <2>1. OfferFails(s)
    BY Zenon, <1>2 DEF OfferAccepted, OfferFails
  <2> QED BY Zenon, <2>1, BookkeepingSteps
<1>3. CASE Established(s)
  <2>1. sess[s].state = "established" /\ sess[s].dev \in Devices /\ sess[s].route \in Routes
    BY Zenon, <1>0, <1>1, <1>3 DEF Established, IInv, RelayObjects, Authenticated, Session
  <2>2. \A x \in old : /\ x \in DirectRoutes /\ x \in Routes /\ sessions[x] = x /\ x # c
                       /\ sess[x].link = x /\ sess[x].state \in Active
    <3> SUFFICES ASSUME NEW x \in old
                 PROVE  /\ x \in DirectRoutes /\ x \in Routes /\ sessions[x] = x /\ x # c
                        /\ sess[x].link = x /\ sess[x].state \in Active
      OBVIOUS
    <3>1. x \in Routes /\ Live(x) /\ sess[x].upgradeFrom # None /\ sess[x].route \in Routes
      BY <1>0, <2>1 DEF Candidates, TypeOK, Session
    <3>2. x \in DirectRoutes /\ sess[x].route = x
      BY Zenon, <3>1 DEF IInv, RelayObjects, DirectObjects, Routes
    <3>3. sessions[x] = x /\ x # None
      BY Zenon, <3>1, <3>2 DEF Live
    <3>4. sess[x].state \in Active /\ x # c
      BY <3>1, <3>3, <1>1, Found
    <3> QED BY Zenon, <3>1, <3>2, <3>3, <3>4 DEF IInv, DirectObjects
  <2>3. /\ sess' = [x \in Routes |-> IF x = c THEN Candidate(s, c)
                                     ELSE IF x \in old THEN Wiped(sess[x]) ELSE sess[x]]
        /\ sessions' = [r \in Routes |-> IF r = c THEN c ELSE IF sessions[r] \in old THEN None
                                         ELSE sessions[r]]
        /\ links' = (links \ {sess[x].link : x \in old}) \cup {c}
        /\ offer' = [offer EXCEPT ![s].op = "replying"]
        /\ UNCHANGED <<devices, byDevice, thread, commit, revoke>>
    BY Zenon, <1>3 DEF OfferAccepted
  <2>4. sessions[c] = None
    <3> SUFFICES ASSUME sessions[c] # None PROVE FALSE
      OBVIOUS
    <3>1. sessions[c] \in Routes /\ sess[sessions[c]].route = c /\ sessions[c] # c
      BY <1>1, Found DEF Active
    <3>2. sess[sessions[c]].state = "established" /\ sess[sessions[c]].transport \in {"relay", "p2p"}
      BY Zenon, <1>0, <1>1, <3>1, Found DEF Session, TypeOK
    <3>3. sessions[c] \in RelayRoutes
      BY Zenon, <3>1, <3>2 DEF IInv, DirectObjects, Routes
    <3>4. sess[sessions[c]].transport = "p2p"
      BY Zenon, <1>1, <3>1, <3>2, <3>3 DEF IInv, RelayObjects
    <3> QED BY Zenon, <1>1, <3>1, <3>3, <3>4 DEF IInv, RelayObjects
  <2>5. /\ Candidate(s, c) \in Session /\ Candidate(s, c).state = "resumehello"
        /\ Candidate(s, c).dev = sess[s].dev /\ Candidate(s, c).route = c
        /\ Candidate(s, c).transport = "p2p" /\ Candidate(s, c).upgradeFrom = s
        /\ Candidate(s, c).link = c /\ Candidate(s, c).epochFailed = FALSE
    BY Zenon, <1>1, <2>1 DEF Candidate, Session, States, Routes
  <2> HIDE DEF c, old
  <2>6. \A x \in Routes : sess[x] \in Session
    BY Zenon, <1>0 DEF TypeOK
  <2>7. \A x \in Routes :
          /\ x = c => sess'[x] = Candidate(s, c)
          /\ x # c /\ x \notin old => sess'[x] = sess[x]
          /\ x \in old => /\ sess'[x] \in Session /\ sess'[x].state = "closed"
                          /\ sess'[x].dev = sess[x].dev /\ sess'[x].route = sess[x].route
                          /\ sess'[x].upgradeFrom = sess[x].upgradeFrom
    BY Zenon, <1>1, <2>2, <2>3, <2>6, WipeFields
  <2>8. \A r \in Routes :
          /\ r = c => sessions'[r] = c
          /\ r \in old => sessions'[r] = None
          /\ r # c /\ r \notin old => sessions'[r] = sessions[r] /\ sessions[r] \notin old /\ sessions[r] # c
    <3>1. \A r \in Routes : sessions[r] # None => sess[sessions[r]].route = r
      BY Zenon, Found
    <3>2. \A x \in old : sess[x].route = x /\ x # None
      BY <2>2 DEF IInv, DirectObjects, Routes
    <3>3. sess[c].route = c /\ c # None
      BY Zenon, <1>1 DEF IInv, DirectObjects
    <3> QED BY <2>2, <2>3, <3>1, <3>2, <3>3
  <2>9. TypeOK'
    <3>1. sess' \in [Routes -> Session]
      BY Zenon, <2>3, <2>5, <2>6, <2>7
    <3>2. sessions' \in [Routes -> Routes \cup {None}]
      BY Zenon, <1>0, <1>1, <2>3 DEF TypeOK
    <3>3. offer' \in [Routes -> {NoOffer} \cup [op : {"accepting", "replying"}, to : DirectRoutes]]
      <4>1. offer[s] \in [op : {"accepting", "replying"}, to : DirectRoutes]
        BY <1>0 DEF TypeOK, NoOffer
      <4> QED BY Zenon, <1>0, <2>3, <4>1 DEF TypeOK
    <3> QED BY <1>0, <1>1, <2>3, <3>1, <3>2, <3>3 DEF TypeOK
  <2>10. RelayObjects'
    <3>1. \A x \in RelayRoutes : sess'[x] = sess[x]
      BY <1>1, <2>2, <2>7 DEF Routes
    <3>2. \A x \in Routes : sess[x].state = "closed" => sess'[x].state = "closed"
      BY Zenon, <1>1, <2>7
    <3>3. \A x \in RelayRoutes : sess[x].transport = "p2p" => sess[x].route \in Routes
      BY Zenon DEF IInv, RelayObjects, Routes
    <3> QED BY <3>1, <3>2, <3>3 DEF IInv, RelayObjects
  <2>11. DirectObjects'
    BY <1>1, <2>1, <2>5, <2>7 DEF IInv, DirectObjects, Routes, Active
  <2>12. TableInv'
    BY <1>0, <1>1, <2>5, <2>7, <2>8 DEF IInv, TableInv, TypeOK, Active
  <2>13. IndexInv'
    <3> SUFFICES ASSUME NEW d \in Devices, byDevice[d] # None
                 PROVE  /\ sessions'[byDevice[d]] # None
                        /\ sess'[sessions'[byDevice[d]]].dev = d
                        /\ sess'[sessions'[byDevice[d]]].state = "established"
      BY <2>3, ZenonT(60) DEF IndexInv
    <3>1. /\ byDevice[d] \in Routes /\ sessions[byDevice[d]] # None /\ sessions[byDevice[d]] \in Routes
          /\ sess[sessions[byDevice[d]]].dev = d
          /\ sess[sessions[byDevice[d]]].state = "established"
      BY <1>0 DEF IInv, IndexInv, TypeOK
    <3>2. byDevice[d] # c /\ byDevice[d] \notin old
      <4>1. \A x \in old : sess[sessions[x]].state # "established"
        BY <2>2 DEF IInv, DirectObjects
      <4> QED BY Zenon, <2>4, <3>1, <4>1
    <3> QED BY <2>7, <2>8, <3>1, <3>2
  <2>14. OfferInv'
    <3>1. \A p \in Routes :
            /\ offer'[p].to = offer[p].to
            /\ p # s => offer'[p] = offer[p]
            /\ p = s => offer'[p].op = "replying"
      BY <1>0, <2>3 DEF TypeOK, NoOffer
    <3>2. \A x \in Routes : x # c /\ sess[x].state = "unborn" => sess'[x].state = "unborn"
      BY Zenon, <2>2, <2>7 DEF Active
    <3>3. \A p \in Routes : p # s => offer[p].to # c
      BY Zenon, <1>1 DEF c
    <3>4. \A p \in Routes : offer[p] # NoOffer => offer[p].to \in Routes
      BY Zenon, <1>0 DEF TypeOK, Routes
    <3>5. offer[s] # NoOffer
      BY <1>0 DEF NoOffer
    <3> QED BY <3>1, <3>2, <3>3, <3>4, <3>5 DEF IInv, OfferInv
  <2>15. CommitInv'
    <3>1. \A p \in Routes : commit[p] # None => commit[p] \in Routes /\ commit[p] # c /\ p # c /\ p \notin old
      BY <1>0, <1>1, <2>2 DEF IInv, CommitInv, TypeOK, Routes
    <3> QED BY <2>3, <2>7, <3>1 DEF IInv, CommitInv
  <2>16. LinkInv'
    <3>1. \A x \in old : x \notin links' 
      BY Zenon, <2>2, <2>3
    <3>2. \A x \in links : x \in Routes /\ sessions[x] # None /\ sess[sessions[x]].link = x /\ sessions[x] \in Routes
      BY <1>0 DEF IInv, LinkInv, TypeOK, Routes
    <3> QED BY <1>1, <2>3, <2>5, <2>7, <2>8, <3>1, <3>2 DEF LinkInv
  <2>17. ThreadInv' /\ EpochInv'
    <3>1. \A x \in Routes : sess'[x].state = "unborn" => sess[x].state = "unborn" /\ sess'[x] = sess[x]
      BY Zenon, <2>5, <2>7
    <3> QED BY Zenon, <2>3, <2>5, <3>1 DEF IInv, ThreadInv, EpochInv
  <2> QED BY Zenon, <2>9, <2>10, <2>11, <2>12, <2>13, <2>14, <2>15, <2>16, <2>17 DEF IInv
<1> QED BY Zenon, <1>2, <1>3

(* What the two ends of a commit are when the switch finds them both in    *)
(* the table.                                                              *)
LEMMA CommitEnds ==
  ASSUME IInv, NEW s \in Routes, commit[s] # None, Live(s), Live(commit[s])
  PROVE  /\ s \in RelayRoutes /\ sess[s].state = "established" /\ sess[s].transport = "relay"
         /\ sess[s].route = s /\ sessions[s] = s /\ sess[s].dev \in Devices
         /\ commit[s] \in DirectRoutes /\ sessions[commit[s]] = commit[s]
         /\ sess[commit[s]].state = "upgrade_ready" /\ sess[commit[s]].route = commit[s]
         /\ sess[commit[s]].link = commit[s] /\ sess[commit[s]].keys = commit[s]
         /\ sess[commit[s]].upgradeFrom = s /\ sess[commit[s]].dev = sess[s].dev
<1> DEFINE c == commit[s]
<1> USE SessionAssumption
<1>1. /\ s \in RelayRoutes /\ c \in DirectRoutes /\ s \in Routes /\ c \in Routes
      /\ sess[s].transport = "relay" /\ sess[s].state \in {"established", "closed"}
      /\ sess[c].state \in {"upgrade_ready", "closed"} /\ sess[c].upgradeFrom = s
      /\ sess[c].dev = sess[s].dev /\ s # None /\ c # None
  BY DEF IInv, TypeOK, CommitInv, Routes
<1>2. sess[s].route = s /\ sess[c].route = c
  BY Zenon, <1>1 DEF IInv, RelayObjects, DirectObjects
<1>3. sessions[s] = s /\ sessions[c] = c
  BY Zenon, <1>1, <1>2 DEF Live
<1>4. sess[s].state = "established" /\ sess[c].state = "upgrade_ready"
  BY Zenon, <1>1, <1>3, Found DEF Active
<1> QED BY Zenon, <1>1, <1>2, <1>3, <1>4 DEF IInv, RelayObjects, DirectObjects, Authenticated, Active

(* The switch to the direct route keeps IInv.                              *)
LEMMA CommitSwitchStep ==
  ASSUME IInv, NEW s \in Routes, CommitSwitch(s)
  PROVE  IInv'
<1> DEFINE c == commit[s]
           d == sess[s].dev
<1> USE SessionAssumption
<1>0. TypeOK /\ c # None /\ sess \in [Routes -> Session]
  BY Zenon DEF IInv, CommitSwitch, TypeOK
<1>1. /\ commit' = [commit EXCEPT ![s] = None] /\ UNCHANGED <<devices, links, thread, offer, revoke>>
      /\ commit' \in [Routes -> DirectRoutes \cup {None}]
      /\ \A x \in Routes : commit'[x] = IF x = s THEN None ELSE commit[x]
  BY Zenon, <1>0 DEF CommitSwitch, TypeOK
<1>2. CASE ~(Live(s) /\ Live(c))
  <2>1. UNCHANGED <<sess, sessions, byDevice>>
    BY Zenon, <1>2 DEF CommitSwitch
  <2>2. TypeOK' /\ CommitInv'
    BY <1>0, <1>1, <2>1 DEF TypeOK, IInv, CommitInv
  <2>3. OfferInv' /\ LinkInv'
    BY Zenon, <1>1, <2>1 DEF IInv, OfferInv, LinkInv
  <2> QED BY Zenon, <1>1, <2>1, <2>2, <2>3, Untouched DEF IInv
<1>3. CASE Live(s) /\ Live(c)
  <2>1. /\ s \in RelayRoutes /\ sess[s].state = "established" /\ sess[s].transport = "relay"
        /\ sess[s].route = s /\ sessions[s] = s /\ d \in Devices
        /\ c \in DirectRoutes /\ sessions[c] = c
        /\ sess[c].state = "upgrade_ready" /\ sess[c].route = c
        /\ sess[c].link = c /\ sess[c].keys = c
        /\ sess[c].upgradeFrom = s /\ sess[c].dev = d
    BY Zenon, <1>0, <1>3, CommitEnds
  <2>2. /\ sess' = [sess EXCEPT ![s] = Committed(s, c), ![c] = Spent(c)]
        /\ sessions' = [sessions EXCEPT ![s] = None, ![c] = s]
        /\ byDevice' = [byDevice EXCEPT ![d] = c]
    BY Zenon, <1>3, <2>1 DEF CommitSwitch
  <2>3. /\ Committed(s, c) \in Session /\ Committed(s, c).state = "established"
        /\ Committed(s, c).dev = d /\ Committed(s, c).route = c
        /\ Committed(s, c).transport = "p2p" /\ Committed(s, c).upgradeFrom = None
        /\ Committed(s, c).link = c /\ Committed(s, c).keys = c
    BY Zenon, <1>0, <2>1 DEF Committed, Session, States, Routes
  <2>4. Spent(c) \in Session /\ Spent(c).state = "closed" /\ Spent(c).route = c
    BY Zenon, <1>0, <2>1 DEF Spent, Session, States, Routes
  <2> HIDE DEF c, d
  <2>5. s # c /\ c \in Routes /\ c # None /\ s # None
    BY Zenon, <2>1 DEF Routes
  <2>6. \A x \in Routes : sess'[x] = IF x = s THEN Committed(s, c) ELSE IF x = c THEN Spent(c) ELSE sess[x]
    BY Zenon, <1>0, <2>2, <2>5
  <2>7. \A r \in Routes : sessions'[r] = IF r = s THEN None ELSE IF r = c THEN s ELSE sessions[r]
    BY Zenon, <1>0, <2>2, <2>5 DEF TypeOK
  <2>8. \A r \in Routes : r # s /\ r # c /\ sessions[r] # None =>
           sessions[r] # s /\ sessions[r] # c /\ sessions[r] \in Routes
    BY <2>1, Found
  <2>9. TypeOK'
    BY Zenon, <1>0, <1>1, <2>1, <2>2, <2>3, <2>4, <2>5 DEF TypeOK
  <2>10. RelayObjects'
    <3>1. \A x \in Routes : sess[x].state = "closed" => sess'[x].state = "closed"
      BY Zenon, <2>1, <2>4, <2>6
    <3>2. \A x \in RelayRoutes : x # s => sess'[x] = sess[x]
      BY Zenon, <2>1, <2>6 DEF Routes
    <3>3. \A x \in RelayRoutes : sess[x].transport = "p2p" => sess[x].route \in Routes
      BY Zenon DEF IInv, RelayObjects, Routes
    <3>4. sess'[s] = Committed(s, c) /\ sess'[c].state = "closed"
      BY Zenon, <2>4, <2>5, <2>6
    <3> QED BY <2>1, <2>3, <3>1, <3>2, <3>3, <3>4 DEF IInv, RelayObjects
  <2>11. DirectObjects'
    BY <2>1, <2>4, <2>6 DEF IInv, DirectObjects, Routes, Active
  <2>12. TableInv'
    BY <2>3, <2>5, <2>6, <2>7, <2>8 DEF IInv, TableInv, Active
  <2>13. IndexInv'
    <3> SUFFICES ASSUME NEW e \in Devices, byDevice'[e] # None
                 PROVE  /\ sessions'[byDevice'[e]] # None
                        /\ sess'[sessions'[byDevice'[e]]].dev = e
                        /\ sess'[sessions'[byDevice'[e]]].state = "established"
      BY Zenon DEF IndexInv
    <3>1. CASE e = d
      <4>1. byDevice'[e] = c /\ sessions'[c] = s /\ sess'[s] = Committed(s, c)
        BY Zenon, <1>0, <2>1, <2>2, <2>5, <2>6, <2>7, <3>1 DEF TypeOK
      <4> QED BY Zenon, <2>3, <2>5, <3>1, <4>1
    <3>2. CASE e # d
      <4>1. byDevice'[e] = byDevice[e] /\ byDevice[e] \in Routes
        BY Zenon, <1>0, <2>1, <2>2, <3>2 DEF TypeOK
      <4>2. /\ sessions[byDevice[e]] # None /\ sess[sessions[byDevice[e]]].dev = e
            /\ sess[sessions[byDevice[e]]].state = "established"
        BY Zenon, <4>1 DEF IInv, IndexInv
      <4>3. byDevice[e] # s /\ byDevice[e] # c
        BY Zenon, <2>1, <3>2, <4>2 DEF d
      <4>4. sessions'[byDevice[e]] = sessions[byDevice[e]]
        BY Zenon, <2>7, <4>1, <4>3
      <4>5. sess'[sessions[byDevice[e]]] = sess[sessions[byDevice[e]]]
        BY Zenon, <2>6, <2>8, <4>1, <4>2, <4>3
      <4> QED BY <4>1, <4>2, <4>4, <4>5, Zenon
    <3> QED BY Zenon, <3>1, <3>2
  <2>14. OfferInv'
    <3>1. \A x \in Routes : sess[x].state = "unborn" => sess'[x] = sess[x]
      BY Zenon, <2>1, <2>6
    <3>2. \A p \in Routes : offer[p] # NoOffer => offer[p].to \in Routes
      BY Zenon, <1>0 DEF TypeOK, Routes
    <3> QED BY Zenon, <1>1, <3>1, <3>2 DEF IInv, OfferInv
  <2>15. CommitInv'
    <3> SUFFICES ASSUME NEW p \in Routes, commit'[p] # None
                 PROVE  /\ p \in RelayRoutes
                        /\ sess'[p].state \in {"established", "closed"} /\ sess'[p].transport = "relay"
                        /\ sess'[commit'[p]].state \in {"upgrade_ready", "closed"}
                        /\ sess'[commit'[p]].upgradeFrom = p
                        /\ sess'[commit'[p]].dev = sess'[p].dev
      BY Zenon DEF CommitInv
    <3>1. p # s /\ commit'[p] = commit[p] /\ commit[p] \in DirectRoutes /\ commit[p] \in Routes
      BY Zenon, <1>0, <1>1 DEF TypeOK, Routes
    <3>2. /\ p \in RelayRoutes
          /\ sess[p].state \in {"established", "closed"} /\ sess[p].transport = "relay"
          /\ sess[commit[p]].state \in {"upgrade_ready", "closed"}
          /\ sess[commit[p]].upgradeFrom = p
          /\ sess[commit[p]].dev = sess[p].dev
      BY Zenon, <3>1 DEF IInv, CommitInv
    <3>3. commit[p] # c /\ commit[p] # s /\ p # c
      BY Zenon, <2>1, <3>1, <3>2
    <3> QED BY Zenon, <2>6, <3>1, <3>2, <3>3
  <2>16. LinkInv'
    <3> SUFFICES ASSUME NEW x \in links PROVE sessions'[x] # None /\ sess'[sessions'[x]].link = x
      BY Zenon, <1>1 DEF LinkInv
    <3>1. x \in DirectRoutes /\ x \in Routes /\ x # s /\ sessions[x] # None /\ sess[sessions[x]].link = x
      BY <1>0, <2>1 DEF IInv, LinkInv, TypeOK, Routes
    <3> QED BY <2>3, <2>5, <2>6, <2>7, <2>8, <3>1
  <2>17. ThreadInv' /\ EpochInv'
    <3>1. \A x \in Routes : sess'[x].state = "unborn" => sess[x].state = "unborn" /\ sess'[x] = sess[x]
      BY Zenon, <2>3, <2>4, <2>6
    <3> QED BY Zenon, <1>1, <3>1 DEF IInv, ThreadInv, EpochInv
  <2> QED BY Zenon, <2>9, <2>10, <2>11, <2>12, <2>13, <2>14, <2>15, <2>16, <2>17 DEF IInv
<1> QED BY Zenon, <1>2, <1>3

(* Every step of the daemon, and a step of nothing, keeps the invariant.   *)
LEMMA IInvStep == IInv /\ [Next]_vars => IInv'
<1> SUFFICES ASSUME IInv, [Next]_vars PROVE IInv'
  OBVIOUS
<1>1. CASE UNCHANGED vars
  <2>1. TypeOK'
    BY <1>1 DEF vars, IInv, TypeOK
  <2>2. OfferInv' /\ CommitInv' /\ LinkInv'
    BY <1>1 DEF vars, IInv, OfferInv, CommitInv, LinkInv
  <2> QED BY Zenon, <1>1, <2>1, <2>2, Untouched DEF vars, IInv
<1>2. ASSUME NEW t \in Threads, Frame(t) PROVE IInv'
  BY Zenon, <1>2, Hello1Step, BadHelloStep, AnnounceStep, OpenFrameStep, ClosingSteps DEF Frame
<1>3. ASSUME NEW r \in RelayRoutes, SessionBound(r) \/ FinishHello3(r) \/ RelayError(r) PROVE IInv'
  BY Zenon, <1>3, SessionBoundStep, FinishHello3Step, ClosingSteps
<1>4. ASSUME NEW c \in DirectRoutes, FinishHello3Direct(c) \/ ExpireDirectCandidate(c) \/ DirectClose(c)
      PROVE  IInv'
  BY Zenon, <1>4, FinishHello3DirectStep, DroppingSteps
<1>5. ASSUME NEW s \in Routes, SendFails(s) \/ FailTransportEpoch(s) PROVE IInv'
  BY Zenon, <1>5, SendFailsStep, DroppingSteps
<1>6. ASSUME NEW s \in Routes, Upgrade(s) PROVE IInv'
  BY Zenon, <1>6, BookkeepingSteps, OfferAcceptedStep, DroppingSteps, SendFailsStep, CommitSwitchStep DEF Upgrade
<1>7. ASSUME NEW d \in Devices, Revocation(d) PROVE IInv'
  BY Zenon, <1>7, BookkeepingSteps, ClosingSteps DEF Revocation
<1>8. CASE Kick \/ ResetTransport
  BY Zenon, <1>8, ClosingSteps, DroppingSteps
<1> QED BY Zenon, <1>1, <1>2, <1>3, <1>4, <1>5, <1>6, <1>7, <1>8 DEF Next

(* IInv holds in every reachable state of the session table.               *)
LEMMA IInvAlways == Spec => []IInv
BY InitIInv, IInvStep, PTL DEF Spec

-----------------------------------------------------------------------------
(* Every variable of the session table keeps its type.                     *)
THEOREM TypeCorrect == Spec => []TypeOK
<1>1. IInv => TypeOK
  BY Zenon DEF IInv
<1> QED BY <1>1, IInvAlways, PTL

(* e.sessions, the sessions' own routes and states, and e.byDevice agree   *)
(* whatever handshakes, upgrades, failures and revocations interleave.     *)
THEOREM TableCoherentHolds == Spec => []TableCoherent
<1>1. IInv => TableCoherent
  BY Zenon DEF IInv, TableInv, IndexInv, TableCoherent, Active
<1> QED BY <1>1, IInvAlways, PTL

(* An established session seals with the keys agreed over the transport it *)
(* sends on, also while commits and failures race.                         *)
THEOREM KeysMatchTransportHolds == Spec => []KeysMatchTransport
<1>1. IInv => KeysMatchTransport
  <2> SUFFICES ASSUME IInv, NEW s \in Routes, Established(s)
               PROVE  IF sess[s].transport = "relay"
                      THEN sess[s].keys = s /\ sess[s].link = None /\ sess[s].route = s
                      ELSE sess[s].keys = sess[s].link /\ sess[s].link = sess[s].route
    BY Zenon DEF KeysMatchTransport
  <2>1. s \in RelayRoutes /\ sess[s].state = "established"
    BY Zenon DEF Established, IInv, DirectObjects, Routes
  <2>2. sess[s].transport \in {"relay", "p2p"}
    BY Zenon DEF IInv, TypeOK, Session
  <2> QED BY Zenon, <2>1, <2>2 DEF IInv, RelayObjects
<1> QED BY <1>1, IInvAlways, PTL

(* An open direct link belongs to exactly one session of the table.        *)
THEOREM LinksAreOwnedHolds == Spec => []LinksAreOwned
<1>1. IInv => LinksAreOwned
  <2> SUFFICES ASSUME IInv, NEW c \in links
               PROVE  \E s \in Routes : /\ Live(s) /\ sess[s].link = c
                                       /\ \A o \in Routes : Live(o) /\ sess[o].link = c => o = s
    BY Zenon DEF LinksAreOwned
  <2>1. c \in Routes /\ c # None /\ sessions[c] # None /\ sess[sessions[c]].link = c
    BY Zenon, SessionAssumption DEF IInv, TypeOK, LinkInv, Routes
  <2>2. sessions[c] \in Routes /\ Live(sessions[c])
    BY Zenon, <2>1, Found
  <2>3. ASSUME NEW o \in Routes, Live(o), sess[o].link = c PROVE o = sessions[c]
    <3>1. sess[o].route \in Routes /\ sess[o].transport \in {"relay", "p2p"} /\ o # None
      BY Zenon, SessionAssumption DEF IInv, TypeOK, Session
    <3>2. sess[o].state \in Active
      BY Zenon, <2>3, <3>1, Found DEF Live
    <3>3. sess[o].route = c
      BY <2>1, <2>3, <3>1, <3>2 DEF IInv, RelayObjects, DirectObjects, Routes
    <3> QED BY Zenon, <2>3, <3>3 DEF Live
  <2> QED BY Zenon, <2>1, <2>2, <2>3
<1> QED BY <1>1, IInvAlways, PTL

(* The table, the keys and the peer connections agree in every reachable   *)
(* state: what each handler relies on after it looked a session up.        *)
THEOREM SessionsCoherentHolds == Spec => []SessionsCoherent
BY TableCoherentHolds, KeysMatchTransportHolds, LinksAreOwnedHolds, PTL DEF SessionsCoherent

-----------------------------------------------------------------------------
(* An established session is a relay session object, no candidate, and it  *)
(* is listed where no candidate is.                                        *)
LEMMA EstablishedIsActive ==
  ASSUME IInv, NEW s \in Routes, Established(s)
  PROVE  /\ s \in RelayRoutes /\ sess[s].upgradeFrom = None
         /\ sess[s].route \in Routes /\ sessions[sess[s].route] = s
         /\ sess[s].state = "established"
         /\ sess[s].route \in DirectRoutes => sess[sess[s].route].state = "closed"
<1>1. sess[s].state = "established" /\ sessions[sess[s].route] = s
  BY Zenon DEF Established, Live
<1>2. s \in RelayRoutes
  BY Zenon, <1>1 DEF IInv, DirectObjects, Routes
<1>3. sess[s].route \in Routes /\ sess[s].transport \in {"relay", "p2p"}
  BY Zenon DEF IInv, TypeOK, Session
<1>4. sess[s].route \in DirectRoutes => sess[sess[s].route].state = "closed"
  BY <1>2, <1>3, SessionAssumption DEF IInv, RelayObjects
<1> QED BY Zenon, <1>1, <1>2, <1>3, <1>4 DEF IInv, RelayObjects

(* Closing an expired candidate leaves every established session alone.    *)
LEMMA ExpiryKeeps ==
  ASSUME IInv, NEW c \in DirectRoutes, Close(Expired(c)), NEW s \in Routes, Established(s)
  PROVE  Established(s)'
<1>1. s \notin Expired(c)
  BY EstablishedIsActive, SessionAssumption DEF Expired
<1>2. sess'[s] = sess[s]
  BY Zenon, <1>1 DEF Close
<1>3. sessions'[sess[s].route] = s
  BY <1>1, EstablishedIsActive DEF Close
<1> QED BY Zenon, <1>2, <1>3, EstablishedIsActive DEF Established, Live

(* Accepting an offer replaces candidates, and no established session.     *)
LEMMA OfferKeeps ==
  ASSUME IInv, NEW p \in Routes, OfferAccepted(p), NEW s \in Routes, Established(s)
  PROVE  Established(s)'
<1> DEFINE c == offer[p].to
           old == Candidates(sess[p].route)
<1>1. CASE Established(p)
  <2>1. c \in DirectRoutes /\ sess[c].state = "unborn"
    <3>1. offer[p] # NoOffer /\ offer[p].op = "accepting"
      BY DEF OfferAccepted, NoOffer
    <3> QED BY Zenon, <3>1 DEF IInv, TypeOK, OfferInv
  <2>2. s # c /\ sess[s].route # c
    BY Zenon, <2>1, EstablishedIsActive
  <2>3. s \notin old
    BY <1>1, EstablishedIsActive, SessionAssumption DEF Candidates
  <2>4. sess'[s] = sess[s]
    BY Zenon, <1>1, <2>2, <2>3 DEF OfferAccepted
  <2>5. sessions'[sess[s].route] = s
    BY <1>1, <2>2, <2>3, EstablishedIsActive DEF OfferAccepted
  <2> QED BY Zenon, <2>4, <2>5, EstablishedIsActive DEF Established, Live
<1>2. CASE ~ Established(p)
  BY Zenon, <1>2 DEF OfferAccepted, Established, Live
<1> QED BY Zenon, <1>1, <1>2

(* The switch moves the session onto the route of its candidate, which it  *)
(* stays listed at; the others keep their routes.                          *)
LEMMA SwitchKeeps ==
  ASSUME IInv, NEW p \in Routes, CommitSwitch(p), NEW s \in Routes, Established(s)
  PROVE  Established(s)'
<1> DEFINE c == commit[p]
<1>1. CASE Live(p) /\ Live(c)
  <2>1. /\ c \in DirectRoutes /\ c # None /\ p \in RelayRoutes /\ sess[c].state # "established"
        /\ sess[c].route = c /\ sess[p].route \in Routes
    BY DEF CommitSwitch, IInv, TypeOK, CommitInv, DirectObjects, Session
  <2>2. /\ sess' = [sess EXCEPT ![p] = Committed(p, c), ![c] = Spent(c)]
        /\ sessions' = [sessions EXCEPT ![sess[p].route] = None, ![c] = p]
        /\ p # c /\ c \in Routes /\ sessions[c] = c
    BY Zenon, <1>1, <2>1, SessionAssumption DEF CommitSwitch, Live, Routes
  <2>3. CASE s = p
    <3>1. sess'[s].state = "established" /\ sess'[s].route = c
      <4>1. sess'[p] = Committed(p, c)
        BY Zenon, <2>2 DEF IInv, TypeOK
      <4>2. Committed(p, c).state = sess[p].state /\ Committed(p, c).route = c
        BY Zenon DEF Committed
      <4>3. sess[p].state = "established"
        BY Zenon, <2>3 DEF Established
      <4> QED BY Zenon, <2>3, <4>1, <4>2, <4>3
    <3>2. sessions'[c] = p
      BY Zenon, <2>2 DEF IInv, TypeOK
    <3> QED BY Zenon, <2>3, <3>1, <3>2 DEF Established, Live
  <2>4. CASE s # p
    <3>1. s # c /\ sess[s].route # c /\ sess[s].route # sess[p].route
      BY <1>1, <2>1, <2>2, <2>4, EstablishedIsActive DEF Live
    <3>2. sess'[s] = sess[s] /\ sessions'[sess[s].route] = s
      <4>1. sess[s].route \in Routes /\ sessions[sess[s].route] = s
        BY Zenon, EstablishedIsActive
      <4>2. sess'[s] = sess[s]
        BY Zenon, <2>2, <2>4, <3>1 DEF IInv, TypeOK
      <4>3. sessions'[sess[s].route] = sessions[sess[s].route]
        BY Zenon, <2>2, <3>1, <4>1 DEF IInv, TypeOK
      <4> QED BY Zenon, <4>1, <4>2, <4>3
    <3> QED BY Zenon, <3>2, EstablishedIsActive DEF Established, Live
  <2> QED BY Zenon, <2>3, <2>4
<1>2. CASE ~ (Live(p) /\ Live(c))
  BY Zenon, <1>2 DEF CommitSwitch, Established, Live
<1> QED BY Zenon, <1>1, <1>2

(* rpcTransportOffer, expireDirectCandidate and rpcTransportCommit never   *)
(* end an established session.                                             *)
THEOREM UpgradeKeepsSessionsHolds == Spec => UpgradeKeepsSessions
<1>1. ASSUME IInv, NEW p \in Routes,
             OfferAccepted(p) \/ OfferReply(p) \/ CommitSwitch(p) \/ ExpireDirectCandidate(p),
             NEW s \in Routes, Established(s)
      PROVE  Established(s)'
  <2>1. CASE OfferReply(p)
    <3>1. CASE UNCHANGED <<sess, sessions, byDevice, links>>
      BY Zenon, <1>1, <3>1 DEF Established, Live
    <3>2. CASE Close(Expired(offer[p].to))
      <4>1. offer[p].to \in DirectRoutes
        BY <1>1, <2>1 DEF OfferReply, IInv, TypeOK, NoOffer
      <4> QED BY Zenon, <1>1, <3>2, <4>1, ExpiryKeeps
    <3> QED BY Zenon, <2>1, <3>1, <3>2 DEF OfferReply
  <2>2. CASE ExpireDirectCandidate(p)
    BY Zenon, <1>1, <2>2, ExpiryKeeps DEF ExpireDirectCandidate
  <2> QED BY Zenon, <1>1, <2>1, <2>2, OfferKeeps, SwitchKeeps
<1>2. IInv /\ [Next]_vars =>
        [(\E s \in Routes : OfferAccepted(s) \/ OfferReply(s) \/ CommitSwitch(s)
                            \/ ExpireDirectCandidate(s))
           => \A s \in Routes : Established(s) => Established(s)']_vars
  BY Zenon, <1>1
<1> QED BY <1>2, IInvAlways, PTL DEF Spec, UpgradeKeepsSessions

-----------------------------------------------------------------------------
(* Revocation.  While its routes are being closed every authenticated      *)
(* session of the device is at a route still to be closed: no step makes   *)
(* one at another route, and a commit only moves one to the route of a     *)
(* candidate that is itself authenticated, hence collected.                *)

AuthAt(r, d) ==
  /\ sessions[r] # None
  /\ sess[sessions[r]].dev = d
  /\ sess[sessions[r]].state \in Authenticated

RevokeInv ==
  \A d \in Devices :
    /\ devices[d] = "paired" => revoke[d].op = "no"
    /\ revoke[d].op # "unclosed"
    /\ revoke[d].op = "closing" => \A r \in Routes : AuthAt(r, d) => r \in revoke[d].left

NoNewAuth ==
  \A d \in Devices, r \in Routes : devices[d] = "revoked" /\ AuthAt(r, d)' => AuthAt(r, d)

(* Closing sessions authenticates none.                                    *)
LEMMA CloseNoNewAuth ==
  ASSUME IInv, NEW gone \in SUBSET Routes, Close(gone)
  PROVE  \A d \in Devices, r \in Routes : AuthAt(r, d)' => AuthAt(r, d)
<1> TAKE d \in Devices, r \in Routes
<1> HAVE AuthAt(r, d)'
<1>1. TypeOK
  BY DEF IInv
<1>2. sessions'[r] = IF sessions[r] \in gone THEN None ELSE sessions[r]
  BY Zenon DEF Close
<1>3. sessions'[r] = sessions[r] /\ sessions[r] # None /\ sessions[r] \notin gone /\ sessions[r] \in Routes
  BY Zenon, <1>1, <1>2 DEF AuthAt, TypeOK
<1>4. sess'[sessions[r]] = sess[sessions[r]]
  BY Zenon, <1>3 DEF Close
<1> QED BY Zenon, <1>3, <1>4 DEF AuthAt

(* Neither does a step that keeps the table and leaves each session's      *)
(* device, and whether it is authenticated, as they are.                   *)
LEMMA SameNoNewAuth ==
  ASSUME IInv, UNCHANGED sessions,
         \A x \in Routes : /\ sess'[x].dev = sess[x].dev
                           /\ sess'[x].state \in Authenticated => sess[x].state \in Authenticated
  PROVE  \A d \in Devices, r \in Routes : AuthAt(r, d)' => AuthAt(r, d)
BY Zenon, Found DEF AuthAt

(* No step of the daemon authenticates a session of a revoked device.      *)
LEMMA NoNewAuthStep ==
  ASSUME IInv, Next
  PROVE  NoNewAuth
<1> USE SessionAssumption
<1>0. TypeOK /\ sess \in [Routes -> Session]
  BY Zenon DEF IInv, TypeOK
<1>1. ASSUME NEW t \in Threads, NEW r \in Routes, NEW d \in Devices, Hello1(t, r, d) PROVE NoNewAuth
  <2> DEFINE s == sessions[r]
             rec == [sess[s] EXCEPT !.state = "hello2", !.dev = d]
  <2>1. s \in Routes /\ sess[s] \in Session /\ devices[d] = "paired" /\ UNCHANGED sessions
    BY Zenon, <1>1, Found DEF Hello1, Receives
  <2>2. sess' = [sess EXCEPT ![s] = rec]
    BY Zenon, <1>1 DEF Hello1
  <2>3. rec.dev = d
    BY Zenon, <2>1, HelloFields
  <2> HIDE DEF s, rec
  <2>4. sess'[s].dev = d /\ \A x \in Routes : x # s => sess'[x] = sess[x]
    BY Zenon, <1>0, <2>1, <2>2, <2>3
  <2> QED BY Zenon, <2>1, <2>4, Found DEF NoNewAuth, AuthAt
<1>2. ASSUME NEW s \in Routes, NEW st \in {"established", "upgrade_ready"},
             sess' = [sess EXCEPT ![s] = Finished(sess[s], st, s)], sess[s].state = "hello2",
             UNCHANGED sessions
      PROVE  NoNewAuth
  <2>1. Finished(sess[s], st, s).dev = sess[s].dev
    BY <1>0, FinishFields
  <2>2. \A x \in Routes : /\ sess'[x].dev = sess[x].dev
                          /\ sess'[x].state \in Authenticated => sess[x].state \in Authenticated
    BY Zenon, <1>0, <1>2, <2>1 DEF Authenticated
  <2> QED BY Zenon, <1>2, <2>2, SameNoNewAuth DEF NoNewAuth
<1>3. ASSUME NEW s \in Routes, sess' = [sess EXCEPT ![s].epochFailed = TRUE], UNCHANGED sessions
      PROVE  NoNewAuth
  <2> DEFINE rec == [sess[s] EXCEPT !.epochFailed = TRUE]
  <2>1. sess' = [sess EXCEPT ![s] = rec] /\ rec.dev = sess[s].dev /\ rec.state = sess[s].state
    BY Zenon, <1>0, <1>3, EpochFields
  <2> HIDE DEF rec
  <2>2. \A x \in Routes : sess'[x].dev = sess[x].dev /\ sess'[x].state = sess[x].state
    BY Zenon, <1>0, <2>1
  <2> QED BY Zenon, <1>3, <2>2, SameNoNewAuth DEF NoNewAuth
<1>4. ASSUME UNCHANGED <<sess, sessions>> PROVE NoNewAuth
  BY Zenon, <1>4 DEF NoNewAuth, AuthAt
<1>5. ASSUME NEW gone \in SUBSET Routes, Close(gone) PROVE NoNewAuth
  BY Zenon, <1>5, CloseNoNewAuth DEF NoNewAuth
<1>6. ASSUME NEW r \in Routes, CloseSession(r) PROVE NoNewAuth
  <2>1. (IF sessions[r] = None THEN {} ELSE {sessions[r]}) \in SUBSET Routes
    BY Zenon, Found
  <2> QED BY Zenon, <1>5, <1>6, <2>1 DEF CloseSession
<1>7. ASSUME NEW t \in Threads, Frame(t) PROVE NoNewAuth
  <2>1. ASSUME NEW r \in Routes, BadHello(t, r) \/ Receive(t, r) PROVE NoNewAuth
    BY Zenon, <1>4, <2>1 DEF BadHello, Receive
  <2>2. CASE FailHello(t)
    <3>1. thread[t].s \in Routes
      BY Zenon, <2>2 DEF FailHello, IInv, ThreadInv
    <3>2. sess[thread[t].s].route \in Routes
      BY Zenon, <1>0, <3>1 DEF TypeOK, Session
    <3> QED BY Zenon, <1>6, <2>2, <3>2 DEF FailHello
  <2>3. CASE Announce(t)
    <3>1. thread[t].s \in Routes
      BY Zenon, <2>3 DEF Announce, IInv, ThreadInv
    <3> QED BY Zenon, <1>3, <1>4, <2>3, <3>1 DEF Announce
  <2>4. CASE OpenFrame(t)
    BY Zenon, <1>4, <2>4 DEF OpenFrame
  <2> QED BY Zenon, <1>1, <1>7, <2>1, <2>2, <2>3, <2>4 DEF Frame
<1>8. ASSUME NEW r \in RelayRoutes, SessionBound(r) \/ FinishHello3(r) \/ RelayError(r) PROVE NoNewAuth
  <2>1. CASE SessionBound(r)
    <3> DEFINE rec == [sess[r] EXCEPT !.state = "resumehello"]
    <3>1. sess' = [sess EXCEPT ![r] = rec] /\ sessions' = [sessions EXCEPT ![r] = r] /\ rec.state = "resumehello"
      BY <1>0, <2>1 DEF SessionBound, Session, Routes
    <3> HIDE DEF rec
    <3>2. /\ sessions'[r] = r /\ sess'[r].state = "resumehello"
          /\ \A x \in Routes : x # r => sessions'[x] = sessions[x] /\ sess'[x] = sess[x]
      BY Zenon, <1>0, <3>1 DEF TypeOK, Routes
    <3> QED BY <3>2, Found DEF NoNewAuth, AuthAt, Authenticated, Routes
  <2>2. CASE FinishHello3(r)
    <3>1. sessions[r] \in Routes /\ sess[sessions[r]].state = "hello2" /\ UNCHANGED sessions
      BY Zenon, <2>2, Found DEF FinishHello3, Receives, Routes
    <3> QED BY Zenon, <1>2, <1>4, <2>2, <3>1 DEF FinishHello3
  <2>3. CASE RelayError(r)
    BY Zenon, <1>6, <2>3 DEF RelayError, Routes
  <2> QED BY Zenon, <1>8, <2>1, <2>2, <2>3
<1>9. ASSUME NEW c \in DirectRoutes, FinishHello3Direct(c) \/ ExpireDirectCandidate(c) \/ DirectClose(c)
      PROVE  NoNewAuth
  <2>1. CASE FinishHello3Direct(c)
    <3>1. sessions[c] \in Routes /\ sess[sessions[c]].state = "hello2" /\ UNCHANGED sessions
      BY ZenonT(30), <2>1, Found DEF FinishHello3Direct, Receives, Routes
    <3> QED BY Zenon, <1>2, <1>4, <2>1, <3>1 DEF FinishHello3Direct
  <2>2. CASE ExpireDirectCandidate(c)
    BY Zenon, <1>5, <2>2 DEF ExpireDirectCandidate, Expired, Routes
  <2>3. CASE DirectClose(c)
    <3>1. sessions[c] # None => {sessions[c]} \in SUBSET Routes
      BY Zenon, Found DEF Routes
    <3> QED BY Zenon, <1>4, <1>5, <2>3, <3>1 DEF DirectClose
  <2> QED BY Zenon, <1>9, <2>1, <2>2, <2>3
<1>10. ASSUME NEW s \in Routes, SendFails(s) \/ FailTransportEpoch(s) PROVE NoNewAuth
  BY Zenon, <1>3, <1>5, <1>10 DEF SendFails, FailTransportEpoch
<1>11. ASSUME NEW s \in Routes, OfferAccepted(s) PROVE NoNewAuth
  <2> DEFINE c == offer[s].to
             old == Candidates(sess[s].route)
  <2>1. CASE UNCHANGED <<sess, sessions>>
    BY Zenon, <1>4, <2>1
  <2>2. CASE Established(s)
    <3>1. /\ \A x \in Routes : sess'[x] = IF x = c THEN Candidate(s, c)
                                          ELSE IF x \in old THEN Wiped(sess[x]) ELSE sess[x]
          /\ \A r \in Routes : sessions'[r] = IF r = c THEN c ELSE IF sessions[r] \in old THEN None
                                               ELSE sessions[r]
      BY <1>11, <2>2 DEF OfferAccepted
    <3>2. c \in Routes /\ sess[c].state = "unborn" /\ c # None
      BY <1>0, <1>11 DEF OfferAccepted, IInv, OfferInv, TypeOK, NoOffer, Routes
    <3>3. Candidate(s, c).state = "resumehello"
      BY Zenon DEF Candidate
    <3> HIDE DEF c, old
    <3> SUFFICES ASSUME NEW d \in Devices, NEW r \in Routes, AuthAt(r, d)' PROVE AuthAt(r, d)
      BY Zenon DEF NoNewAuth
    <3>4. r # c
      BY Zenon, <3>1, <3>2, <3>3 DEF AuthAt, Authenticated
    <3>5. sessions'[r] = sessions[r] /\ sessions[r] # None /\ sessions[r] \notin old
      BY Zenon, <3>1, <3>4 DEF AuthAt
    <3>6. sessions[r] \in Routes /\ sessions[r] # c
      BY Zenon, <3>2, <3>5, Found
    <3> QED BY Zenon, <3>1, <3>5, <3>6 DEF AuthAt
  <2> QED BY Zenon, <1>11, <2>1, <2>2 DEF OfferAccepted
<1>12. ASSUME NEW s \in Routes, CommitSwitch(s) PROVE NoNewAuth
  <2> DEFINE c == commit[s]
  <2>1. CASE UNCHANGED <<sess, sessions>>
    BY Zenon, <1>4, <2>1
  <2>2. CASE Live(s) /\ Live(c)
    <3>1. /\ s \in RelayRoutes /\ c \in DirectRoutes /\ sess[s].route = s
          /\ sessions[s] = s /\ sessions[c] = c
          /\ sess[c].state = "upgrade_ready" /\ sess[c].dev = sess[s].dev
      BY ZenonT(30), <1>12, <2>2, CommitEnds DEF CommitSwitch
    <3>2. /\ sess' = [sess EXCEPT ![s] = Committed(s, c), ![c] = Spent(c)]
          /\ sessions' = [sessions EXCEPT ![s] = None, ![c] = s]
      BY Zenon, <1>12, <2>2, <3>1 DEF CommitSwitch
    <3>3. Committed(s, c).dev = sess[s].dev
      BY Zenon DEF Committed
    <3> HIDE DEF c
    <3>4. s # c /\ s \in Routes /\ c \in Routes /\ s # None /\ c # None
      BY Zenon, <3>1 DEF Routes
    <3>5. /\ sess'[s].dev = sess[s].dev
          /\ \A x \in Routes : x # s /\ x # c => sess'[x] = sess[x]
          /\ \A r \in Routes : sessions'[r] = IF r = s THEN None ELSE IF r = c THEN s ELSE sessions[r]
      BY Zenon, <1>0, <3>2, <3>3, <3>4 DEF TypeOK
    <3> SUFFICES ASSUME NEW d \in Devices, NEW r \in Routes, AuthAt(r, d)' PROVE AuthAt(r, d)
      BY Zenon DEF NoNewAuth
    <3>6. CASE r = c
      BY Zenon, <3>1, <3>4, <3>5, <3>6 DEF AuthAt, Authenticated
    <3>7. CASE r # c
      <4>1. r # s /\ sessions'[r] = sessions[r] /\ sessions[r] # None
        BY Zenon, <3>5, <3>7 DEF AuthAt
      <4>2. sessions[r] \in Routes /\ sessions[r] # s /\ sessions[r] # c
        BY <3>1, <3>7, <4>1, Found
      <4> QED BY Zenon, <3>5, <4>1, <4>2 DEF AuthAt
    <3> QED BY Zenon, <3>6, <3>7
  <2> QED BY Zenon, <1>12, <2>1, <2>2 DEF CommitSwitch
<1>13. ASSUME NEW s \in Routes, Upgrade(s) PROVE NoNewAuth
  <2>1. CASE OfferReply(s)
    <3>1. Expired(offer[s].to) \in SUBSET Routes
      <4>1. offer[s].to \in DirectRoutes
        BY <1>0, <2>1 DEF OfferReply, TypeOK, NoOffer
      <4> QED BY Zenon, <4>1 DEF Expired, Routes
    <3> QED BY Zenon, <1>4, <1>5, <2>1, <3>1 DEF OfferReply
  <2>2. CASE OfferFails(s) \/ \E c \in DirectRoutes : OfferBegin(s, c) \/ CommitBegin(s, c)
    BY Zenon, <1>4, <2>2 DEF OfferFails, OfferBegin, CommitBegin
  <2>3. CASE CommitSendFails(s)
    BY Zenon, <1>3, <2>3 DEF CommitSendFails
  <2> QED BY Zenon, <1>11, <1>12, <1>13, <2>1, <2>2, <2>3 DEF Upgrade
<1>14. CASE Kick
  <2>1. thread["reader"].old \in Routes
    BY Zenon, <1>14 DEF Kick, IInv, ThreadInv, Threads
  <2> QED BY Zenon, <1>6, <1>14, <2>1 DEF Kick
<1>15. CASE ResetTransport
  BY Zenon, <1>5, <1>15 DEF ResetTransport
<1>16. ASSUME NEW d \in Devices, Revocation(d) PROVE NoNewAuth
  <2>1. ASSUME NEW r \in Routes, CloseDeviceSession(d, r) PROVE NoNewAuth
    BY Zenon, <1>6, <2>1 DEF CloseDeviceSession
  <2>2. CASE MarkRevoked(d) \/ CollectRoutes(d) \/ RevokeAgain(d)
    BY Zenon, <1>4, <2>2 DEF MarkRevoked, CollectRoutes, RevokeAgain
  <2> QED BY Zenon, <1>16, <2>1, <2>2 DEF Revocation
<1> QED BY Zenon, <1>7, <1>8, <1>9, <1>10, <1>13, <1>14, <1>15, <1>16 DEF Next

(* Once its ledger saves results, a revocation keeps RevokeInv.            *)
LEMMA RevokeInvStep ==
  ASSUME LedgerMayFail = FALSE, IInv, RevokeInv, Next
  PROVE  RevokeInv'
<1>0. /\ devices \in [Devices -> {"paired", "revoked"}]
      /\ revoke \in [Devices -> [op : {"no", "marked", "unclosed", "closing"}, left : SUBSET Routes]]
  BY Zenon DEF IInv, TypeOK
<1>1. NoNewAuth
  BY Zenon, NoNewAuthStep
<1>2. CASE UNCHANGED <<devices, revoke>>
  BY Zenon, <1>0, <1>1, <1>2 DEF RevokeInv, NoNewAuth
<1>3. ASSUME NEW d \in Devices, Revocation(d) PROVE RevokeInv'
  <2>1. CASE MarkRevoked(d)
    <3>1. /\ \A e \in Devices : e # d => devices'[e] = devices[e] /\ revoke'[e] = revoke[e]
          /\ devices'[d] = "revoked" /\ revoke'[d].op = "marked"
      BY Zenon, <1>0, <2>1 DEF MarkRevoked
    <3> QED BY Zenon, <1>0, <1>1, <3>1 DEF RevokeInv, NoNewAuth
  <2>2. CASE CollectRoutes(d)
    <3>1. /\ \A e \in Devices : e # d => revoke'[e] = revoke[e]
          /\ UNCHANGED <<devices, sess, sessions>> /\ revoke[d].op = "marked"
          /\ revoke'[d].op = "closing"
          /\ revoke'[d].left = {r \in Routes : sessions[r] # None /\ sess[sessions[r]].dev = d}
      BY Zenon, <1>0, <2>2 DEF CollectRoutes
    <3>2. \A r \in Routes : AuthAt(r, d)' => r \in revoke'[d].left
      BY Zenon, <3>1 DEF AuthAt
    <3>3. devices[d] # "paired"
      BY Zenon, <3>1 DEF RevokeInv
    <3>4. \A e \in Devices, r \in Routes : e # d /\ revoke[e].op = "closing" /\ AuthAt(r, e)' => AuthAt(r, e)
      BY Zenon, <1>0, <1>1 DEF RevokeInv, NoNewAuth
    <3> QED BY Zenon, <3>1, <3>2, <3>3, <3>4 DEF RevokeInv
  <2>3. CASE RevokeAgain(d)
    BY Zenon, <2>3 DEF RevokeAgain, RevokeInv
  <2>4. ASSUME NEW r \in Routes, CloseDeviceSession(d, r) PROVE RevokeInv'
    <3>1. /\ \A e \in Devices : e # d => revoke'[e] = revoke[e]
          /\ UNCHANGED devices /\ revoke[d].op = "closing"
          /\ revoke'[d].op = "closing" /\ revoke'[d].left = revoke[d].left \ {r}
      BY Zenon, <1>0, <2>4 DEF CloseDeviceSession
    <3>2. sessions'[r] = None
      BY Zenon, <2>4 DEF CloseDeviceSession, CloseSession, Close
    <3>3. ~AuthAt(r, d)'
      BY Zenon, <3>2 DEF AuthAt
    <3>4. devices[d] = "revoked"
      BY Zenon, <1>0, <3>1 DEF RevokeInv
    <3> QED BY Zenon, <1>0, <1>1, <3>1, <3>3, <3>4 DEF RevokeInv, NoNewAuth
  <2> QED BY Zenon, <1>3, <2>1, <2>2, <2>3, <2>4 DEF Revocation
<1>4. UNCHANGED <<devices, revoke>> \/ \E d \in Devices : Revocation(d)
  <2>1. ASSUME NEW t \in Threads, Frame(t) PROVE UNCHANGED <<devices, revoke>>
    BY Zenon, <2>1 DEF Frame, Hello1, BadHello, Receive, FailHello, Announce, OpenFrame
  <2>2. ASSUME NEW r \in RelayRoutes, SessionBound(r) \/ FinishHello3(r) \/ RelayError(r)
        PROVE  UNCHANGED <<devices, revoke>>
    BY Zenon, <2>2 DEF SessionBound, FinishHello3, RelayError
  <2>3. ASSUME NEW c \in DirectRoutes,
               FinishHello3Direct(c) \/ ExpireDirectCandidate(c) \/ DirectClose(c)
        PROVE  UNCHANGED <<devices, revoke>>
    BY Zenon, <2>3 DEF FinishHello3Direct, ExpireDirectCandidate, DirectClose
  <2>4. ASSUME NEW s \in Routes, SendFails(s) \/ FailTransportEpoch(s)
        PROVE  UNCHANGED <<devices, revoke>>
    BY Zenon, <2>4 DEF SendFails, FailTransportEpoch
  <2>5. ASSUME NEW s \in Routes, Upgrade(s) PROVE UNCHANGED <<devices, revoke>>
    BY Zenon, <2>5 DEF Upgrade, OfferBegin, CommitBegin, OfferFails, OfferAccepted, OfferReply,
                CommitSendFails, CommitSwitch
  <2>6. CASE Kick \/ ResetTransport
    BY Zenon, <2>6 DEF Kick, ResetTransport
  <2> QED BY Zenon, <2>1, <2>2, <2>3, <2>4, <2>5, <2>6 DEF Next
<1> QED BY Zenon, <1>2, <1>3, <1>4

(* When the ledger can save, a device whose revocation closed its routes   *)
(* has no authenticated session and gets none: no handshake, offer or      *)
(* commit that was under way outlives markDeviceRevoked and                *)
(* closeDeviceSessions.                                                    *)
THEOREM RevokedHasNoSessionHolds ==
  LedgerMayFail = FALSE => (Spec => []RevokedHasNoSession)
<1> SUFFICES ASSUME LedgerMayFail = FALSE PROVE Spec => []RevokedHasNoSession
  OBVIOUS
<1>1. Init => RevokeInv
  <2>1. Init => \A d \in Devices : revoke[d].op = "no"
    BY DEF Init
  <2> QED BY Zenon, <2>1 DEF RevokeInv
<1>2. IInv /\ RevokeInv /\ [Next]_vars => RevokeInv'
  <2>1. IInv /\ RevokeInv /\ Next => RevokeInv'
    BY Zenon, RevokeInvStep
  <2>2. RevokeInv /\ UNCHANGED vars => RevokeInv'
    BY Zenon DEF RevokeInv, AuthAt, vars
  <2> QED BY Zenon, <2>1, <2>2
<1>3. IInv /\ RevokeInv => RevokedHasNoSession
  <2> SUFFICES ASSUME IInv, RevokeInv, NEW d \in Devices,
                      revoke[d].op = "closing", revoke[d].left = {},
                      NEW s \in Routes, Live(s), sess[s].dev = d,
                      sess[s].state \in {"hello2", "upgrade_ready", "established"}
               PROVE  FALSE
    BY Zenon DEF RevokedHasNoSession
  <2>1. sess[s].route \in Routes /\ s # None
    BY Zenon, SessionAssumption DEF IInv, TypeOK, Session
  <2>2. AuthAt(sess[s].route, d)
    BY Zenon, <2>1 DEF AuthAt, Live, Authenticated
  <2> QED BY Zenon, <2>1, <2>2 DEF RevokeInv
<1> QED BY <1>1, <1>2, <1>3, IInvAlways, PTL DEF Spec

=============================================================================
