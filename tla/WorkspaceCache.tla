--------------------------- MODULE WorkspaceCache --------------------------
(***************************************************************************)
(* The read cache of one connection (lib/workspace-cache.ts): pane-to-root *)
(* bindings (WorkspaceReadCache.open), the scopes they hand out, one cache *)
(* per root with shared flights, and the file mutations that invalidate it *)
(* (features/workspace/file-actions.ts).                                   *)
(*                                                                         *)
(* Bindings and entries are compared by identity in the code; here a call  *)
(* or a scope carries whether its binding or entry is still the one in the *)
(* map (held) and whether the pane is where it was when they were made     *)
(* (here); a pane goes to directories it did not come from.  The content   *)
(* of a root is the number of times it was written.  Ages are left to choice: an   *)
(* entry may be within its TTL or not, and a full cache may drop its other *)
(* entries.                                                                *)
(***************************************************************************)
EXTENDS Naturals, FiniteSets

CONSTANTS
  WsPanes, Roots,
  Keys,          \* "status" and the other reads
  NoBinding, NoData,
  WORKSPACE_CACHE_ROOT_LIMIT,
  MaxWrites,     \* nobody writes once a root was written this often
  MaxCalls       \* calls in flight

VARIABLES
  bindings,      \* per pane: here, root of its scope, flight running
  scopes,        \* the valid scopes handed out: pane, root
  roots,         \* per root: cached entries by key, or NoData
  calls,         \* opens, reads and mutations in flight
  written,       \* per root: writes the daemon carried out
  settledAt      \* per root: writes that were known when it was invalidated

workspaceCacheVars == <<bindings, scopes, roots, calls, written, settledAt>>

NoRoot == 0
CacheEntry(data, flight) == [data |-> data, flight |-> flight]
Absent == CacheEntry(NoData, FALSE)

WorkspaceCacheInit ==
  /\ bindings = [p \in WsPanes |-> NoBinding] /\ scopes = {}
  /\ roots = [r \in Roots |-> [k \in Keys |-> Absent]]
  /\ calls = {}
  /\ written = [r \in Roots |-> 0] /\ settledAt = [r \in Roots |-> 0]

Call(op, pane) ==
  [op |-> op, pane |-> pane, root |-> NoRoot, key |-> "none",
   force |-> FALSE, here |-> TRUE, held |-> TRUE, by |-> TRUE, seen |-> NoData, prior |-> NoData]

MayWrite == \A r \in Roots : written[r] < MaxWrites
FitsCall == Cardinality(calls) < MaxCalls
-----------------------------------------------------------------------------
(* An entry leaves the map: a load under way will not be stored.           *)
Detached(cs, r, ks) ==
  {IF c.op = "read" /\ c.root = r /\ c.key \in ks THEN [c EXCEPT !.held = FALSE] ELSE c
     : c \in cs}

WithoutKeys(r, ks) == [roots EXCEPT ![r] = [k \in Keys |-> IF k \in ks THEN Absent ELSE @[k]]]

(* Mutant: clearing a root leaves the loads under way attached.            *)
(* invalidate: RootCache.clear                                             *)
invalidate(r, cs) ==
  /\ roots' = WithoutKeys(r, Keys)
  /\ calls' = Detached(cs, r, Keys)

(* The binding of a pane leaves the map: its scopes and calls know it.     *)
Unbound(p, cs) ==
  {IF c.op = "open" /\ c.pane = p THEN [c EXCEPT !.held = FALSE]
   ELSE IF c.op = "read" /\ c.pane = p THEN [c EXCEPT !.by = FALSE] ELSE c : c \in cs}

Released(p) == {s \in scopes : s.pane # p}

-----------------------------------------------------------------------------
(* open, up to its call: a known root is rechecked under the same binding, *)
(* force or another directory starts a new one.                            *)
openWorkspace(p, force) ==
  LET previous == bindings[p]
      same == ~ force /\ previous # NoBinding /\ previous.here
  IN
  /\ FitsCall
  /\ same => ~ previous.flight
  /\ bindings' = [bindings EXCEPT ![p] =
       [here |-> TRUE, root |-> IF same THEN previous.root ELSE NoRoot, flight |-> TRUE]]
  /\ scopes' = IF same THEN scopes ELSE Released(p)
  /\ LET cs == (IF same THEN calls ELSE Unbound(p, calls))
               \cup {[Call("open", p) EXCEPT !.force = force]}
     IN IF force /\ previous # NoBinding /\ previous.root # NoRoot
        THEN invalidate(previous.root, cs)
        ELSE calls' = cs /\ UNCHANGED roots
  /\ UNCHANGED <<written, settledAt>>

(* The open answers with the pane's root: a root that changed gets a       *)
(* binding of its own.                                                     *)
rootAnswered(c, root) ==
  /\ c.op = "open" /\ c.held /\ c.here
  /\ LET moved == bindings[c.pane].root \notin {NoRoot, root}
         cs == IF moved THEN Unbound(c.pane, calls \ {c}) ELSE calls \ {c}
     IN
     /\ bindings' = [bindings EXCEPT ![c.pane] = [here |-> TRUE, root |-> root, flight |-> FALSE]]
     /\ scopes' = (IF moved THEN Released(c.pane) ELSE scopes)
                  \cup {[pane |-> c.pane, root |-> root]}
     /\ IF c.force THEN invalidate(root, cs) ELSE calls' = cs /\ UNCHANGED roots
  /\ UNCHANGED <<written, settledAt>>

rootRejected(c) ==
  /\ c.op = "open"
  /\ IF c.held
     THEN /\ bindings' = [bindings EXCEPT ![c.pane] = NoBinding]
          /\ scopes' = Released(c.pane)
          /\ calls' = Unbound(c.pane, calls \ {c})
     ELSE calls' = calls \ {c} /\ UNCHANGED <<bindings, scopes>>
  /\ UNCHANGED <<roots, written, settledAt>>
-----------------------------------------------------------------------------
(* WorkspaceScope.read through the root's cache.  A load under way or an   *)
(* entry within its TTL is shared and starts nothing; using a root makes   *)
(* it the newest and may push the oldest out.                              *)
HasEntries(r) == \E k \in Keys : roots[r][k] # Absent

PushedOut(r) ==
  {o \in Roots \ {r} : HasEntries(o)
     /\ Cardinality({q \in Roots : q = r \/ HasEntries(q)}) > WORKSPACE_CACHE_ROOT_LIMIT}

readRoot(s, key) ==
  LET entry == roots[s.root][key]
      out == PushedOut(s.root)
      kept == [o \in Roots |-> IF o \in out THEN [k \in Keys |-> Absent] ELSE roots[o]]
      cs == {IF c.op = "read" /\ c.root \in out THEN [c EXCEPT !.held = FALSE] ELSE c : c \in calls}
  IN
  /\ FitsCall
  /\ ~ entry.flight
  /\ roots' = [kept EXCEPT ![s.root][key].flight = TRUE]
  /\ calls' = cs \cup {[Call("read", s.pane) EXCEPT !.root = s.root, !.key = key,
                                                    !.prior = entry.data]}
  /\ UNCHANGED <<bindings, scopes, written, settledAt>>

(* The daemon carries out a read, and a mutation.                          *)
daemonReads(c) ==
  /\ c.op = "read" /\ c.seen = NoData
  /\ calls' = (calls \ {c}) \cup {[c EXCEPT !.seen = written[c.root]]}
  /\ UNCHANGED <<bindings, scopes, roots, written, settledAt>>

(* The answer is filed if its entry is still the one in the map and the    *)
(* pane that asked still stands where it asked; a status that shows        *)
(* another revision clears the rest of its root.                           *)
readAnswered(c, trimmed) ==
  LET clears == c.key = "status" /\ c.prior # NoData /\ c.prior # c.seen
                /\ c.by /\ c.here
      filed == c.held /\ c.by /\ c.here
      gone == IF clears \/ (trimmed /\ filed) THEN Keys \ {c.key} ELSE {}
      dropped == IF c.held /\ ~ filed THEN {c.key} ELSE gone
  IN
  /\ c.op = "read" /\ c.seen # NoData
  /\ roots' = IF filed THEN [WithoutKeys(c.root, dropped) EXCEPT ![c.root][c.key] = CacheEntry(c.seen, FALSE)]
              ELSE WithoutKeys(c.root, dropped)
  /\ calls' = Detached(calls \ {c}, c.root, dropped)
  /\ UNCHANGED <<bindings, scopes, written, settledAt>>

readFailed(c) ==
  /\ c.op = "read"
  /\ roots' = IF c.held THEN WithoutKeys(c.root, {c.key}) ELSE roots
  /\ calls' = calls \ {c}
  /\ UNCHANGED <<bindings, scopes, written, settledAt>>
-----------------------------------------------------------------------------
(* A rename or a deletion: sent once, carried out at the daemon or not,    *)
(* and whatever its outcome the root is invalidated.                       *)
mutate(s) ==
  /\ FitsCall
  /\ \A c \in calls : c.op # "mutate"
  /\ calls' = calls \cup {[Call("mutate", s.pane) EXCEPT !.root = s.root]}
  /\ UNCHANGED <<bindings, scopes, roots, written, settledAt>>

daemonWrites(c) ==
  /\ c.op = "mutate" /\ c.seen = NoData /\ MayWrite
  /\ written' = [written EXCEPT ![c.root] = @ + 1]
  /\ calls' = (calls \ {c}) \cup {[c EXCEPT !.seen = 0]}
  /\ UNCHANGED <<bindings, scopes, roots, settledAt>>

mutateEnds(c) ==
  /\ c.op = "mutate"
  /\ invalidate(c.root, calls \ {c})
  /\ settledAt' = [settledAt EXCEPT ![c.root] = written[c.root]]
  /\ UNCHANGED <<bindings, scopes, written>>

(* The pane's agent changes directory: its scopes are no longer valid.     *)
paneMoves(p) ==
  /\ scopes' = Released(p)
  /\ bindings' = [bindings EXCEPT ![p] = IF @ = NoBinding THEN @ ELSE [@ EXCEPT !.here = FALSE]]
  /\ calls' = {IF c.pane = p THEN [c EXCEPT !.here = FALSE] ELSE c : c \in calls}
  /\ UNCHANGED <<roots, written, settledAt>>

(* Someone else writes to the root.                                        *)
otherWrites(r) ==
  /\ MayWrite
  /\ written' = [written EXCEPT ![r] = @ + 1]
  /\ UNCHANGED <<bindings, scopes, roots, calls, settledAt>>

WorkspaceCacheNext ==
  \/ \E p \in WsPanes : \E force \in BOOLEAN : openWorkspace(p, force)
  \/ \E p \in WsPanes : paneMoves(p)
  \/ \E s \in scopes : mutate(s) \/ \E key \in Keys : readRoot(s, key)
  \/ \E r \in Roots : otherWrites(r)
  \/ \E c \in calls :
       \/ \E r \in Roots : rootAnswered(c, r)
       \/ rootRejected(c) \/ daemonReads(c) \/ readFailed(c)
       \/ \E trimmed \in BOOLEAN : readAnswered(c, trimmed)
       \/ daemonWrites(c) \/ mutateEnds(c)
-----------------------------------------------------------------------------
(* Once a rename or a deletion of this phone has ended, whether it         *)
(* succeeded, failed or its outcome is unknown, nothing read before it is  *)
(* served from the cache or will be filed there, also by a read that was   *)
(* under way across it.                                                    *)
OwnWritesAreSeen ==
  /\ \A r \in Roots : \A k \in Keys :
       roots[r][k].data # NoData => roots[r][k].data >= settledAt[r]
  /\ \A c \in calls : c.op = "read" /\ c.held /\ c.seen # NoData => c.seen >= settledAt[c.root]

(* Every shared flight is one that runs: a reader or an open that joins a  *)
(* flight joins a call in flight, never one that ended; and the scopes of  *)
(* a pane that are still valid agree on its root.                          *)
FlightsAreRunning ==
  /\ \A r \in Roots : \A k \in Keys : roots[r][k].flight =>
       \E c \in calls : c.op = "read" /\ c.root = r /\ c.key = k /\ c.held
  /\ \A p \in WsPanes : bindings[p] # NoBinding /\ bindings[p].flight =>
       \E c \in calls : c.op = "open" /\ c.pane = p /\ c.held
  /\ \A s, t \in scopes : s.pane = t.pane => s.root = t.root
=============================================================================
