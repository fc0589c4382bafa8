--------------------------- MODULE SnapshotCache ---------------------------
(***************************************************************************)
(* The stored pictures of computers (features/connection/snapshot.ts,      *)
(* snapshot-cache.ts, snapshot-storage.ts): one IndexedDB row per computer *)
(* with its sequence number, the time it was saved and the texts of its    *)
(* most recent panes.  Saves of several pages of the app interleave at     *)
(* every storage request; a transaction is atomic.  A page is free to go   *)
(* to another computer or pane at any time.  A text is named by the        *)
(* computer and pane it was read from.                                     *)
(***************************************************************************)
EXTENDS Naturals, Sequences, FiniteSets

CONSTANTS Pages, Daemons, PaneIds, NoRecord,
          SNAPSHOT_CACHE_MAX_DAEMONS, SNAPSHOT_CACHE_MAX_PANES, MaxSaves

VARIABLES
  rows,      \* the object store
  saves,     \* per page: its save in progress
  saveClock  \* Date.now as a count of saves

cacheVars == <<rows, saves, saveClock>>

NoSave == [at |-> "none", of |-> NoRecord, pane |-> NoRecord, text |-> NoRecord, row |-> NoRecord, evict |-> {}]

SnapshotCacheInit ==
  /\ rows = [d \in Daemons |-> NoRecord]
  /\ saves = [t \in Pages |-> NoSave]
  /\ saveClock = 0

(* cacheSnapshot captures the pane and its text before the storage read.   *)
cacheSnapshot(t, d, p) ==
  /\ saves[t] = NoSave
  /\ saveClock + Cardinality({u \in Pages : saves[u].at = "load"}) < MaxSaves
  /\ saves' = [saves EXCEPT ![t] = [NoSave EXCEPT !.at = "load", !.of = d,
                                    !.pane = p, !.text = <<d, p>>]]
  /\ UNCHANGED <<rows, saveClock>>

(* withPaneSnapshot and trimSessionSnapshot: newest first, within bounds.  *)
withPaneSnapshot(panes, pane, text) ==
  LET others == SelectSeq(panes, LAMBDA x : x.pane # pane)
      all == <<[pane |-> pane, text |-> text]>> \o others IN
  SubSeq(all, 1, IF Len(all) < SNAPSHOT_CACHE_MAX_PANES THEN Len(all) ELSE SNAPSHOT_CACHE_MAX_PANES)

baseRecord(d) == IF rows[d] = NoRecord THEN [seq |-> 0, savedAt |-> 0, panes |-> <<>>] ELSE rows[d]

Captured(t, here) == [pane |-> saves[t].pane, text |-> saves[t].text]

(* The page shows the same computer, and by now perhaps another pane.      *)
BaseLoaded(t, here) ==
  /\ saves[t].at = "load"
  /\ LET base == baseRecord(saves[t].of)
         own == Captured(t, here) IN
     saves' = [saves EXCEPT ![t] = [@ EXCEPT !.at = "scan",
       !.row = [seq |-> base.seq + 1, savedAt |-> saveClock + 1,
                panes |-> withPaneSnapshot(base.panes, own.pane, own.text)]]]
  /\ saveClock' = saveClock + 1
  /\ UNCHANGED rows

(* The page has gone to another computer.                                  *)
SaveAbandoned(t) ==
  /\ saves[t].at = "load"
  /\ saves' = [saves EXCEPT ![t] = NoSave]
  /\ UNCHANGED <<rows, saveClock>>

Cached == {d \in Daemons : rows[d] # NoRecord}

(* The oldest rows beyond the bound, the one to be written counted.        *)
EvictedRows(d) ==
  LET stale == Cached \ {d}
      excess == Cardinality(stale) + 1 - SNAPSHOT_CACHE_MAX_DAEMONS IN
  {e \in stale : Cardinality({x \in stale : rows[x].savedAt < rows[e].savedAt}) < excess}

Scanned(t) ==
  /\ saves[t].at = "scan"
  /\ saves' = [saves EXCEPT ![t].at = "put", ![t].evict = EvictedRows(saves[t].of)]
  /\ UNCHANGED <<rows, saveClock>>

Superseded(d, seq) == rows[d] # NoRecord /\ rows[d].seq > seq

(* The write transaction: it aborts when a later record is stored.         *)
saveSessionSnapshot(t) ==
  /\ saves[t].at = "put"
  /\ LET d == saves[t].of IN
     rows' = IF Superseded(d, saves[t].row.seq) THEN rows
             ELSE [e \in Daemons |-> IF e = d THEN saves[t].row
                                     ELSE IF e \in saves[t].evict THEN NoRecord ELSE rows[e]]
  /\ saves' = [saves EXCEPT ![t] = NoSave]
  /\ UNCHANGED saveClock

deleteSessionSnapshot(d) ==
  /\ rows[d] # NoRecord
  /\ rows' = [rows EXCEPT ![d] = NoRecord]
  /\ UNCHANGED <<saves, saveClock>>

SnapshotCacheNext ==
  \/ \E t \in Pages : \/ SaveAbandoned(t) \/ Scanned(t) \/ saveSessionSnapshot(t)
                      \/ \E p \in PaneIds : \/ BaseLoaded(t, p)
                                            \/ \E d \in Daemons : cacheSnapshot(t, d, p)
  \/ \E d \in Daemons : deleteSessionSnapshot(d)
-----------------------------------------------------------------------------
(* A stored text lies under the computer and pane it was read from,        *)
(* wherever the page has gone while it was being saved (cacheSnapshot).    *)
TextIsFiledRight ==
  \A d \in Cached : \A i \in DOMAIN rows[d].panes :
    rows[d].panes[i].text = <<d, rows[d].panes[i].pane>>

(* Concurrent saves exceed the row bound by at most one row per further    *)
(* page, and panes never (saveSessionSnapshot computes its evictions       *)
(* before its transaction).                                                *)
CacheIsBounded ==
  /\ Cardinality(Cached) <= SNAPSHOT_CACHE_MAX_DAEMONS + Cardinality(Pages) - 1
  /\ \A d \in Cached : Len(rows[d].panes) <= SNAPSHOT_CACHE_MAX_PANES

(* A stored record is never replaced by one with a smaller number: a save  *)
(* that was overtaken does not bury what a later one stored.               *)
CacheMovesOn ==
  \A d \in Daemons : rows[d] # NoRecord /\ rows'[d] # NoRecord => rows'[d].seq >= rows[d].seq

CacheNeverRegresses == [][CacheMovesOn]_cacheVars
=============================================================================
