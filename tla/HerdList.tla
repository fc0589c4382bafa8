------------------------------ MODULE HerdList -------------------------------
(* The list of agents: ranking and grouping (lib/ranking.ts), the projection  *)
(* the screen draws (dashboard/model/herd-view.ts), the presentation that     *)
(* consumes attention and settles the folds (pages/home/herd-bridge.ts), and  *)
(* the memory of what changed (lib/herd-attention.ts).                        *)
EXTENDS Naturals, FiniteSets, SequencesExt

CONSTANTS Cards,      \* pane ids, numbers: their order breaks ties
          SpaceOf,    \* the workspace of a pane
          AgentOf,    \* its agent, UnboundGroup for a plain terminal
          UnboundGroup,
          MaxMoves    \* bound: changes of the herd and of the reader's choices

VARIABLES listedCards, \* the panes of the herd
          touchedAt,   \* pane |-> stamp, 0 for none
          pinnedSet,
          grouping,    \* flat, space or agent
          folds,       \* group id |-> folded, of the groups that have an entry
          moves

herdListVars == <<listedCards, touchedAt, pinnedSet, grouping, folds, moves>>

PINNED_GROUP_ID == 0

HerdListInit ==
  /\ listedCards = Cards
  /\ touchedAt = [c \in Cards |-> 1] /\ pinnedSet = {}
  /\ grouping \in {"flat", "space", "agent"}
  /\ folds = [g \in {} |-> FALSE] /\ moves = 0
-----------------------------------------------------------------------------
(* rankAgents: pinned first, then the latest touched, then by id.             *)
Ahead(a, b) ==
  IF (a \in pinnedSet) # (b \in pinnedSet) THEN a \in pinnedSet
  ELSE IF touchedAt[a] # touchedAt[b] THEN touchedAt[a] > touchedAt[b]
  ELSE a < b

rankAgents(cards) == SetToSortSeq(cards, Ahead)

groupKey(c) == IF grouping = "space" THEN SpaceOf[c] ELSE AgentOf[c]

groupTouched(g) == Max({touchedAt[c] : c \in ToSet(g.items)})

(* Groups by recency, the one without an agent last; titles break ties.       *)
GroupAhead(g, h) ==
  IF (g.id = UnboundGroup) # (h.id = UnboundGroup) THEN h.id = UnboundGroup
  ELSE IF groupTouched(g) # groupTouched(h) THEN groupTouched(g) > groupTouched(h)
  ELSE g.id < h.id

groupAgents ==
  LET rest == listedCards \ pinnedSet
      keys == {groupKey(c) : c \in rest}
      bucket(k) == [id |-> k, items |-> rankAgents({c \in rest : groupKey(c) = k})]
      pins == pinnedSet \cap listedCards
  IN (IF pins = {} THEN <<>> ELSE <<[id |-> PINNED_GROUP_ID, items |-> rankAgents(pins)]>>)
     \o (IF grouping = "flat"
         THEN IF rest = {} THEN <<>> ELSE <<[id |-> 1, items |-> rankAgents(rest)]>>
         ELSE SetToSortSeq({bucket(k) : k \in keys}, GroupAhead))

GroupIds == [i \in DOMAIN groupAgents |-> groupAgents[i].id]

(* A group without an entry is folded unless it is the first, or the second   *)
(* behind the pinned ones; entries of groups that are not shown are dropped.  *)
syncCollapsedForIds(ids) ==
  LET open == IF ids # <<>> /\ Head(ids) = PINNED_GROUP_ID THEN 2 ELSE 1 IN
  [g \in ToSet(ids) |->
     IF g \in DOMAIN folds THEN folds[g]
     ELSE (CHOOSE i \in DOMAIN ids : ids[i] = g) > open]

toggleCollapsedForIds(ids, g) ==
  [syncCollapsedForIds(ids) EXCEPT ![g] = ~ @]

(* The headings in order, the cards under each, and which are folded.         *)
buildHerdViewModel ==
  [i \in DOMAIN groupAgents |->
    [id |-> groupAgents[i].id, cards |-> groupAgents[i].items,
     folded |-> grouping # "flat" /\ groupAgents[i].id \in DOMAIN folds
                /\ folds[groupAgents[i].id]]]
-----------------------------------------------------------------------------
Move == moves < MaxMoves /\ moves' = moves + 1

(* A snapshot was applied: panes come and go and change their status; new and *)
(* changed ones are touched now, gone ones lose their stamp and their pin.    *)
HerdChanges(next, changed) ==
  LET now == Max({0} \cup {touchedAt[c] : c \in Cards}) + 1 IN
  /\ Move /\ (next # listedCards \/ changed # {})
  /\ listedCards' = next
  /\ touchedAt' = [c \in Cards |->
       IF c \notin next THEN 0
       ELSE IF c \in changed \/ c \notin listedCards THEN now ELSE touchedAt[c]]
  /\ pinnedSet' = IF next = {} THEN pinnedSet ELSE pinnedSet \cap next
  /\ UNCHANGED <<grouping, folds>>

TouchCard(c) ==
  /\ Move /\ c \in listedCards
  /\ touchedAt' = [touchedAt EXCEPT ![c] = Max({touchedAt[x] : x \in Cards}) + 1]
  /\ UNCHANGED <<listedCards, pinnedSet, grouping, folds>>

PinCard(c) ==
  /\ Move /\ c \in listedCards
  /\ pinnedSet' = IF c \in pinnedSet THEN pinnedSet \ {c} ELSE pinnedSet \cup {c}
  /\ UNCHANGED <<listedCards, touchedAt, grouping, folds>>

Regroup(g) ==
  /\ Move /\ g # grouping
  /\ grouping' = g
  /\ UNCHANGED <<listedCards, touchedAt, pinnedSet, folds>>

(* The reader folds or opens a group of the list that is drawn.               *)
toggleHerdGroup(g) ==
  /\ Move /\ grouping # "flat" /\ g \in ToSet(GroupIds)
  /\ folds' = toggleCollapsedForIds(GroupIds, g)
  /\ UNCHANGED <<listedCards, touchedAt, pinnedSet, grouping>>

(* presentHerdView, once per commit, settles the folds of the groups shown.   *)
presentHerdView ==
  /\ grouping # "flat"
  /\ folds' = syncCollapsedForIds(GroupIds)
  /\ UNCHANGED <<listedCards, touchedAt, pinnedSet, grouping, moves>>

HerdListNext ==
  \/ \E next \in SUBSET Cards : \E changed \in SUBSET (next \cap listedCards) :
       HerdChanges(next, changed)
  \/ \E c \in Cards : TouchCard(c) \/ PinCard(c)
  \/ \E g \in {"flat", "space", "agent"} : Regroup(g)
  \/ \E g \in ToSet(GroupIds) : toggleHerdGroup(g)
  \/ presentHerdView
-----------------------------------------------------------------------------
(* However panes are pinned, touched and regrouped, every listed pane is      *)
(* drawn exactly once, under a heading of its own id, and no heading is empty.*)
EveryPaneDrawnOnce ==
  LET groups == buildHerdViewModel
      drawn == [i \in DOMAIN groups |-> ToSet(groups[i].cards)]
  IN /\ UNION {drawn[i] : i \in DOMAIN groups} = listedCards
     /\ \A i, j \in DOMAIN groups :
          i # j => drawn[i] \cap drawn[j] = {} /\ groups[i].id # groups[j].id
     /\ \A i \in DOMAIN groups :
          groups[i].cards # <<>> /\ Len(groups[i].cards) = Cardinality(drawn[i])

(* A fold the reader set stays: only a press on its own heading turns an     *)
(* entry over, and a group that leaves the screen loses its entry at the next *)
(* presentation, not its neighbours theirs.                                   *)
FoldsAreTheReaders ==
  /\ \A g \in DOMAIN folds \cap DOMAIN folds' : folds'[g] # folds[g] => toggleHerdGroup(g)
  /\ DOMAIN folds \cap ToSet(GroupIds) \subseteq DOMAIN folds' \/ grouping = "flat"
=============================================================================
