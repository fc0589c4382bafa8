--------------------------- MODULE WorkspaceView ---------------------------
(***************************************************************************)
(* The workspace page of the PWA for one pane (features/workspace): the    *)
(* store with its tickets, the loads that enter, list, read and diff, and  *)
(* the navigation a later visit restores.                                  *)
(*                                                                         *)
(* A ticket captures the store's version numbers and stands as long as the *)
(* ones it was issued for (flags) have not moved.  Every commit after an   *)
(* await asks it first, so a load whose ticket fell changes nothing any    *)
(* more and leaves the model at once; one that stands carries whether the  *)
(* content version moved meanwhile (sameContent).  A directory listing is  *)
(* the sequence of its pages, a file or a diff is its path and layer.      *)
(***************************************************************************)
EXTENDS Naturals, Sequences, FiniteSets

CONSTANTS
  Paths,         \* the files a listing names
  Changed,       \* the files the status names
  Layers,        \* "staged", "worktree"
  MaxPages,      \* pages of every directory
  MaxReads       \* reads in flight, retired ones included

ASSUME WorkspaceViewAssumption ==
  /\ "worktree" \in Layers /\ MaxPages \in Nat \ {0} /\ MaxReads \in Nat \ {0}

Dirs == {"root", "sub"}
NoPath == "none"
NoDiffShown == [path |-> NoPath, layer |-> "worktree"]
NoNavigation == [view |-> "none"]

VARIABLES
  onPage,        \* the workspace page is open
  scopeBound,    \* workspaceScope # null
  ws,            \* the model the snapshot is frozen from
  pageCount,     \* directoryPageCount
  remembered,    \* the navigation cached for this pane
  notesOf,     \* the diff the notes belong to
  relabelled,    \* a cached listing stayed under the crumbs of the one before
  wsLoads        \* loads in flight

workspaceViewVars ==
  <<onPage, scopeBound, ws, pageCount, remembered, notesOf, relabelled,
    wsLoads>>

(* loadingWorkspaceModel; described stands for the descriptor.             *)
loadingWorkspaceModel ==
  [tab |-> "files", view |-> "browser", directory |-> "root", detailPath |-> NoPath,
   diffLayer |-> "worktree", entries |-> <<>>, nextCursor |-> 0,
   file |-> NoPath, diff |-> NoDiffShown, hasStatus |-> FALSE, described |-> FALSE,
   loading |-> TRUE, loadingMore |-> FALSE, loadingBranches |-> FALSE,
   error |-> FALSE]

finishWorkspaceLoad(m) == [m EXCEPT !.loading = FALSE, !.loadingMore = FALSE]

WorkspaceViewInit ==
  /\ onPage = FALSE /\ scopeBound = FALSE
  /\ ws = finishWorkspaceLoad(loadingWorkspaceModel)
  /\ pageCount = 1 /\ remembered = NoNavigation
  /\ notesOf = NoDiffShown /\ relabelled = FALSE /\ wsLoads = {}
-----------------------------------------------------------------------------
(* Tickets.                                                                *)
Load(kind, flags) ==
  [kind |-> kind, flags |-> flags, moved |-> FALSE, path |-> NoPath, layer |-> "worktree",
   page |-> 0, keepDetail |-> FALSE, jumped |-> FALSE, from |-> "root", had |-> <<>>,
   restore |-> 0]

(* Mutant: issuing a ticket leaves the content version alone.              *)
MutBumped(loads, versions) ==
  {l \in loads : (l.flags \cup {"owner"}) \cap (versions \ {"content"}) = {}}
(* The loads whose tickets stand when these versions move.                 *)
Bumped(loads, versions) ==
  {[l EXCEPT !.moved = @ \/ ("content" \in versions /\ (l.kind = "open" \/ l.keepDetail))]
     : l \in {k \in loads : (k.flags \cup {"owner"}) \cap versions = {}}}

(* issueTicket: the flagged versions move and the load captures them.      *)
issueTicket(load) == wsLoads' = Bumped(wsLoads, load.flags) \cup {load}

Fits(n) == Cardinality(wsLoads) + n <= MaxReads

(* retirePending                                                           *)
retirePending ==
  wsLoads' = Bumped(wsLoads, {"owner", "content", "directory", "status", "branches"})
-----------------------------------------------------------------------------
(* cacheCurrent: what the page remembers of this pane.                     *)
cacheCurrent ==
  IF ~ ws.described THEN remembered
  ELSE [view |-> ws.view, tab |-> ws.tab, directory |-> ws.directory,
        detailPath |-> ws.detailPath, diffLayer |-> ws.diffLayer, pages |-> pageCount]

(* beginEnter: the pane's navigation is taken before the model starts over.*)
beginEnter(force) ==
  /\ Fits(1)
  /\ remembered' = cacheCurrent
  /\ wsLoads' = Bumped(wsLoads, {"owner", "content", "directory", "status", "branches"})
                \cup {[Load("open", {}) EXCEPT !.jumped = force]}
  /\ scopeBound' = FALSE /\ notesOf' = NoDiffShown /\ pageCount' = 1
  /\ relabelled' = FALSE
  /\ ws' = loadingWorkspaceModel

enterWorkspace ==
  /\ ~ onPage /\ onPage' = TRUE
  /\ beginEnter(FALSE)

(* The refresh button is off while loading; a failed list offers a retry.  *)
refreshWorkspace ==
  /\ onPage /\ (~ ws.loading \/ (ws.error /\ ws.view = "browser"))
  /\ beginEnter(TRUE)
  /\ UNCHANGED onPage

(* beginLeave.  Off the page nothing reads the model but the next visit,   *)
(* which would remember the same navigation again: it is dropped here.     *)
leaveWorkspace ==
  /\ onPage /\ onPage' = FALSE
  /\ remembered' = cacheCurrent
  /\ retirePending
  /\ scopeBound' = FALSE /\ notesOf' = NoDiffShown
  /\ ws' = finishWorkspaceLoad(loadingWorkspaceModel)
  /\ pageCount' = 1 /\ relabelled' = FALSE
-----------------------------------------------------------------------------
(* loadDirectoryPage, up to its await: the pages a revisit restores come   *)
(* one after another and keep the detail when one is shown.                *)
DirectoryLoad(path, page, keepDetail, restore, m) ==
  [Load("directory", IF keepDetail THEN {"directory"} ELSE {"content", "directory"})
     EXCEPT !.path = path, !.page = page, !.keepDetail = keepDetail,
            !.jumped = page = 1 /\ path # m.directory,
            !.from = IF page = 1 /\ path # m.directory THEN m.directory ELSE @,
            !.had = IF page > 1 THEN m.entries ELSE @, !.restore = restore]

DirectoryAsked(l, m) ==
  LET asked == [m EXCEPT !.error = FALSE, !.loadingMore = l.page > 1,
                         !.loading = @ \/ (l.page = 1 /\ ~ l.keepDetail)]
  IN IF l.jumped
     THEN [asked EXCEPT !.directory = l.path, !.entries = <<>>, !.nextCursor = 0]
     ELSE asked

(* The page that arrives (or was cached): an append goes after the entries *)
(* seen when it was asked for.                                             *)
DirectoryShown(l, m) ==
  LET listed == [m EXCEPT !.directory = l.path,
                   !.entries = IF l.page > 1 THEN Append(l.had, <<l.path, l.page>>)
                               ELSE << <<l.path, 1>> >>,
                   !.nextCursor = IF l.page < MaxPages THEN l.page + 1 ELSE 0]
  IN IF l.page = 1 /\ ~ l.keepDetail
     THEN [listed EXCEPT !.file = NoPath, !.diff = NoDiffShown,
                         !.detailPath = NoPath, !.view = "browser"]
     ELSE listed

DropsNotes(l) == l.page = 1 /\ ~ l.keepDetail

LoadDirectory(path, page) ==
  /\ onPage /\ scopeBound /\ Fits(1)
  /\ LET l == DirectoryLoad(path, page, FALSE, 0, ws) IN
     /\ issueTicket(l)
     /\ \E cached \in BOOLEAN :
          /\ ws' = IF cached THEN DirectoryShown(l, DirectoryAsked(l, ws))
                   ELSE DirectoryAsked(l, ws)
          /\ notesOf' = IF cached /\ DropsNotes(l) THEN NoDiffShown ELSE notesOf
          /\ relabelled' = (relabelled /\ ~ l.jumped /\ ~ (cached /\ page = 1))
  /\ UNCHANGED <<onPage, scopeBound, pageCount, remembered>>

(* What the list offers: crumbs up to the directory shown, its rows, and   *)
(* the button for more.                                                    *)
ListVisible == ws.tab = "files" /\ ~ (ws.view = "browser" /\ ws.error)

openDirectory ==
  \/ ListVisible /\ LoadDirectory("root", 1)
  \/ ListVisible /\ ws.directory = "sub" /\ LoadDirectory("sub", 1)
  \/ ListVisible /\ ws.directory = "root" /\ ws.entries # <<>> /\ LoadDirectory("sub", 1)

loadMore ==
  /\ ListVisible /\ ws.nextCursor # 0 /\ ~ ws.loadingMore
  /\ LoadDirectory(ws.directory, ws.nextCursor)

(* After a page: the next one a revisit has to restore.                    *)
NextRestored(l, m) ==
  IF l.restore > 1 /\ ~ l.moved /\ m.directory = l.path /\ m.nextCursor # 0 /\ ~ m.error
  THEN {DirectoryLoad(l.path, m.nextCursor, l.keepDetail, l.restore - 1, m)}
  ELSE {}

AskAll(nexts, loads, m) ==
  /\ wsLoads' = Bumped(loads, UNION {n.flags : n \in nexts}) \cup nexts
  /\ ws' = IF nexts = {} THEN m ELSE DirectoryAsked(CHOOSE n \in nexts : TRUE, m)

directoryAnswered(l) ==
  /\ l \in wsLoads /\ l.kind = "directory"
  /\ \/ LET shown == DirectoryShown(l, ws)
            m == IF l.keepDetail THEN [shown EXCEPT !.loadingMore = FALSE]
                 ELSE finishWorkspaceLoad(shown)
        IN /\ AskAll(NextRestored(l, m), wsLoads \ {l}, m)
           /\ notesOf' = IF DropsNotes(l) THEN NoDiffShown ELSE notesOf
           /\ pageCount' = IF l.page = 1 THEN 1
                           ELSE IF pageCount < MaxPages THEN pageCount + 1 ELSE pageCount
           /\ relabelled' = (relabelled /\ l.page > 1)
     \/ LET back == [ws EXCEPT !.error = TRUE,
                               !.directory = IF l.jumped THEN l.from ELSE @]
        IN /\ ws' = IF l.keepDetail THEN [back EXCEPT !.loadingMore = FALSE]
                    ELSE finishWorkspaceLoad(back)
           /\ wsLoads' = wsLoads \ {l}
           /\ relabelled' = (relabelled \/ (l.jumped /\ ws.entries # <<>>))
           /\ UNCHANGED <<notesOf, pageCount>>
  /\ UNCHANGED <<onPage, scopeBound, remembered>>
-----------------------------------------------------------------------------
(* loadWorkspaceFile and loadGitDiff, up to their await.                   *)
FileAsked(path, m) ==
  [m EXCEPT !.loading = TRUE, !.error = FALSE, !.view = "file", !.detailPath = path,
            !.file = IF m.file = path THEN path ELSE NoPath]

FileLoad(path) == [Load("file", {"content"}) EXCEPT !.path = path]

KeepsDiff(d, m) == m.diff = d /\ m.diffLayer = d.layer

DiffAsked(d, m) ==
  [m EXCEPT !.loading = TRUE, !.error = FALSE, !.view = "diff", !.detailPath = d.path,
            !.diffLayer = d.layer,
            !.diff = IF KeepsDiff(d, m) THEN m.diff ELSE NoDiffShown]

DiffLoad(d) == [Load("diff", {"content"}) EXCEPT !.path = d.path, !.layer = d.layer]

loadWorkspaceFile(path) ==
  /\ onPage /\ scopeBound /\ Fits(1)
  /\ issueTicket(FileLoad(path))
  /\ \E cached \in BOOLEAN :
       ws' = IF cached THEN [FileAsked(path, ws) EXCEPT !.file = path]
             ELSE FileAsked(path, ws)
  /\ notesOf' = NoDiffShown
  /\ UNCHANGED <<onPage, scopeBound, pageCount, remembered, relabelled>>

loadGitDiff(d) ==
  /\ onPage /\ scopeBound /\ Fits(1)
  /\ issueTicket(DiffLoad(d))
  /\ \E cached \in BOOLEAN :
       /\ ws' = IF cached THEN [DiffAsked(d, ws) EXCEPT !.diff = d] ELSE DiffAsked(d, ws)
       /\ notesOf' = IF cached THEN d
                       ELSE IF KeepsDiff(d, ws) THEN notesOf ELSE NoDiffShown
  /\ UNCHANGED <<onPage, scopeBound, pageCount, remembered, relabelled>>

openFile ==
  \E path \in Paths :
    /\ \/ ListVisible /\ ws.entries # <<>>
       \/ ws.view = "file" /\ ws.error /\ path = ws.detailPath
    /\ loadWorkspaceFile(path)

openChange ==
  \E d \in [path : Changed, layer : Layers] :
    /\ \/ ws.tab = "changes" /\ ws.hasStatus /\ ~ (ws.view = "browser" /\ ws.error)
       \/ ws.view = "diff" /\ ws.error /\ d.path = ws.detailPath /\ d.layer = ws.diffLayer
    /\ loadGitDiff(d)

fileAnswered(l) ==
  /\ l \in wsLoads /\ l.kind = "file"
  /\ wsLoads' = wsLoads \ {l}
  /\ \/ ws' = finishWorkspaceLoad([ws EXCEPT !.file = l.path])
     \/ ws' = finishWorkspaceLoad([ws EXCEPT !.error = TRUE])
  /\ UNCHANGED <<onPage, scopeBound, pageCount, remembered, notesOf, relabelled>>

diffAnswered(l) ==
  /\ l \in wsLoads /\ l.kind = "diff"
  /\ wsLoads' = wsLoads \ {l}
  /\ LET d == [path |-> l.path, layer |-> l.layer] IN
     \/ ws' = finishWorkspaceLoad([ws EXCEPT !.diff = d]) /\ notesOf' = d
     \/ ws' = finishWorkspaceLoad([ws EXCEPT !.error = TRUE]) /\ UNCHANGED notesOf
  /\ UNCHANGED <<onPage, scopeBound, pageCount, remembered, relabelled>>
-----------------------------------------------------------------------------
(* The open answered.  The remembered navigation is committed when the     *)
(* root is the same; the detail, the listing and the status load together. *)
(* From here on the model itself is what will be remembered.               *)
RestoredView(sameRoot, m) ==
  IF sameRoot /\ remembered # NoNavigation
  THEN [m EXCEPT !.tab = remembered.tab, !.view = remembered.view,
                 !.directory = remembered.directory,
                 !.detailPath = remembered.detailPath, !.diffLayer = remembered.diffLayer]
  ELSE m

DetailOf(m) ==
  IF m.view = "file" THEN {FileLoad(m.detailPath)}
  ELSE IF m.view = "diff" THEN {DiffLoad([path |-> m.detailPath, layer |-> m.diffLayer])}
  ELSE {}

DetailAsked(m) ==
  IF m.view = "file" THEN FileAsked(m.detailPath, m)
  ELSE IF m.view = "diff" THEN DiffAsked([path |-> m.detailPath, layer |-> m.diffLayer], m)
  ELSE m

openAnswered(l) ==
  /\ l \in wsLoads /\ l.kind = "open"
  /\ Fits(2)
  /\ scopeBound' = TRUE /\ remembered' = NoNavigation
  /\ \E sameRoot \in BOOLEAN :
       LET known == RestoredView(sameRoot, [ws EXCEPT !.described = TRUE])
           pages == IF sameRoot /\ remembered # NoNavigation /\ ~ l.jumped
                    THEN remembered.pages ELSE 1
           asked == DetailAsked(known)
           listing == DirectoryLoad(known.directory, 1, known.view # "browser", pages, asked)
       IN /\ ws' = DirectoryAsked(listing, asked)
          /\ wsLoads' = Bumped(Bumped(wsLoads \ {l}, {"content", "directory", "status"})
                                 \cup DetailOf(known), listing.flags)
                        \cup {listing, Load("status", {"status"})}
  /\ UNCHANGED <<onPage, pageCount, notesOf, relabelled>>

(* The open failed; it ends the loading only if nothing else began since.  *)
openFailed(l) ==
  /\ l \in wsLoads /\ l.kind = "open"
  /\ wsLoads' = wsLoads \ {l}
  /\ ws' = IF ~ l.moved THEN finishWorkspaceLoad([ws EXCEPT !.error = TRUE])
           ELSE [ws EXCEPT !.error = TRUE]
  /\ UNCHANGED <<onPage, scopeBound, pageCount, remembered, notesOf, relabelled>>
-----------------------------------------------------------------------------
(* The status and the branches.                                            *)
StatusAsked == {n \in {Load("status", {"status"})} : scopeBound}

statusAnswered(l) ==
  /\ l \in wsLoads /\ l.kind = "status"
  /\ wsLoads' = wsLoads \ {l}
  /\ ws' \in {[ws EXCEPT !.hasStatus = TRUE], [ws EXCEPT !.error = TRUE]}
  /\ UNCHANGED <<onPage, scopeBound, pageCount, remembered, notesOf, relabelled>>

ensureBranches ==
  /\ onPage /\ scopeBound /\ ws.described /\ ~ ws.loadingBranches /\ Fits(1)
  /\ issueTicket(Load("branches", {"branches"}))
  /\ ws' = [ws EXCEPT !.loadingBranches = TRUE]
  /\ UNCHANGED <<onPage, scopeBound, pageCount, remembered, notesOf, relabelled>>

branchesAnswered(l) ==
  /\ l \in wsLoads /\ l.kind = "branches"
  /\ wsLoads' = wsLoads \ {l}
  /\ ws' \in {[ws EXCEPT !.loadingBranches = FALSE],
             [ws EXCEPT !.loadingBranches = FALSE, !.error = TRUE]}
  /\ UNCHANGED <<onPage, scopeBound, pageCount, remembered, notesOf, relabelled>>
-----------------------------------------------------------------------------
(* The tabs, and closing the detail.                                       *)
showWorkspaceTab(tab) ==
  /\ onPage /\ (tab = "changes" => ws.described /\ Fits(1))
  /\ wsLoads' = Bumped(wsLoads, IF tab = "changes" /\ scopeBound THEN {"content", "status"}
                                ELSE {"content"})
                \cup IF tab = "changes" THEN StatusAsked ELSE {}
  /\ ws' = finishWorkspaceLoad([ws EXCEPT !.tab = tab, !.view = "browser", !.error = FALSE])
  /\ UNCHANGED <<onPage, scopeBound, pageCount, remembered, notesOf, relabelled>>

closeWorkspaceDetail ==
  /\ onPage /\ ws.view # "browser"
  /\ wsLoads' = Bumped(wsLoads, {"content"})
  /\ ws' = finishWorkspaceLoad([ws EXCEPT !.view = "browser", !.file = NoPath,
                                          !.diff = NoDiffShown, !.error = FALSE])
  /\ UNCHANGED <<onPage, scopeBound, pageCount, remembered, notesOf, relabelled>>

WorkspaceViewNext ==
  \/ enterWorkspace \/ refreshWorkspace \/ leaveWorkspace
  \/ openDirectory \/ loadMore \/ openFile \/ openChange \/ ensureBranches
  \/ \E tab \in {"files", "changes"} : showWorkspaceTab(tab)
  \/ closeWorkspaceDetail
  \/ \E l \in wsLoads :
       \/ openAnswered(l) \/ openFailed(l) \/ directoryAnswered(l) \/ fileAnswered(l)
       \/ diffAnswered(l) \/ statusAnswered(l) \/ branchesAnswered(l)
-----------------------------------------------------------------------------
(* A spinner always has a load behind it that will end it: whatever was    *)
(* overtaken, left, refreshed or failed, loading means a load in flight    *)
(* whose ticket still stands, and so do loadingMore and loadingBranches.   *)
SpinnersHaveALoad ==
  /\ ws.loading => \E l \in wsLoads : l.kind \in {"open", "directory", "file", "diff"}
                                        /\ ~ l.moved /\ ~ l.keepDetail
  /\ ws.loadingMore => \E l \in wsLoads : l.kind \in {"directory", "file", "diff"}
  /\ ws.loadingBranches => \E l \in wsLoads : l.kind = "branches"

(* The list shows consecutive pages of the directory its crumbs name, the  *)
(* button for more asks for the page after the last one, and the page      *)
(* count a revisit restores is the number of pages listed.                 *)
ListingIsWhole ==
  relabelled \/
  /\ \A i \in DOMAIN ws.entries : ws.entries[i] = <<ws.directory, i>>
  /\ ws.nextCursor \in {0, Len(ws.entries) + 1}
  /\ ws.nextCursor # 0 => ws.entries # <<>>
  /\ ws.entries # <<>> => ws.nextCursor = (Len(ws.entries) + 1) % (MaxPages + 1)

(* A detail shows the file or the diff its heading names, in the layer its *)
(* label names, and notes written on a diff that is shown go to that diff. *)
DetailIsItsPath ==
  /\ ws.view = "file" => ws.file \in {NoPath, ws.detailPath}
  /\ ws.view = "diff" =>
       ws.diff \in {NoDiffShown, [path |-> ws.detailPath, layer |-> ws.diffLayer]}
  /\ onPage /\ ws.view = "diff" /\ ws.diff # NoDiffShown /\ ~ ws.loading /\ ~ ws.error =>
       notesOf = ws.diff

(* TypeOK is the set the snapshot's fields range over.                     *)
WorkspaceViewTypeOK ==
  /\ onPage \in BOOLEAN /\ scopeBound \in BOOLEAN /\ pageCount \in 1..MaxPages
  /\ ws.view \in {"browser", "file", "diff"} /\ ws.directory \in Dirs
  /\ Cardinality(wsLoads) <= MaxReads
=============================================================================
