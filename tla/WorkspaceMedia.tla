--------------------------- MODULE WorkspaceMedia --------------------------
(***************************************************************************)
(* The media surface of the workspace page: media-actions.ts, the loader   *)
(* that owns remote handles and blob URLs (media-loader.ts), and the file  *)
(* reads and navigation that start and retire loads.                       *)
(*                                                                         *)
(* A load captured the owner, the content version and a media generation:  *)
(* it carries whether each still stands.  Loads are numbered; a blob URL   *)
(* has the number of its load, and a number is free again when its load is *)
(* over and holds neither handle nor URL.  Only a file's name and role     *)
(* matter of it: pictures load by themselves, clips when asked.            *)
(***************************************************************************)
EXTENDS Naturals, FiniteSets

CONSTANTS Pictures, Clips, NoMediaFile, LoadIds, NoLoad

MediaFiles == Pictures \cup Clips

VARIABLES
  mediaView,     \* snapshot.media: path, status, url
  detailFile,    \* the file the detail is about
  fileRead,      \* the file read whose content ticket stands
  listing,       \* a directory read whose ticket stands will close the detail
  contentMoved,  \* the content version moved since this media was claimed
  mediaOps,      \* loads by number
  loaderHolds    \* WorkspaceMediaLoader.current

mediaVars ==
  <<mediaView, detailFile, fileRead, listing, contentMoved, mediaOps, loaderHolds>>

emptyMediaView == [path |-> NoMediaFile, status |-> "idle", url |-> NoLoad]

FreeLoad == [file |-> NoMediaFile, pc |-> "over", own |-> FALSE, same |-> FALSE,
         handle |-> FALSE, url |-> FALSE]

MediaInit ==
  /\ mediaView = emptyMediaView /\ detailFile = NoMediaFile
  /\ fileRead = NoMediaFile /\ listing = FALSE /\ contentMoved = FALSE
  /\ mediaOps = [id \in LoadIds |-> FreeLoad] /\ loaderHolds = NoLoad
-----------------------------------------------------------------------------
(* The loader.                                                             *)
isCurrent(id) == loaderHolds = id

(* A load that is over and holds nothing gives its number back.            *)
MediaSettled(ops) ==
  [id \in LoadIds |-> IF ops[id].pc = "over" /\ ~ ops[id].handle /\ ~ ops[id].url
                      THEN FreeLoad ELSE ops[id]]

(* Mutant: a replaced load keeps its URL until it ends itself.             *)
(* dispose: the URL is revoked and the handle closed.                      *)
dispose(ops, id) ==
  IF id = NoLoad THEN ops ELSE [ops EXCEPT ![id].url = FALSE, ![id].handle = FALSE]

(* claimMediaGeneration: every load before it lost its generation.         *)
Claimed(ops) == [id \in LoadIds |-> [ops[id] EXCEPT !.own = FALSE]]

(* The content version moves: no load is of the same content any more.     *)
ContentBumped(ops) == [id \in LoadIds |-> [ops[id] EXCEPT !.same = FALSE]]

(* clearWorkspaceMedia on the way to other content.                        *)
ClearedFor(file) ==
  /\ mediaOps' = MediaSettled(ContentBumped(Claimed(dispose(mediaOps, loaderHolds))))
  /\ loaderHolds' = NoLoad
  /\ mediaView' = emptyMediaView
  /\ contentMoved' = FALSE /\ listing' = FALSE
  /\ detailFile' = file
-----------------------------------------------------------------------------
(* Navigation.                                                             *)
openMediaFile(file) ==
  /\ ClearedFor(file)
  /\ fileRead' = file

(* closeWorkspaceDetail, showWorkspaceTab, loadGitDiff, and retirePending  *)
(* of a visit that ends or starts over.                                    *)
leaveDetail ==
  /\ detailFile # NoMediaFile
  /\ ClearedFor(NoMediaFile)
  /\ fileRead' = NoMediaFile

(* loadDirectoryPage moves the content version and leaves the media alone; *)
(* a page that is not appended closes the detail when it arrives.          *)
browseDirectory(append) ==
  /\ mediaOps' = MediaSettled(ContentBumped(mediaOps))
  /\ contentMoved' = (mediaView.path # NoMediaFile)
  /\ fileRead' = NoMediaFile
  /\ listing' = ~ append
  /\ UNCHANGED <<mediaView, detailFile, loaderHolds>>

directoryArrives ==
  /\ listing /\ listing' = FALSE
  /\ detailFile' = NoMediaFile
  /\ UNCHANGED <<mediaView, fileRead, contentMoved, mediaOps, loaderHolds>>
-----------------------------------------------------------------------------
(* loadWorkspaceMedia up to its first call: the loader's begin disposes of *)
(* the load before.                                                        *)
Begin(ops, id, file) ==
  /\ mediaOps' = MediaSettled([dispose(ops, loaderHolds) EXCEPT
                            ![id] = [file |-> file, pc |-> "open", own |-> TRUE,
                                     same |-> TRUE, handle |-> FALSE, url |-> FALSE]])
  /\ loaderHolds' = id

FreeIds == {id \in LoadIds : mediaOps[id] = FreeLoad}

(* The file read ended: prepareWorkspaceMedia, and a picture within its    *)
(* size loads at once under the generation prepared.                       *)
fileReadEnds ==
  /\ fileRead # NoMediaFile /\ fileRead' = NoMediaFile
  /\ \/ /\ fileRead \in Pictures
        /\ \E id \in FreeIds :
             /\ Begin(Claimed(dispose(mediaOps, loaderHolds)), id, fileRead)
             /\ mediaView' = [path |-> fileRead, status |-> "loading", url |-> NoLoad]
     \/ /\ mediaOps' = MediaSettled(Claimed(dispose(mediaOps, loaderHolds)))
        /\ loaderHolds' = NoLoad
        /\ mediaView' = [path |-> fileRead, url |-> NoLoad,
                         status |-> IF fileRead \in Pictures THEN "oversize" ELSE "idle"]
  /\ contentMoved' = FALSE
  /\ UNCHANGED <<detailFile, listing>>

fileReadFails ==
  /\ fileRead # NoMediaFile /\ fileRead' = NoMediaFile
  /\ UNCHANGED <<mediaView, detailFile, listing, contentMoved, mediaOps, loaderHolds>>

(* The view and reload buttons: a fresh generation; the URL shown before   *)
(* stays in the view while it loads.                                       *)
loadWorkspaceMedia ==
  /\ detailFile # NoMediaFile /\ mediaView.path # NoMediaFile
  /\ mediaView.status \in {"idle", "error", "codec"}
  /\ \E id \in FreeIds : Begin(Claimed(mediaOps), id, mediaView.path)
  /\ mediaView' = [mediaView EXCEPT !.status = "loading"]
  /\ contentMoved' = FALSE
  /\ UNCHANGED <<detailFile, fileRead, listing>>

(* A decoder gives up, or the decoded picture is too large.                *)
markMediaFailure(status) ==
  /\ mediaView.status = "ready"
  /\ mediaView' = [mediaView EXCEPT !.status = status]
  /\ UNCHANGED <<detailFile, fileRead, listing, contentMoved, mediaOps, loaderHolds>>
-----------------------------------------------------------------------------
(* load() rejects: what it held is disposed of, and the failure is shown   *)
(* if the load still owns the surface.                                     *)
MediaRejected(id) ==
  /\ mediaOps' = MediaSettled(dispose([mediaOps EXCEPT ![id].pc = "over"], id))
  /\ loaderHolds' = IF isCurrent(id) THEN NoLoad ELSE loaderHolds
  /\ mediaView' = IF mediaOps[id].own THEN [mediaView EXCEPT !.status = "error"]
                  ELSE mediaView

mediaOpened(id) ==
  /\ mediaOps[id].pc = "open"
  /\ \/ MediaRejected(id)
     \/ /\ isCurrent(id)
        /\ mediaOps' = [mediaOps EXCEPT ![id].pc = "read", ![id].handle = TRUE]
        /\ UNCHANGED <<loaderHolds, mediaView>>
  /\ UNCHANGED <<detailFile, fileRead, listing, contentMoved>>

mediaChunk(id) ==
  /\ mediaOps[id].pc = "read"
  /\ \/ MediaRejected(id)
     \/ /\ isCurrent(id)
        /\ mediaOps' = [mediaOps EXCEPT ![id].pc = "digest"]
        /\ UNCHANGED <<loaderHolds, mediaView>>
  /\ UNCHANGED <<detailFile, fileRead, listing, contentMoved>>

mediaDigested(id) ==
  /\ mediaOps[id].pc = "digest"
  /\ \/ MediaRejected(id)
     \/ /\ isCurrent(id)
        /\ mediaOps' = [mediaOps EXCEPT ![id].pc = "loaded", ![id].url = TRUE,
                                        ![id].handle = FALSE]
        /\ UNCHANGED <<loaderHolds, mediaView>>
  /\ UNCHANGED <<detailFile, fileRead, listing, contentMoved>>

(* The result is shown only by the load that owns the surface.             *)
mediaPublished(id) ==
  /\ mediaOps[id].pc = "loaded"
  /\ mediaOps' = MediaSettled([mediaOps EXCEPT ![id].pc = "over"])
  /\ mediaView' = IF mediaOps[id].own /\ mediaOps[id].same
                  THEN [path |-> mediaOps[id].file, status |-> "ready", url |-> id]
                  ELSE mediaView
  /\ UNCHANGED <<loaderHolds, detailFile, fileRead, listing, contentMoved>>

MediaNext ==
  \/ \E file \in MediaFiles : openMediaFile(file)
  \/ leaveDetail
  \/ \E append \in BOOLEAN : browseDirectory(append)
  \/ directoryArrives
  \/ fileReadEnds \/ fileReadFails \/ loadWorkspaceMedia
  \/ \E status \in {"codec", "oversize"} : markMediaFailure(status)
  \/ \E id \in LoadIds :
       mediaOpened(id) \/ mediaChunk(id) \/ mediaDigested(id) \/ mediaPublished(id)
-----------------------------------------------------------------------------
(* Whatever is opened is let go: a load that ended closed its remote       *)
(* handle, the one blob URL alive is that of the load the loader holds,    *)
(* and a URL the page shows or offers for download has not been revoked.   *)
MediaIsReleased ==
  /\ \A id \in LoadIds : mediaOps[id].pc = "over" => ~ mediaOps[id].handle
  /\ \A id \in LoadIds : mediaOps[id].url => isCurrent(id)
  /\ mediaView.status \in {"ready", "codec"} => mediaOps[mediaView.url].url

(* The surface belongs to the detail: the media is of the file the detail  *)
(* names, its bytes are that file's, and a progress bar has a load behind  *)
(* it that will end it, unless the content version moved under the load.   *)
MediaIsOfTheFile ==
  /\ mediaView.path # NoMediaFile /\ detailFile # NoMediaFile => mediaView.path = detailFile
  /\ mediaView.status \in {"ready", "codec"} => mediaOps[mediaView.url].file = mediaView.path
  /\ mediaView.status = "loading" =>
       contentMoved \/ \E id \in LoadIds : mediaOps[id].own /\ mediaOps[id].pc # "over"
=============================================================================
