------------------------------- MODULE MCPwa --------------------------------
(* The controllers of the phone's application side by side on small       *)
(* instances. They do not share state: the initial state chooses the one  *)
(* part that moves; the variables of the others are 0 and stay so.        *)
EXTENDS Vault, FullTerminal, TerminalInput, TerminalFrames, Lifecycle,
        LiveReads, Herd, SnapshotCache, HerdActions, WorktreeJobs, DiffNotes,
        Drafts, GuidedInput, GuardedSubmit, PaneKeys, AgentChat,
        ChatAttachments, WorkspaceView, WorkspaceCache, WorkspaceMedia,
        Preferences, HerdList, TLC

VARIABLE part

MCCostOf == [p \in Phones |-> IF p = CHOOSE q \in Phones : TRUE THEN 1 ELSE 2]
MCSpaceOf == <<11, 11, 12>>
MCAgentOf == <<21, 29, 21>>

(* The parts that do not move.                                            *)
Still(p) ==
  /\ UNCHANGED part
  /\ IF p = "vault" THEN TRUE ELSE UNCHANGED vaultVars
  /\ IF p = "fullterminal" THEN TRUE ELSE UNCHANGED fullVars
  /\ IF p = "input" THEN TRUE ELSE UNCHANGED inputVars
  /\ IF p = "frames" THEN TRUE ELSE UNCHANGED frameVars
  /\ IF p = "lifecycle" THEN TRUE ELSE UNCHANGED lifecycleVars
  /\ IF p = "reads" THEN TRUE ELSE UNCHANGED readVars
  /\ IF p = "herd" THEN TRUE ELSE UNCHANGED herdVars
  /\ IF p = "snapcache" THEN TRUE ELSE UNCHANGED cacheVars
  /\ IF p = "actions" THEN TRUE ELSE UNCHANGED actionVars
  /\ IF p = "worktrees" THEN TRUE ELSE UNCHANGED worktreeVars
  /\ IF p = "notes" THEN TRUE ELSE UNCHANGED noteVars
  /\ IF p = "drafts" THEN TRUE ELSE UNCHANGED draftVars
  /\ IF p = "guided" THEN TRUE ELSE UNCHANGED guidedVars
  /\ IF p = "guarded" THEN TRUE ELSE UNCHANGED guardVars
  /\ IF p = "panekeys" THEN TRUE ELSE UNCHANGED paneKeyVars
  /\ IF p = "chat" THEN TRUE ELSE UNCHANGED chatVars
  /\ IF p = "strip" THEN TRUE ELSE UNCHANGED stripVars
  /\ IF p = "tools" THEN TRUE ELSE UNCHANGED toolVars
  /\ IF p = "files" THEN TRUE ELSE UNCHANGED workspaceViewVars
  /\ IF p = "wscache" THEN TRUE ELSE UNCHANGED workspaceCacheVars
  /\ IF p = "media" THEN TRUE ELSE UNCHANGED mediaVars
  /\ IF p = "prefs" THEN TRUE ELSE UNCHANGED deviceVars
  /\ IF p = "panemaps" THEN TRUE ELSE UNCHANGED paneMapVars
  /\ IF p = "list" THEN TRUE ELSE UNCHANGED herdListVars

VaultMoves == part = "vault" /\ VaultNext /\ Still("vault")
FullterminalMoves == part = "fullterminal" /\ FullNext /\ Still("fullterminal")
InputMoves == part = "input" /\ TerminalInputNext /\ Still("input")
FramesMoves == part = "frames" /\ FramesNext /\ Still("frames")
LifecycleMoves == part = "lifecycle" /\ LifecycleNext /\ Still("lifecycle")
ReadsMoves == part = "reads" /\ LiveReadsNext /\ Still("reads")
HerdMoves == part = "herd" /\ HerdNext /\ Still("herd")
SnapcacheMoves == part = "snapcache" /\ SnapshotCacheNext /\ Still("snapcache")
ActionsMoves == part = "actions" /\ HerdActionsNext /\ Still("actions")
WorktreesMoves == part = "worktrees" /\ WorktreeNext /\ Still("worktrees")
NotesMoves == part = "notes" /\ DiffNotesNext /\ Still("notes")
DraftsMoves == part = "drafts" /\ DraftsNext /\ Still("drafts")
GuidedMoves == part = "guided" /\ GuidedNext /\ Still("guided")
GuardedMoves == part = "guarded" /\ GuardNext /\ Still("guarded")
PanekeysMoves == part = "panekeys" /\ PaneKeysNext /\ Still("panekeys")
ChatMoves == part = "chat" /\ AgentChatNext /\ Still("chat")
StripMoves == part = "strip" /\ StripNext /\ Still("strip")
ToolsMoves == part = "tools" /\ ToolsNext /\ Still("tools")
FilesMoves == part = "files" /\ WorkspaceViewNext /\ Still("files")
WscacheMoves == part = "wscache" /\ WorkspaceCacheNext /\ Still("wscache")
MediaMoves == part = "media" /\ MediaNext /\ Still("media")
PrefsMoves == part = "prefs" /\ DevicePrefNext /\ Still("prefs")
PanemapsMoves == part = "panemaps" /\ PaneMapNext /\ Still("panemaps")
ListMoves == part = "list" /\ HerdListNext /\ Still("list")

Init ==
  /\ part \in {"vault", "fullterminal", "input", "frames", "lifecycle",
               "reads", "herd", "snapcache", "actions", "worktrees", "notes",
               "drafts", "guided", "guarded", "panekeys", "chat", "strip",
               "tools", "files", "wscache", "media", "prefs", "panemaps",
               "list"}
  /\ IF part = "vault" THEN VaultInit
     ELSE row = 0 /\ owned = 0 /\ cookie = 0 /\ store = 0 /\ db = 0 /\
          kept = 0 /\ sync = 0 /\ claim = 0 /\ paired = 0 /\ mints = 0 /\
          tasks = 0
  /\ IF part = "fullterminal" THEN FullInit
     ELSE full = 0 /\ hidden = 0 /\ online = 0 /\ stage = 0 /\ retry = 0 /\
          load = 0 /\ term = 0 /\ mounting = 0 /\ bridge = 0 /\
          opening = 0 /\ opened = 0 /\ suspends = 0 /\ leaving = 0 /\
          resuming = 0 /\ served = 0 /\ swallowed = 0
  /\ IF part = "input" THEN TerminalInputInit
     ELSE typed = 0 /\ draft = 0 /\ ime = 0 /\ policy = 0 /\ deferred = 0 /\
          fallback = 0 /\ held = 0 /\ fired = 0 /\ live = 0 /\ ready = 0 /\
          pump = 0 /\ given = 0 /\ got = 0
  /\ IF part = "frames" THEN FramesInit /\ fittedSize = 1
     ELSE fittedSize = 0 /\ remoteGrid = 0 /\ xterm = 0 /\ layout = 0 /\
          bridgeIs = 0 /\ openSize = 0 /\ queuedSize = 0 /\ sentSize = 0 /\
          applied = 0 /\ pinchResizeTimer = 0 /\ pty = 0 /\ repaint = 0 /\
          sequence = 0 /\ wire = 0 /\ partial = 0 /\ lastSequence = 0 /\
          needsFullFrame = 0 /\ painted = 0 /\ pendingWrites = 0 /\
          missed = 0
  /\ IF part = "lifecycle" THEN LifecycleInit
     ELSE jobs = 0 /\ pool = 0 /\ openLinks = 0 /\ liveLink = 0 /\
          credential = 0 /\ phase = 0 /\ grants = 0 /\ stored = 0 /\
          shown = 0
  /\ IF part = "reads" THEN LiveReadsInit
     ELSE openPane = 0 /\ paneText = 0 /\ paneReadFlight = 0 /\
          queuedPaneRead = 0 /\ carried = 0 /\ frames = 0 /\ stray = 0 /\
          padKeys = 0 /\ pollLoop = 0 /\ loopRuns = 0 /\ due = 0 /\
          linkUp = 0
  /\ IF part = "herd" THEN HerdInit
     ELSE seat = 0 /\ herd = 0 /\ refreshBusy = 0 /\ snapshotPending = 0 /\
          snaps = 0 /\ restores = 0 /\ cached = 0 /\ seen = 0 /\
          storedSeen = 0 /\ unread = 0 /\ paneOf = 0 /\ deepLink = 0
  /\ IF part = "snapcache" THEN SnapshotCacheInit
     ELSE rows = 0 /\ saves = 0 /\ saveClock = 0
  /\ IF part = "actions" THEN HerdActionsInit
     ELSE asked = 0 /\ lock = 0 /\ opBusy = 0 /\ toast = 0 /\ granted = 0 /\
          wrongs = 0
  /\ IF part = "worktrees" THEN WorktreeInit
     ELSE cards = 0 /\ jobRuns = 0 /\ late = 0
  /\ IF part = "notes" THEN DiffNotesInit
     ELSE noteScope = 0 /\ notes = 0 /\ noteSerial = 0 /\ sendingIds = 0 /\
          batch = 0 /\ unsent = 0
  /\ IF part = "drafts" THEN DraftsInit
     ELSE scopeNow = 0 /\ field = 0 /\ composing = 0 /\ drafts = 0 /\
          recent = 0 /\ parked = 0 /\ prompts = 0 /\ home = 0 /\ settled = 0
  /\ IF part = "guided" THEN GuidedInit
     ELSE at = 0 /\ liveNow = 0 /\ liveFor = 0 /\ buffer = 0 /\
          liveInputPump = 0 /\ tail = 0 /\ padQueue = 0 /\ paneWire = 0 /\
          tokens = 0 /\ givenUp = 0
  /\ IF part = "guarded" THEN GuardInit
     ELSE screen = 0 /\ inPty = 0 /\ wording = 0 /\ attempt = 0 /\
          owner = 0 /\ pressed = 0 /\ handed = 0 /\ submits = 0 /\
          wordings = 0
  /\ IF part = "panekeys" THEN PaneKeysInit
     ELSE viewing = 0 /\ shownHash = 0 /\ pageTask = 0 /\ pagePending = 0 /\
          pageSent = 0 /\ echo = 0 /\ expiry = 0 /\ rollbackTimer = 0
  /\ IF part = "chat" THEN AgentChatInit
     ELSE chatLink = 0 /\ chatUp = 0 /\ chatPane = 0 /\ isAgentChat = 0 /\
          journal = 0 /\ narrow = 0 /\ trace = 0 /\ fetch = 0 /\
          traceCache = 0 /\ prompt = 0 /\ landing = 0 /\ turns = 0
  /\ IF part = "strip" THEN StripInit
     ELSE mounted = 0 /\ promptText = 0 /\ inFlight = 0 /\ images = 0 /\
          liveURLs = 0 /\ imageKey = 0
  /\ IF part = "tools" THEN ToolsInit
     ELSE boundKey = 0 /\ toolDetail = 0 /\ toolReads = 0 /\ choices = 0
  /\ IF part = "files" THEN WorkspaceViewInit
     ELSE onPage = 0 /\ scopeBound = 0 /\ ws = 0 /\ pageCount = 0 /\
          remembered = 0 /\ notesOf = 0 /\ relabelled = 0 /\ wsLoads = 0
  /\ IF part = "wscache" THEN WorkspaceCacheInit
     ELSE bindings = 0 /\ scopes = 0 /\ roots = 0 /\ calls = 0 /\
          written = 0 /\ settledAt = 0
  /\ IF part = "media" THEN MediaInit
     ELSE mediaView = 0 /\ detailFile = 0 /\ fileRead = 0 /\ listing = 0 /\
          contentMoved = 0 /\ mediaOps = 0 /\ loaderHolds = 0
  /\ IF part = "prefs" THEN DevicePrefInit
     ELSE record = 0 /\ disk = 0 /\ unsaved = 0 /\ desk = 0 /\
          storageFull = 0 /\ edits = 0
  /\ IF part = "panemaps" THEN PaneMapInit
     ELSE prefOwner = 0 /\ maps = 0 /\ diskMaps = 0 /\ listed = 0 /\
          mapsBlocked = 0 /\ paneEdits = 0
  /\ IF part = "list" THEN HerdListInit
     ELSE listedCards = 0 /\ touchedAt = 0 /\ pinnedSet = 0 /\
          grouping = 0 /\ folds = 0 /\ moves = 0

Next ==
  \/ VaultMoves \/ FullterminalMoves \/ InputMoves \/ FramesMoves
  \/ LifecycleMoves \/ ReadsMoves \/ HerdMoves \/ SnapcacheMoves
  \/ ActionsMoves \/ WorktreesMoves \/ NotesMoves \/ DraftsMoves
  \/ GuidedMoves \/ GuardedMoves \/ PanekeysMoves \/ ChatMoves \/ StripMoves
  \/ ToolsMoves \/ FilesMoves \/ WscacheMoves \/ MediaMoves \/ PrefsMoves
  \/ PanemapsMoves \/ ListMoves

vars == <<part, vaultVars, fullVars, inputVars, frameVars, lifecycleVars,
          readVars, herdVars, cacheVars, actionVars, worktreeVars, noteVars,
          draftVars, guidedVars, guardVars, paneKeyVars, chatVars, stripVars,
          toolVars, workspaceViewVars, workspaceCacheVars, mediaVars,
          deviceVars, paneMapVars, herdListVars>>

Spec == Init /\ [][Next]_vars

Names == Permutations(Machines)
-----------------------------------------------------------------------------
(* Two phones of one account store one vault between them: whatever       *)
(* stores, conflicts and lost answers interleave, what is stored opens    *)
(* with the account's key.                                                *)
VaultHolds ==
  /\ part = "vault" => VaultOpens

(* The full terminal: no terminal of the daemon is left unattended and no *)
(* view is at a dead end (FullTerminal); what is typed reaches the daemon *)
(* once and in order, Enter by itself (TerminalInput); deltas are drawn   *)
(* on their base and the picture never freezes (TerminalFrames).          *)
TerminalHolds ==
  /\ part = "fullterminal" => NoTerminalIsForgotten /\ ThereIsAWayOn
  /\ part = "input" => PumpConserves /\ EnterIsAlone /\ OneSubmitPerPress /\
       TypedOnce
  /\ part = "frames" => DeltasHaveTheirBase /\ NotFrozen

(* Switching computers: one computer is on the screen with its own        *)
(* session, no transport leaks, the resuming screen is always left, and   *)
(* the list of computers ends up true.                                    *)
ComputersHold ==
  /\ part = "lifecycle" => OneComputerOnScreen /\ NoLinkIsLost /\
       ResumingHasAnOwner /\ CatalogCatchesUp

(* What the page shows of a computer: reads see the keys they were asked  *)
(* for, no reader is stranded and no text is another pane's (LiveReads);  *)
(* the list is the seated computer's and unread completions stay (Herd);  *)
(* stored text is filed under its own pane within its bounds              *)
(* (SnapshotCache).                                                       *)
LiveViewHolds ==
  /\ part = "reads" => ReadsSeeTheirKeys /\ NoReaderIsStranded /\
       LoopOwnsOneRead /\ TextIsTheOpenPanes
  /\ part = "herd" => RefreshLaneIsSound /\ HerdIsOfTheSeat /\
       UnreadKeepsAttention /\ OpenPaneIsListed
  /\ part = "snapcache" => TextIsFiledRight /\ CacheIsBounded

(* Mutations of the herd: busy and pending marks have a running owner and *)
(* nothing is sent for another computer (HerdActions); a worktree card    *)
(* has one run and ignores late results (WorktreeJobs); no note is lost   *)
(* unsaid (DiffNotes).                                                    *)
ActionsHold ==
  /\ part = "actions" => BusyHasAnOwner /\ PendingNoticeHasItsTask /\
       SendsAreOwned
  /\ part = "worktrees" => CardHasOneRun /\ LateResultsAreIgnored
  /\ part = "notes" => NoNoteIsLost /\ OneNotePerPin

(* Unsent text stays in the scope it was typed in and is not lost         *)
(* (Drafts).                                                              *)
DraftsHold ==
  /\ part = "drafts" => DraftsStayHome /\ UnsentTextIsKept

(* Typing into a guided pane: what was typed is in one place, in order,   *)
(* and Enter follows its text (GuidedInput); a buffered text is submitted *)
(* only on a screen that proves it (GuardedSubmit); marks and predictions *)
(* of keys under way end with them (PaneKeys).                            *)
GuidedHolds ==
  /\ part = "guided" => TypedIsSomewhere /\ TextInOrder /\ EnterFollowsItsText
  /\ part = "guarded" => EnterIsProven /\ NewWordingIsKept
  /\ part = "panekeys" => PageMarksAreTrue /\ GhostsFade

(* No step of a phone replaces a newer state of shared storage by an      *)
(* older one: a vault is not re-keyed behind its users' backs (Vault) and *)
(* a stored snapshot is not buried by an overtaken save (SnapshotCache);  *)
(* only what the reader does changes the stored choices for the panes of  *)
(* the computer on screen (Preferences) and the folds of the list         *)
(* (HerdList).                                                            *)
NothingIsUndone ==
  [][/\ part = "vault" => VaultStaysKeyed
     /\ part = "snapcache" => CacheMovesOn
     /\ part = "panemaps" => OwnMapsOnly
     /\ part = "list" => FoldsAreTheReaders]_vars

(* The choices of the reader: what was chosen on this phone is there      *)
(* after a reload unless storage refused it, the choices for panes are    *)
(* those of the computer on screen and end with their panes               *)
(* (Preferences); the list draws every pane exactly once however it is    *)
(* grouped (HerdList).                                                    *)
SettingsHold ==
  /\ part = "prefs" => ChoicesSurviveReload
  /\ part = "panemaps" => MapsAreTheComputers /\ GonePanesAreForgotten
  /\ part = "list" => EveryPaneDrawnOnce

(* The agent chat: a read marked as running is running, the transcript is *)
(* the open pane's, in order, continued at its cursor and without the     *)
(* optimistic turn beside the real one (AgentChat); previews match the    *)
(* draft, tool details that say they load are being read, choices are the *)
(* view's own (ChatAttachments).                                          *)
ChatHolds ==
  /\ part = "chat" => BusyHasARead /\ TraceIsOfThePane /\
       OlderContinuesTheView /\ PendingShownOnce
  /\ part = "strip" => PreviewsMatchTheDraft
  /\ part = "tools" => LoadingIsRead /\ ChoicesAreOwn

(* The workspace page: every spinner has a load behind it, the list is    *)
(* whole and the detail is of its path (WorkspaceView); what was read     *)
(* before an own write is not served after it and a shared flight is      *)
(* running (WorkspaceCache); remote handles and blob URLs are let go and  *)
(* the media is of the file shown (WorkspaceMedia).                       *)
WorkspaceHolds ==
  /\ part = "files" => SpinnersHaveALoad /\ ListingIsWhole /\ DetailIsItsPath
  /\ part = "wscache" => OwnWritesAreSeen /\ FlightsAreRunning
  /\ part = "media" => MediaIsReleased /\ MediaIsOfTheFile
=============================================================================
