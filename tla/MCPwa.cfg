CONSTANTS
  Phones = {p1, p2}
  Users = {u1}
  Nobody = Nobody
  Machines = {m1, m2}
  CostOf <- MCCostOf
  MaxPaired = 1
  MaxMints = 2
  MaxTasks = 3
  Terms = {m1, m2}
  NoTerm = NoTerm
  MaxSuspends = 1
  TERMINAL_INPUT_CHUNK = 2
  MaxTyped = 3
  MaxAsked = 3
  Sizes = {1, 2}
  MaxFrames = 2
  MaxWire = 1
  MAX_RENDER_QUEUE = 1
  Computers = {m1, m2, c1}
  NoComputer = NoComputer
  Removable = {c1}
  Jobs = {1, 2}
  MAX_ENTRIES = 2
  Panes = {m1, m2}
  NoPane = NoPane
  MAX_BATCH = 1
  MaxPending = 2
  Hosts = {m1, m2}
  NoHost = NoHost
  MaxSnaps = 2
  Pages = {1, 2}
  Daemons = {m1, m2, c1}
  PaneIds = {1, 2}
  NoRecord = NoRecord
  SNAPSHOT_CACHE_MAX_DAEMONS = 1
  SNAPSHOT_CACHE_MAX_PANES = 1
  MaxSaves = 3
  Tasks = {m1, m2}
  NoOne = NoOne
  JobIds = {m1, m2, c1}
  WORKTREE_JOB_LIMIT = 2
  MaxRuns = 2
  Revisions = {m1, m2}
  NoRevision = NoRevision
  Pins = {1, 2}
  MaxBody = 2
  MaxNoteId = 3
  Scopes = {m1, m2, c1}
  NoScope = NoScope
  MAX_DRAFTS = 2
  MaxWords = 2
  MaxPrompts = 2
  Desks = {m1, m2}
  NoDesk = NoDesk
  KEY_BATCH = 2
  MaxTokens = 2
  MAX_READS = 2
  MaxSubmits = 2
  MaxWording = 2
  EchoPanes = {m1, m2}
  NoEchoPane = NoEchoPane
  PageTasks = {1, 2}
  RETRIES = 1
  MaxHash = 2
  MaxGhost = 1
  ChatPanes = {m1, m2}
  NoChatPane = NoChatPane
  TRACE_PAGE = 2
  OLDER_FILL_MAX = 2
  MAX_CACHED_PANES = 1
  MaxEvents = 3
  MaxTurns = 1
  MaxLinks = 1
  Owners = {m1, m2}
  NoOwnerKey = NoOwnerKey
  Calls = {1, 2}
  MAX_DETAILS_PER_PANE = 1
  MaxOrdinal = 2
  MaxPictures = 3
  Paths = {"a"}
  Changed = {"a"}
  Layers = {"staged", "worktree"}
  MaxPages = 2
  MaxReads = 3
  WsPanes = {1}
  Roots = {m1, m2}
  Keys = {"status", "file"}
  NoBinding = NoBinding
  NoData = NoData
  WORKSPACE_CACHE_ROOT_LIMIT = 1
  MaxWrites = 1
  MaxCalls = 2
  Pictures = {"picture"}
  Clips = {"clip"}
  NoMediaFile = NoMediaFile
  LoadIds = {1, 2}
  NoLoad = 0
  OwnerScopes = {m1, m2}
  NoOwnerScope = NoOwnerScope
  PrefPanes = {1, 2}
  ModesTried = {"auto", "full"}
  FontsTried = {8, 14}
  MaxEdits = 2
  Cards = {1, 2, 3}
  SpaceOf <- MCSpaceOf
  AgentOf <- MCAgentOf
  UnboundGroup = 29
  MaxMoves = 2
SPECIFICATION Spec
INVARIANTS
  VaultHolds
  
  ComputersHold
  LiveViewHolds
  ActionsHold
  DraftsHold
  
  
  ChatHolds
  

  
SYMMETRY Names
CHECK_DEADLOCK FALSE
