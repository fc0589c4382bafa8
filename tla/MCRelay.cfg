CONSTANTS
  Phones = {p1, p2}
  Daemons = {d1, d2}
  NoDaemon = NoDaemon
  Strangers = {}
  MAX_ESTABLISHED = 1
  MAX_RESUME = 1
  MAX_PAIRING = 1
  Openers = {d1, d2}
  NoOpener = NoOpener
  Refs = {p1, p2}
  NoRef = NoRef
  LOC_MINT_TRIES = 2
  MaxMinted = 4
  MaxQueue = 2
  Guests = {g1}
  HELLO_GRACE_MS = 1
  RESUME_MS = 1
  PAIR_FIRST_MS = 1
  PAIR_CONFIRM_MS = 1
  DEFAULT_TTL_MS = 2
  MaxTime = 4
  MaxLate = 1
  MaxOpens = 2
  Tickets = {t1}
  GATE_WINDOW_MS = 3
  GATE_FREE_ATTEMPTS = 1
  GATE_COOLDOWN_BASE_MS = 1
  GATE_COOLDOWN_MAX_MS = 2
  GATE_PRUNE_INTERVAL_MS = 2
  TICKET_MS = 2
  MaxClock = 6
  MaxAttempts = 5
  Handlers = {d1, d2}
  Grants = {p1, p2}
  NoGrant = NoGrant
  SELF_GRANT_PER_IP = 2
  MaxTokens = 3
  MaxRequests = 3
  Sources = {s1}
  AUTH_LOCKOUT_MS = 1
  Strikes <- MCStrikes
  INVITE_GLOBAL_STRIKES = 2
  MaxHour = 2
  MaxVersion = 2
  Mixes = {{"invite"}, {"bootstrap"}, {"login"}}
  Callers = {d1, d2}
  Owners = {p1, p2}
  NoOwner = NoOwner
  MaxProofs = 2
  MaxTries = 2
  MaxConnectPages = 2
  MaxPairEvents = 4
SPECIFICATION Spec
INVARIANTS
  RelayTypeOK
  RoomHolds
  
  
  GateHolds
  
  
  ClaimIsEarned
  PhonePairingHolds
PROPERTIES
  LateAttemptsAreSilent
  
SYMMETRY Names
CHECK_DEADLOCK FALSE
