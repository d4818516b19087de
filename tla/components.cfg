\* Two of everything that comes in pairs; the bounds of each component keep
\* its hard cases within reach (README, section 4).
SPECIFICATION Spec
CONSTANTS
  s1 = s1
  s2 = s2
  u1 = u1
  u2 = u2
  a1 = a1
  a2 = a2
  Names = {"n1", "n2", "n3"}
  Callers = {a1, a2}
  Plans = {"FREE", "ENTERPRISE"}
  MaxRecoveries = 1
  Step = 11
  Horizon = 187
  PeriodEnd = 11
  Metered = {s1, s2}
  Payer <- MCPayer
  Interval = 10
  Attempts = 3
  MaxTraffic = 1
  MaxPeriods = 2
  MaxFaults = 2
  Services = {a1, a2}
  TagsOf <- MCTagsOf
  BuiltTags = {"built"}
  MaxImages = 2
  Tabs = {a1, a2}
  MaxTokens = 3
  MaxTrouble = 2
  Rows = {1, 2, 3}
  Hubs = {"g1"}
  Mails = {"e1"}
  SignIns = {a1, a2}
  People = {u1, u2}
  Founder = u1
  Asks = {a1, a2}
  Policies = {"terms", "privacy"}
  Pages = {a1, a2}
  MaxVersions <- MCMaxVersions
  LogStreams = {"l1"}
  MetricStreams = {"m1"}
  RedisFaults = TRUE
  Keys = {"f1", "f2"}
  Admins = {"p1"}
  Checks = {"k1"}
  CacheTtl = 1
  MaxCache = 1
  Delay = 1
  Until = 3
  MaxEdits = 1
  Cards = {"web"}
  Clicks = {a1, a2}
  MaxClicks = 2
  Changes = 1
  Repos = {"a", "b", "c"}
  OwnerOf <- MCOwnerOf
  Loops = {a1, a2}
  PageSize = 2
  HubPage = 1
  MaxChanges = 1
  Sites = {"site"}
  PreviewRows = {1, 2}
  Handlers = {a1, a2}
  MaxPushes = 1
  Charged = {s1, s2}
  MakerOf <- MCMakerOf
  TeamOf <- MCTeamOf
  NoTeam = "none"
  Reader = u1
  Stretch = 1
  Term = 2
  Longest = 2
  MaxTime = 2
  MaxRecords = 2
  Tries = {a1, a2}
  MaxTries = 2
  MaxMishaps = 1
  Folk = {u1, u2}
  Linked = {u1}
  Chief = u1
  Windows = {a1, a2}
  MaxSends = 4
  Editors = {u1}
  Engines = {"POSTGRES"}
  Typed = {8080}
  MaxSaves = 3
SYMMETRY AlikeSymmetry
CONSTRAINT Bounds
INVARIANTS
  TypesOK LimitHeld UsageOnce RotatedOnce LogoutHolds
  Restartable AskedOnce NothingLeaks OneHome
  AnswersRecent GuessesEnd NoneMissed ClosedLeavesNone FailuresExplained LastWayIn
  ServedAsShown
PROPERTIES WarnedFirst LastOwnerKept AnswersAgree
CHECK_DEADLOCK FALSE
