\* Two replicas and the migration job; short texts, programs and logins; each
\* component ends, or waits for an environment that has used up its bounds.
SPECIFICATION EdgeSpec
CONSTANTS
  Replicas = {g1, g2, job1}
  AutoMigrate = {g1, job1}
  Versions = {1, 2, 3}
  Repeatable = {1}
  MaxFaults = 2
  NoSession = NoSession
  None = None
  Orphan = Orphan
  Contents <- MCContents
  MaxLexemes = 2
  MaxRefs = 2
  Secrets = {"s", "t"}
  TTLs = {60, 130000}
  Jumps = {43000}
  MaxClock = 172000
  MaxBoots = 2
  Retries = 1
  MaxUiFaults = 3
  Excluded = {"x-extra", "x-trino-user"}
  MaxSteps = 2
  MaxCalls = 2
  DefaultGroup = "default"
  ServiceDefault = "svc"
  NoSource = NoSource
  Letters = {"x", "nl", " ", ":", "file"}
  MaxProgram = 4
  AuthConfigs <- MCAuthConfigs
  Directory <- MCDirectory
  MaxRotations = 1
  MaxOutages = 2
  MaxAttempts = 3
  Urls = {"u", "v"}
  Sources = {"s"}
  Searches <- MCSearches
  MaxRows = 2
INVARIANTS
  AppliedOnce
  ServesWholeSchema
  TokensAsWritten
  CutDamagesLastOnly
  MetaAsWritten
  OwnCookieAccepted
  ExpiresOnTime
  HealthyIsFresh
  DecisionArrives
  FallbackIsClean
  
  SourceSurvives
  LoginFollowsLatest
  PagesAsGranted
  HistoryScoped
  ConfigAsWritten
PROPERTIES
  UpgradesInOrder
  ReplicasComeUp
  CollectionRecovers
  RouteReturns
  KeysSettle
CHECK_DEADLOCK FALSE
