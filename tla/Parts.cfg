\* One instance of each component; the bounds are explained in README.md.
SPECIFICATION Spec
CONSTANTS
  Commands = {c1, c2}
  MaxSecrets = 2
  MaxVersions = 2
  Tenants = {"t1", "t2"}
  Scopes = {"*", "admin", "tokens:write"}
  ScopeLists = {{}, {"*"}, {"admin"}, {"tokens:write"}}
  Requests = {r1}
  MaxTokens = 2
  Items = 4
  MaxAttempts = 3
  HardMaxPages = 3
  MaxTotal = 3
  Conns = {k1, k2}
  MaxConnects = 1
  Procs = {p1, p2}
  Tunnels = {u1, u2}
  Hosts = {h1, h2}
  CacheEntries = 1
  Daemons = {d1, d2}
  ClientCalls = {a1}
  MaxStarts = 2
  OutputLimit = 2
  MaxPrinted = 3
  Actions <- TheActions
  ArgNames <- TheArgNames
  Skills = {s1}
  Syncs = {y1, y2}
  MaxRuns = 2
  MaxChanges = 1
  Words <- TheWords
  MaxEdits = 3
  MaxCommands = 3
  Documents <- TheDocuments
  Placeholders <- ThePlaceholders
  Manifests <- TheManifests
  AgentRequests <- TheRequests
  Params <- TheParams
  Globs <- TheGlobs
  Texts <- TheTexts
  Unsafe = {".."}
  Outputs <- TheOutputs
  Configs <- TheConfigs
  Floor = 2
  Dots = 1
  Rounds = 3
  ShortNames = {"n1", "n2"}
  Catalog <- TheCatalog
INVARIANTS
  SecretHasOneHistory
  OneMasterKey
  MintedWithinAuthority
  RotationLeavesOne
  PagesAreOneSweep
  RetriesHaveCause
  EndTellsOfChild
  CacheIsItsQueue
  OneDaemon
  SuccessIsWhole
  SyncHeals
  BlockComesAndGoes
  
  NarrowerRuleAnswers
  BudgetKeepsTheMost
  WithdrawIsAllOrNothing
PROPERTIES
  RunReturns
\* Calls, commands and imports end, and the bounded processes stop.
CHECK_DEADLOCK FALSE
