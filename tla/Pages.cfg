SPECIFICATION PagesSpec
CONSTANTS
  None = None
  Newlines = {2}
  RingCap = 1
  ClientCap = 2
  MaxLog = 3
  MaxStreams = 2
  MaxSockets = 2
  MaxLive = 5
  Raw <- McRaw
  Amounts <- McAmounts
  Numbers <- McNumbers
  Noise <- McNoise
  Steps <- McSteps
  SuiteOrder <- McSuiteOrder
  Genesis <- McGenesis
  PageSizes = {1, 3}
  DefaultPageSize = 1
  DefaultSlow = 4
  MaxSlow = 5
  SlowInputs = {0, 3, 9}
  DefaultThreshold = 1
  ThresholdInputs = {0, 1, 2}
  Typed <- McTyped
  Execs = {1}
  MaxChanged = 2
  MaxTerms = 1
  MaxPage = 5
  Total = 3
  PopCap = 1
  PeerRows <- McPeerRows
  PeerSeq <- McPeerSeq
  ThisRun = "r2"
  MaxCompare = 2
  MinCompare = 2
  Widths = {1, 2}
  RunSeq <- McRunSeq
  RunRows <- McRunRows
  LiveRows <- McLiveRows
  SuiteLabels <- McSuiteLabels
  RunSizes = {2, 3}
  DefaultRunSize = 2
  MostCompared = 2
  FewestCompared = 2
  MaxRunsChanged = 1
  WhileChoosing = {"size"}
  Moving = {"u2"}
  MaxInPlay = 2
  SuiteRows <- McSuiteRows
  SuiteIndexes <- McSuiteIndexes
  PreRunSteps <- McPreRun
  SuiteSizes = {1, 2}
  DefaultSuiteSize = 2
  MostBoxes = 2
  Shades = 4
  LinkMost = 2
  LinkFewest = 2
  SuiteMayAsk = {"s3"}
  SuiteTogether <- McSuiteTogether
  SuiteTestSeq <- McSuiteTests
  TestRuns <- McTestRuns
  OpCategories <- McOpCategories
  FileSizes = {1, 2}
  DefaultFileSize = 2
  SuiteQueries <- McSuiteQueries
  Limits = {3}
  DefaultLimit = 2
  MostPages = 4
  CgSuites = {"x"}
  ClientOrder <- McClients
  CgRows <- McCgRows
  CgIndexes <- McCgIndexes
  CgResults <- McCgResults
  CgConfigs = {"s1", "s2", "s3", "s4", "s5"}
  CgOrder <- McCgOrder
  CgSlots = 2
  CgSamples = {1, 2}
  DefaultSample = 2
  CgPageSize = 2
  CgBucket = 3
  CgLimits = {1, 2}
  DefaultCgLimit = 1
  CgQueries <- McCgQueries
  MostPicked = 2
  FewestPicked = 2
  CgTogether <- McCgTogether
  CgCompared <- McCompared
  CgMostEdits = 1
  CgMayClick = {"s1", "s3"}
  QbGroups <- McQbGroups
  QbOperators = {"eq", "is"}
  QbValues = {"", "geth"}
  QbPresets <- McQbPresets
  DefaultQbLimit = 1
  MostQbLimit = 2
  QbNumbers <- McQbNumbers
  QbTogether <- McQbTogether
  QbAsked <- McQbAsked
  MostQbEntries = 1
  MostQbRows = 1
  MostQbOffset = 1
  MostQbAnswers = 2
  SpIndexes <- McSpIndexes
  SpLabels <- McSpLabels
  SpNow = 30
  SpSize = 2
  SpDays = {7, 30}
  DefaultSpDays = 7
  MostSpChanged = 2
  FvFiles <- McFvFiles
  FvSizes <- McFvSizes
  FvFull = 4
  FvChunk = 4
  FvLinks = {{}, {3}}
  FvClicks <- McFvClicks
  MostChunks = 2
  MostRanges = 2
  Me = "me"
  UaUsers = {"me", "u"}
  UaNew = {"n"}
  UaTouched = {"u"}
  MostUaCalls = 2
  MostOthers = 1
CHECK_DEADLOCK FALSE

INVARIANTS
  PagesTypeOK
  OneSocket LinesFollowText TextContiguous TruncationShown
  HeatmapCountersAgree ChipTellsResult
  SettlesOnFiles
  ChosenAreIndexed
  CompareLinksSound
  AveragesOwnRuns
  ReloadKeepsQuery
  FileViewSound
PROPERTIES
  RunsChoiceKept SuiteChoiceKept PeersChoiceKept
  StripHoldsStill TablePageHasRows SwitchingTablesAsksNothing ListsKeepRows GroupKeysFollowClicks BoxesFollowClicks
  SavesKeepRoles
