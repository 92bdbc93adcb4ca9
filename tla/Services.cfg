SPECIFICATION ServicesSpec
CONSTANTS
  Clips = {c1, c2}
  Notes = {n1, n2}
  Crews <- TwoCrews
  HalfCpus = 3
  Workers = 3
  AcquireBudget = 1
  InferenceBudget = 1
  AdvisoryBudget = 1
  Overhead = 1
  MaxFaults = 1
  Exports = {x1}
  Records = {i1, i2}
  Selections = {{i1, i2}}
  MaxUpsets = 2
  Inspections = {i1, i2}
  Tabs = {t1, t2}
  Managers = {m1, m2}
  ManagerOf <- ManagerOfTabs
  Scenes <- ThreeScenes
  MaxSlips = 1
  Channels = {"email", "teams"}
  Delays <- RetryDelays
  LongestDelay = 4
  WebhookTimeout = 5
  AlertBudget = 60
  MaxReplays = 1
  Photos = {p1}
  VoiceClips = {v1, v2}
  Window = 3
  MaxBreaks = 1
  Accounts = {a1, a2}
  AllowedSets <- RoleSets
  Windows = {w1, w2}
  Hits = {h1, h2}
  c1 = c1
  c2 = c2
  n1 = n1
  n2 = n2
  i1 = i1
  i2 = i2
  x1 = x1
  t1 = t1
  t2 = t2
  m1 = m1
  m2 = m2
  p1 = p1
  v1 = v1
  v2 = v2
  a1 = a1
  a2 = a2
  w1 = w1
  w2 = w2
  h1 = h1
  h2 = h2
  NoCall = NoCall
  NoFile = NoFile
  NoAccount = NoAccount
  Nothing = Nothing
  Desks = {k1, k2}
  Faults = {d1, d2}
  EquipmentOf <- OneMachine
  Rank <- NewestFirst
  Filters = {"ALL", "OPEN"}
  Floors <- ThreeFloors
  Unread = Unread
  NoFault = NoFault
  MaxWrong = 2
  k1 = k1
  k2 = k2
  d1 = d1
  d2 = d2
  e1 = e1
  s1 = s1
  s2 = s2
  q1 = q1
  Fleet = {e1}
  Registered = {}
  Checks = {s1, s2}
  Asks = {q1}
  MaxUpkeep = 2
INVARIANTS
  ServicesTypeOK
  ModelsGuarded
  FilesTellTheTruth
  DismissedWasDisplayed
  AlertsBounded
  MediaKept
  ActsAsChosen
  DesksAgree
  BootsSoundly
  AnswersAreTrue
PROPERTIES
  EveryCallIsAnswered
  EveryExportEnds
  EveryInspectionIsShown
  ClipsExpire
  EveryDeskCatchesUp
CHECK_DEADLOCK FALSE
