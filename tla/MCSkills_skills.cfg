SPECIFICATION MCSpec
CONSTANTS
  Callers = {p1, p2}
  MaxServers = 2
  MaxDirs = 2
  MaxPolls = 1
  MaxFaults = 1
  Writers = {p1, p2}
  Boundaries = {t1, t2}
  Parents = {d1, d2}
  MaxMoves = 1
  Findings = {1, 2, 3, 4}
  Options = {"x", "y"}
  Reporters = {p1, p2}
  Audits = {1, 2}
  Work = {1}
  RowKinds <- ChainRows
  MaxWrites = 3
  Items = {i1, i2}
  Workers = {p1, p2}
  MaxEdits = 2
  MaxLost = 1
  Resolvers = {p1, p2}
  MaxIds = 3
  PageSize = 1
  MaxPages = 2
  Attempts = 2
  MaxMishaps = 1
  Skills = {t1, t2}
  SharedFiles = {d1, d2}
  Rubrics = {i1, i2}
  CaseOf <- EachCase
  MaxChanges = 2
  Checks = {p1, p2}
  Plans <- SomePlans
  MaxSummaries = 1
  MaxTroubles = 1
  Reports <- SmallReports
  Evaluated <- SmallEvaluated
SYMMETRY Sym
CHECK_DEADLOCK FALSE
INVARIANTS
  ReportsAreServed
  WritesAreWhole
  PageAgreesWithSelect
  ApprovalsAreComplete
  PageIsOneStory
  CompleteMeansProven
  PublicationsAreSound
  ReportsAreConsistent
  EvaluationsAreHonest
  ConfigurationIsSound
  ResolutionIsSound
  CreatesOnlyAbsent
  ChangedSkillsAreEvaluated
  ChecksAreEarned
