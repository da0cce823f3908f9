SPECIFICATION Spec
CONSTANTS
  K = 2
  Budget = 4
  Tokens <- TokensOf
  Unit = 12
  Words = {"i", "use", "it", "rained"}
  Candidates <- Texts
  MaxExamples = 5
  Never = 10000
  Scenarios = 3
  SearchMs = {5, 25}
  CandidateMs = 80
  LatencyBudget = 100
  Values = {1, 2, 3, 4}
  MaxSamples = 13
  Length = 5
  Patterns = 3
  MaxFindings = 3
INVARIANTS
  MrrFitsHits
  ExamplesExplainRates
  DroppedOnlyIfMissed
  CountersExact
  NeverAdopts
  PercentilesHold
  InnocentTextKept
  NoSecretKeptWithoutTails
  VerdictFits
  RedactionInv
PROPERTIES
  LearnsWhatItIsTold
CHECK_DEADLOCK FALSE
