SPECIFICATION Spec
CONSTANTS
  m1 = m1
  m2 = m2
  m3 = m3
  Memories = {m1, m2, m3}
  Scale = 5
  Traits <- SomeTraits
  Pool = 2
  KMax = 2
  Budget = 3
INVARIANTS
  WithinBudget
  OnlyRelevant
  AbstainsHonestly
  LeftOutForBetter
  RankingInv
CHECK_DEADLOCK FALSE
SYMMETRY Symmetry
