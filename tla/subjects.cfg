SPECIFICATION Spec
CONSTANTS
  ann = ann
  ben = ben
  NoTxn = NoTxn
  N = 3
  Tenants = {ann}
  Topics <- TopicRow
  SameSubject <- NearTopics
  Texts = {"clean", "secret"}
  Confs = {1, 2, 3}
  Round <- RoundUp
  Importances = {1, 10}
  MaxUses = 1
  Step = 1
  MaxMonth = 0
  MaxFacts = 2
  MaxOpen = 5
  MaxCrashes = 1
  Turns = {1, 2}
  Feedbacks = {}
  Deletes = {}
  Retrieves = {}
  Lists = {}
  Healths = {h1}
  Reweights = {}
  Purges = {}
  TenantOf <- AllAnn
INVARIANTS
  TypeOK
  SupersededByBetter
  HealthCoherent
  WorkInv
CHECK_DEADLOCK FALSE
