SPECIFICATION Spec
CONSTANTS
  ann = ann
  ben = ben
  NoTxn = NoTxn
  N = 2
  Tenants = {ann, ben}
  Topics <- OneTopic
  SameSubject <- SameTopic
  Texts = {"clean", "secret"}
  Confs = {1}
  Round <- Exact
  Importances = {1, 10}
  MaxUses = 1
  Step = 2
  MaxMonth = 2
  MaxFacts = 1
  MaxOpen = 2
  MaxCrashes = 1
  Turns = {1, 2}
  Feedbacks = {f1}
  Deletes = {d1}
  Retrieves = {r1}
  Lists = {}
  Healths = {}
  Reweights = {w1}
  Purges = {}
  TenantOf <- TwoUsers
INVARIANTS
  TenantIsolation
  JournalExplains
  AnswersDurable
PROPERTIES
  NoSearchFindsDeleted
  NeverReactivated
  InactiveSettles
CHECK_DEADLOCK FALSE
