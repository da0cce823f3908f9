SPECIFICATION Spec
CONSTANTS
  ann = ann
  ben = ben
  NoTxn = NoTxn
  N = 2
  Tenants = {ann}
  Topics <- OneTopic
  SameSubject <- SameTopic
  Texts = {"clean"}
  Confs = {1, 2}
  Round <- Exact
  Importances = {1, 10}
  MaxUses = 1
  Step = 1
  MaxMonth = 0
  MaxFacts = 1
  MaxOpen = 5
  MaxCrashes = 0
  Turns = {1, 2}
  Feedbacks = {}
  Deletes = {}
  Retrieves = {}
  Lists = {}
  Healths = {}
  Reweights = {}
  Purges = {}
  TenantOf <- AllAnn
INVARIANTS
  NewerWins
CHECK_DEADLOCK FALSE
