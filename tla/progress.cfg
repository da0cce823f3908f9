SPECIFICATION FairSpec
CONSTANTS
  ann = ann
  ben = ben
  NoTxn = NoTxn
  N = 2
  Tenants = {ann}
  Topics <- OneTopic
  SameSubject <- SameTopic
  Texts = {"mixed"}
  Confs = {1, 2}
  Round <- Exact
  Importances = {1, 10}
  MaxUses = 1
  Step = 1
  MaxMonth = 2
  MaxFacts = 2
  MaxOpen = 5
  MaxCrashes = 0
  Turns = {1}
  Feedbacks = {}
  Deletes = {}
  Retrieves = {r1}
  Lists = {}
  Healths = {}
  Reweights = {w1}
  Purges = {p1}
  TenantOf <- AllAnn
PROPERTIES
  EveryTransactionEnds
  UsefulKept
