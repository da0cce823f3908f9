SPECIFICATION Spec
CONSTANTS
  ann = ann
  ben = ben
  NoTxn = NoTxn
  N = 3
  Tenants = {ann}
  Topics <- OneTopic
  SameSubject <- SameTopic
  Texts = {"clean"}
  Confs = {1}
  Round <- Exact
  Importances = {1, 10}
  MaxUses = 1
  Step = 1
  MaxMonth = 0
  MaxFacts = 2
  MaxOpen = 3
  MaxCrashes = 0
  Turns = {1, 2}
  Feedbacks = {}
  Deletes = {d1, d2}
  Retrieves = {}
  Lists = {l1}
  Healths = {}
  Reweights = {}
  Purges = {p1, p2}
  TenantOf <- AllAnn
SYMMETRY Alike
INVARIANTS
  ReplacementKept
  PurgeOnlyRequested
  WorkInv
PROPERTIES
  KeepsPromise
  DeletionSettles
