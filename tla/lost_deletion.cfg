SPECIFICATION Spec
CONSTANTS
  ann = ann
  ben = ben
  NoTxn = NoTxn
  N = 1
  Tenants = {ann}
  Topics <- OneTopic
  SameSubject <- SameTopic
  Texts = {"clean"}
  Confs = {1}
  Round <- Exact
  Importances = {1, 10}
  MaxUses = 1
  Step = 2
  MaxMonth = 2
  MaxFacts = 1
  MaxOpen = 5
  MaxCrashes = 0
  Turns = {1}
  Feedbacks = {}
  Deletes = {d1}
  Retrieves = {}
  Lists = {}
  Healths = {}
  Reweights = {w1}
  Purges = {}
  TenantOf <- AllAnn
PROPERTIES
  DeletionIsFinal
