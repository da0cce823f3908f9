SPECIFICATION FairSpec
CONSTANTS
  ann = ann
  ben = ben
  NoTxn = NoTxn
  N = 2
  Tenants = {ann}
  Topics <- OneTopic
  SameSubject <- SameTopic
  Texts = {"clean"}
  Confs = {1}
  Round <- Exact
  Importances = {1, 10}
  MaxUses = 1
  Step = 1
  MaxMonth = 0
  MaxFacts = 1
  MaxOpen = 1
  MaxCrashes = 0
  Turns = {1, 2}
  Feedbacks = {}
  Deletes = {d1}
  Retrieves = {}
  Lists = {}
  Healths = {}
  Reweights = {}
  Purges = {p1}
  TenantOf <- AllAnn
PROPERTIES
  DeletionCompletes
