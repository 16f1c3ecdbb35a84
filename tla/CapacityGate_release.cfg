\* One global slot that dispatches to a node and to a shard group compete for.
SPECIFICATION FairSpec
CONSTANTS
  c1 = c1
  c2 = c2
  n1 = n1
  NoNode = NoNode
  Clients = {c1, c2}
  Nodes = {n1}
  NodeLimit <- Unreported
  GlobalLimit = 1
  Kinds = {"task", "routed", "shard"}
  MaxExternal = 0
  MaxRequests = 1
INVARIANTS
  CapacityConserved
  
PROPERTIES
  ReserveReturns
