\* Late reports, external work and stale health pages.
SPECIFICATION Spec
CONSTANTS
  c1 = c1
  c2 = c2
  n1 = n1
  NoNode = NoNode
  Clients = {c1, c2}
  Nodes = {n1}
  NodeLimit <- OneEach
  GlobalLimit = 2
  Kinds = {"task", "routed", "shard"}
  MaxExternal = 1
  MaxRequests = 1
SYMMETRY ClientSymmetry
INVARIANTS
  TypeOK
  NodeNotOvercommitted
  SingleProbe
