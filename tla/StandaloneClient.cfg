SPECIFICATION Spec
CONSTANTS
  Addresses = {a1, a2, a3}
  Requests = {r1, r2}
  PreferReplica = TRUE
  Nowhere = Nowhere
SYMMETRY Symmetry
INVARIANTS TypeOK PrimaryIsMaster NoReplicaSkipped ReadsAlternate
PROPERTY NodesAreLinks
CHECK_DEADLOCK FALSE
