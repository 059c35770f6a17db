SPECIFICATION Spec
CONSTANTS
  Callers = {p1, p2}
  Services = {"s1", "s2"}
  Instances <- MCInstances
  Listing <- MCListing
  Statuses <- MCStatuses
  Taggings <- MCTaggings
  Weight <- MCWeight
  Sessions = {"k1", "k2"}
  Hash <- MCHash
  MaxInt = 3
  MaxDrift = 3
  Nobody = Nobody
SYMMETRY Symmetry
INVARIANTS
  TypeOK
  CountsConnections
  LeastWithinDrift
  IndexInRange
  
  StatsAddUp
