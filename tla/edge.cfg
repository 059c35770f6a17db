SPECIFICATION FairSpec
CONSTANTS
  Clients = {c1, c2}
  Observed = c1
  Limit = 2
  Window = 2
  MinSweep = 3
  Tokens = {{}, {"parts", "signature", "payload", "issuer", "audience"}, {"parts", "signature", "payload", "expiry", "issuer", "audience"}}
INVARIANTS
  TypeOK
  
  
PROPERTIES
  ImplementsFixedWindow
  RefusalEnds
  BucketsReclaimed
