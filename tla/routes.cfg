SPECIFICATION FairTable
CONSTANTS
  web = web
  db = db
  consul = consul
  w1 = w1
  w2 = w2
  d1 = d1
  c1 = c1
  Services <- MCServices
  Consul = consul
  Instances <- MCInstances
  ServiceOf <- MCServiceOf
INVARIANTS
  TableTypeOK
PROPERTIES
  InstallsOnlyHealthy
  InstallsAllSteady
  TableConverges
