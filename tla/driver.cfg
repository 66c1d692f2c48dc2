CONSTANTS
  Cpus = {c1, c2}
  Clients = {u1, u2}
SPECIFICATION FairSpec
INVARIANTS TypeOK RingOutlivesUsers NothingLeaks TearDownIsExact
PROPERTY ThreadFinishes
