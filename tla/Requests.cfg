SPECIFICATION RequestsSpec
CONSTANTS
  Users = {u1}
  Service = "service"
  Orgs = {o1}
  NoOrg = NoOrg
  Nil = Nil
  Verifiers = {i, v}
  Issuer = i
  AccessTTL = 2
  RefreshTTL = 3
  MaxPairs = 2
  MaxChanges = 1

  Requesters = {r1, r2, r3}
  NoRequester = NoRequester
  TokenTTL = 6
  RefreshBuffer = 3
  MintDelay = 2
  Truncated = 1

  Addresses = {"in", "out", "bad"}
  Parsable = {"in", "out"}
  Listed = {"in"}
  NoHeader = "none"
  MaxBodySize = 2

  Calls = {c1, c2}
  Sizes = {1, 2}
  Limit = 2
  Window = 3
  MaxDelay = 1
  MaxTime = 4
  MaxBatches = 3
  MaxFaults = 1

  Replicas = 2
  Strategy = "random"
  FallbackToPrimary = TRUE
  MaxReplicaLag = 1
  ConsistencyWindow = 3
  CheckEvery = 1
  NetDelay = 1
  MaxWrites = 1
  MaxOutages = 1

  Hosts = {h1, h2}
  Accounts = {a1}
  Anonymous = Anonymous
  KnownTiers = {"auth", "api"}
  UnknownTier = "other"
  TierLimit = 2
  Lockers = {l1, l2, l3}
  Nobody = Nobody
  Expiration = 2
  MaxLockFaults = 2
  Publishers = {p1, p2}
  Bases = {"orders", "users"}
  Bound = "orders"
  Suffixed = TRUE
  MsgKeys = {k1}
  NoKey = NoKey
  KafkaPartitions = {1, 2}
  PartitionOf <- MCPartitionOf
  MaxMessages = 2
  MaxWriters = 2
  k1 = k1

INVARIANT RoleBounded
INVARIANT OrgDecisionKept
INVARIANT NoLockout
INVARIANT TokenOutlivesCall
INVARIANT HandlerReadsSigned
INVARIANT ReadYourWrites
INVARIANT WindowBound
INVARIANT RefusedLeaveNoTrace
INVARIANT NotCrowdedOut
INVARIANT LeaseExclusive
INVARIANT CloseClosesWriters
INVARIANT DeliveredAsMeant
SYMMETRY CallSymmetry
CHECK_DEADLOCK FALSE
