SPECIFICATION FairSpec
CONSTANTS
  Nodes = {n1, n2}
  TTL = 3
  Renew = 3
  NoLease = NoLease
  Torn = Torn
INVARIANTS
  AtMostOnePrimary
  LeasesHold
PROPERTIES
  LeadershipSettles
