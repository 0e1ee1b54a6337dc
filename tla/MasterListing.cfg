SPECIFICATION FairSpec
CONSTANTS
  Relays = {"r1", "r2"}
  Ips = {"ip"}
  IpOf <- TheIpOf
  Keys = {"r1", "r2"}
  KeyOf <- TheKeyOf
  MaxListed = 2
  PerIp = 1
  MaxProbes = 1
  Every = 1
  Ttl = 3
  Tokens = {1}
  MaxNet = 1
  Unsteady = {"r1"}
  MaxFaults = 1
INVARIANT ListedIsThere
PROPERTIES StaysListed GetsListed
CHECK_DEADLOCK FALSE
