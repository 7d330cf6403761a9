CONSTANTS
  Classifiers = {c1, c2}
  Handlers = {h1, h2}
  Latencies = {1, 2}
  SampleMask = 3
  MaxCalls = 3
  a1 = a1
  a2 = a2
  Apps = {a1, a2}
  Settings <- MCSettings
  Nobody = Nobody
SPECIFICATION DnsSpec
INVARIANTS DnsTypeOK StatisticsMatchCalls ConfigSettles
SYMMETRY Alike
