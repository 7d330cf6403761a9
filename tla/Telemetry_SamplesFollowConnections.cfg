CONSTANTS
  Classifiers = {c1}
  Handlers = {h1}
  Latencies = {1, 2}
  SampleMask = 1
  MaxCalls = 3
  a1 = a1
  a2 = a2
  Apps = {a1, a2}
  Settings <- MCSettings
  Nobody = Nobody
SPECIFICATION DnsSpec
INVARIANTS SamplesFollowConnections
