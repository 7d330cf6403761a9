CONSTANTS
  Classifiers = {c1}
  Connections <- MCConnections
  Apps = {a1, a2}
  RouteKinds = {"vpn", "blocked", "tor"}
  Requests <- MCRequests
  Policies <- MCPolicies
  MaxPolicies = 2
  None = None
  BootModes = {0, 2}
  a1 = a1
  a2 = a2
SPECIFICATION Spec
INVARIANTS VpnIsPermitted
