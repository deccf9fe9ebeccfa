\* Two invocations that meet the same server.
CONSTANT Client = {c1, c2}
SPECIFICATION RoutingSpec
INVARIANTS
  ComputedOnce
  ServersModel
PROPERTIES
  InvocationsEnd
