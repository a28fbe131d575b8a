SPECIFICATION Spec
CONSTANTS
  Extent = 2
  Publisher = {0, 1, 2}
  Requester = {"r", "s"}
  Namespace = {"a", "b"}
  Menu <- MCMenu
  Wants <- MCWants
  Hash <- MCHash
  None = None
INVARIANTS PlanIsExact SourcesAgree ShardingIsAccepted GetIsComplete
CHECK_DEADLOCK FALSE
