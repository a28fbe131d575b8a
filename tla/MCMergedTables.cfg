SPECIFICATION Spec
CONSTANTS
  Extent = 2
  Publisher = {0, 1, 2}
  Requester = {"r", "s"}
  Namespace = {"a", "b"}
  Menu <- PlainMenu
  Wants <- MCWants
  Hash <- MCHash
  None = None
PROPERTY MergeIsHarmless
CHECK_DEADLOCK FALSE
