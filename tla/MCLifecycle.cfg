SPECIFICATION Spec
CONSTANTS
  p0 = p0
  p1 = p1
  a = a
  t0 = t0
  t1 = t1
  u = u
  spmd = spmd
  first = first
  second = second
  Default = Default
  Nothing = Nothing
  Gone = Gone
  Process = {p0, p1, a}
  Rank = {p0, p1}
  Task = {t0, t1, u}
  Of <- MCOf
  Store = {spmd, first}
  Shares = {first}
  Manages <- MCManages
  Uses <- MCUses
  MaxInit <- MCMaxInit
  LifeFault = {"init", "reset"}
  Primary = p0
  Collective = spmd
  SpmdFault = {"attach", "set", "kill", "exit"}
INVARIANTS TypeOK IndexedIsHeld SessionsAreServed StatusIsTrue NothingLeaks NoCallHangs
PROPERTIES GetIsOwn
CHECK_DEADLOCK TRUE
