SPECIFICATION Spec
CONSTANTS
  p0 = p0
  p1 = p1
  a = a
  t0 = t0
  t1 = t1
  u = u
  spmd = spmd
  first = first
  second = second
  Default = Default
  Nothing = Nothing
  Gone = Gone
  Process = {p0, p1, a}
  Rank = {p0, p1}
  Task = {t0, t1, u}
  Of <- MCOf
  Store = {spmd, first, second}
  Shares = {first, second}
  Manages <- MCManagesTwo
  Uses <- MCUsesTwo
  MaxInit <- MCMaxInitTwo
  LifeFault = {}
  Primary = p0
  Collective = spmd
  SpmdFault = {}
INVARIANTS IndexedIsHeld
CHECK_DEADLOCK TRUE
