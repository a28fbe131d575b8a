SPECIFICATION SyncSpec
CONSTANTS
  p1 = p1
  p2 = p2
  r1 = r1
  r2 = r2
  rows = rows
  columns = columns
  g1 = g1
  Unknown = Unknown
  Rank = {p1, p2}
  Mesh = {p1, p2}
  Requester = {r1, r2}
  Layout = {rows, columns}
  Reads <- MCReads
  MaxInit = 2
  MaxPush <- MCMaxPush
  Faults = {"push", "reply", "pull", "timeout"}
  SteadyRetry = TRUE
  Extent = 3
  WorldSize = 2
  Policy = {"policy", "critic"}
  Shard <- MCShard
  Cast = {"policy", "critic"}
  Generator = {g1}
  Into <- MCInto
  Uses <- MCUses
  OneUse = TRUE
  MaxStep = 1
  MaxRegister = 2
  DirectFault = {"num_ranks", "fetch", "read"}
  Orderly = TRUE
INVARIANTS TypeOK NoLostWakeup StoredAsRegistered MappingCommits HandlesAreRefreshed
PROPERTIES ExchangeSpec WaitersServed PulledIsLatest PulledStays
CHECK_DEADLOCK TRUE
