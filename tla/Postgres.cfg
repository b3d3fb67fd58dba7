SPECIFICATION MCSpec
CONSTANTS
  Requests = {1, 2, 3}
  Ops = {"put", "rollback", "drain", "ack"}
  MaxCommands = 2
  MaxExpired = 2
  MaxAborts = 1
  Agents = {a1}
  MaxVersions = 1
  MaxFaults = 1
INVARIANT PublishedKept
INVARIANT HandedOncePerLease
 
PROPERTY SettledStays
PROPERTY RequestsEnd
PROPERTY CommandsPreserved
CHECK_DEADLOCK FALSE
