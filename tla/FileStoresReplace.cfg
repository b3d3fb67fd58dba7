SPECIFICATION StoresSpec
CONSTANTS
  Contents = {"a", "b"}
  Faults = {"crash_in_replace"}
  MaxVersions = 3
  MaxCommands = 2
  MaxFaults = 2
INVARIANT RepliedDurable
CHECK_DEADLOCK FALSE
