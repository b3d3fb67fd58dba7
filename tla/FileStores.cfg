SPECIFICATION StoresSpec
CONSTANTS
  Contents = {"a", "b"}
  Faults = {"crash", "crash_in_replace", "write_error", "rename_error"}
  MaxVersions = 3
  MaxCommands = 1
  MaxFaults = 2
INVARIANT RepliedKept
INVARIANT VersionsDistinct
INVARIANT VersionsAudited
PROPERTY CallsEnd
CHECK_DEADLOCK FALSE
