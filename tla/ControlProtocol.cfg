SPECIFICATION LiveSpec
CONSTANTS
  Kinds = {"drain_and_restart", "pause_exports", "resume_exports", "reload_config"}
  Rejected = {1}
  Faults = {"error", "server", "agent", "silence"}
  MaxCommands = 2
  MaxVersion = 2
  MaxFaults = 1
INVARIANT RestartsAccounted
INVARIANT OutcomeTrue
INVARIANT LastCommandWins
PROPERTY ImplementsLifecycle
PROPERTY CommandsSettled
PROPERTY ConfigConverges
CHECK_DEADLOCK FALSE
