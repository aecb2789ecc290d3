SPECIFICATION AgentSpec
CONSTANTS
    Missing = Missing
    MaxPrograms = 1
    MaxCommands = 2
    MaxMishaps = 0
INVARIANTS
    OffUninstalls
CHECK_DEADLOCK FALSE
