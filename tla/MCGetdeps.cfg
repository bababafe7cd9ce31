SPECIFICATION Spec
CONSTANTS
    Loads <- MCLoads
    Root = "app"
    Commands <- MCCommands
    max_attempts = 2
    Edits <- MCEdits
    MaxCommands = 3
    MaxChanges = 1
    MaxCrashes = 1
INVARIANTS
    SoundBuild
    HashFileTruth
    DepsReady
    ConfiguredBuild
CHECK_DEADLOCK FALSE
PROPERTIES
    CommandEnds
