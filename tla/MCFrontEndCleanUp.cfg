SPECIFICATION Spec
CONSTANTS
    Dir = {"cwd", "d1", "d2"}
    NoDir = "none"
    Cwd = "cwd"
    Header = {"g", "h", "k"}
    NoHeader = "end"
    MaxIncludes = 2
    HeaderIn <- MCHeaderIn
    Commands <- OneErrorCommands
INVARIANTS ActionCleanedUp
CHECK_DEADLOCK FALSE
