SPECIFICATION FairSpec
CONSTANTS
    Dir = {"cwd", "d1", "d2"}
    NoDir = "none"
    Cwd = "cwd"
    Header = {"g", "h", "k"}
    NoHeader = "end"
    MaxIncludes = 2
    HeaderIn <- MCHeaderIn
    Commands <- MCCommands
INVARIANTS TypeOK SourcesIndependent ExitReportsFailure HeadersAsSearched
PROPERTIES FrontEndEnds
CHECK_DEADLOCK FALSE
