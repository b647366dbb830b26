\* One manager process, two clients of its read API.
SPECIFICATION FairSpec
CONSTANTS
    Clients = {c1, c2}
INVARIANTS
    TypeOK
    ShutdownIsGraceful
    ExitTellsFailure
PROPERTIES
    NeverWithoutReadAPI
\* A process that exited does nothing more.
CHECK_DEADLOCK FALSE
