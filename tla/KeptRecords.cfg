\* One call in the database, two handlers in flight, stopped once between any two
\* awaits; two recordings, one purged or erased at a time, stopped once.
CONSTANTS
    Agents = {a1}
    NoAgent = NoAgent
    Jobs = {j1, j2}
    MaxOffers = 2
    MaxSaid = 2
    MaxRestarts = 1
    EarlyScreens = FALSE
    Calls = {c1, c2}
    MaxSamples = 1
    Retentions = {1, 2}
    PurgeLimit = 1
    Packets = 2
    LastDay = 2
    Stops = 1
SPECIFICATION KeptSpec
SYMMETRY Interchangeable
INVARIANTS
    StoredFirst
    AttestationsSurvive
    AudioIsKept
PROPERTIES
    RestartKeepsRefusals
    KeptAsPromised
CHECK_DEADLOCK FALSE
