\* Two customers, one call, two taps on Contact.
CONSTANTS
    Customers = {a, b}
    Nobody = Nobody
    Arrivals = {k}
    SessionTtl = 1
    IntentTtl = 1
    PendingWindow = 1
    LastHour = 3
    MaxIntents = 2
SPECIFICATION WhoSpec
INVARIANTS
    SnapshotIsTheirs
CHECK_DEADLOCK FALSE
