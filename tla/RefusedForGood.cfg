\* One desk says no to a caller kept in the database.
CONSTANTS
    Agents = {a1}
    NoAgent = NoAgent
    Jobs = {j1}
    MaxOffers = 1
    MaxSaid = 0
    MaxRestarts = 0
    EarlyScreens = FALSE
SPECIFICATION Spec
INVARIANTS
    RefusedIsFoundAgain
CHECK_DEADLOCK FALSE
