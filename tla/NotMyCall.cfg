\* Two callers, two offers: one refused, and taken at another desk.
SPECIFICATION RecordSpec
CONSTANTS
    MaxMyCalls = 2
    MaxOffers = 2
    Reason = {claim, other}
    Insurer = {one}
INVARIANT
    ActiveCallIsMine
CHECK_DEADLOCK FALSE
