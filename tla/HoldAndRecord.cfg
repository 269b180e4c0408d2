\* One caller, two desks, the sweep and the pump alive.
CONSTANTS
    Desks = {d1, d2}
    NoDesk = NoDesk
    Sweep = Sweep
    MaxSilences = 2
    MaxDuration = 4
    ReofferAfter = 2
    Utterances = 2
    Notes = 1
SPECIFICATION FairSpec
CHECK_DEADLOCK FALSE
INVARIANTS
    HeardWithConsent
    OutcomeTellsIntake
PROPERTIES
    ResultIsFinal
    HoldKeepsPromise
    EveryIntakeEnds

