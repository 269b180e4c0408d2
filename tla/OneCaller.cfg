\* One caller and two desks, the sweep alive; agents may do anything or nothing.
CONSTANTS
    c1 = c1
    c2 = c2
    a1 = a1
    a2 = a2
    Calls = {c1}
    Agents = {a1, a2}
    NoAgent = NoAgent
    AllDeclined = AllDeclined
    Deferred = Deferred
    Ticks = {t1, t2}
    Skilled <- GeneralFloor
    DeclaredIntents = {"READY", "LUNCH", "LAST_CALL"}
    MaxConcurrent = 1
    MaxOfferRounds = 0
    RoundBound = 1
    Habits <- AllHabits
SPECIFICATION FairSpec
INVARIANTS
    OneRingPerCaller
    AnsweredOnce
PROPERTIES
    RefusalIsHeard
    KeepsPromise
    EveryRingEnds
    FreeDeskIsRung
    GoesRoundAgain
