----------------------------- MODULE PlaceCall ------------------------------
(***************************************************************************)
(* A call on its way to a desk (api/routers/demo.py: place_call): who is   *)
(* calling, the menu, the hours of the queue it leads to, and a tick of    *)
(* the matching with whoever else is waiting.                              *)
(*                                                                         *)
(* Each stage hands on only its result, so what it kept is let go when the *)
(* next one starts; what the menu knows of the caller, which schedule the  *)
(* queue has, and who else waits, are free.  Two parts stand by themselves, *)
(* as nothing of them depends on the call: how the bank is read while a    *)
(* context is assembled, "reads", and what the app asks before a call,     *)
(* "app".  The hold between the hours and the matching is HoldIntake.      *)
(***************************************************************************)
EXTENDS CoreData, KnownCaller, AppMenu, CallerMenu, QueueHours, MatchingTick

CONSTANTS
    HolidaySets,  \* the calendars tried
    MaxTime,      \* bound: the last moment a call arrives at
    Floors        \* the floors tried

\* A floor that a tick finds: somebody waits, and there is a row of fits for
\* each call, of one length.  IMPOSSIBLE is "large enough to never be chosen":
\* all the calls together never score as much.
IsFloor(f) ==
    /\ f.calls \in Seq([tier : DOMAIN Ceiling, wait : Nat]) /\ f.calls # <<>>
    /\ f.fit \in Seq(Seq((0 .. TopFit) \cup {Unfit})) /\ Len(f.fit) = Len(f.calls)
    /\ \A c \in DOMAIN f.fit : Len(f.fit[c]) = Len(f.fit[1])
    /\ Len(f.calls) * (TopFit * MaxMultiplier) < -Impossible

ASSUME PlaceAssumption == MaxTime \in Nat /\ \A f \in Floors : IsFloor(f)

VARIABLES
    stage,  \* where place_call is
    asked,  \* what hours.state was asked: schedule, holidays, moment
    told    \* and what it said

callerVars == <<coreVars, whoVars, contactVars>>

vars == <<callerVars, menuVars, matchVars, stage, asked, told>>

NotAsked == [at |-> 0]

NotTold == [open |-> FALSE, next |-> Never]

Init ==
    /\ CoreInit /\ WhoInit /\ MenuInit /\ MatchInit
    /\ stage \in {"reads", "app", "who"} /\ (IF stage = "app" THEN AppInit ELSE NoApp)
    /\ asked = NotAsked /\ told = NotTold

InReads ==
    /\ stage = "reads" /\ CoreNext
    /\ UNCHANGED <<whoVars, contactVars, menuVars, matchVars, stage, asked, told>>

InApp ==
    /\ stage = "app" /\ AppStep
    /\ UNCHANGED <<coreVars, whoVars, menuVars, matchVars, stage, asked, told>>

InWho ==
    /\ stage = "who" /\ WhoNext
    /\ UNCHANGED <<coreVars, contactVars, menuVars, matchVars, stage, asked, told>>

\* A call has its identity and its snapshot.
Identified ==
    /\ stage = "who" /\ \E k \in Arrivals : arrival[k].step = "placed"
    /\ stage' = "known" /\ WhoLetGo
    /\ UNCHANGED <<coreVars, contactVars, menuVars, matchVars, asked, told>>

StartIvr ==
    /\ stage = "known" /\ stage' = "menu"
    /\ StartWalk
    /\ UNCHANGED <<callerVars, matchVars, asked, told>>

InMenu ==
    /\ stage = "menu" /\ MenuStep
    /\ UNCHANGED <<callerVars, matchVars, stage, asked, told>>

\* The walk is over, whatever its outcome: its queue is known.
Enqueue ==
    /\ stage = "menu" /\ ~Walking
    /\ stage' = "queued"
    /\ LetGo
    /\ UNCHANGED <<callerVars, matchVars, asked, told>>

\* A closed queue takes no call, but for a demonstration told to ignore the hours.
AskHours ==
    /\ stage = "queued"
    /\ \E s \in Schedules, h \in HolidaySets, t \in 0 .. MaxTime, ignoreHours \in BOOLEAN :
        /\ asked' = [schedule |-> s, holidays |-> h, at |-> t]
        /\ told' = State(s, h, t)
        /\ stage' = IF told'.open \/ ignoreHours THEN "open" ELSE "voicemail"
    /\ UNCHANGED <<callerVars, menuVars, matchVars>>

\* Into the pool, and a tick: place_call does not wait for the next one.
Admit ==
    /\ stage = "open"
    /\ stage' = "pool" /\ asked' = NotAsked /\ told' = NotTold
    /\ UNCHANGED <<callerVars, menuVars, matchVars>>

StartTick ==
    /\ stage = "pool" /\ pc = "idle"
    /\ \E f \in Floors : Tick(f)
    /\ UNCHANGED <<callerVars, menuVars, stage, asked, told>>

InTick ==
    /\ stage = "pool" /\ MatchStep
    /\ UNCHANGED <<callerVars, menuVars, stage, asked, told>>

Next ==
    \/ InReads \/ InApp \/ InWho \/ Identified
    \/ StartIvr \/ InMenu \/ Enqueue \/ AskHours \/ Admit \/ StartTick \/ InTick

\* Every wait for a key has a timeout, so the driver's loop goes on.
Fairness == WF_vars(InMenu)

Spec == Init /\ [][Next]_vars /\ Fairness

-----------------------------------------------------------------------------
\* What is believed of a caller can be: an answer of the bank that passes for
\* fresh was true within a lifetime of the question, and the level of a call is
\* one that its token or its number had earned when it came in.
CallerIsKnown == AnswersAreDated /\ LevelIsEarned

\* Neither menu fails its caller: the one they hear does what they mean by a
\* key, and the one they see lists a reason for everyone.
MenusWork == PathIsMeant /\ NobodyIsStuck

\* A caller may press for ever, repeat the menu for ever, or mix silence in:
\* the walk still ends, and with a queue.
WalkEnds == Walking ~> ~Walking

\* What a caller outside hours is told is when the queue really opens: not a
\* holiday, not a moment already gone, and not a later opening than the first.
NextOpenIsFirst ==
    stage = "voicemail" => told.next = FirstOpen(asked.schedule, asked.holidays, asked.at)
=============================================================================
