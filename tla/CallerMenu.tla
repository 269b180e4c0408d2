----------------------------- MODULE CallerMenu -----------------------------
(***************************************************************************)
(* The spoken keypad menu (services/ivr: machine, presentation,            *)
(* personalise, service).                                                  *)
(*                                                                         *)
(* IvrService.run plays a menu and waits for a key, over and over, until   *)
(* the machine has an outcome.  A recognised caller hears the lines they   *)
(* hold first, and the options are then renumbered, so the key that was    *)
(* read out and the key of the option differ.  An option is its key in     *)
(* menus.yaml, 1, 2, ...; the menu of a line is named by the line, and an  *)
(* intent is <<line, key>>.                                                *)
(***************************************************************************)
EXTENDS Naturals, Sequences, SequencesExt, FiniteSets

CONSTANTS
    Order,        \* the product lines, as the first menu lists them
    Unknown,      \* the line of "something else", the last option
    Reasons,      \* options of each reason menu; the last is its catch-all
    MaxPromoted,  \* personalisation.max_promoted
    MaxSilences,  \* settings.max_silences
    RunawayGuard, \* settings.runaway_press_guard
    MaxSteps      \* the driver's own backstop

Lines == Range(Order)

Top == "product_line"

\* What the loader demands of menus.yaml, where the first menu is no line's.
ValidMenus ==
    /\ Unknown \notin Lines /\ Top \notin Lines \cup {Unknown}
    /\ Order \in Seq(Lines)
    /\ {Reasons, MaxSilences, RunawayGuard, MaxSteps} \subseteq Nat \ {0}

ASSUME MenuAssumption == ValidMenus

VARIABLES
    call,   \* what is known before the greeting: the number dialled, the app's answer
    run,    \* IvrRun
    steps,  \* steps of the driver's loop
    meant   \* ghost: the options the caller heard beside the keys they pressed

menuVars == <<call, run, steps, meant>>

NoIntent == <<>>

\* Only a number that names a line skips the question, or assumes a reason.
Numbers ==
    {[line |-> Unknown, skips |-> FALSE, assumes |-> FALSE]}
        \cup [line : Lines, skips : {TRUE}, assumes : BOOLEAN]

\* How the signals score each line for this caller; all 0 for a stranger.
Scores == [Lines -> 0 .. 2]

\* A call known by its app intent is never asked; any other starts a walk.
Calls ==
    [number : Numbers, known : {NoIntent}, scores : Scores, renumber : BOOLEAN]
        \cup [number : Numbers, known : Lines \X (1 .. Reasons),
              scores : {[l \in Lines |-> 0]}, renumber : {TRUE}]

Keys(menu) == IF menu = Top THEN 1 .. Len(Order) + 1 ELSE 1 .. Reasons

LineOf(key) == IF key <= Len(Order) THEN Order[key] ELSE Unknown

-----------------------------------------------------------------------------
(* Which options come first, and under which keys.                         *)

\* Higher score first, ties by the option's key.
Leads(scores, j, k) ==
    \/ scores[Order[j]] > scores[Order[k]]
    \/ scores[Order[j]] = scores[Order[k]] /\ j < k

\* The options whose line is worth promoting, the best MaxPromoted of them.
Promoted(menu, scores) ==
    LET worth == {k \in Keys(menu) : menu = Top /\ k <= Len(Order) /\ scores[Order[k]] > 0}
    IN  {k \in worth : Cardinality({j \in worth : Leads(scores, j, k)}) < MaxPromoted}

\* The promoted options first, best first, then the rest where they were.
ReadBefore(promoted, scores, j, k) ==
    \/ j \in promoted /\ k \notin promoted
    \/ {j, k} \subseteq promoted /\ Leads(scores, j, k)
    \/ j \notin promoted /\ k \notin promoted /\ j < k

Place(menu, promoted, scores, k) ==
    Cardinality({j \in Keys(menu) : ReadBefore(promoted, scores, j, k)}) + 1

AsWritten(menu) == {[key |-> k, spoken |-> k] : k \in Keys(menu)}

\* What is read out, numbered afresh only when something moved.
Present(menu, scores, renumber) ==
    LET promoted == Promoted(menu, scores)
    IN  IF ~renumber \/ promoted = {} THEN AsWritten(menu)
        ELSE {[key |-> k, spoken |-> Place(menu, promoted, scores, k)] : k \in Keys(menu)}

Resolve(presented, digit) == {q.key : q \in {o \in presented : o.spoken = digit}}

-----------------------------------------------------------------------------
(* The machine.                                                            *)

Finish(r, kind) == [r EXCEPT !.outcome = kind]

\* Entering a menu starts its counts again; only the first is personalised.
Enter(r, menu, presented) ==
    [r EXCEPT !.menu = menu, !.attempts = 0, !.timeouts = 0,
              !.presented = presented]

Fresh(c) ==
    [line |-> IF c.known # NoIntent THEN c.known[1] ELSE c.number.line,
     intent |-> c.known, menu |-> Top, presented |-> {}, path |-> <<>>,
     attempts |-> 0, timeouts |-> 0, outcome |-> "none"]

\* A line we already know is not asked for again.
StartMenu(c) == IF c.number.skips THEN c.number.line ELSE Top

Begin(c) ==
    IF c.known # NoIntent THEN Finish(Fresh(c), "skipped")
    ELSE Enter(Fresh(c), StartMenu(c), Present(StartMenu(c), c.scores, c.renumber))

\* An unknown key is not a strike, until it is plainly a stuck sender.
OnWrongKey(r) ==
    LET tried == [r EXCEPT !.attempts = @ + 1] IN
    IF tried.attempts >= RunawayGuard THEN Finish(tried, "exhausted") ELSE tried

\* A slip (D81): the key pressed goes on the record, not the option's own.
OnOptionKeepsPressed(r, key, digit) ==
    LET chosen == [r EXCEPT !.path = Append(@, digit), !.timeouts = 0] IN
    IF r.menu = Top THEN Enter([chosen EXCEPT !.line = LineOf(key)], LineOf(key), AsWritten(LineOf(key)))
    ELSE Finish([chosen EXCEPT !.intent = <<r.menu, key>>], "routed")

OnOption(r, key, digit) ==
    LET chosen == [r EXCEPT !.path = Append(@, key), !.timeouts = 0] IN
    IF r.menu = Top THEN Enter([chosen EXCEPT !.line = LineOf(key)], LineOf(key), AsWritten(LineOf(key)))
    ELSE Finish([chosen EXCEPT !.intent = <<r.menu, key>>,
                               !.line = IF @ = Unknown THEN r.menu ELSE @], "routed")

OnTimeout(r) ==
    LET silent == [r EXCEPT !.timeouts = @ + 1] IN
    IF silent.timeouts >= MaxSilences THEN Finish(silent, "exhausted") ELSE silent

-----------------------------------------------------------------------------
(* The driver: one step of its loop.                                       *)

MenuInit ==
    /\ run = [outcome |-> "queued"] /\ call = [known |-> NoIntent]
    /\ steps = 0 /\ meant = <<>>

\* place_call hands the caller to the menu.
StartWalk ==
    /\ call' \in Calls
    /\ run' = Begin(call')
    /\ UNCHANGED <<steps, meant>>

Walking == run.outcome = "none"

\* Queued: what the walk kept is let go.
LetGo ==
    /\ run' = [outcome |-> "queued"] /\ call' = [known |-> NoIntent]
    /\ steps' = 0 /\ meant' = <<>>

Queued == run.outcome = "queued"

\* The driver is still listening.
Listens ==
    /\ Walking /\ steps < MaxSteps
    /\ steps' = steps + 1
    /\ UNCHANGED call

\* The repeat key, which is no option's key: the menu again, and no mistake.
Repeat ==
    /\ Listens
    /\ run' = [run EXCEPT !.timeouts = 0]
    /\ UNCHANGED meant

Press(digit) ==
    /\ Listens
    /\ meant' = meant \o SetToSeq(Resolve(run.presented, digit))
    /\ \/ \E key \in Resolve(run.presented, digit) : run' = OnOption(run, key, digit)
       \/ Resolve(run.presented, digit) = {} /\ run' = OnWrongKey(run)

Silence ==
    /\ Listens
    /\ run' = OnTimeout(run)
    /\ UNCHANGED meant

HangUp ==
    /\ Listens
    /\ run' = Finish(run, "abandoned")
    /\ UNCHANGED meant

\* A slip: past the bound the menu is only read again.
BackstopRereads ==
    /\ Walking /\ steps >= MaxSteps
    /\ run' = [run EXCEPT !.timeouts = 0]
    /\ UNCHANGED <<call, steps, meant>>

\* Past the bound every further step is taken as silence.
Backstop ==
    /\ Walking /\ steps >= MaxSteps
    /\ run' = OnTimeout(run)
    /\ UNCHANGED <<call, steps, meant>>

\* Every key of a menu, and one that is on none.
Digits == 1 .. Len(Order) + Reasons + 1

MenuStep ==
    \/ Repeat \/ Silence \/ HangUp \/ Backstop
    \/ \E digit \in Digits : Press(digit)

-----------------------------------------------------------------------------
(* Where the walk leads.                                                   *)

CatchAll(line) == <<line, Reasons>>

\* Best evidence first: the intent, what the number implies, the line's
\* catch-all, and the general queue only when nothing is known.
QueueFor(r, c) ==
    CASE r.intent # NoIntent -> r.intent
      [] r.intent = NoIntent /\ c.number.assumes -> <<c.number.line, 1>>
      [] OTHER -> CatchAll(r.line)

-----------------------------------------------------------------------------
(* What must hold.                                                         *)

\* Whatever a caller presses or does not, however the menu was reordered and
\* renumbered for them, the options on the record are the ones they heard
\* beside those keys, and reading that record through menus.yaml leads to the
\* line and the reason they are routed by (D81).  And however the walk ends,
\* silence, wrong keys and hanging up included, a caller whose line is known
\* is queued for that line (D40).
PathIsMeant ==
    ~Queued =>
        LET first == IF StartMenu(call) = Top THEN 1 ELSE 0 IN
        /\ run.path = meant
        /\ first = 1 /\ run.path # <<>> => run.menu = LineOf(run.path[1])
        /\ run.outcome = "routed" => run.intent = <<run.menu, run.path[first + 1]>>
        /\ ~Walking /\ run.line \in Lines => QueueFor(run, call)[1] = run.line
=============================================================================
