------------------------------ MODULE CoreData ------------------------------
(***************************************************************************)
(* Reading the bank's data (adapters/core_data/caching.py) while a         *)
(* customer's context is assembled (services/context/assembler.py).        *)
(*                                                                         *)
(* A snapshot is several reads, most of them at once.  A read is answered  *)
(* from the cache, or the bank is asked and other reads go on meanwhile; a *)
(* bank that keeps failing is left alone for a while, and what the cache   *)
(* still has is served instead.  The bank is external: it may answer, late *)
(* or not, or fail.  A value is the moment at which the bank gave it.      *)
(***************************************************************************)
EXTENDS Integers, FiniteSets

CONSTANTS
    Builds,     \* snapshots being assembled, all of one customer
    Together,   \* what a snapshot reads at once
    Then,       \* what it reads after these: the claims of the policy chosen
    Ttl, Cooldown, Threshold,
    LastMoment  \* bound: the clock

ASSUME CoreDataAssumption ==
    /\ Then \notin Together
    /\ {Ttl, Cooldown, Threshold} \subseteq Nat \ {0} /\ LastMoment \in Nat

VARIABLES
    moment,       \* the monotonic clock
    cache,        \* _cache: a value, and when the read that fetched it began
    failures,     \* _failures
    opened,       \* _opened_at
    servedStale,  \* served_stale, one for everybody
    read,         \* the reads of each build
    built         \* what became of each build

breakerVars == <<failures, opened>>
coreVars == <<moment, cache, breakerVars, servedStale, read, built>>

Reads == Together \cup {Then}

Nothing == [value |-> -1, at |-> -1]

Closed == -1

NotRead == [step |-> "none", since |-> -1, entry |-> Nothing, value |-> -1, stale |-> FALSE]

Unbuilt == [step |-> "reading", stale |-> FALSE]

CoreInit ==
    /\ moment = 0 /\ cache = [k \in Reads |-> Nothing]
    /\ failures = 0 /\ opened = Closed /\ servedStale = FALSE
    /\ read = [b \in Builds |-> [k \in Reads |-> NotRead]]
    /\ built = [b \in Builds |-> Unbuilt]

-----------------------------------------------------------------------------
(* One read.                                                               *)

IsFresh(entry) == entry # Nothing /\ moment - entry.at < Ttl

CooledDown == moment - opened >= Cooldown

CircuitIsOpen == opened # Closed /\ ~CooledDown

\* The breaker is looked at, which closes it once it has cooled down.
LookAtBreaker ==
    IF opened # Closed /\ CooledDown
    THEN opened' = Closed /\ failures' = 0
    ELSE UNCHANGED breakerVars

\* What a read that got nothing from the bank returns: what it found in the
\* cache when it began, however old, or else a default.
FallBack(b, k, entry) ==
    /\ servedStale' = (entry # Nothing)
    /\ read' = [read EXCEPT ![b][k] = [NotRead EXCEPT !.step = "done", !.value = entry.value,
                                                      !.stale = (entry # Nothing)]]

ReadCached(b, k) ==
    /\ IsFresh(cache[k])
    /\ read' = [read EXCEPT ![b][k] = [NotRead EXCEPT !.step = "done", !.since = moment,
                                                      !.value = cache[k].value]]
    /\ servedStale' = FALSE
    /\ UNCHANGED breakerVars

ReadSpared(b, k) ==
    /\ ~IsFresh(cache[k]) /\ CircuitIsOpen
    /\ FallBack(b, k, cache[k])
    /\ UNCHANGED breakerVars

AskBank(b, k) ==
    /\ ~IsFresh(cache[k]) /\ ~CircuitIsOpen
    /\ LookAtBreaker
    /\ read' = [read EXCEPT ![b][k] = [NotRead EXCEPT !.step = "asked", !.since = moment,
                                                      !.entry = cache[k]]]
    /\ UNCHANGED servedStale

\* The claims are asked for last, and only of a policy that was chosen.
MayRead(b, k) ==
    /\ built[b].step = "reading" /\ read[b][k].step = "none"
    /\ k = Then => \A j \in Together : read[b][j].step = "done"
    /\ k = Then => \E j \in Together : read[b][j].value # -1

StartRead(b, k) ==
    /\ MayRead(b, k)
    /\ ReadCached(b, k) \/ ReadSpared(b, k) \/ AskBank(b, k)
    /\ UNCHANGED <<moment, cache, built>>

\* The bank looks the value up; its answer is on the way.
BankReads(b, k) ==
    /\ read[b][k].step = "asked"
    /\ read' = [read EXCEPT ![b][k].step = "answered", ![b][k].value = moment]
    /\ UNCHANGED <<moment, cache, breakerVars, servedStale, built>>

\* A slip: an entry is as old as its arrival.
StoredAtArrival(r) == moment

\* When an entry counts from: the beginning of the read that fetched it.
StoredAt(r) == r.since

BankAnswers(b, k) ==
    /\ read[b][k].step = "answered"
    /\ failures' = 0
    /\ cache' = [cache EXCEPT ![k] = [value |-> read[b][k].value, at |-> StoredAt(read[b][k])]]
    /\ servedStale' = FALSE
    /\ read' = [read EXCEPT ![b][k].step = "done", ![b][k].entry = Nothing]
    /\ UNCHANGED <<moment, opened, built>>

\* An error of any kind.  The breaker opens as of the beginning of the read.
BankFails(b, k) ==
    /\ read[b][k].step \in {"asked", "answered"}
    /\ failures' = failures + 1
    /\ opened' = IF failures' >= Threshold /\ opened = Closed THEN read[b][k].since ELSE opened
    /\ FallBack(b, k, read[b][k].entry)
    /\ UNCHANGED <<moment, cache, built>>

-----------------------------------------------------------------------------
(* One snapshot.                                                           *)

\* With no policy to choose there are no claims to ask for.
AllRead(b) ==
    /\ \A k \in Together : read[b][k].step = "done"
    /\ \/ read[b][Then].step = "done"
       \/ read[b][Then].step = "none"

\* One mark for the whole snapshot, read off the provider at the end.
FinishBuild(b) ==
    /\ built[b].step = "reading" /\ AllRead(b)
    /\ built' = [built EXCEPT ![b] = [step |-> "done", stale |-> servedStale]]
    /\ UNCHANGED <<moment, cache, breakerVars, servedStale, read>>

TimePasses ==
    /\ moment < LastMoment /\ moment' = moment + 1
    /\ UNCHANGED <<cache, breakerVars, servedStale, read, built>>

CoreNext ==
    \/ \E b \in Builds, k \in Reads :
          StartRead(b, k) \/ BankReads(b, k) \/ BankAnswers(b, k) \/ BankFails(b, k)
    \/ \E b \in Builds : FinishBuild(b)
    \/ TimePasses

CoreSpec == CoreInit /\ [][CoreNext]_coreVars

-----------------------------------------------------------------------------
(* What must hold.                                                         *)

\* An answer that is not said to be stale was true at the bank no longer than
\* the lifetime of an entry before it was asked for, however late the bank
\* answered and in whatever order reads of one thing overlapped (caching.py).
AnswersAreDated ==
    \A b \in Builds, k \in Reads :
        LET r == read[b][k]
        IN  r.step = "done" /\ ~r.stale /\ r.value # -1 => r.value > r.since - Ttl
=============================================================================
