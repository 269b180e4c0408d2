---------------------------- MODULE KnownCaller -----------------------------
(***************************************************************************)
(* Who is calling, and what was read about them before the phone rang      *)
(* (services/identity, api/security.py, api/routers/mobile.py and the      *)
(* first half of place_call in api/routers/demo.py).                       *)
(*                                                                         *)
(* A customer signed in to the app taps Contact.  That makes an intent,    *)
(* whose token the app hands to the call, and an event, on which their     *)
(* context is prefetched.  A call comes with a token, a number, both or    *)
(* neither; the number is looked up at the bank, which may find nobody     *)
(* because it cannot be reached.  Every await is a step.  A snapshot is    *)
(* the customer it is about; its assembly is CoreData.                     *)
(***************************************************************************)
EXTENDS Naturals, Sequences

CONSTANTS
    Customers,
    Nobody,
    Arrivals,    \* the calls
    SessionTtl,  \* session_ttl_s
    IntentTtl,   \* intent_ttl_s
    PendingWindow, \* pending_intent_window_s
    LastHour,    \* bound: the clock
    MaxIntents   \* bound: taps on Contact

ASSUME CallerAssumption ==
    /\ Nobody \notin Customers
    /\ {SessionTtl, IntentTtl, PendingWindow} \subseteq Nat \ {0}
    /\ LastHour \in Nat /\ MaxIntents \in Nat

VARIABLES
    hour,
    session,     \* DemoSessionStore: when each customer's session ends; 0: none
    intents,     \* CallIntentStore; an intent's id, and its token, is its place
    created,     \* the bus: IntentCreated, not yet handled
    fetching,    \* the event the prefetch is at work on
    prefetched,  \* snapshot_for_intent
    arrival      \* place_call, for each call

appVars == <<session, intents>>
fetchVars == <<fetching, prefetched>>
whoVars == <<hour, appVars, created, fetchVars, arrival>>

NoToken == 0

Tokens == 1 .. MaxIntents

Idle == [intent |-> NoToken, of |-> Nobody]

NotCalled == [step |-> "none", token |-> NoToken, number |-> Nobody, since |-> 0,
              who |-> Nobody, level |-> "L0", shown |-> Nobody]

WhoInit ==
    /\ hour = 1 /\ session = [c \in Customers |-> 0]
    /\ intents = <<>> /\ created = <<>>
    /\ fetching = Idle /\ prefetched = [i \in Tokens |-> Nobody]
    /\ arrival = [k \in Arrivals |-> NotCalled]

Known(i) == i \in 1 .. Len(intents)

IsExpired(i, t) == t >= intents[i].at + IntentTtl

-----------------------------------------------------------------------------
(* The app.                                                                *)

SignIn(c) ==
    /\ session' = [session EXCEPT ![c] = hour + SessionTtl]
    /\ UNCHANGED <<hour, intents, created, fetchVars, arrival>>

SignOut(c) ==
    /\ session[c] # 0
    /\ session' = [session EXCEPT ![c] = 0]
    /\ UNCHANGED <<hour, intents, created, fetchVars, arrival>>

\* Whose request it is comes from the session, never from the request.
TapContact(c) ==
    /\ hour < session[c] /\ Len(intents) < MaxIntents
    /\ intents' = Append(intents, [of |-> c, at |-> hour])
    /\ created' = Append(created, [intent |-> Len(intents) + 1, of |-> c])
    /\ UNCHANGED <<hour, session, fetchVars, arrival>>

\* A session that is over is forgotten by the request that finds it so.
TapRefused(c) ==
    /\ session[c] # 0 /\ hour >= session[c]
    /\ session' = [session EXCEPT ![c] = 0]
    /\ UNCHANGED <<hour, intents, created, fetchVars, arrival>>

-----------------------------------------------------------------------------
(* The prefetch, on the event.                                             *)

StartPrefetch ==
    /\ fetching = Idle /\ created # <<>>
    /\ fetching' = Head(created) /\ created' = Tail(created)
    /\ UNCHANGED <<hour, appVars, prefetched, arrival>>

EndPrefetch ==
    /\ fetching # Idle
    /\ prefetched' = [prefetched EXCEPT ![fetching.intent] = fetching.of]
    /\ fetching' = Idle
    /\ UNCHANGED <<hour, appVars, created, arrival>>

-----------------------------------------------------------------------------
(* The call.                                                               *)

\* A slip: a token is good for as long as its intent is stored.
EarnsForEver(token, t) == Known(token)

\* Whether a token names its customer by itself.
Earns(token, t) == Known(token) /\ ~IsExpired(token, t)

Resolved(k, who, level) ==
    [arrival EXCEPT ![k].step = "resolved", ![k].who = who, ![k].level = level]

\* A token that has expired falls through to the number, and a number has to
\* be looked up.  A token nobody was given is as good as none.
Arrive(k, token, number) ==
    /\ arrival[k].step = "none" /\ (Known(token) \/ token = NoToken)
    /\ arrival' =
          LET came == [NotCalled EXCEPT !.token = token, !.number = number, !.since = hour]
          IN  [arrival EXCEPT ![k] =
                  IF Earns(token, hour)
                  THEN [came EXCEPT !.step = "resolved", !.who = intents[token].of, !.level = "L3"]
                  ELSE [came EXCEPT !.step = IF number = Nobody THEN "resolved" ELSE "looking"]]
    /\ UNCHANGED <<hour, appVars, created, fetchVars>>

\* An unexpired intent of theirs inside the window.
Pending(c, t) ==
    \E i \in 1 .. Len(intents) :
        intents[i].of = c /\ intents[i].at + PendingWindow >= t /\ ~IsExpired(i, t)

NumberFound(k) ==
    /\ arrival[k].step = "looking"
    /\ LET c == arrival[k].number
       IN  arrival' = Resolved(k, c, IF Pending(c, arrival[k].since) THEN "L2" ELSE "L1")
    /\ UNCHANGED <<hour, appVars, created, fetchVars>>

\* A stranger's number, or a bank that did not answer: it looks the same.
NumberNotFound(k) ==
    /\ arrival[k].step = "looking"
    /\ arrival' = Resolved(k, Nobody, "L0")
    /\ UNCHANGED <<hour, appVars, created, fetchVars>>

\* The app path: the token is looked up once more, expired or not.
FromIntent(call) == Known(call.token) /\ call.who # Nobody

\* Starting from an intent says again that it was created.
StartCall(k) ==
    /\ arrival[k].step = "resolved"
    /\ arrival' = [arrival EXCEPT ![k].step = "started"]
    /\ created' = IF FromIntent(arrival[k])
                  THEN Append(created, [intent |-> arrival[k].token, of |-> arrival[k].who])
                  ELSE created
    /\ UNCHANGED <<hour, appVars, fetchVars>>

\* What was prefetched for the token's intent is used, or else assembled now.
Reuses(call) == Known(call.token) /\ prefetched[call.token] # Nobody

AttachPrefetched(k) ==
    /\ arrival[k].step = "started" /\ Reuses(arrival[k])
    /\ arrival' = [arrival EXCEPT ![k].step = "placed", ![k].shown = prefetched[arrival[k].token]]
    /\ UNCHANGED <<hour, appVars, created, fetchVars>>

AssembleNow(k) ==
    /\ arrival[k].step = "started" /\ ~Reuses(arrival[k])
    /\ arrival' = [arrival EXCEPT ![k].step = IF arrival[k].who = Nobody THEN "placed" ELSE "building"]
    /\ UNCHANGED <<hour, appVars, created, fetchVars>>

AttachAssembled(k) ==
    /\ arrival[k].step = "building"
    /\ arrival' = [arrival EXCEPT ![k].step = "placed", ![k].shown = arrival[k].who]
    /\ UNCHANGED <<hour, appVars, created, fetchVars>>

\* The call is in the menu: what it was known by is let go.
WhoLetGo ==
    /\ hour' = 1 /\ session' = [c \in Customers |-> 0]
    /\ intents' = <<>> /\ created' = <<>>
    /\ fetching' = Idle /\ prefetched' = [i \in Tokens |-> Nobody]
    /\ arrival' = [k \in Arrivals |-> NotCalled]

HourPasses ==
    /\ hour < LastHour /\ hour' = hour + 1
    /\ UNCHANGED <<appVars, created, fetchVars, arrival>>

WhoNext ==
    \/ \E c \in Customers : SignIn(c) \/ SignOut(c) \/ TapContact(c) \/ TapRefused(c)
    \/ StartPrefetch \/ EndPrefetch \/ HourPasses
    \/ \E k \in Arrivals, token \in Tokens \cup {NoToken}, number \in Customers \cup {Nobody} :
          Arrive(k, token, number)
    \/ \E k \in Arrivals :
          \/ NumberFound(k) \/ NumberNotFound(k) \/ StartCall(k)
          \/ AttachPrefetched(k) \/ AssembleNow(k) \/ AttachAssembled(k)

WhoSpec == WhoInit /\ [][WhoNext]_whoVars

-----------------------------------------------------------------------------
(* What must hold.                                                         *)

\* A call is believed as far as it earned when it came in: at L3 its token was
\* alive, at L2 it came from the number of a customer with an intent alive, at
\* L1 from a customer's number, and at L0 nobody is named; what happened while
\* the number was looked up takes nothing away (resolver.py, D20).
LevelIsEarned ==
    \A k \in Arrivals :
        LET call == arrival[k]
            alive == {i \in 1 .. Len(intents) : call.since < intents[i].at + IntentTtl}
        IN  call.step \notin {"none", "looking"} =>
            CASE call.level = "L3" -> call.token \in alive /\ intents[call.token].of = call.who
              [] call.level = "L2" -> call.number = call.who /\ \E i \in alive : intents[i].of = call.who
              [] call.level = "L1" -> call.number = call.who /\ call.who # Nobody
              [] call.level = "L0" -> call.who = Nobody

\* What the agent is shown is about whom the call names: "the correlation token
\* is the only thing that binds a call to an identity" (demo.py:223), and an
\* expired one "just earns nothing" (resolver.py:76).
SnapshotIsTheirs ==
    \A k \in Arrivals :
        arrival[k].who # Nobody => arrival[k].shown \in {Nobody, arrival[k].who}
=============================================================================
