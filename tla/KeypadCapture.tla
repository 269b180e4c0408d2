--------------------------- MODULE KeypadCapture ---------------------------
(***************************************************************************)
(* The digits a caller keys while an agent listens (services/capture), for *)
(* one call, with the rows a database keeps of them (STORAGE_BACKEND=      *)
(* postgres).                                                              *)
(*                                                                         *)
(* A capture lives in memory and is written at milestones.  A write reads  *)
(* the capture after its first await and sends only the columns that       *)
(* differ from the row it loaded.  The workstation disables its buttons    *)
(* while one of its requests is in flight; an agent may have several tabs. *)
(*                                                                         *)
(* What digits there are is abstracted to how many.                        *)
(***************************************************************************)
EXTENDS Naturals, FiniteSets, FiniteSetsExt

CONSTANTS
    Tabs,          \* the agent's browser tabs
    MaxCaptures,   \* bound: captures started on the call
    MaxDigits,     \* KeypadCaptureService.max_digits
    MaxRestarts    \* bound: restarts of the process

ASSUME CaptureAssumption ==
    MaxCaptures \in Nat /\ MaxDigits \in Nat \ {0} /\ MaxRestarts \in Nat

VARIABLES
    capture,   \* _captures: what memory holds
    open,      \* _open_by_call
    row,       \* keypad_captures
    request,   \* per tab: the request in flight
    gone,      \* captures discarded, and answered, while no other write was under way
    restarts

captureVars == <<capture, open, row, request, gone, restarts>>

Captures == 1 .. MaxCaptures
NoCapture == 0

\* policy_number and claim_number are one: both read a number off a record.
LookupKind == {"number", "birthday"}

CaptureState == {"NONE", "OPEN", "STOPPED", "DISCARDED"}

\* digits: how many are there to be read; count: the digit_count column.
Absent == [state |-> "NONE", digits |-> 0, labelled |-> FALSE, matched |-> {}]

NoRow == [state |-> "NONE", digits |-> 0, count |-> 0, labelled |-> FALSE, matched |-> {}]

Idle == [at |-> "idle"]

CaptureInit ==
    /\ capture = [c \in Captures |-> Absent] /\ row = [c \in Captures |-> NoRow]
    /\ open = NoCapture
    /\ request = [t \in Tabs |-> Idle]
    /\ gone = {} /\ restarts = 0

-----------------------------------------------------------------------------
(* What a request does to memory before it writes.                         *)

Started == {c \in Captures : capture[c].state # "NONE"}

\* The workstation works on the open capture, or else on the last one.
Latest == IF open # NoCapture THEN open ELSE Max(Started \cup {NoCapture})

\* Has anything told us what these digits are?
IsNamed(k) == k.labelled \/ k.matched # {}

Writing(c) == \E t \in Tabs : request[t].at \in {"loading", "writing"} /\ request[t].of = c

\* _persist: whether the digits are stored is settled before the first await.
Persist(t, c, k) ==
    request' = [request EXCEPT ![t] = [at |-> "loading", of |-> c, store |-> IsNamed(k),
                                       gone |-> k.state = "DISCARDED" /\ ~Writing(c)
                                                  /\ capture[c].state # "DISCARDED"]]

Becomes(t, c, k) ==
    /\ capture' = [capture EXCEPT ![c] = k]
    /\ Persist(t, c, k)

CaptureStart(t, c) ==
    /\ request[t] = Idle /\ open = NoCapture
    /\ c = Cardinality(Started) + 1
    /\ open' = c
    /\ Becomes(t, c, [Absent EXCEPT !.state = "OPEN"])
    /\ UNCHANGED <<row, gone, restarts>>

\* The screen has a capture's id only once its start was answered.
Shown(c) == c # NoCapture /\ row[c].state # "NONE"

CaptureKey(t) ==
    /\ request[t] = Idle /\ Shown(open) /\ capture[open].digits < MaxDigits
    /\ capture' = [capture EXCEPT ![open].digits = @ + 1]
    /\ UNCHANGED <<open, row, request, gone, restarts>>

CaptureBackspace(t) ==
    /\ request[t] = Idle /\ Shown(open) /\ capture[open].digits > 0
    /\ capture' = [capture EXCEPT ![open].digits = @ - 1]
    /\ UNCHANGED <<open, row, request, gone, restarts>>

CaptureStop(t) ==
    /\ request[t] = Idle /\ Shown(open)
    /\ open' = NoCapture
    /\ Becomes(t, open, [capture[open] EXCEPT !.state = "STOPPED"])
    /\ UNCHANGED <<row, gone, restarts>>

\* A slip: the digits are cleared in memory after the row is written.
CaptureDiscardKeepsDigits(t) ==
    /\ request[t] = Idle /\ Shown(Latest)
    /\ open' = NoCapture
    /\ Becomes(t, Latest, [capture[Latest] EXCEPT !.state = "DISCARDED"])
    /\ UNCHANGED <<row, gone, restarts>>

CaptureDiscard(t) ==
    /\ request[t] = Idle /\ Shown(Latest)
    /\ open' = NoCapture
    /\ Becomes(t, Latest, [capture[Latest] EXCEPT !.state = "DISCARDED", !.digits = 0])
    /\ UNCHANGED <<row, gone, restarts>>

CaptureLabel(t) ==
    /\ request[t] = Idle /\ Shown(Latest)
    /\ Becomes(t, Latest, [capture[Latest] EXCEPT !.labelled = TRUE])
    /\ UNCHANGED <<open, row, gone, restarts>>

\* The digits are read, and then the bank is asked.
CaptureLookup(t, kind) ==
    /\ request[t] = Idle /\ Shown(Latest)
    /\ request' = [request EXCEPT ![t] = [at |-> "asking", of |-> Latest, kind |-> kind,
                                          some |-> capture[Latest].digits > 0]]
    /\ UNCHANGED <<capture, open, row, gone, restarts>>

\* record_lookup: no digits and nobody to compare with match nothing.
CaptureRecordLookup(t) ==
    /\ request[t].at = "asking"
    /\ LET c == request[t].of IN
       \/ Becomes(t, c, capture[c])
       \/ request[t].some /\ Becomes(t, c, [capture[c] EXCEPT !.matched = @ \cup {request[t].kind}])
    /\ UNCHANGED <<open, row, gone, restarts>>

-----------------------------------------------------------------------------
(* The write, in the database's own session.                               *)

Columns(k, store) ==
    [state |-> k.state, labelled |-> k.labelled, matched |-> k.matched, count |-> k.digits,
     digits |-> IF store THEN k.digits ELSE 0]

\* The row is loaded and the capture is read as it now is.
CaptureLoad(t) ==
    /\ request[t].at = "loading"
    /\ request' = [request EXCEPT ![t] =
          [at |-> "writing", of |-> @.of, was |-> row[@.of], gone |-> @.gone,
           is |-> Columns(capture[@.of], @.store)]]
    /\ UNCHANGED <<capture, open, row, gone, restarts>>

\* Only what changed is sent; then the request is answered.
CaptureCommit(t) ==
    /\ request[t].at = "writing"
    /\ LET q == request[t] IN
       /\ row' = [row EXCEPT ![q.of] =
                    [f \in DOMAIN NoRow |-> IF q.is[f] = q.was[f] THEN @[f] ELSE q.is[f]]]
       /\ gone' = IF q.gone THEN gone \cup {q.of} ELSE gone
    /\ request' = [request EXCEPT ![t] = Idle]
    /\ UNCHANGED <<capture, open, restarts>>

\* for_calls and restore: nobody listens to an open capture any more.
Restored(r) ==
    [state |-> IF r.state = "OPEN" THEN "STOPPED" ELSE r.state, digits |-> r.digits,
     labelled |-> r.labelled, matched |-> r.matched]

CaptureRestart ==
    /\ restarts < MaxRestarts
    /\ restarts' = restarts + 1
    /\ capture' = [c \in Captures |-> Restored(row[c])]
    /\ open' = NoCapture
    /\ request' = [t \in Tabs |-> Idle]
    /\ UNCHANGED <<row, gone>>

CaptureStep(t) ==
    \/ CaptureKey(t) \/ CaptureBackspace(t) \/ CaptureStop(t) \/ CaptureDiscard(t)
    \/ CaptureLabel(t) \/ CaptureRecordLookup(t) \/ CaptureLoad(t) \/ CaptureCommit(t)
    \/ \E c \in Captures : CaptureStart(t, c)
    \/ \E kind \in LookupKind : CaptureLookup(t, kind)

-----------------------------------------------------------------------------
(* What must hold.                                                         *)

\* Digits are kept only where somebody wants them.  Once a discard is answered
\* they are gone, from memory and from the row, and no later request, lookup
\* still on its way or restart brings them back (KeypadCaptureService.discard,
\* "one click, and the digits are gone"); and digits nothing has named are
\* never in the database, whatever else was written meanwhile (D44's inverted
\* default).  A write that another tab had begun may bring discarded digits
\* back, which is why gone leaves it out.
OnlyWantedDigitsAreKept ==
    /\ \A c \in gone : /\ capture[c].state = "DISCARDED" /\ capture[c].digits = 0
                       /\ row[c].state = "DISCARDED" /\ row[c].digits = 0
    /\ \A c \in Captures : row[c].digits > 0 => row[c].labelled \/ row[c].matched # {}
=============================================================================
