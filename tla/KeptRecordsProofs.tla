-------------------------- MODULE KeptRecordsProofs --------------------------
(***************************************************************************)
(* What KeptRecords guarantees for any number of handlers, desks, offers,  *)
(* statements and restarts, and for any recordings, limits and retentions. *)
(*                                                                         *)
(* The rows.  A job carries a copy of the session from await to await, so  *)
(* the invariant speaks of the copies as it does of the row: whatever any  *)
(* of them says of the caller is vouched for by the log (AllVouched), and  *)
(* what a job has decided, or stored, is what its offer shows (Decided,    *)
(* RefusalsStored).  A call that was not loaded by a restart, because it   *)
(* had ended, is Gone: nothing of it moves again, and nothing is promised. *)
(*                                                                         *)
(* The recording.  An upload goes through the sealed recordings in order,  *)
(* so what it has passed is stored, given up or to be tried again.         *)
(***************************************************************************)
EXTENDS KeptRecords, FiniteSums, SequenceTheorems, TLAPS

Busy == {j \in Jobs : job[j] # NoJob}

\* Kinds that come with an offer of the call.
OfOffers == JobKind \ {"abandon", "attest"}

JobsFit ==
    \A j \in Busy :
        /\ job[j].kind \in OfOffers => job[j].offer \in Offers
        /\ ~PoolsObject(job[j].kind) => job[j].copy \in Session
        /\ job[j].kind \in {"offer"} \cup DeskLast => job[j].at # "decide"
        /\ job[j].kind = "abandon" => job[j].at = "move"
        /\ job[j].says # NoJob => job[j].kind = "attest" /\ job[j].says \in Attestation

\* A finished call after a restart.
Gone ==
    /\ ~Live /\ Busy = {} /\ waiting = "out" /\ open = NoOffer
    /\ \A o \in Offers : outcome[o] = "NONE"
    /\ history = {}

-----------------------------------------------------------------------------
(* Who is calling.                                                         *)

\* What i says of the caller is in the disclosure log d.
Vouched(i, d) ==
    /\ i.level = "L3" => \E e \in d : e.outcome # "NOT_THIS_PERSON"
    /\ ~i.named => \E e \in d : e.rejected

AllVouched ==
    /\ Vouched(identity, log) /\ Vouched(row.identity, log) /\ Vouched(held.identity, log)
    /\ \A j \in Busy : ~PoolsObject(job[j].kind) => Vouched(job[j].copy.identity, log)

StatementsFit ==
    /\ \A e \in log : e.rejected => e.outcome = "NOT_THIS_PERSON"
    /\ \A j \in Busy : job[j].says # NoJob =>
          /\ job[j].says \in history
          /\ job[j].says.rejected => job[j].says.outcome = "NOT_THIS_PERSON"
          /\ job[j].says.outcome = "NOT_THIS_PERSON" => 
                job[j].says.rejected \/ \E e \in log : e.rejected
    /\ \A j \in Busy : job[j].kind = "attest" /\ job[j].at = "move"
                       => job[j].says \in log /\ job[j].says # NoJob

Remembered ==
    /\ told \subseteq {e.n : e \in log}
    /\ log \subseteq history \/ Gone
    /\ original = "somebody" \/ (original = "unset" /\ history = {})

-----------------------------------------------------------------------------
(* Whose desk the call is offered to.                                      *)

Made ==
    /\ \A o \in Offers : asked[o] = NoAgent => rows[o] = "NONE" /\ outcome[o] = "NONE"
    /\ open # NoOffer => outcome[open] = "PENDING"
    /\ \A j \in Busy : job[j].kind \in OfOffers => asked[job[j].offer] # NoAgent

PendingIsPending ==
    \A o \in Offers : outcome[o] = "PENDING" => rows[o] \in {"NONE", "PENDING"}

RingsStored ==
    /\ \A a \in Agents : desk[a] = "ringing" => \E o \in Offers : asked[o] = a /\ rows[o] # "NONE"
    /\ \A j \in Busy : job[j].kind = "offer" /\ job[j].at # "store" => rows[job[j].offer] # "NONE"

\* What a job of the handshake has decided stands.
Decided ==
    \A j \in Busy : job[j].kind \in OfOffers \ {"offer"} /\ job[j].at # "decide"
                    => outcome[job[j].offer] = Result[job[j].kind]

\* Nobody answers an offer that is still being made.
MadeBeforeAnswered ==
    /\ \A j \in Busy : job[j].kind = "offer" => outcome[job[j].offer] \in {"PENDING", "CANCELLED"}
    /\ \A i, j \in Busy :
          job[i].kind = "offer" /\ job[j].kind \in {"accept", "decline", "timeout"}
          => job[i].offer # job[j].offer

Refused == {"DECLINED", "TIMEOUT"}

RefusalsStored ==
    /\ \A o \in Offers : rows[o] \in Refused => outcome[o] = rows[o] \/ Gone
    /\ \A j \in Busy : job[j].kind \in Refusal /\ job[j].at \in {"desk", "move"}
                       => rows[job[j].offer] = Result[job[j].kind]
    /\ excluded \subseteq RowsWith(Refused)

Said_ == AllVouched /\ StatementsFit /\ Remembered
Asked_ == Made /\ PendingIsPending /\ RingsStored /\ Decided
Careful == ~EarlyScreens => MadeBeforeAnswered /\ RefusalsStored

RowsInv == TypeOK /\ JobsFit /\ Said_ /\ Asked_ /\ Careful

-----------------------------------------------------------------------------
(* How a job moves.                                                        *)

\* One job becomes b, the others stay.
Becoming(j, b) ==
    /\ job' \in [Jobs -> Job]
    /\ job'[j] = b
    /\ \A i \in Jobs \ {j} : job'[i] = job[i]

LEMMA StartsIs ==
    ASSUME TypeOK, NEW j \in Jobs, NEW k \in JobKind, NEW o \in Offers \cup {NoOffer},
           NEW p \in Place, Starts(j, k, o, p)
    PROVE  /\ job[j] = NoJob /\ job'[j] # NoJob
           /\ Becoming(j, job'[j])
           /\ job'[j].kind = k /\ job'[j].offer = o /\ job'[j].at = p
           /\ ~PoolsObject(k) => job'[j].copy = row
           /\ job'[j].says = NoJob
  <1> DEFINE b == [kind |-> k, offer |-> o, at |-> p,
                   copy |-> IF PoolsObject(k) THEN NoJob ELSE row, says |-> NoJob]
  <1>1. job[j] = NoJob /\ job' = [job EXCEPT ![j] = b]
    BY DEF Starts, Free
  <1>2. b \in Job
    BY DEF Job, TypeOK
  <1>3. b # NoJob
    <2>1. b.kind = k /\ NoJob.kind = "none" /\ k # "none"
      BY DEF NoJob, JobKind
    <2> QED BY <2>1
  <1>4. /\ b.kind = k /\ b.offer = o /\ b.at = p /\ b.says = NoJob
        /\ ~PoolsObject(k) => b.copy = row
    OBVIOUS
  <1> HIDE DEF b
  <1>5. Becoming(j, b)
    BY <1>1, <1>2 DEF Becoming, TypeOK
  <1> QED BY <1>1, <1>3, <1>4, <1>5 DEF Becoming

LEMMA GoesOnIs ==
    ASSUME TypeOK, NEW j \in Busy, NEW p \in Place, GoesOn(j, p)
    PROVE  /\ job'[j] # NoJob
           /\ Becoming(j, job'[j])
           /\ job'[j].at = p
           /\ job'[j].kind = job[j].kind /\ job'[j].offer = job[j].offer
           /\ job'[j].copy = job[j].copy /\ job'[j].says = job[j].says
  <1> DEFINE b == [job[j] EXCEPT !.at = p]
  <1>1. job' = [job EXCEPT ![j] = b]
    BY DEF GoesOn
  <1>2. /\ job[j] \in [kind : JobKind, offer : Offers \cup {NoOffer}, at : Place,
                       copy : Session \cup {NoJob}, says : Attestation \cup {NoJob}]
    BY DEF TypeOK, Busy, Job
  <1>3. /\ b \in Job /\ b.kind \in JobKind
        /\ b.at = p
        /\ b.kind = job[j].kind /\ b.offer = job[j].offer
        /\ b.copy = job[j].copy /\ b.says = job[j].says
    BY <1>2 DEF Job
  <1>4. b # NoJob
    <2>1. NoJob.kind = "none" /\ "none" \notin JobKind
      BY DEF NoJob, JobKind
    <2> QED BY <1>3, <2>1
  <1> HIDE DEF b
  <1>5. Becoming(j, b)
    BY <1>1, <1>3 DEF Becoming, TypeOK, Busy
  <1> QED BY <1>3, <1>4, <1>5 DEF Becoming

LEMMA EndsIs ==
    ASSUME TypeOK, NEW j \in Jobs, Ends(j)
    PROVE  job'[j] = NoJob /\ Becoming(j, NoJob)
  BY DEF Ends, TypeOK, Job, Becoming

LEMMA BusyIs ==
    ASSUME TypeOK, NEW j \in Busy
    PROVE  /\ j \in Jobs
           /\ job[j].kind \in JobKind /\ job[j].at \in Place
           /\ job[j].offer \in Offers \cup {NoOffer}
  BY DEF TypeOK, Busy, Job

\* What a handler holds when it begins keeps everything said so far.
LEMMA StartingKeeps ==
    ASSUME RowsInv, ~Gone,
           NEW j \in Jobs, NEW k \in JobKind \ {"offer"}, NEW o \in Offers \cup {NoOffer},
           NEW p \in Place, Starts(j, k, o, p),
           k \in OfOffers => o \in Offers /\ outcome[o] # "NONE",
           k \in OfOffers /\ p # "decide" => outcome[o] = Result[k],
           k \in Refusal \cup {"attest"} => p = "decide",
           k \in DeskLast => p # "decide",
           k = "abandon" => p = "move",
           ~EarlyScreens /\ k \in {"accept", "decline", "timeout"}
               => \A i \in Busy : job[i].kind = "offer" => job[i].offer # o,
           UNCHANGED <<stored, held, waiting, offers, desk, who, said, told, life>>
    PROVE  RowsInv'
  <1>1. /\ UNCHANGED <<row, rows, log, held, waiting, outcome, asked, open, excluded>>
        /\ UNCHANGED <<desk, identity, history, original, said, told, life>>
    BY DEF stored, offers, who
  <1>2. /\ job[j] = NoJob /\ job'[j] # NoJob
        /\ Becoming(j, job'[j])
        /\ job'[j].kind = k /\ job'[j].offer = o /\ job'[j].at = p
        /\ ~PoolsObject(k) => job'[j].copy = row
        /\ job'[j].says = NoJob
    BY StartsIs DEF RowsInv
  <1>3. /\ Busy' = Busy \cup {j} /\ j \notin Busy
        /\ \A i \in Busy : job'[i] = job[i]
    BY <1>2 DEF Busy, Becoming
  <1>4. TypeOK'
    BY <1>1, <1>2 DEF RowsInv, TypeOK, Becoming
  <1>5. JobsFit'
    BY <1>1, <1>2, <1>3 DEF RowsInv, JobsFit, TypeOK, OfOffers
  <1>6. AllVouched'
    <2>1. ~PoolsObject(k) => Vouched(job'[j].copy.identity, log)
      BY <1>2 DEF RowsInv, Said_, AllVouched
    <2> QED BY <1>1, <1>2, <1>3, <2>1 DEF RowsInv, Said_, AllVouched
  <1>7. StatementsFit'
    BY <1>1, <1>2, <1>3 DEF RowsInv, Said_, StatementsFit, Refusal
  <1>8. Remembered'
    BY <1>1 DEF RowsInv, Said_, Remembered
  <1>9. Made'
    BY <1>1, <1>2, <1>3 DEF RowsInv, Asked_, Made
  <1>10. PendingIsPending' /\ RingsStored'
    BY <1>1, <1>2, <1>3 DEF RowsInv, Asked_, PendingIsPending, RingsStored
  <1>11. Decided'
    BY <1>1, <1>2, <1>3 DEF RowsInv, Asked_, Decided
  <1>12. ASSUME ~EarlyScreens PROVE MadeBeforeAnswered'
    BY <1>1, <1>2, <1>3, <1>12 DEF RowsInv, Careful, MadeBeforeAnswered
  <1>13. ASSUME ~EarlyScreens PROVE RefusalsStored'
    BY <1>1, <1>2, <1>3, <1>13 DEF RowsInv, Careful, RefusalsStored, RowsWith, Refusal
  <1> QED BY <1>1, <1>4, <1>5, <1>6, <1>7, <1>8, <1>9, <1>10, <1>11, <1>12, <1>13
             DEF RowsInv, Said_, Asked_, Careful

\* A job of the handshake that goes on, or ends, says nothing new.
LEMMA MovingKeeps ==
    ASSUME TypeOK, JobsFit, Said_,
           NEW j \in Busy, job[j].kind \in OfOffers,
           Becoming(j, job'[j]),
           \/ job'[j] = NoJob
           \/ /\ job'[j].at # "decide"
              /\ job'[j].kind = job[j].kind /\ job'[j].offer = job[j].offer
              /\ job'[j].copy = job[j].copy /\ job'[j].says = job[j].says,
           UNCHANGED <<row, log, held, identity, history, original, told>>
    PROVE  JobsFit' /\ Said_'
  <1>1. /\ j \in Jobs /\ job[j] # NoJob
        /\ Busy' \subseteq Busy
        /\ \A i \in Busy : i # j => job'[i] = job[i]
    BY DEF Busy, Becoming
  <1>2. /\ job[j].kind \in OfOffers => job[j].offer \in Offers
        /\ ~PoolsObject(job[j].kind) => job[j].copy \in Session
        /\ job[j].says = NoJob /\ job[j].kind \notin {"abandon", "attest"}
    BY DEF JobsFit, OfOffers
  <1>3. j \in Busy' =>
        /\ job'[j].kind = job[j].kind /\ job'[j].offer = job[j].offer
        /\ job'[j].copy = job[j].copy /\ job'[j].says = job[j].says
        /\ job'[j].at # "decide"
    BY DEF Busy
  <1>4. JobsFit'
    BY <1>1, <1>2, <1>3 DEF JobsFit
  <1>5. AllVouched'
    BY <1>1, <1>3 DEF Said_, AllVouched
  <1>6. StatementsFit'
    BY <1>1, <1>2, <1>3 DEF Said_, StatementsFit
  <1>7. Remembered'
    <2>1. ~Gone
      BY <1>1 DEF Gone, Busy
    <2> QED BY <2>1 DEF Said_, Remembered
  <1> QED BY <1>4, <1>5, <1>6, <1>7 DEF Said_

\* AssignmentService.offer begins: a number nobody has used.
LEMMA OfferKeeps ==
    ASSUME RowsInv, NEW j \in Jobs, NEW o \in Offers, NEW a \in Agents, Offer(j, o, a)
    PROVE  RowsInv'
  <1>1. /\ waiting = "in_pool" /\ open = NoOffer
        /\ \A p \in Offers : asked[p] = NoAgent <=> p >= o
        /\ Starts(j, "offer", o, "store")
        /\ outcome' = [outcome EXCEPT ![o] = "PENDING"]
        /\ asked' = [asked EXCEPT ![o] = a]
        /\ open' = o
        /\ UNCHANGED <<row, rows, log, held, waiting, excluded, desk>>
        /\ UNCHANGED <<identity, history, original, said, told, life>>
    BY DEF Offer, MakeOffer, Offerable, stored, who
  <1>2. "offer" \in JobKind /\ "store" \in Place /\ "offer" \in OfOffers
    BY DEF JobKind, Place, OfOffers
  <1>3. /\ job[j] = NoJob /\ job'[j] # NoJob
        /\ Becoming(j, job'[j])
        /\ job'[j].kind = "offer" /\ job'[j].offer = o /\ job'[j].at = "store"
        /\ job'[j].says = NoJob
    BY <1>1, <1>2, StartsIs DEF RowsInv
  <1>4. /\ Busy' = Busy \cup {j} /\ j \notin Busy
        /\ \A i \in Busy : job'[i] = job[i]
    BY <1>3 DEF Busy, Becoming
  <1>5. /\ asked[o] = NoAgent /\ rows[o] = "NONE" /\ outcome[o] = "NONE"
        /\ o \in Nat /\ o # NoOffer /\ a # NoAgent
        /\ o >= o
    BY <1>1, StoredCallAssumption DEF RowsInv, Asked_, Made, Offers, NoOffer
  <1>6. /\ outcome' \in [Offers -> Outcome] /\ asked' \in [Offers -> Agents \cup {NoAgent}]
        /\ \A p \in Offers : outcome'[p] = IF p = o THEN "PENDING" ELSE outcome[p]
        /\ \A p \in Offers : asked'[p] = IF p = o THEN a ELSE asked[p]
    BY <1>1 DEF RowsInv, TypeOK, Outcome
  <1>7. ~Gone
    BY <1>1 DEF Gone
  <1>8. TypeOK'
    BY <1>1, <1>3, <1>6 DEF RowsInv, TypeOK, Becoming
  <1>9. JobsFit'
    BY <1>3, <1>4 DEF RowsInv, JobsFit, PoolsObject, DeskLast
  <1>10. Said_'
    <2>1. AllVouched'
      BY <1>1, <1>3, <1>4 DEF RowsInv, Said_, AllVouched, PoolsObject
    <2>2. StatementsFit'
      BY <1>1, <1>3, <1>4 DEF RowsInv, Said_, StatementsFit
    <2>3. Remembered'
      BY <1>1, <1>7 DEF RowsInv, Said_, Remembered
    <2> QED BY <2>1, <2>2, <2>3 DEF Said_
  <1>11. \A i \in Busy : job[i].kind \in OfOffers => job[i].offer \in Offers /\ job[i].offer # o
    BY <1>5 DEF RowsInv, JobsFit, Asked_, Made
  <1>12. Made'
    BY <1>1, <1>3, <1>4, <1>5, <1>6, <1>11 DEF RowsInv, Asked_, Made
  <1>13. PendingIsPending'
    BY <1>1, <1>5, <1>6 DEF RowsInv, Asked_, PendingIsPending
  <1>14. RingsStored'
    <2>1. \A p \in Offers : rows[p] # "NONE" => asked'[p] = asked[p]
      BY <1>5, <1>6
    <2> QED BY <1>1, <1>3, <1>4, <2>1 DEF RowsInv, Asked_, RingsStored
  <1>15. Decided'
    BY <1>3, <1>4, <1>6, <1>11 DEF RowsInv, Asked_, Decided
  <1>16. ASSUME ~EarlyScreens PROVE MadeBeforeAnswered'
    BY <1>2, <1>3, <1>4, <1>6, <1>11, <1>16 DEF RowsInv, Careful, MadeBeforeAnswered, OfOffers, JobKind
  <1>17. ASSUME ~EarlyScreens PROVE RefusalsStored'
    <2>1. \A p \in Offers : rows[p] \in Refused => p # o /\ asked'[p] = asked[p]
      BY <1>5, <1>6 DEF Refused
    <2>2. RowsWith(Refused)' = RowsWith(Refused)
      BY <1>1, <2>1 DEF RowsWith
    <2>3. \A i \in Busy' : job'[i].kind \in Refusal => i # j
      BY <1>3 DEF Refusal
    <2> QED BY <1>1, <1>4, <1>6, <1>7, <1>17, <2>1, <2>2, <2>3
            DEF RowsInv, Careful, RefusalsStored
  <1> QED BY <1>1, <1>8, <1>9, <1>10, <1>12, <1>13, <1>14, <1>15, <1>16, <1>17
             DEF RowsInv, Asked_, Careful

LEMMA ResultIs ==
    ASSUME NEW k \in OfOffers
    PROVE  /\ Result[k] \in Outcome \ {"NONE"}
           /\ k # "offer" => Result[k] # "PENDING"
           /\ k = "offer" => Result[k] = "PENDING"
           /\ k \in Refusal <=> Result[k] \in Refused
           /\ k = "cancel" => Result[k] = "CANCELLED"
           /\ k \in {"accept"} \cup DeskLast => Result[k] = "ACCEPTED"
  BY DEF OfOffers, JobKind, Result, Outcome, Refusal, Refused, DeskLast

\* A job at one of the handshake's awaits.
LEMMA HandshakeJobIs ==
    ASSUME TypeOK, JobsFit, NEW j \in Jobs, NEW p \in {"decide", "store", "desk"}, At(j, p)
    PROVE  /\ j \in Busy /\ job[j].kind \in OfOffers /\ job[j].offer \in Offers
           /\ p = "decide" => job[j].kind \in {"accept", "cancel"} \cup Refusal
  BY BusyIs DEF At, Busy, JobsFit, OfOffers, JobKind, DeskLast, Refusal

\* _require_open, and the outcome in memory.
LEMMA DecideKeeps ==
    ASSUME RowsInv, NEW j \in Jobs, Decide(j)
    PROVE  RowsInv'
  <1> DEFINE o == job[j].offer  k == job[j].kind
  <1>1. /\ j \in Busy /\ k \in OfOffers /\ o \in Offers
        /\ k \in {"accept", "cancel"} \cup Refusal
        /\ job[j].at = "decide"
    BY HandshakeJobIs DEF RowsInv, Decide, At
  <1>2. /\ UNCHANGED <<row, rows, log, held, waiting, asked, excluded>>
        /\ UNCHANGED <<desk, identity, history, original, said, told, life>>
        /\ \/ /\ outcome[o] = "PENDING"
              /\ outcome' = [outcome EXCEPT ![o] = Result[k]]
              /\ open' = NoOffer
              /\ GoesOn(j, "store")
           \/ Ends(j) /\ UNCHANGED <<outcome, open>>
    BY DEF Decide, stored, who
  <1>3. /\ Becoming(j, job'[j])
        /\ \/ job'[j] = NoJob
           \/ /\ job'[j] # NoJob
              /\ job'[j].at = "store"
              /\ job'[j].kind = k /\ job'[j].offer = o
              /\ job'[j].copy = job[j].copy /\ job'[j].says = job[j].says
              /\ outcome[o] = "PENDING"
              /\ outcome' = [outcome EXCEPT ![o] = Result[k]]
              /\ open' = NoOffer
        /\ \/ outcome[o] = "PENDING" /\ outcome' = [outcome EXCEPT ![o] = Result[k]] /\ open' = NoOffer
           \/ UNCHANGED <<outcome, open>>
    BY <1>1, <1>2, GoesOnIs, EndsIs DEF RowsInv, Becoming, Place
  <1>4. JobsFit' /\ Said_'
    BY <1>1, <1>2, <1>3, MovingKeeps DEF RowsInv
  <1>5. /\ Result[k] \in Outcome \ {"NONE", "PENDING"}
        /\ Result[k] \in Refused <=> k \in Refusal
        /\ k = "cancel" => Result[k] = "CANCELLED"
    BY <1>1, ResultIs DEF Refusal
  <1>6. /\ outcome' \in [Offers -> Outcome]
        /\ \A p \in Offers : outcome'[p] = outcome[p]
               \/ (p = o /\ outcome[o] = "PENDING" /\ outcome'[o] = Result[k])
    BY <1>1, <1>3, <1>5 DEF RowsInv, TypeOK
  <1>7. /\ Busy' \subseteq Busy
        /\ \A i \in Busy : i # j => job'[i] = job[i]
        /\ j \in Busy' => job'[j].kind = k /\ job'[j].offer = o /\ job'[j].at = "store"
                          /\ outcome[o] = "PENDING" /\ outcome'[o] = Result[k]
    BY <1>1, <1>3 DEF Busy, Becoming, RowsInv, TypeOK
  <1>8. TypeOK'
    BY <1>2, <1>3, <1>6 DEF RowsInv, TypeOK, Becoming
  <1>9. Made'
    <2>1. open' # NoOffer => outcome'[open'] = "PENDING"
      BY <1>3 DEF RowsInv, Asked_, Made
    <2>2. \A p \in Offers : asked'[p] = NoAgent => rows'[p] = "NONE" /\ outcome'[p] = "NONE"
      BY <1>2, <1>6 DEF RowsInv, Asked_, Made
    <2>3. \A i \in Busy' : job'[i].kind \in OfOffers => asked'[job'[i].offer] # NoAgent
      BY <1>1, <1>2, <1>7 DEF RowsInv, Asked_, Made
    <2> QED BY <2>1, <2>2, <2>3 DEF Made
  <1>10. PendingIsPending'
    BY <1>2, <1>5, <1>6 DEF RowsInv, Asked_, PendingIsPending
  <1>11. RingsStored'
    BY <1>1, <1>2, <1>7 DEF RowsInv, Asked_, RingsStored
  <1>12. Decided'
    <2> SUFFICES ASSUME NEW i \in Busy', job'[i].kind \in OfOffers \ {"offer"}, job'[i].at # "decide"
                 PROVE  outcome'[job'[i].offer] = Result[job'[i].kind]
      BY DEF Decided
    <2>1. CASE i = j
      BY <1>7, <2>1
    <2>2. CASE i # j
      <3>1. /\ i \in Busy /\ job'[i] = job[i] /\ job[i].offer \in Offers
            /\ outcome[job[i].offer] = Result[job[i].kind] /\ Result[job[i].kind] # "PENDING"
        BY <1>7, <2>2, ResultIs DEF RowsInv, Asked_, Decided, JobsFit
      <3> QED BY <1>6, <3>1
    <2> QED BY <2>1, <2>2
  <1>13. ASSUME ~EarlyScreens PROVE MadeBeforeAnswered'
    <2>1. \A i \in Busy' : job'[i].kind = "offer" =>
             i \in Busy /\ job'[i] = job[i] /\ job[i].offer \in Offers /\ (job[i].offer = o => k = "cancel")
      BY <1>1, <1>7, <1>13 DEF RowsInv, Careful, MadeBeforeAnswered, Refusal, JobsFit, OfOffers, JobKind
    <2>2. \A i \in Busy' : job'[i].kind = "offer" => outcome'[job'[i].offer] \in {"PENDING", "CANCELLED"}
      BY <1>5, <1>6, <1>13, <2>1 DEF RowsInv, Careful, MadeBeforeAnswered
    <2> QED BY <1>1, <1>7, <1>13, <2>1, <2>2 DEF RowsInv, Careful, MadeBeforeAnswered
  <1>14. ASSUME ~EarlyScreens PROVE RefusalsStored'
    <2>1. ~Gone
      BY <1>1 DEF Gone
    <2>2. \A p \in Offers : rows'[p] \in Refused => outcome'[p] = rows'[p]
      BY <1>2, <1>6, <1>14, <2>1 DEF RowsInv, Careful, RefusalsStored, Refused
    <2>3. \A i \in Busy' : job'[i].kind \in Refusal /\ job'[i].at \in {"desk", "move"}
              => rows'[job'[i].offer] = Result[job'[i].kind]
      BY <1>2, <1>7, <1>14 DEF RowsInv, Careful, RefusalsStored
    <2>4. excluded' \subseteq RowsWith(Refused)'
      BY <1>2, <1>14 DEF RowsInv, Careful, RefusalsStored, RowsWith
    <2> QED BY <2>2, <2>3, <2>4 DEF RefusalsStored
  <1> QED BY <1>2, <1>4, <1>8, <1>9, <1>10, <1>11, <1>12, <1>13, <1>14
             DEF RowsInv, Asked_, Careful

LEMMA NewDeskIs ==
    ASSUME NEW k \in OfOffers
    PROVE  NewDesk[k] \in Desk /\ (NewDesk[k] = "ringing" <=> k = "offer")
  BY DEF OfOffers, JobKind, NewDesk, Desk

\* The assignment's row.
LEMMA StoreKeeps ==
    ASSUME RowsInv, NEW j \in Jobs, Store(j)
    PROVE  RowsInv'
  <1> DEFINE o == job[j].offer  k == job[j].kind  p == IF k \in DeskLast THEN "move" ELSE "desk"
  <1>1. j \in Busy /\ k \in OfOffers /\ o \in Offers /\ job[j].at = "store"
    BY HandshakeJobIs DEF RowsInv, Store, At
  <1>2. /\ rows' = [rows EXCEPT ![o] = Result[k]] /\ GoesOn(j, p)
        /\ UNCHANGED <<row, log, held, waiting, outcome, asked, open, excluded>>
        /\ UNCHANGED <<desk, identity, history, original, said, told, life>>
    BY DEF Store, offers, who
  <1>3. p \in Place /\ p \in {"desk", "move"}
    BY DEF Place
  <1>4. /\ Becoming(j, job'[j]) /\ job'[j] # NoJob
        /\ job'[j].at = p /\ job'[j].kind = k /\ job'[j].offer = o
        /\ job'[j].copy = job[j].copy /\ job'[j].says = job[j].says
    BY <1>1, <1>2, <1>3, GoesOnIs DEF RowsInv
  <1>5. JobsFit' /\ Said_'
    BY <1>1, <1>2, <1>3, <1>4, MovingKeeps DEF RowsInv
  <1>6. /\ Busy' = Busy
        /\ \A i \in Busy : i # j => job'[i] = job[i]
    BY <1>1, <1>4 DEF Busy, Becoming, RowsInv, TypeOK
  <1>7. /\ Result[k] \in Outcome \ {"NONE"}
        /\ k # "offer" => outcome[o] = Result[k] /\ Result[k] # "PENDING"
        /\ k = "offer" => Result[k] = "PENDING"
        /\ k \in Refusal <=> Result[k] \in Refused
    BY <1>1, ResultIs DEF RowsInv, Asked_, Decided
  <1>8. /\ rows' \in [Offers -> Outcome]
        /\ \A q \in Offers : rows'[q] = IF q = o THEN Result[k] ELSE rows[q]
    BY <1>1, <1>2, <1>7 DEF RowsInv, TypeOK
  <1> HIDE DEF p
  <1>9. TypeOK'
    BY <1>2, <1>4, <1>8 DEF RowsInv, TypeOK, Becoming
  <1>10. Made'
    <2>1. asked[o] # NoAgent
      BY <1>1 DEF RowsInv, Asked_, Made
    <2> QED BY <1>1, <1>2, <1>4, <1>6, <1>8, <2>1 DEF RowsInv, Asked_, Made
  <1>11. PendingIsPending'
    BY <1>2, <1>7, <1>8 DEF RowsInv, Asked_, PendingIsPending
  <1>12. RingsStored'
    <2>1. \A q \in Offers : rows[q] # "NONE" => rows'[q] # "NONE"
      BY <1>7, <1>8
    <2>2. rows'[o] # "NONE"
      BY <1>1, <1>7, <1>8
    <2>3. \A i \in Busy : job[i].kind = "offer" => job[i].offer \in Offers
      BY DEF RowsInv, JobsFit, OfOffers, JobKind
    <2> QED BY <1>1, <1>2, <1>4, <1>6, <2>1, <2>2, <2>3 DEF RowsInv, Asked_, RingsStored
  <1>13. Decided'
    BY <1>1, <1>2, <1>4, <1>6 DEF RowsInv, Asked_, Decided
  <1>14. ASSUME ~EarlyScreens PROVE MadeBeforeAnswered'
    BY <1>1, <1>2, <1>4, <1>6, <1>14 DEF RowsInv, Careful, MadeBeforeAnswered
  <1>15. ASSUME ~EarlyScreens PROVE RefusalsStored'
    <2>1. ~Gone
      BY <1>1 DEF Gone
    <2>2. k = "offer" => outcome[o] \in {"PENDING", "CANCELLED"}
      BY <1>1, <1>15 DEF RowsInv, Careful, MadeBeforeAnswered
    <2>3. \A q \in Offers : rows'[q] \in Refused => outcome[q] = rows'[q]
      BY <1>7, <1>8, <1>15, <2>1 DEF RowsInv, Careful, RefusalsStored, Refused
    <2>4. \A q \in Offers : rows[q] \in Refused => rows'[q] \in Refused
      <3>1. rows[o] \in Refused => Result[k] \in Refused
        BY <1>1, <1>7, <1>15, <2>1, <2>2 DEF RowsInv, Careful, RefusalsStored, Refused
      <3> QED BY <1>8, <3>1
    <2>5. \A i \in Busy' : job'[i].kind \in Refusal /\ job'[i].at \in {"desk", "move"}
              => rows'[job'[i].offer] = Result[job'[i].kind]
      <3> SUFFICES ASSUME NEW i \in Busy, i # j, job[i].kind \in Refusal, job[i].at \in {"desk", "move"}
                   PROVE  rows'[job[i].offer] = Result[job[i].kind]
        BY <1>1, <1>4, <1>6, <1>8
      <3>1. /\ rows[job[i].offer] = Result[job[i].kind]
            /\ job[i].kind \in OfOffers /\ job[i].offer \in Offers
            /\ Result[job[i].kind] \in Refused
        BY <1>15, ResultIs, BusyIs DEF RowsInv, Careful, RefusalsStored, JobsFit, OfOffers, Refusal
      <3>2. CASE job[i].offer = o
        <4>1. outcome[o] = Result[job[i].kind]
          BY <3>1, <3>2, <2>1, <1>15 DEF RowsInv, Careful, RefusalsStored
        <4>2. rows'[o] \in Refused
          BY <1>1, <2>4, <3>1, <3>2
        <4> QED BY <1>1, <2>3, <3>2, <4>1, <4>2
      <3>3. CASE job[i].offer # o
        BY <1>8, <3>1, <3>3
      <3> QED BY <3>2, <3>3
    <2>6. excluded' \subseteq RowsWith(Refused)'
      BY <1>2, <1>15, <2>4 DEF RowsInv, Careful, RefusalsStored, RowsWith
    <2> QED BY <1>2, <2>3, <2>5, <2>6 DEF RefusalsStored
  <1> QED BY <1>2, <1>5, <1>9, <1>10, <1>11, <1>12, <1>13, <1>14, <1>15
             DEF RowsInv, Asked_, Careful

\* The desk, and who may not be asked again.
LEMMA MoveDeskKeeps ==
    ASSUME RowsInv, NEW j \in Jobs, MoveDesk(j)
    PROVE  RowsInv'
  <1> DEFINE o == job[j].offer  k == job[j].kind  a == asked[o]
  <1>1. j \in Busy /\ k \in OfOffers /\ o \in Offers /\ job[j].at = "desk"
    BY HandshakeJobIs DEF RowsInv, MoveDesk, At
  <1>2. /\ excluded' = IF k \in Refusal THEN excluded \cup {a} ELSE excluded
        /\ desk' = [desk EXCEPT ![a] = NewDesk[k]]
        /\ IF k \in DeskLast THEN Ends(j) ELSE GoesOn(j, "move")
        /\ UNCHANGED <<row, rows, log, held, waiting, outcome, asked, open>>
        /\ UNCHANGED <<identity, history, original, said, told, life>>
    BY DEF MoveDesk, stored, who
  <1>3. /\ Becoming(j, job'[j])
        /\ \/ job'[j] = NoJob
           \/ /\ job'[j] # NoJob
              /\ job'[j].at = "move" /\ job'[j].kind = k /\ job'[j].offer = o
              /\ job'[j].copy = job[j].copy /\ job'[j].says = job[j].says
    BY <1>1, <1>2, GoesOnIs, EndsIs DEF RowsInv, Becoming, Place
  <1>4. JobsFit' /\ Said_'
    BY <1>1, <1>2, <1>3, MovingKeeps DEF RowsInv
  <1>5. /\ Busy' \subseteq Busy
        /\ \A i \in Busy : i # j => job'[i] = job[i]
        /\ j \in Busy' => job'[j].kind = k /\ job'[j].offer = o /\ job'[j].at = "move"
    BY <1>1, <1>3 DEF Busy, Becoming, RowsInv, TypeOK
  <1>6. a \in Agents
    BY <1>1, StoredCallAssumption DEF RowsInv, Asked_, Made, TypeOK
  <1>7. /\ desk' \in [Agents -> Desk]
        /\ \A b \in Agents : desk'[b] = IF b = a THEN NewDesk[k] ELSE desk[b]
        /\ NewDesk[k] = "ringing" <=> k = "offer"
        /\ excluded' \subseteq Agents
    BY <1>1, <1>2, <1>6, NewDeskIs DEF RowsInv, TypeOK
  <1>8. TypeOK'
    BY <1>2, <1>3, <1>7 DEF RowsInv, TypeOK, Becoming
  <1>9. Made' /\ PendingIsPending'
    BY <1>1, <1>2, <1>5 DEF RowsInv, Asked_, Made, PendingIsPending
  <1>10. RingsStored'
    BY <1>1, <1>2, <1>5, <1>7 DEF RowsInv, Asked_, RingsStored
  <1>11. Decided'
    BY <1>1, <1>2, <1>5 DEF RowsInv, Asked_, Decided
  <1>12. ASSUME ~EarlyScreens PROVE MadeBeforeAnswered'
    BY <1>1, <1>2, <1>5, <1>12 DEF RowsInv, Careful, MadeBeforeAnswered
  <1>13. ASSUME ~EarlyScreens PROVE RefusalsStored'
    <2>1. ~Gone
      BY <1>1 DEF Gone
    <2>2. \A q \in Offers : rows'[q] \in Refused => outcome'[q] = rows'[q]
      BY <1>2, <1>13, <2>1 DEF RowsInv, Careful, RefusalsStored
    <2>3. \A i \in Busy' : job'[i].kind \in Refusal /\ job'[i].at \in {"desk", "move"}
              => rows'[job'[i].offer] = Result[job'[i].kind]
      BY <1>1, <1>2, <1>5, <1>13 DEF RowsInv, Careful, RefusalsStored
    <2>4. k \in Refusal => rows[o] \in Refused
      BY <1>1, <1>13, ResultIs DEF RowsInv, Careful, RefusalsStored
    <2>5. excluded' \subseteq RowsWith(Refused)'
      BY <1>1, <1>2, <1>13, <2>4 DEF RowsInv, Careful, RefusalsStored, RowsWith
    <2> QED BY <2>2, <2>3, <2>5 DEF RefusalsStored
  <1> QED BY <1>2, <1>4, <1>8, <1>9, <1>10, <1>11, <1>12, <1>13
             DEF RowsInv, Asked_, Careful

LEMMA TargetIs ==
    ASSUME NEW k \in JobKind \ {"attest"}
    PROVE  Target[k] \in CallState
  BY DEF JobKind, Target, CallState

\* orchestrator.transition: the whole of the object is saved.
LEMMA MoveCallKeeps ==
    ASSUME RowsInv, NEW j \in Jobs, MoveCall(j)
    PROVE  RowsInv'
  <1> DEFINE k == job[j].kind
             obj == IF PoolsObject(k) THEN held ELSE job[j].copy
             moved == [obj EXCEPT !.state = Target[k]]
  <1>1. j \in Busy /\ k \in JobKind \ {"attest"} /\ job[j].at = "move"
    BY BusyIs DEF RowsInv, MoveCall, At, Busy
  <1>2. /\ \/ /\ row' = moved
              /\ held' = IF PoolsObject(k) THEN moved ELSE held
              /\ waiting' = Released(k)
           \/ UNCHANGED <<row, held, waiting>>
        /\ (k \in DeskLast /\ GoesOn(j, "desk")) \/ Ends(j)
        /\ UNCHANGED <<rows, log, outcome, asked, open, excluded>>
        /\ UNCHANGED <<desk, identity, history, original, said, told, life>>
    BY DEF MoveCall, offers, who
  <1>3. /\ Becoming(j, job'[j])
        /\ \/ job'[j] = NoJob
           \/ /\ job'[j] # NoJob /\ k \in DeskLast
              /\ job'[j].at = "desk" /\ job'[j].kind = k /\ job'[j].offer = job[j].offer
              /\ job'[j].copy = job[j].copy /\ job'[j].says = job[j].says
    BY <1>1, <1>2, GoesOnIs, EndsIs DEF RowsInv, Becoming, Place
  <1>4. /\ Busy' \subseteq Busy
        /\ \A i \in Busy : i # j => job'[i] = job[i]
        /\ j \in Busy' => /\ job'[j].kind = k /\ job'[j].offer = job[j].offer
                          /\ job'[j].copy = job[j].copy /\ job'[j].says = job[j].says
                          /\ job'[j].at = "desk" /\ k \in DeskLast
    BY <1>1, <1>3 DEF Busy, Becoming, RowsInv, TypeOK
  <1>5. /\ obj \in Session
        /\ Vouched(obj.identity, log)
    BY <1>1 DEF RowsInv, TypeOK, JobsFit, Said_, AllVouched
  <1>6. /\ moved \in Session /\ moved.identity = obj.identity
    BY <1>1, <1>5, TargetIs DEF Session
  <1> HIDE DEF moved, obj
  <1>7. /\ row' \in Session /\ held' \in Session /\ waiting' \in Waiting
        /\ Vouched(row'.identity, log) /\ Vouched(held'.identity, log)
    BY <1>2, <1>5, <1>6 DEF RowsInv, TypeOK, Said_, AllVouched, Released, Waiting
  <1>8. ~Gone
    BY <1>1 DEF Gone
  <1>9. TypeOK'
    BY <1>2, <1>3, <1>7 DEF RowsInv, TypeOK, Becoming
  <1>10. JobsFit'
    BY <1>1, <1>4 DEF RowsInv, JobsFit, DeskLast, OfOffers
  <1>11. Said_'
    <2>1. AllVouched'
      BY <1>1, <1>2, <1>4, <1>7 DEF RowsInv, Said_, AllVouched
    <2>2. StatementsFit'
      BY <1>1, <1>2, <1>4 DEF RowsInv, Said_, StatementsFit, DeskLast
    <2>3. Remembered'
      BY <1>2, <1>8 DEF RowsInv, Said_, Remembered
    <2> QED BY <2>1, <2>2, <2>3 DEF Said_
  <1>12. Made' /\ PendingIsPending'
    BY <1>1, <1>2, <1>4 DEF RowsInv, Asked_, Made, PendingIsPending
  <1>13. RingsStored' /\ Decided'
    BY <1>1, <1>2, <1>4 DEF RowsInv, Asked_, RingsStored, Decided
  <1>14. ASSUME ~EarlyScreens PROVE MadeBeforeAnswered'
    BY <1>1, <1>2, <1>4, <1>14 DEF RowsInv, Careful, MadeBeforeAnswered
  <1>15. ASSUME ~EarlyScreens PROVE RefusalsStored'
    BY <1>1, <1>2, <1>4, <1>8, <1>15
       DEF RowsInv, Careful, RefusalsStored, RowsWith, Refusal, DeskLast
  <1> QED BY <1>2, <1>9, <1>10, <1>11, <1>12, <1>13, <1>14, <1>15
             DEF RowsInv, Asked_, Careful

\* Everything of the handshake, when only its jobs' statements move.
LEMMA AttestingKeeps ==
    ASSUME RowsInv, NEW j \in Busy, job[j].kind = "attest",
           Becoming(j, job'[j]), job'[j] = NoJob \/ job'[j].kind = "attest",
           UNCHANGED <<rows, outcome, asked, open, excluded, desk>>
    PROVE  Asked_' /\ Careful'
  <1>1. /\ \A i \in Busy' : i \in Busy /\ (i # j => job'[i] = job[i])
        /\ j \in Busy' => job'[j].kind = "attest"
        /\ "attest" \notin OfOffers \cup Refusal \cup {"offer"}
    BY DEF Busy, Becoming, OfOffers, Refusal
  <1>2. ~Gone
    BY DEF Gone
  <1>3. Made' /\ PendingIsPending' /\ RingsStored' /\ Decided'
    BY <1>1 DEF RowsInv, Asked_, Made, PendingIsPending, RingsStored, Decided
  <1>4. ASSUME ~EarlyScreens PROVE MadeBeforeAnswered'
    BY <1>1, <1>4 DEF RowsInv, Careful, MadeBeforeAnswered
  <1>5. ASSUME ~EarlyScreens PROVE RefusalsStored'
    BY <1>1, <1>2, <1>5 DEF RowsInv, Careful, RefusalsStored, RowsWith
  <1> QED BY <1>3, <1>4, <1>5 DEF Asked_, Careful

\* A statement is made.  It is a rejection if somebody was named, and if nobody
\* was, somebody has been rejected before.
LEMMA SayKeeps ==
    ASSUME RowsInv, NEW j \in Jobs, Say(j)
    PROVE  RowsInv'
  <1>1. PICK o \in Said :
            /\ Attestable(o)
            /\ AppendStatement(j, [n |-> said + 1, outcome |-> o,
                                   rejected |-> o = "NOT_THIS_PERSON" /\ identity.named])
    BY DEF Say
  <1> DEFINE e == [n |-> said + 1, outcome |-> o,
                   rejected |-> o = "NOT_THIS_PERSON" /\ identity.named]
             b == [job[j] EXCEPT !.says = e]
  <1>2. /\ j \in Busy /\ job[j].kind = "attest" /\ said < MaxSaid
        /\ history' = history \cup {e} /\ job' = [job EXCEPT ![j] = b]
        /\ original' = OriginalNow /\ said' = said + 1
        /\ UNCHANGED <<row, rows, log, held, waiting, outcome, asked, open, excluded>>
        /\ UNCHANGED <<desk, identity, told, life>>
    BY <1>1 DEF Say, AppendStatement, Busy, stored, offers
  <1>3. /\ said' \in 1 .. MaxSaid
        /\ e \in Attestation
        /\ e.outcome = o /\ e.rejected = (o = "NOT_THIS_PERSON" /\ identity.named)
    <2>1. said + 1 \in 1 .. MaxSaid
      BY <1>2, StoredCallAssumption DEF RowsInv, TypeOK
    <2> QED BY <1>2, <2>1 DEF Attestation, Said
  <1>4. job[j] \in [kind : JobKind, offer : Offers \cup {NoOffer}, at : Place,
                    copy : Session \cup {NoJob}, says : Attestation \cup {NoJob}]
    BY <1>2 DEF RowsInv, TypeOK, Busy, Job
  <1> HIDE DEF e
  <1>5. /\ b \in Job /\ b.kind = "attest" /\ b.says = e
        /\ b.offer = job[j].offer /\ b.at = job[j].at /\ b.copy = job[j].copy
    BY <1>2, <1>3, <1>4 DEF Job
  <1> HIDE DEF b
  <1>6. Becoming(j, b) /\ job'[j].kind = "attest" /\ job'[j] = b
    BY <1>2, <1>5 DEF Becoming, RowsInv, TypeOK, Busy
  <1>7. /\ Busy' \subseteq Busy
        /\ \A i \in Busy : i # j => job'[i] = job[i]
    BY <1>2, <1>6 DEF Busy, Becoming, RowsInv, TypeOK
  <1>8. ~Gone
    BY <1>2 DEF Gone
  <1>9. original' = "somebody"
    <2>1. CASE original = "unset"
      <3>1. log = {} /\ identity.named
        BY <1>8, <2>1 DEF RowsInv, Said_, Remembered, AllVouched, Vouched
      <3> QED BY <1>2, <2>1, <3>1 DEF OriginalNow, Names
    <2>2. CASE original = "somebody"
      BY <1>2, <2>2 DEF OriginalNow
    <2> QED BY <2>1, <2>2 DEF RowsInv, Said_, Remembered
  <1>10. TypeOK'
    <2>1. 1 .. MaxSaid \subseteq 0 .. MaxSaid
      BY StoredCallAssumption
    <2> QED BY <1>2, <1>3, <1>6, <1>9, <2>1 DEF RowsInv, TypeOK, Becoming
  <1>11. JobsFit'
    BY <1>2, <1>3, <1>5, <1>6, <1>7 DEF RowsInv, JobsFit
  <1>12. AllVouched'
    BY <1>2, <1>5, <1>6, <1>7 DEF RowsInv, Said_, AllVouched
  <1>13. StatementsFit'
    <2>1. identity.named \/ \E x \in log : x.rejected
      BY DEF RowsInv, Said_, AllVouched, Vouched
    <2>2. job[j].says = NoJob /\ job[j].at # "move"
      BY <1>1, <1>2 DEF AppendStatement, RowsInv, Said_, StatementsFit
    <2>3. /\ e.rejected => e.outcome = "NOT_THIS_PERSON"
          /\ e.outcome = "NOT_THIS_PERSON" => e.rejected \/ \E x \in log : x.rejected
      BY <1>3, <2>1, Zenon
    <2>4. \A x \in log' : x.rejected => x.outcome = "NOT_THIS_PERSON"
      BY <1>2 DEF RowsInv, Said_, StatementsFit
    <2>5. ASSUME NEW i \in Busy', job'[i].says # NoJob
          PROVE  /\ job'[i].says \in history'
                 /\ job'[i].says.rejected => job'[i].says.outcome = "NOT_THIS_PERSON"
                 /\ job'[i].says.outcome = "NOT_THIS_PERSON" =>
                       job'[i].says.rejected \/ \E x \in log' : x.rejected
      BY <1>2, <1>5, <1>6, <1>7, <2>3, <2>5 DEF RowsInv, Said_, StatementsFit
    <2>6. ASSUME NEW i \in Busy', job'[i].kind = "attest", job'[i].at = "move"
          PROVE  job'[i].says \in log' /\ job'[i].says # NoJob
      BY <1>2, <1>5, <1>6, <1>7, <2>2, <2>6 DEF RowsInv, Said_, StatementsFit
    <2> QED BY <2>4, <2>5, <2>6 DEF StatementsFit
  <1>14. Remembered'
    BY <1>2, <1>8, <1>9 DEF RowsInv, Said_, Remembered
  <1>15. Asked_' /\ Careful'
    BY <1>2, <1>6, AttestingKeeps
  <1> QED BY <1>10, <1>11, <1>12, <1>13, <1>14, <1>15 DEF RowsInv, Said_

\* The log's row.
LEMMA LoggedKeeps ==
    ASSUME RowsInv, NEW j \in Jobs, Logged(j)
    PROVE  RowsInv'
  <1>1. /\ j \in Busy /\ job[j].kind = "attest" /\ job[j].says # NoJob
        /\ log' = log \cup {job[j].says}
        /\ GoesOn(j, "move") /\ "move" \in Place
        /\ UNCHANGED <<row, rows, held, waiting, outcome, asked, open, excluded>>
        /\ UNCHANGED <<desk, identity, history, original, said, told, life>>
    BY DEF Logged, Busy, offers, who, Place
  <1>2. /\ job[j].says \in Attestation
        /\ job[j].says.rejected => job[j].says.outcome = "NOT_THIS_PERSON"
    BY <1>1 DEF RowsInv, JobsFit, Said_, StatementsFit
  <1>3. /\ Becoming(j, job'[j]) /\ job'[j] # NoJob /\ job'[j].at = "move"
        /\ job'[j].kind = "attest" /\ job'[j].offer = job[j].offer
        /\ job'[j].copy = job[j].copy /\ job'[j].says = job[j].says
    BY <1>1, GoesOnIs DEF RowsInv
  <1>4. /\ Busy' = Busy
        /\ \A i \in Busy : i # j => job'[i] = job[i]
    BY <1>1, <1>3 DEF Busy, Becoming, RowsInv, TypeOK
  <1>5. ~Gone
    BY <1>1 DEF Gone
  <1>6. TypeOK'
    BY <1>1, <1>2, <1>3 DEF RowsInv, TypeOK, Becoming
  <1>7. JobsFit'
    BY <1>1, <1>3, <1>4 DEF RowsInv, JobsFit, DeskLast
  <1>8. AllVouched'
    <2>1. ASSUME NEW i, Vouched(i, log) PROVE Vouched(i, log')
      BY <1>1, <2>1 DEF Vouched
    <2> QED BY <1>1, <1>3, <1>4, <2>1 DEF RowsInv, Said_, AllVouched
  <1>9. StatementsFit'
    <2>1. \A e \in log' : e.rejected => e.outcome = "NOT_THIS_PERSON"
      BY <1>1, <1>2 DEF RowsInv, Said_, StatementsFit
    <2>2. ASSUME NEW i \in Busy', job'[i].says # NoJob
          PROVE  /\ job'[i].says \in history'
                 /\ job'[i].says.rejected => job'[i].says.outcome = "NOT_THIS_PERSON"
                 /\ job'[i].says.outcome = "NOT_THIS_PERSON" =>
                       job'[i].says.rejected \/ \E x \in log' : x.rejected
      BY <1>1, <1>3, <1>4, <2>2 DEF RowsInv, Said_, StatementsFit
    <2>3. ASSUME NEW i \in Busy', job'[i].kind = "attest", job'[i].at = "move"
          PROVE  job'[i].says \in log' /\ job'[i].says # NoJob
      BY <1>1, <1>3, <1>4, <2>3 DEF RowsInv, Said_, StatementsFit
    <2> QED BY <2>1, <2>2, <2>3 DEF StatementsFit
  <1>10. Remembered'
    <2>1. told' \subseteq {e.n : e \in log'}
      BY <1>1 DEF RowsInv, Said_, Remembered
    <2>2. job[j].says \in history
      BY <1>1 DEF RowsInv, Said_, StatementsFit
    <2> QED BY <1>1, <1>5, <2>1, <2>2 DEF RowsInv, Said_, Remembered
  <1>11. Asked_' /\ Careful'
    BY <1>1, <1>3, AttestingKeeps
  <1> QED BY <1>6, <1>7, <1>8, <1>9, <1>10, <1>11 DEF RowsInv, Said_

LEMMA BecomesIs ==
    ASSUME NEW e \in Attestation
    PROVE  /\ Becomes(e.outcome) \in Identity
           /\ Becomes(e.outcome).level = "L3" => e.outcome # "NOT_THIS_PERSON"
           /\ ~Becomes(e.outcome).named => e.outcome = "NOT_THIS_PERSON"
  BY DEF Becomes, Nobody, Attested, Identity

\* The identity changes, and only after its statement was logged.
LEMMA SetIdentityKeeps ==
    ASSUME RowsInv, NEW j \in Jobs, SetIdentity(j)
    PROVE  RowsInv'
  <1> DEFINE e == job[j].says  c == job[j].copy
  <1>1. /\ j \in Busy /\ job[j].kind = "attest" /\ job[j].at = "move"
        /\ identity' = Becomes(e.outcome)
        /\ row' = [c EXCEPT !.identity = identity']
        /\ told' = told \cup {e.n}
        /\ Ends(j)
        /\ UNCHANGED <<rows, log, held, waiting, outcome, asked, open, excluded>>
        /\ UNCHANGED <<desk, history, original, said, life>>
    BY DEF SetIdentity, Busy, offers
  <1>2. /\ e \in log /\ e \in Attestation /\ c \in Session
        /\ e.outcome = "NOT_THIS_PERSON" => \E x \in log : x.rejected
    BY <1>1 DEF RowsInv, TypeOK, JobsFit, Said_, StatementsFit, PoolsObject
  <1>3. /\ identity' \in Identity
        /\ Vouched(identity', log)
    BY <1>1, <1>2, BecomesIs DEF Vouched
  <1>4. row' \in Session /\ row'.identity = identity'
    BY <1>1, <1>2, <1>3 DEF Session
  <1>5. job'[j] = NoJob /\ Becoming(j, job'[j])
    BY <1>1, EndsIs DEF RowsInv
  <1>6. \A i \in Busy' : i \in Busy /\ i # j /\ job'[i] = job[i]
    BY <1>5 DEF Busy, Becoming
  <1>7. ~Gone
    BY <1>1 DEF Gone
  <1>8. TypeOK'
    <2>1. e.n \in 1 .. MaxSaid
      BY <1>2 DEF Attestation
    <2> QED BY <1>1, <1>3, <1>4, <1>5, <2>1 DEF RowsInv, TypeOK, Becoming
  <1>9. JobsFit'
    BY <1>6 DEF RowsInv, JobsFit
  <1>10. AllVouched'
    BY <1>1, <1>3, <1>4, <1>6 DEF RowsInv, Said_, AllVouched
  <1>11. StatementsFit'
    BY <1>1, <1>6 DEF RowsInv, Said_, StatementsFit
  <1>12. Remembered'
    BY <1>1, <1>2, <1>7 DEF RowsInv, Said_, Remembered
  <1>13. Asked_' /\ Careful'
    BY <1>1, <1>5, AttestingKeeps
  <1> QED BY <1>8, <1>9, <1>10, <1>11, <1>12, <1>13 DEF RowsInv, Said_

\* Signing in, joining the pool, going round again: no job moves.
LEMMA StandingStillKeeps ==
    ASSUME RowsInv, Admit \/ CircleBack \/ (\E a \in Agents : Ready(a))
    PROVE  RowsInv'
  <1>1. /\ UNCHANGED <<row, rows, log, held, outcome, asked, open, job>>
        /\ UNCHANGED <<identity, history, original, said, told, life>>
        /\ waiting' \in Waiting /\ (waiting = "out" => waiting' = "out")
        /\ excluded' \subseteq excluded
        /\ desk' \in [Agents -> Desk]
        /\ \A a \in Agents : desk'[a] = "ringing" => desk[a] = "ringing"
    BY DEF RowsInv, TypeOK, Admit, CircleBack, Ready, stored, offers, who, Waiting, Desk
  <1>2. Busy' = Busy /\ (Gone => Gone')
    BY <1>1 DEF Busy, Gone, Live
  <1>3. TypeOK' /\ JobsFit'
    BY <1>1, <1>2 DEF RowsInv, TypeOK, JobsFit
  <1>4. Said_'
    BY <1>1, <1>2 DEF RowsInv, Said_, AllVouched, StatementsFit, Remembered
  <1>5. Asked_'
    BY <1>1, <1>2 DEF RowsInv, Asked_, Made, PendingIsPending, RingsStored, Decided
  <1>6. Careful'
    BY <1>1, <1>2 DEF RowsInv, Careful, MadeBeforeAnswered, RefusalsStored, RowsWith
  <1> QED BY <1>3, <1>4, <1>5, <1>6 DEF RowsInv

\* AssignmentService.restore: the newest offer still pending, if there is one.
LEMMA RestoredOpenIs ==
    ASSUME NEW S \in SUBSET Offers
    PROVE  Max(S \cup {NoOffer}) \in S \cup {NoOffer}
  <1>1. S \cup {NoOffer} \in SUBSET (0 .. MaxOffers) /\ S \cup {NoOffer} # {}
    BY StoredCallAssumption DEF Offers, NoOffer
  <1> QED BY <1>1, GreatestIs, StoredCallAssumption

\* Container.restore.
LEMMA RestartKeeps ==
    ASSUME RowsInv, Restart
    PROVE  RowsInv'
  <1>1. /\ life < MaxRestarts /\ life' = life + 1
        /\ held' = row /\ identity' = row.identity
        /\ desk' = [a \in Agents |-> "offline"]
        /\ job' = [j \in Jobs |-> NoJob]
        /\ UNCHANGED <<row, rows, log, asked, said, told>>
    BY DEF Restart, stored
  <1>2. /\ life' \in 0 .. MaxRestarts
        /\ identity' \in Identity /\ desk' \in [Agents -> Desk] /\ job' \in [Jobs -> Job]
        /\ Busy' = {}
    BY <1>1, StoredCallAssumption DEF RowsInv, TypeOK, Session, Desk, Job, Busy
  <1>3. /\ waiting' \in Waiting /\ outcome' \in [Offers -> Outcome]
        /\ open' \in Offers \cup {NoOffer}
        /\ open' # NoOffer => outcome'[open'] = "PENDING"
        /\ excluded' \subseteq Agents /\ history' \subseteq Attestation
        /\ \A o \in Offers : outcome'[o] \in {rows[o], "NONE"}
        /\ original' \in {"unset", "somebody"}
        /\ original' = "unset" => history' = {}
        /\ \/ outcome' = rows /\ history' = log
           \/ Gone'
        /\ excluded' \subseteq RowsWith(Refused)
    <2>1. CASE RestoreLive
      <3> DEFINE S == {o \in Offers : rows[o] = "PENDING"}
      <3>1. open' = Max(S \cup {NoOffer}) /\ S \in SUBSET Offers
        BY <2>1 DEF RestoreLive
      <3>2. open' \in S \cup {NoOffer}
        <4> HIDE DEF S
        <4> QED BY <3>1, RestoredOpenIs
      <3>3. /\ waiting' \in Waiting /\ outcome' = rows /\ history' = log
            /\ excluded' = RowsWith(Refused)
            /\ original' = RestoredOriginal
        BY <2>1 DEF RestoreLive, Waiting, RestoredExclusions, RestoredHistory, Refused
      <3>4. \A o \in Offers : rows[o] \in Refused => asked[o] \in Agents
        BY DEF RowsInv, TypeOK, Asked_, Made, Refused
      <3>5. RowsWith(Refused) \subseteq Agents
        BY <3>4 DEF RowsWith
      <3>6. row.identity.named \/ \E e \in log : e.rejected
        BY DEF RowsInv, Said_, AllVouched, Vouched
      <3>7. original' = IF log = {} THEN "unset" ELSE "somebody"
        BY <3>3, <3>6 DEF RestoredOriginal
      <3> QED BY <3>2, <3>3, <3>5, <3>7 DEF RowsInv, TypeOK
    <2>2. CASE RestoreFinished
      <3>1. Gone'
        BY <1>1, <1>2, <2>2 DEF RestoreFinished, Gone, Live
      <3> QED BY <2>2, <3>1 DEF RestoreFinished, Waiting, Outcome
    <2> QED BY <2>1, <2>2 DEF Restart
  <1>4. TypeOK'
    BY <1>1, <1>2, <1>3 DEF RowsInv, TypeOK
  <1>5. JobsFit'
    BY <1>2 DEF JobsFit
  <1>6. Said_'
    <2>1. AllVouched'
      BY <1>1, <1>2 DEF RowsInv, Said_, AllVouched
    <2>2. StatementsFit'
      BY <1>1, <1>2 DEF RowsInv, Said_, StatementsFit
    <2>3. Remembered'
      BY <1>1, <1>3 DEF RowsInv, Said_, Remembered
    <2> QED BY <2>1, <2>2, <2>3 DEF Said_
  <1>7. Asked_'
    <2>1. Made' /\ PendingIsPending'
      BY <1>1, <1>2, <1>3 DEF RowsInv, Asked_, Made, PendingIsPending
    <2>2. RingsStored' /\ Decided'
      BY <1>1, <1>2 DEF RingsStored, Decided
    <2> QED BY <2>1, <2>2 DEF Asked_
  <1>8. MadeBeforeAnswered' /\ RefusalsStored'
    <2>1. \A o \in Offers : rows'[o] \in Refused => outcome'[o] = rows'[o] \/ Gone'
      BY <1>1, <1>3
    <2>2. excluded' \subseteq RowsWith(Refused)'
      BY <1>1, <1>3 DEF RowsWith
    <2> QED BY <1>2, <2>1, <2>2 DEF MadeBeforeAnswered, RefusalsStored
  <1> QED BY <1>4, <1>5, <1>6, <1>7, <1>8 DEF RowsInv, Careful

LEMMA RowsInitially == Init => RowsInv
  <1> SUFFICES ASSUME Init PROVE RowsInv
    OBVIOUS
  <1> DEFINE first == [named |-> TRUE, level |-> "L1"]
  <1>1. /\ first \in Identity /\ [state |-> "MATCHED", identity |-> first] \in Session
        /\ row = [state |-> "MATCHED", identity |-> first] /\ row.identity = first
        /\ held = row /\ identity = first
        /\ first.named = TRUE /\ first.level # "L3"
    BY DEF Init, Session, Identity, CallState
  <1>2. Busy = {}
    BY DEF Init, Busy
  <1>3. TypeOK
    BY <1>1, StoredCallAssumption
       DEF Init, TypeOK, Outcome, Waiting, Desk, Job, Offers, NoOffer
  <1>4. JobsFit
    BY <1>2 DEF JobsFit
  <1>5. Said_
    <2>1. Vouched(first, log)
      BY <1>1 DEF Vouched
    <2>2. AllVouched
      BY <1>1, <1>2, <2>1 DEF AllVouched
    <2> QED BY <1>2, <2>2 DEF Init, Said_, StatementsFit, Remembered
  <1>6. Asked_
    BY <1>2 DEF Init, Asked_, Made, PendingIsPending, RingsStored, Decided
  <1>7. Careful
    BY <1>2 DEF Init, Careful, MadeBeforeAnswered, RefusalsStored, Refused
  <1> QED BY <1>3, <1>4, <1>5, <1>6, <1>7 DEF RowsInv

-----------------------------------------------------------------------------
(* Every step.                                                             *)

\* The handlers that begin.
LEMMA BeginningKeeps ==
    ASSUME RowsInv, NEW j \in Jobs,
           \/ Expire(j) \/ HangUp(j)
           \/ \E o \in Offers : Answer(j, o) \/ AgentEnds(j, o) \/ Attest(j, o)
    PROVE  RowsInv'
  <1> USE DEF Place, JobKind, OfOffers, Refusal, DeskLast
  <1>1. CASE Expire(j)
    <2>1. /\ waiting = "in_pool" /\ open \in Offers /\ outcome[open] = "PENDING"
          /\ \A i \in Jobs : job[i].kind # "offer"
          /\ Starts(j, "timeout", open, "decide")
          /\ UNCHANGED <<stored, held, waiting, offers, desk, who, said, told, life>>
      BY <1>1 DEF Expire, RowsInv, TypeOK, Asked_, Made
    <2>2. ~Gone
      BY <2>1 DEF Gone
    <2>3. \A i \in Busy : job[i].kind # "offer"
      BY <2>1 DEF Busy
    <2> QED BY <2>1, <2>2, <2>3, StartingKeeps
  <1>2. CASE HangUp(j)
    <2>1. /\ row.state \in LiveCallStates
          /\ UNCHANGED <<stored, held, waiting, offers, desk, who, said, told, life>>
      BY <1>2 DEF HangUp
    <2>2. ~Gone
      BY <2>1 DEF Gone, Live, Finished, TerminalStates, LiveCallStates
    <2>3. ASSUME NEW o \in Taken, Starts(j, "ring_off", o, "store") PROVE RowsInv'
      <3>1. o \in Offers /\ outcome[o] = "ACCEPTED" /\ Result["ring_off"] = "ACCEPTED"
        BY DEF Taken, Result
      <3> QED BY <2>1, <2>2, <2>3, <3>1, StartingKeeps
    <2>4. ASSUME open # NoOffer, Starts(j, "cancel", open, "decide") PROVE RowsInv'
      <3>1. open \in Offers /\ outcome[open] = "PENDING"
        BY <2>4 DEF RowsInv, TypeOK, Asked_, Made
      <3> QED BY <2>1, <2>2, <2>4, <3>1, StartingKeeps
    <2>5. ASSUME Starts(j, "abandon", NoOffer, "move") PROVE RowsInv'
      BY <2>1, <2>2, <2>5, StartingKeeps
    <2> QED BY <1>2, <2>3, <2>4, <2>5 DEF HangUp
  <1>3. ASSUME NEW o \in Offers, Answer(j, o) PROVE RowsInv'
    <2>1. /\ outcome[o] = "PENDING"
          /\ ~EarlyScreens => \A i \in Jobs : job[i].kind = "offer" => job[i].offer # o
          /\ UNCHANGED <<stored, held, waiting, offers, desk, who, said, told, life>>
      BY <1>3 DEF Answer, OnScreen
    <2>2. PICK k \in {"accept", "decline"} : Starts(j, k, o, "decide")
      BY <1>3 DEF Answer
    <2>3. ~Gone
      BY <2>1 DEF Gone
    <2>4. ~EarlyScreens => \A i \in Busy : job[i].kind = "offer" => job[i].offer # o
      BY <2>1 DEF Busy
    <2> QED BY <2>1, <2>2, <2>3, <2>4, StartingKeeps
  <1>4. ASSUME NEW o \in Offers, AgentEnds(j, o) PROVE RowsInv'
    <2>1. /\ outcome[o] = "ACCEPTED" /\ Starts(j, "end", o, "store")
          /\ UNCHANGED <<stored, held, waiting, offers, desk, who, said, told, life>>
          /\ Result["end"] = "ACCEPTED"
      BY <1>4 DEF AgentEnds, Result
    <2>2. ~Gone
      BY <2>1 DEF Gone
    <2> QED BY <2>1, <2>2, StartingKeeps
  <1>5. ASSUME NEW o \in Offers, Attest(j, o) PROVE RowsInv'
    <2>1. /\ outcome[o] \in {"PENDING", "ACCEPTED"} /\ Starts(j, "attest", o, "decide")
          /\ UNCHANGED <<stored, held, waiting, offers, desk, who, said, told, life>>
      BY <1>5 DEF Attest
    <2>2. ~Gone
      BY <2>1 DEF Gone
    <2> QED BY <2>1, <2>2, StartingKeeps
  <1> QED BY <1>1, <1>2, <1>3, <1>4, <1>5

LEMMA RowsStep == RowsInv /\ [Next]_vars => RowsInv'
  <1> SUFFICES ASSUME RowsInv, [Next]_vars PROVE RowsInv'
    OBVIOUS
  <1>1. ASSUME NEW j \in Jobs, Step(j) PROVE RowsInv'
    BY <1>1, BeginningKeeps, OfferKeeps, DecideKeeps, StoreKeeps, MoveDeskKeeps, MoveCallKeeps,
       SayKeeps, LoggedKeeps, SetIdentityKeeps, Zenon DEF Step
  <1>2. CASE UNCHANGED vars
    <2>1. /\ UNCHANGED <<row, rows, log, held, waiting, outcome, asked, open, excluded>>
          /\ UNCHANGED <<desk, identity, history, original, job, said, told, life>>
      BY <1>2 DEF vars, stored, offers, who
    <2>2. Busy' = Busy /\ Gone' = Gone
      BY <2>1 DEF Busy, Gone, Live
    <2>3. TypeOK' /\ JobsFit'
      BY <2>1, <2>2 DEF RowsInv, TypeOK, JobsFit
    <2>4. Said_'
      BY <2>1, <2>2 DEF RowsInv, Said_, AllVouched, StatementsFit, Remembered
    <2>5. Asked_' /\ Careful'
      BY <2>1, <2>2 DEF RowsInv, Asked_, Made, PendingIsPending, RingsStored, Decided,
                        Careful, MadeBeforeAnswered, RefusalsStored, RowsWith
    <2> QED BY <2>3, <2>4, <2>5 DEF RowsInv
  <1> QED BY <1>1, <1>2, StandingStillKeeps, RestartKeeps DEF Next

\* The rows' invariant holds whatever the tape does (StoredCall).
THEOREM RowsHold == KeptSpec => []RowsInv
  <1>1. KeptInit => RowsInv
    BY RowsInitially DEF KeptInit
  <1>2. RowsInv /\ [KeptNext]_keptVars => RowsInv'
    <2>1. [KeptNext]_keptVars => [Next]_vars
      BY DEF KeptNext, keptVars, InRows, InTape
    <2> QED BY <2>1, RowsStep
  <1> QED BY <1>1, <1>2, PTL DEF KeptSpec

\* Every variable of the rows keeps its type, at whatever await the process is
\* stopped and however often (StoredCall).
THEOREM RowsTypeCorrect == KeptSpec => []TypeOK
  <1>1. RowsInv => TypeOK
    BY DEF RowsInv
  <1> QED BY <1>1, RowsHold, PTL

\* Nothing is acted on that a restart would not know of: a desk rings only for
\* an offer that is stored, and what memory or the row says of the caller is
\* in the disclosure log (AssignmentService.offer, AttestationService.attest).
THEOREM ActedOnIsStored == KeptSpec => []StoredFirst
  <1>1. RowsInv => StoredFirst
    <2> SUFFICES ASSUME RowsInv PROVE StoredFirst
      OBVIOUS
    <2>1. RingsWhatIsStored
      <3> SUFFICES ASSUME NEW o \in Offers, outcome[o] = "PENDING", desk[asked[o]] = "ringing",
                          rows[o] # "PENDING"
                   PROVE  RingsForAnother(o)
        BY DEF RingsWhatIsStored
      <3>1. rows[o] = "NONE" /\ asked[o] \in Agents
        BY DEF RowsInv, TypeOK, Asked_, Made, PendingIsPending
      <3>2. PICK p \in Offers : asked[p] = asked[o] /\ rows[p] # "NONE"
        BY <3>1 DEF RowsInv, Asked_, RingsStored
      <3> QED BY <3>1, <3>2 DEF RingsForAnother
    <2>2. IdentityIsInTheLog
      BY DEF RowsInv, Said_, AllVouched, Vouched, StatementsFit, IdentityIsInTheLog
    <2> QED BY <2>1, <2>2 DEF StoredFirst
  <1> QED BY <1>1, RowsHold, PTL

\* What an agent was told is accepted is in the history the control's lock
\* looks at for as long as the call lives, and whom the resolver proposed is
\* still known once anything was said, over any number of restarts (D71).
THEOREM AttestationsOutliveRestarts == KeptSpec => []AttestationsSurvive
  <1>1. RowsInv => AttestationsSurvive
    BY DEF RowsInv, Said_, Remembered, Gone, AttestationsSurvive, LockNeverOpens, ProposalComesBack
  <1> QED BY <1>1, RowsHold, PTL

\* A restart forgets no refusal (D52), however many handlers it interrupts, if
\* no desk answers an offer that is still being made.
THEOREM RefusalsOutliveRestarts ==
    ASSUME ~EarlyScreens
    PROVE  KeptSpec => RestartKeepsRefusals
  <1>1. ASSUME Next, life' # life PROVE Restart
    <2>1. ASSUME NEW j \in Jobs, Step(j) PROVE life' = life
      BY <2>1 DEF Step, Expire, HangUp, Decide, Store, MoveDesk, MoveCall, Say, Logged,
                  SetIdentity, Answer, AgentEnds, Attest, Offer, MakeOffer
    <2> QED BY <1>1, <2>1 DEF Next, Ready, Admit, CircleBack
  <1>2. RowsInv /\ [KeptNext]_keptVars => [life' # life /\ Live => excluded \subseteq excluded']_vars
    <2> SUFFICES ASSUME RowsInv, Next, life' # life, Live PROVE excluded \subseteq excluded'
      BY DEF KeptNext, keptVars, InRows, InTape
    <2>1. excluded' = RowsWith(Refused)
      BY <1>1 DEF Restart, RestoreLive, RestoreFinished, RestoredExclusions, Refused
    <2> QED BY <2>1 DEF RowsInv, Careful, RefusalsStored
  <1> QED BY <1>2, RowsHold, PTL DEF KeptSpec, RestartKeepsRefusals

-----------------------------------------------------------------------------
(* The recording.                                                          *)

TapeTypeOK ==
    /\ leg \in [Calls -> [open : BOOLEAN, sinks : SUBSET {"ear", "tape"}]]
    /\ ear \in [Calls -> [state : {"none", "live", "closed"}, heard : Nat]]
    /\ tape \in [Calls -> [open : BOOLEAN, kept : Nat, dropped : Nat]]
    /\ pending \in Seq(Calls)
    /\ flush \in [at : Nat, step : 1 .. 3, since : Nat, failed : Seq(Calls)]
    /\ part \subseteq Calls
    /\ object \in [Calls -> Nat]
    /\ entry \in [Calls -> [there : BOOLEAN, created : Nat, due : Nat, kept : Nat]]
    /\ script \in [kind : {"none", "purge"} \cup Calls, todo : SUBSET Calls,
                   at : {"none", "object", "files"} \cup Calls]
    /\ now \in Nat /\ keep \in Nat
    /\ givenUp \subseteq Calls
    /\ erasure \in [Calls -> {"no", "begun", "done"}]

Queued(c) == \E i \in 1 .. Len(pending) : pending[i] = c
Failed(c) == \E i \in 1 .. Len(flush.failed) : flush.failed[i] = c

\* Nothing is in the store of a call yet.
Unstored(c) == ~entry[c].there /\ entry[c].kept = 0

\* The leg has the sinks of whoever listens.
Listening ==
    \A c \in Calls :
        /\ ear[c].state = "none" => /\ ear[c].heard = 0 /\ ~tape[c].open /\ tape[c].kept = 0
                                    /\ ~Queued(c) /\ Unstored(c)
        /\ ear[c].state = "live" => leg[c].open /\ "ear" \in leg[c].sinks
        /\ ear[c].state = "live" /\ tape[c].open => "tape" \in leg[c].sinks
        /\ tape[c].open => ~Queued(c) /\ Unstored(c)

\* The queue holds a recording once, and what an upload has passed is stored,
\* given up, or to be tried again.
InOrder ==
    /\ \A i, k \in 1 .. Len(pending) : pending[i] = pending[k] => i = k
    /\ \A i, k \in 1 .. Len(flush.failed) : flush.failed[i] = flush.failed[k] => i = k
    /\ \A c \in Calls : Queued(c) => tape[c].kept > 0 /\ ~tape[c].open
    /\ \A c \in Calls : Failed(c) => Unstored(c) /\ \E i \in 1 .. Len(pending) : i < flush.at /\ pending[i] = c
    /\ \A i \in 1 .. Len(pending) : i >= flush.at => Unstored(pending[i])
    /\ flush.at > 0 =>
         \A i \in 1 .. Len(pending) : i < flush.at =>
             Failed(pending[i]) \/ entry[pending[i]].kept > 0 \/ pending[i] \in givenUp
    /\ flush.at <= Len(pending) + 1
    /\ ~Uploading => flush.step = 1
    /\ flush.at = 0 => flush = NotFlushing

\* What is about to be named by a row is there, unless its call is erased.
ObjectBeforeRow ==
    /\ \A c \in Calls : entry[c].there => entry[c].kept > 0
    /\ Uploading /\ flush.step = 3 =>
          object[Sealed] = tape[Sealed].kept \/ erasure[Sealed] # "no"

\* The script deletes what it may.
ScriptFits ==
    /\ script.kind = "none" => script = NoScript
    /\ script.kind = "purge" =>
          script.at # "files" /\ \A c \in script.todo : entry[c].there /\ entry[c].due <= now
    /\ \A c \in Calls : script.kind = c =>
          erasure[c] = "begun" /\ \A d \in script.todo : d = c /\ entry[d].there
    /\ \A c \in Calls : script.at = c => c \in script.todo /\ object[c] = 0

TapeInv ==
    /\ TapeTypeOK /\ Listening /\ InOrder /\ ObjectBeforeRow /\ ScriptFits
    /\ BothHear /\ AudioIsAccountedFor /\ RowsAreTrue

\* Stuttering, and what touches no promise: the clock's day apart.
LEMMA TapeFrame ==
    ASSUME TapeInv, UNCHANGED <<leg, ear, tape, pending, flush, part, object, entry>>,
           UNCHANGED <<givenUp, keep>>, now' \in Nat, now <= now',
           erasure' \in [Calls -> {"no", "begun", "done"}],
           \A c \in Calls : erasure[c] # "no" => erasure'[c] # "no"
    PROVE  /\ TapeTypeOK' <=> script' \in [kind : {"none", "purge"} \cup Calls, todo : SUBSET Calls,
                                           at : {"none", "object", "files"} \cup Calls]
           /\ Listening' /\ InOrder' /\ ObjectBeforeRow'
           /\ BothHear' /\ AudioIsAccountedFor' /\ RowsAreTrue'
  <1>1. TapeTypeOK' <=> script' \in [kind : {"none", "purge"} \cup Calls, todo : SUBSET Calls,
                                     at : {"none", "object", "files"} \cup Calls]
    BY DEF TapeInv, TapeTypeOK
  <1>2. Listening' /\ InOrder'
    BY DEF TapeInv, Listening, InOrder, Queued, Failed, Unstored, Uploading
  <1>3. Uploading => Sealed \in Calls
    BY DEF TapeInv, TapeTypeOK, Uploading, Sealed
  <1>4. ObjectBeforeRow'
    BY <1>3 DEF TapeInv, ObjectBeforeRow, Uploading, Sealed
  <1>5. BothHear' /\ AudioIsAccountedFor'
    BY DEF TapeInv, BothHear, AudioIsAccountedFor
  <1>6. RowsAreTrue'
    <2> SUFFICES ASSUME NEW c \in Calls, entry[c].there, object[c] # entry[c].kept
                 PROVE  entry[c].due <= now' \/ erasure'[c] # "no"
      BY DEF RowsAreTrue
    <2>1. entry[c].due <= now \/ erasure[c] # "no"
      BY DEF TapeInv, RowsAreTrue
    <2>2. entry[c].due \in Nat /\ now \in Nat
      BY DEF TapeInv, TapeTypeOK
    <2> QED BY <2>1, <2>2
  <1> QED BY <1>1, <1>2, <1>4, <1>5, <1>6

\* What the script may do before it deletes.
LEMMA ScriptKeeps ==
    ASSUME TapeInv,
           \/ StartPurge \/ EndPurge \/ ScriptStops
           \/ \E c \in Calls : StartErase(c) \/ DeleteFails(c)
    PROVE  TapeInv'
  <1> DEFINE Script == [kind : {"none", "purge"} \cup Calls, todo : SUBSET Calls,
                        at : {"none", "object", "files"} \cup Calls]
  <1>0. /\ script \in Script /\ NoScript \in Script /\ now \in Nat
        /\ "none" \notin Calls /\ "purge" \notin Calls /\ "object" \notin Calls /\ "files" \notin Calls
    BY TapeAssumption DEF TapeInv, TapeTypeOK, NoScript
  <1>5. /\ now <= now
        /\ erasure \in [Calls -> {"no", "begun", "done"}]
    BY <1>0 DEF TapeInv, TapeTypeOK
  <1> HIDE DEF Script
  <1>6. ASSUME script' \in Script, ScriptFits',
               UNCHANGED <<leg, ear, tape, pending, flush, part, object, entry>>,
               UNCHANGED <<givenUp, keep, now>>,
               erasure' \in [Calls -> {"no", "begun", "done"}],
               \A d \in Calls : erasure[d] # "no" => erasure'[d] # "no"
        PROVE  TapeInv'
    BY <1>0, <1>5, <1>6, TapeFrame DEF TapeInv, Script
  <1>1. CASE EndPurge \/ ScriptStops
    <2>1. /\ script' = NoScript
          /\ UNCHANGED <<leg, ear, tape, pending, flush, part, object, entry>>
          /\ UNCHANGED <<givenUp, keep, now, erasure>>
      BY <1>1 DEF EndPurge, ScriptStops, pipeVars, storeVars, ownVars, dayVars
    <2>2. ScriptFits'
      BY <1>0, <2>1 DEF ScriptFits, NoScript
    <2> QED BY <1>0, <1>5, <1>6, <2>1, <2>2
  <1>2. CASE StartPurge
    <2>1. PICK batch \in SUBSET Oldest(Due) :
              script' = [kind |-> "purge", todo |-> batch, at |-> "object"]
      BY <1>2 DEF StartPurge
    <2>2. /\ UNCHANGED <<leg, ear, tape, pending, flush, part, object, entry>>
          /\ UNCHANGED <<givenUp, keep, now, erasure>>
      BY <1>2 DEF StartPurge, pipeVars, storeVars, ownVars, dayVars
    <2>3. \A c \in batch : c \in Calls /\ entry[c].there /\ entry[c].due <= now
      BY <2>1 DEF Oldest, Due, DueOn
    <2>4. script' \in Script
      BY <2>1, <2>3 DEF Script
    <2>5. ScriptFits'
      BY <1>0, <2>1, <2>2, <2>3 DEF ScriptFits
    <2> QED BY <1>5, <1>6, <2>2, <2>4, <2>5
  <1>3. ASSUME NEW c \in Calls, StartErase(c) PROVE TapeInv'
    <2>1. /\ erasure' = [erasure EXCEPT ![c] = "begun"]
          /\ script' = [kind |-> c, at |-> IF entry[c].there THEN "object" ELSE "files",
                        todo |-> IF entry[c].there THEN {c} ELSE {}]
          /\ UNCHANGED <<leg, ear, tape, pending, flush, part, object, entry>>
          /\ UNCHANGED <<givenUp, keep, now>>
      BY <1>3 DEF StartErase, pipeVars, storeVars, ownVars, dayVars
    <2>2. /\ erasure' \in [Calls -> {"no", "begun", "done"}]
          /\ \A d \in Calls : erasure[d] # "no" => erasure'[d] # "no"
          /\ erasure'[c] = "begun"
      BY <2>1 DEF TapeInv, TapeTypeOK
    <2>3. script' \in Script
      BY <2>1 DEF Script
    <2>4. ScriptFits'
      BY <1>0, <2>1, <2>2 DEF ScriptFits
    <2> QED BY <1>6, <2>1, <2>2, <2>3, <2>4
  <1>4. ASSUME NEW c \in Calls, DeleteFails(c) PROVE TapeInv'
    <2>1. /\ script.at = "object"
          /\ script' = IF script.kind = "purge" THEN [script EXCEPT !.todo = @ \ {c}] ELSE NoScript
          /\ UNCHANGED <<leg, ear, tape, pending, flush, part, object, entry>>
          /\ UNCHANGED <<givenUp, keep, now, erasure>>
      BY <1>4 DEF DeleteFails, pipeVars, storeVars, ownVars, dayVars
    <2>2. script' \in Script
      BY <1>0, <2>1 DEF Script
    <2>3. ScriptFits'
      BY <1>0, <2>1 DEF TapeInv, ScriptFits, NoScript
    <2> QED BY <1>5, <1>6, <2>1, <2>2, <2>3
  <1> QED BY <1>1, <1>2, <1>3, <1>4

\* Days pass.
LEMMA DayKeeps ==
    ASSUME TapeInv, DayPasses
    PROVE  TapeInv'
  <1>1. /\ now' = now + 1 /\ now \in Nat
        /\ UNCHANGED <<leg, ear, tape, pending, flush, part, object, entry>>
        /\ UNCHANGED <<givenUp, keep, script, erasure>>
    BY DEF DayPasses, pipeVars, storeVars, ownVars, TapeInv, TapeTypeOK
  <1>2. now' \in Nat /\ now <= now'
    BY <1>1
  <1>3. ScriptFits'
    <2>1. \A c \in Calls : entry[c].due \in Nat
      BY DEF TapeInv, TapeTypeOK
    <2>2. script.todo \subseteq Calls
      BY DEF TapeInv, TapeTypeOK
    <2>3. \A c \in Calls : entry[c].due <= now => entry[c].due <= now'
      BY <1>1, <2>1
    <2> QED BY <1>1, <2>2, <2>3 DEF TapeInv, ScriptFits, NoScript
  <1> QED BY <1>1, <1>2, <1>3, TapeFrame DEF TapeInv, TapeTypeOK

LEMMA SealedIs ==
    ASSUME TapeInv
    PROVE  /\ \A i \in 1 .. Len(pending) : pending[i] \in Calls /\ Queued(pending[i])
           /\ Uploading => /\ Sealed \in Calls /\ Queued(Sealed) /\ Unstored(Sealed)
                           /\ tape[Sealed].kept > 0 /\ ~tape[Sealed].open
  <1>1. ASSUME NEW i \in 1 .. Len(pending)
        PROVE  pending[i] \in Calls /\ Queued(pending[i])
    <2>1. pending[i] \in Calls
      BY DEF TapeInv, TapeTypeOK
    <2> QED BY <2>1 DEF Queued
  <1>2. ASSUME Uploading PROVE Sealed \in Calls /\ Queued(Sealed) /\ Unstored(Sealed)
    <2>1. flush.at \in 1 .. Len(pending) /\ flush.at >= flush.at
      BY <1>2 DEF Uploading
    <2> QED BY <1>1, <2>1 DEF Sealed, TapeInv, InOrder
  <1>3. \A c \in Calls : Queued(c) => tape[c].kept > 0 /\ ~tape[c].open
    BY DEF TapeInv, InOrder
  <1> QED BY <1>1, <1>2, <1>3

LEMMA CallsAreNoSteps == \A c \in Calls : c \notin {"none", "purge", "object", "files"}
  BY TapeAssumption

\* The object goes: of a row that is due, or of a call being erased.
LEMMA DeleteObjectKeeps ==
    ASSUME TapeInv, NEW c \in Calls, DeleteObject(c)
    PROVE  /\ TapeInv'
           /\ erasure[c] = "begun" \/ (entry[c].there /\ entry[c].due <= now)
  <1>1. /\ script.at = "object" /\ c \in script.todo
        /\ object' = [object EXCEPT ![c] = 0]
        /\ script' = [script EXCEPT !.at = c]
        /\ UNCHANGED <<leg, ear, tape, pending, flush, part, entry>>
        /\ UNCHANGED <<now, keep, givenUp, erasure>>
    BY DEF DeleteObject, pipeVars, ownVars, dayVars
  <1>2. /\ script.kind \in {"none", "purge"} \cup Calls
        /\ script.kind # "none"
    BY <1>1 DEF TapeInv, TapeTypeOK, ScriptFits, NoScript
  <1>3. /\ entry[c].there
        /\ erasure[c] = "begun" \/ entry[c].due <= now
    BY <1>1, <1>2 DEF TapeInv, ScriptFits
  <1>4. /\ object' \in [Calls -> Nat] /\ object'[c] = 0
        /\ \A d \in Calls : d # c => object'[d] = object[d]
    BY <1>1 DEF TapeInv, TapeTypeOK
  <1>5. TapeTypeOK'
    BY <1>1, <1>4 DEF TapeInv, TapeTypeOK
  <1>6. Listening' /\ InOrder' /\ BothHear' /\ AudioIsAccountedFor'
    BY <1>1 DEF TapeInv, Listening, InOrder, Queued, Failed, Unstored, Uploading,
                BothHear, AudioIsAccountedFor
  <1>7. ObjectBeforeRow'
    <2>1. Uploading => Sealed \in Calls /\ Sealed # c
      BY <1>3, SealedIs DEF Unstored
    <2> QED BY <1>1, <1>4, <2>1 DEF TapeInv, ObjectBeforeRow, Uploading, Sealed
  <1>8. ScriptFits'
    <2>1. /\ script'.kind = script.kind /\ script'.todo = script.todo /\ script'.at = c
      BY <1>1 DEF TapeInv, TapeTypeOK
    <2> QED BY <1>1, <1>2, <1>4, <2>1, CallsAreNoSteps DEF TapeInv, ScriptFits
  <1>9. RowsAreTrue'
    BY <1>1, <1>3, <1>4 DEF TapeInv, RowsAreTrue
  <1> QED BY <1>3, <1>5, <1>6, <1>7, <1>8, <1>9 DEF TapeInv

\* The row goes, and what it pointed at has gone.
LEMMA DeleteRowKeeps ==
    ASSUME TapeInv, NEW c \in Calls, DeleteRow(c)
    PROVE  TapeInv' /\ object[c] = 0
  <1>1. /\ script.at = c
        /\ entry' = [entry EXCEPT ![c].there = FALSE]
        /\ script' = [script EXCEPT !.todo = @ \ {c},
                                !.at = IF script.kind = "purge" THEN "object" ELSE "files"]
        /\ UNCHANGED <<leg, ear, tape, pending, flush, part, object>>
        /\ UNCHANGED <<now, keep, givenUp, erasure>>
    BY DEF DeleteRow, pipeVars, ownVars, dayVars
  <1>2. /\ object[c] = 0 /\ c \in script.todo
        /\ script.kind \in {"purge"} \cup Calls
    BY <1>1, CallsAreNoSteps DEF TapeInv, TapeTypeOK, ScriptFits, NoScript
  <1>3. /\ entry' \in [Calls -> [there : BOOLEAN, created : Nat, due : Nat, kept : Nat]]
        /\ entry'[c].there = FALSE /\ entry'[c].kept = entry[c].kept
        /\ \A d \in Calls : d # c => entry'[d] = entry[d]
    <2> DEFINE Row == [there : BOOLEAN, created : Nat, due : Nat, kept : Nat]
               r == [entry[c] EXCEPT !.there = FALSE]
    <2>1. entry \in [Calls -> Row] /\ entry' = [entry EXCEPT ![c] = r]
      BY <1>1 DEF TapeInv, TapeTypeOK
    <2>2. r \in Row /\ r.there = FALSE /\ r.kept = entry[c].kept
      BY <2>1
    <2> HIDE DEF r, Row
    <2>3. entry' \in [Calls -> Row] /\ entry'[c] = r /\ \A d \in Calls : d # c => entry'[d] = entry[d]
      BY <2>1, <2>2
    <2> QED BY <2>2, <2>3 DEF Row
  <1>4. /\ script'.kind = script.kind /\ script'.todo = script.todo \ {c}
        /\ script'.at = IF script.kind = "purge" THEN "object" ELSE "files"
        /\ script' \in [kind : {"none", "purge"} \cup Calls, todo : SUBSET Calls,
                        at : {"none", "object", "files"} \cup Calls]
    BY <1>1 DEF TapeInv, TapeTypeOK
  <1>5. TapeTypeOK'
    BY <1>1, <1>3, <1>4 DEF TapeInv, TapeTypeOK
  <1>6. \A d \in Calls : /\ entry'[d].kept = entry[d].kept
                         /\ entry'[d].there => entry[d].there /\ entry'[d] = entry[d]
    BY <1>3
  <1>7. Listening'
    BY <1>1, <1>6 DEF TapeInv, Listening, Queued, Unstored
  <1>8. InOrder'
    <2>1. \A i \in 1 .. Len(pending) : pending[i] \in Calls
      BY DEF TapeInv, TapeTypeOK
    <2> QED BY <1>1, <1>6, <2>1 DEF TapeInv, InOrder, Queued, Failed, Unstored, Uploading
  <1>9. ObjectBeforeRow'
    BY <1>1, <1>6 DEF TapeInv, ObjectBeforeRow, Uploading, Sealed
  <1>10. ScriptFits'
    BY <1>1, <1>2, <1>3, <1>4, CallsAreNoSteps DEF TapeInv, ScriptFits
  <1>11. BothHear' /\ AudioIsAccountedFor' /\ RowsAreTrue'
    BY <1>1, <1>6 DEF TapeInv, BothHear, AudioIsAccountedFor, RowsAreTrue
  <1> QED BY <1>2, <1>5, <1>7, <1>8, <1>9, <1>10, <1>11 DEF TapeInv

\* Whatever is left under the call's prefix.
LEMMA EraseFilesKeeps ==
    ASSUME TapeInv, NEW c \in Calls, EraseFiles(c)
    PROVE  TapeInv' /\ erasure[c] = "begun"
  <1>1. /\ script.kind = c
        /\ object' = [object EXCEPT ![c] = 0] /\ part' = part \ {c}
        /\ erasure' = [erasure EXCEPT ![c] = "done"] /\ script' = NoScript
        /\ UNCHANGED <<leg, ear, tape, pending, flush, entry>>
        /\ UNCHANGED <<now, keep, givenUp>>
    BY DEF EraseFiles, pipeVars, ownVars, dayVars
  <1>2. /\ object' \in [Calls -> Nat]
        /\ \A d \in Calls : d # c => object'[d] = object[d] /\ erasure'[d] = erasure[d]
        /\ erasure' \in [Calls -> {"no", "begun", "done"}] /\ erasure'[c] = "done"
    BY <1>1 DEF TapeInv, TapeTypeOK
  <1>3. erasure[c] = "begun"
    BY <1>1 DEF TapeInv, ScriptFits
  <1>4. TapeTypeOK'
    BY <1>1, <1>2 DEF TapeInv, TapeTypeOK, NoScript
  <1>5. Listening' /\ InOrder' /\ BothHear' /\ AudioIsAccountedFor'
    BY <1>1 DEF TapeInv, Listening, InOrder, Queued, Failed, Unstored, Uploading,
                BothHear, AudioIsAccountedFor
  <1>6. ObjectBeforeRow'
    <2>1. Uploading => Sealed \in Calls
      BY DEF TapeInv, TapeTypeOK, Uploading, Sealed
    <2> QED BY <1>1, <1>2, <2>1 DEF TapeInv, ObjectBeforeRow, Uploading, Sealed
  <1>7. ScriptFits'
    BY <1>1, CallsAreNoSteps DEF ScriptFits, NoScript
  <1>8. RowsAreTrue'
    BY <1>1, <1>2 DEF TapeInv, RowsAreTrue
  <1> QED BY <1>3, <1>4, <1>5, <1>6, <1>7, <1>8 DEF TapeInv

Leg == [open : BOOLEAN, sinks : SUBSET {"ear", "tape"}]
Ear == [state : {"none", "live", "closed"}, heard : Nat]
Tape == [open : BOOLEAN, kept : Nat, dropped : Nat]

\* What one call's leg, ear and tape must fit in.
Fits(l, e, t) ==
    /\ e.state = "live" => l.open /\ "ear" \in l.sinks
    /\ e.state = "live" /\ t.open => "tape" \in l.sinks /\ t.kept + t.dropped = e.heard

\* MediaGateway.open and subscribe.
LEMMA OpenedIs ==
    ASSUME NEW l \in Leg, NEW w \in {"ear", "tape"}
    PROVE  /\ Subscribe(OpenLeg(l), w) \in Leg
           /\ Subscribe(OpenLeg(l), w).open = TRUE
           /\ w \in Subscribe(OpenLeg(l), w).sinks
           /\ l.open => l.sinks \subseteq Subscribe(OpenLeg(l), w).sinks
  <1>1. OpenLeg(l) \in Leg /\ OpenLeg(l).open = TRUE /\ (l.open => OpenLeg(l) = l)
    BY DEF OpenLeg, NoLeg, Leg
  <1> QED BY <1>1 DEF Subscribe, Leg

LEMMA KeepIs ==
    ASSUME NEW t \in Tape
    PROVE  /\ Keep(t) \in Tape /\ Keep(t).open = t.open
           /\ Keep(t).kept + Keep(t).dropped = t.kept + t.dropped + 1
  <1>1. t.kept \in Nat /\ t.dropped \in Nat
    BY DEF Tape
  <1>2. CASE t.kept >= MaxSamples
    BY <1>1, <1>2 DEF Keep, Tape
  <1>3. CASE ~(t.kept >= MaxSamples)
    BY <1>1, <1>3 DEF Keep, Tape
  <1> QED BY <1>2, <1>3

\* Who listens to the leg, while nothing is sealed.
LEMMA ListeningKeeps ==
    ASSUME TapeInv, NEW c \in Calls, OpenTape(c) \/ PushPacket(c) \/ CloseLeg(c)
    PROVE  TapeInv'
  <1>1. UNCHANGED <<pending, flush, part, object, entry, now, keep, script, givenUp, erasure>>
    BY DEF OpenTape, PushPacket, CloseLeg, storeVars, ownVars, dayVars
  <1>2. /\ leg \in [Calls -> Leg] /\ ear \in [Calls -> Ear] /\ tape \in [Calls -> Tape]
        /\ leg[c] \in Leg /\ ear[c] \in Ear /\ tape[c] \in Tape
        /\ Fits(leg[c], ear[c], tape[c])
    BY DEF TapeInv, TapeTypeOK, Listening, BothHear, Fits, Leg, Ear, Tape
  <1>3. PICK l \in Leg, e \in Ear, t \in Tape :
            /\ leg' = [leg EXCEPT ![c] = l] /\ ear' = [ear EXCEPT ![c] = e]
            /\ tape' = [tape EXCEPT ![c] = t]
            /\ Fits(l, e, t) /\ e.state # "none"
            /\ \/ tape[c].open /\ t.open
               \/ ~tape[c].open /\ ear[c].state = "none"
               \/ ~tape[c].open /\ t = tape[c]
            /\ t.kept > 0 => t.open \/ t = tape[c]
    <2>1. CASE OpenTape(c)
      <3> DEFINE l1 == Subscribe(OpenLeg(leg[c]), "ear")
                 l == Subscribe(OpenLeg(l1), "tape")
                 e == [ear[c] EXCEPT !.state = "live"]
                 t == [NoTape EXCEPT !.open = TRUE]
      <3>1. /\ leg' = [leg EXCEPT ![c] = l] /\ ear' = [ear EXCEPT ![c] = e]
            /\ tape' = [tape EXCEPT ![c] = t] /\ ear[c].state = "none"
        BY <2>1 DEF OpenTape
      <3>2. l1 \in Leg /\ l1.open = TRUE /\ "ear" \in l1.sinks
        BY <1>2, OpenedIs
      <3>3. l \in Leg /\ l.open = TRUE /\ "tape" \in l.sinks /\ "ear" \in l.sinks
        <4> HIDE DEF l1
        <4> QED BY <3>2, OpenedIs
      <3>4. ~tape[c].open /\ ear[c].heard = 0
        BY <3>1 DEF TapeInv, Listening
      <3>5. /\ e \in Ear /\ e.state = "live" /\ e.heard = 0
            /\ t \in Tape /\ t.open = TRUE /\ t.kept = 0 /\ t.dropped = 0
        BY <1>2, <3>4 DEF Ear, Tape, NoTape
      <3> HIDE DEF l, e, t
      <3>6. Fits(l, e, t)
        BY <3>3, <3>5 DEF Fits
      <3> QED BY <3>1, <3>3, <3>4, <3>5, <3>6
    <2>2. CASE PushPacket(c)
      <3> DEFINE e == [ear[c] EXCEPT !.heard = @ + 1]
                 t == Keep(tape[c])
      <3>1. /\ ear[c].state = "live" /\ leg[c].open /\ tape[c].open
            /\ "ear" \in leg[c].sinks /\ "tape" \in leg[c].sinks
            /\ tape[c].kept + tape[c].dropped = ear[c].heard
        BY <1>2, <2>2 DEF PushPacket, Fits
      <3>2. ear' = [ear EXCEPT ![c] = e] /\ tape' = [tape EXCEPT ![c] = t] /\ leg' = leg
        BY <2>2, <3>1 DEF PushPacket
      <3>3. leg' = [leg EXCEPT ![c] = leg[c]]
        BY <1>2, <3>2
      <3>4. /\ e \in Ear /\ e.state = "live" /\ e.heard = ear[c].heard + 1
        BY <1>2, <3>1 DEF Ear
      <3>5. /\ t \in Tape /\ t.open = TRUE
            /\ t.kept + t.dropped = tape[c].kept + tape[c].dropped + 1
        BY <1>2, <3>1, KeepIs DEF Tape
      <3> HIDE DEF e, t
      <3>6. Fits(leg[c], e, t)
        BY <3>1, <3>4, <3>5 DEF Fits
      <3> QED BY <1>2, <3>1, <3>2, <3>3, <3>4, <3>5, <3>6
    <2>3. CASE CloseLeg(c)
      <3> DEFINE e == [state |-> "closed", heard |-> 0]
      <3>1. /\ ear' = [ear EXCEPT ![c] = e] /\ leg' = [leg EXCEPT ![c] = NoLeg] /\ tape' = tape
            /\ ear[c].state = "live"
        BY <2>3 DEF CloseLeg
      <3>2. tape' = [tape EXCEPT ![c] = tape[c]]
        BY <1>2, <3>1
      <3>3. e \in Ear /\ NoLeg \in Leg /\ e.state = "closed"
        BY DEF Ear, Leg, NoLeg
      <3> HIDE DEF e
      <3>4. Fits(NoLeg, e, tape[c])
        BY <3>3 DEF Fits
      <3> QED BY <1>2, <3>1, <3>2, <3>3, <3>4
    <2> QED BY <2>1, <2>2, <2>3
  <1>4. /\ leg' \in [Calls -> Leg] /\ ear' \in [Calls -> Ear] /\ tape' \in [Calls -> Tape]
        /\ leg'[c] = l /\ ear'[c] = e /\ tape'[c] = t
        /\ \A d \in Calls \ {c} : leg'[d] = leg[d] /\ ear'[d] = ear[d] /\ tape'[d] = tape[d]
    BY <1>2, <1>3
  <1>5. /\ Queued(c) => tape'[c] = tape[c]
        /\ tape'[c].open => ~Queued(c) /\ Unstored(c)
    BY <1>3, <1>4 DEF TapeInv, Listening, InOrder
  <1>6. TapeTypeOK'
    BY <1>1, <1>4 DEF TapeInv, TapeTypeOK, Leg, Ear, Tape
  <1>7. Listening'
    BY <1>1, <1>3, <1>4, <1>5 DEF TapeInv, Listening, Queued, Unstored, Fits
  <1>8. InOrder'
    <2>1. \A d \in Calls : Queued(d) => tape'[d] = tape[d]
      BY <1>4, <1>5
    <2> QED BY <1>1, <2>1 DEF TapeInv, InOrder, Queued, Failed, Unstored, Uploading
  <1>9. ObjectBeforeRow' /\ ScriptFits'
    <2>1. Uploading => tape'[Sealed] = tape[Sealed]
      BY <1>4, <1>5, SealedIs
    <2> QED BY <1>1, <2>1 DEF TapeInv, ObjectBeforeRow, ScriptFits, Uploading, Sealed
  <1>10. BothHear' /\ RowsAreTrue'
    BY <1>1, <1>3, <1>4 DEF TapeInv, BothHear, RowsAreTrue, Fits
  <1>11. AudioIsAccountedFor'
    BY <1>1, <1>3, <1>4 DEF TapeInv, AudioIsAccountedFor
  <1> QED BY <1>6, <1>7, <1>8, <1>9, <1>10, <1>11 DEF TapeInv

\* The tape joins the queue, unless nobody spoke on it.
LEMMA SealKeeps ==
    ASSUME TapeInv, NEW c \in Calls, SealTape(c)
    PROVE  TapeInv'
  <1> DEFINE t == [NoTape EXCEPT !.kept = tape[c].kept]
  <1>1. /\ tape[c].open
        /\ tape' = [tape EXCEPT ![c] = t]
        /\ pending' = IF tape[c].kept = 0 THEN pending ELSE Append(pending, c)
        /\ UNCHANGED <<leg, ear, part, object, entry, flush, now, keep, script, givenUp, erasure>>
    BY DEF SealTape, storeVars, dayVars
  <1>2. /\ t \in Tape /\ ~t.open /\ t.kept = tape[c].kept
        /\ tape \in [Calls -> Tape] /\ pending \in Seq(Calls) /\ tape[c].kept \in Nat
    BY DEF TapeInv, TapeTypeOK, Tape, NoTape
  <1> HIDE DEF t
  <1>3. /\ tape' \in [Calls -> Tape] /\ tape'[c] = t
        /\ \A d \in Calls \ {c} : tape'[d] = tape[d]
    BY <1>1, <1>2
  <1>4. /\ ~Queued(c) /\ Unstored(c) /\ ear[c].state # "none"
    BY <1>1 DEF TapeInv, Listening
  <1>5. pending' \in Seq(Calls)
    BY <1>1, <1>2, AppendProperties
  <1>6. CASE tape[c].kept = 0
    <2>1. pending' = pending
      BY <1>1, <1>6
    <2>2. TapeTypeOK'
      BY <1>1, <1>3, <1>5 DEF TapeInv, TapeTypeOK, Tape
    <2>3. Listening' /\ BothHear' /\ RowsAreTrue' /\ ScriptFits'
      BY <1>1, <1>2, <1>3, <1>4, <2>1
         DEF TapeInv, Listening, Queued, Unstored, BothHear, RowsAreTrue, ScriptFits
    <2>4. InOrder' /\ AudioIsAccountedFor'
      BY <1>1, <1>2, <1>3, <1>4, <1>6, <2>1
         DEF TapeInv, InOrder, Queued, Failed, Unstored, Uploading, AudioIsAccountedFor
    <2>5. ObjectBeforeRow'
      <3>1. Uploading => tape'[Sealed] = tape[Sealed]
        BY <1>3, <1>4, SealedIs
      <3> QED BY <1>1, <2>1, <3>1 DEF TapeInv, ObjectBeforeRow, Uploading, Sealed
    <2> QED BY <2>2, <2>3, <2>4, <2>5 DEF TapeInv
  <1>7. CASE tape[c].kept # 0
    <2> DEFINE n == Len(pending)
    <2>1. /\ Len(pending') = n + 1 /\ n \in Nat
          /\ pending'[n + 1] = c
          /\ \A i \in 1 .. n : pending'[i] = pending[i] /\ pending[i] \in Calls /\ pending[i] # c
      <3>1. pending' = Append(pending, c)
        BY <1>1, <1>7
      <3>2. \A i \in 1 .. n : pending[i] \in Calls /\ pending[i] # c
        BY <1>4, SealedIs
      <3> QED BY <1>2, <3>1, <3>2, AppendProperties
    <2>2. \A d \in Calls : Queued(d)' <=> Queued(d) \/ d = c
      <3>1. \A i \in 1 .. n + 1 : i \in 1 .. n \/ i = n + 1
        BY <2>1
      <3>2. n + 1 \in 1 .. n + 1 /\ \A i \in 1 .. n : i \in 1 .. n + 1
        BY <2>1
      <3> QED BY <2>1, <3>1, <3>2 DEF Queued
    <2>3. TapeTypeOK'
      BY <1>1, <1>3, <1>5 DEF TapeInv, TapeTypeOK, Tape
    <2>4. Listening'
      BY <1>1, <1>2, <1>3, <1>4, <2>2 DEF TapeInv, Listening, Unstored
    <2>5. flush.at <= n + 1 /\ flush.at \in Nat
      BY DEF TapeInv, TapeTypeOK, InOrder
    <2>6. /\ Uploading => Uploading' /\ Sealed' = Sealed
          /\ Uploading' /\ ~Uploading => flush.at = n + 1 /\ flush.step = 1 /\ Sealed' = c
      BY <1>1, <2>1, <2>5 DEF TapeInv, InOrder, Uploading, Sealed
    <2>7. InOrder'
      <3>1. \A i, k \in 1 .. Len(pending') : pending'[i] = pending'[k] => i = k
        <4>1. \A i \in 1 .. n + 1 : i \in 1 .. n \/ i = n + 1
          BY <2>1
        <4> QED BY <2>1, <4>1 DEF TapeInv, InOrder
      <3>2. \A d \in Calls : Queued(d)' => tape'[d].kept > 0 /\ ~tape'[d].open
        BY <1>2, <1>3, <1>4, <1>7, <2>2 DEF TapeInv, InOrder
      <3>3. \A d \in Calls : Failed(d)' => Unstored(d)' /\ \E i \in 1 .. Len(pending') : i < flush'.at /\ pending'[i] = d
        <4>1. \A d \in Calls : Failed(d)' => Failed(d)
          BY <1>1 DEF Failed
        <4>2. \A i \in 1 .. n : i \in 1 .. n + 1 /\ pending'[i] = pending[i]
          BY <2>1
        <4> QED BY <1>1, <2>1, <4>1, <4>2 DEF TapeInv, InOrder, Unstored
      <3>4. \A i \in 1 .. Len(pending') : i >= flush'.at => (Unstored(pending[i]))'
        <4>1. \A i \in 1 .. n + 1 : i \in 1 .. n \/ i = n + 1
          BY <2>1
        <4> QED BY <1>1, <1>4, <2>1, <4>1 DEF TapeInv, InOrder, Unstored
      <3>5. flush'.at > 0 =>
              \A i \in 1 .. Len(pending') : i < flush'.at =>
                  (Failed(pending[i]))' \/ entry'[pending'[i]].kept > 0 \/ pending'[i] \in givenUp'
        <4>1. \A i \in 1 .. n + 1 : i < flush.at => i \in 1 .. n
          BY <2>1, <2>5
        <4> QED BY <1>1, <2>1, <4>1 DEF TapeInv, InOrder, Failed
      <3>6. /\ flush'.at <= Len(pending') + 1
            /\ ~Uploading' => flush'.step = 1
            /\ flush'.at = 0 => flush' = NotFlushing
            /\ \A i, k \in 1 .. Len(flush'.failed) : flush'.failed[i] = flush'.failed[k] => i = k
        BY <1>1, <2>1, <2>5, <2>6 DEF TapeInv, InOrder
      <3> QED BY <3>1, <3>2, <3>3, <3>4, <3>5, <3>6 DEF InOrder
    <2>8. ObjectBeforeRow'
      <3>1. Uploading => tape'[Sealed] = tape[Sealed]
        BY <1>3, <1>4, SealedIs
      <3> QED BY <1>1, <2>6, <3>1 DEF TapeInv, ObjectBeforeRow
    <2>9. BothHear' /\ RowsAreTrue' /\ ScriptFits'
      BY <1>1, <1>2, <1>3 DEF TapeInv, BothHear, RowsAreTrue, ScriptFits
    <2>10. AudioIsAccountedFor'
      <3>1. \A d \in Calls : d \in Range(pending) => Queued(d)
        BY <1>2 DEF Range, Queued
      <3>2. \A d \in Calls : Queued(d)' => d \in Range(pending')
        BY <1>5 DEF Range, Queued
      <3> QED BY <1>1, <1>2, <1>3, <2>2, <3>1, <3>2 DEF TapeInv, AudioIsAccountedFor
    <2> QED BY <2>3, <2>4, <2>7, <2>8, <2>9, <2>10 DEF TapeInv
  <1> QED BY <1>6, <1>7

\* A call that cannot be loaded: nothing is kept.
LEMMA DiscardKeeps ==
    ASSUME TapeInv, NEW c \in Calls, DiscardTape(c)
    PROVE  TapeInv'
  <1>1. /\ tape[c].open
        /\ tape' = [tape EXCEPT ![c] = NoTape] /\ givenUp' = givenUp \cup {c}
        /\ UNCHANGED <<leg, ear, part, object, entry, pending, flush, now, keep, script, erasure>>
    BY DEF DiscardTape, storeVars, ownVars, dayVars
  <1>2. /\ NoTape \in Tape /\ ~NoTape.open /\ NoTape.kept = 0
        /\ tape \in [Calls -> Tape]
    BY DEF TapeInv, TapeTypeOK, Tape, NoTape
  <1>3. /\ tape' \in [Calls -> Tape] /\ tape'[c] = NoTape
        /\ \A d \in Calls \ {c} : tape'[d] = tape[d]
    BY <1>1, <1>2
  <1>4. ~Queued(c)
    BY <1>1 DEF TapeInv, Listening
  <1>5. TapeTypeOK'
    BY <1>1, <1>3 DEF TapeInv, TapeTypeOK, Tape
  <1>6. Listening' /\ BothHear' /\ RowsAreTrue' /\ ScriptFits'
    BY <1>1, <1>2, <1>3 DEF TapeInv, Listening, Queued, Unstored, BothHear, RowsAreTrue, ScriptFits
  <1>7. InOrder' /\ AudioIsAccountedFor'
    BY <1>1, <1>2, <1>3, <1>4
       DEF TapeInv, InOrder, Queued, Failed, Unstored, Uploading, AudioIsAccountedFor
  <1>8. ObjectBeforeRow'
    <2>1. Uploading => tape'[Sealed] = tape[Sealed]
      BY <1>3, <1>4, SealedIs
    <2> QED BY <1>1, <2>1 DEF TapeInv, ObjectBeforeRow, Uploading, Sealed
  <1> QED BY <1>5, <1>6, <1>7, <1>8 DEF TapeInv

Flush == [at : Nat, step : 1 .. 3, since : Nat, failed : Seq(Calls)]

\* Where an upload is.
LEMMA UploadAtIs ==
    ASSUME TapeInv
    PROVE  /\ UploadAt("write") <=> Uploading /\ flush.step = 1
           /\ UploadAt("rename") <=> Uploading /\ flush.step = 2
           /\ UploadAt("save") <=> Uploading /\ flush.step = 3
  <1>1. flush.step \in {1, 2, 3}
    BY DEF TapeInv, TapeTypeOK
  <1> QED BY <1>1 DEF UploadAt, UploadSteps

LEMMA NextStepIs ==
    ASSUME TapeInv
    PROVE  /\ flush.step # 3 =>
                /\ NextStep \in Flush /\ NextStep.at = flush.at /\ NextStep.step = flush.step + 1
                /\ NextStep.failed = flush.failed
           /\ flush.step = 3 =>
                /\ NextStep \in Flush /\ NextStep.at = flush.at + 1 /\ NextStep.step = 1
                /\ NextStep.failed = flush.failed
  <1>1. flush \in Flush /\ flush.step \in {1, 2, 3} /\ Len(UploadSteps) = 3
    BY DEF TapeInv, TapeTypeOK, Flush, UploadSteps
  <1>2. ASSUME flush.step # 3
        PROVE  /\ NextStep \in Flush /\ NextStep.at = flush.at /\ NextStep.step = flush.step + 1
               /\ NextStep.failed = flush.failed
    <2>1. NextStep = [flush EXCEPT !.step = @ + 1] /\ flush.step + 1 \in 1 .. 3
      BY <1>1, <1>2 DEF NextStep
    <2> QED BY <1>1, <2>1 DEF Flush
  <1>3. ASSUME flush.step = 3
        PROVE  /\ NextStep \in Flush /\ NextStep.at = flush.at + 1 /\ NextStep.step = 1
               /\ NextStep.failed = flush.failed
    <2> DEFINE f == [flush EXCEPT !.at = flush.at + 1]
    <2>1. f \in Flush /\ f.at = flush.at + 1 /\ f.failed = flush.failed
      BY <1>1 DEF Flush
    <2>2. NextStep = [f EXCEPT !.step = 1]
      BY <1>1, <1>3 DEF NextStep
    <2> HIDE DEF f
    <2> QED BY <2>1, <2>2 DEF Flush
  <1> QED BY <1>2, <1>3

\* The queue after a step of an upload that goes on with the same recording.
LEMMA SameRecordingKeeps ==
    ASSUME TapeInv, Uploading,
           UNCHANGED <<pending, tape, entry, givenUp>>,
           flush' \in Flush, flush'.at = flush.at, flush'.failed = flush.failed
    PROVE  InOrder' /\ Uploading' /\ Sealed' = Sealed
  <1>1. Uploading' /\ Sealed' = Sealed /\ flush'.at > 0
    BY DEF Uploading, Sealed, TapeInv, TapeTypeOK
  <1>2. InOrder'
    BY <1>1 DEF TapeInv, InOrder, Queued, Failed, Unstored
  <1> QED BY <1>1, <1>2

\* And after one that leaves it: tried again later, stored, or given up.
LEMMA NextRecordingKeeps ==
    ASSUME TapeInv, Uploading, NEW s \in Calls, s = Sealed,
           UNCHANGED <<pending, tape>>,
           flush' \in Flush, flush'.at = flush.at + 1, flush'.step = 1,
           \A d \in Calls : Failed(d) => Failed(d)',
           \A d \in Calls : Failed(d)' => Failed(d) \/ (d = Sealed /\ Unstored(d)'),
           \A i, k \in 1 .. Len(flush'.failed) : flush'.failed[i] = flush'.failed[k] => i = k,
           \A d \in Calls : d # Sealed => entry'[d] = entry[d],
           givenUp \subseteq givenUp',
           Failed(s)' \/ entry'[s].kept > 0 \/ s \in givenUp'
    PROVE  InOrder'
  <1> DEFINE n == Len(pending)
  <1>1. /\ n \in Nat /\ flush.at \in Nat /\ flush.at \in 1 .. n
        /\ Sealed = pending[flush.at] /\ Sealed \in Calls
        /\ flush'.at \in Nat /\ flush'.at > 0 /\ flush'.at <= n + 1
        /\ \A i \in 1 .. n : i \in Nat /\ pending[i] \in Calls /\ (pending[i] = Sealed <=> i = flush.at)
    <2>1. n \in Nat /\ flush.at \in Nat /\ flush.at \in 1 .. n /\ Sealed = pending[flush.at]
      BY DEF TapeInv, TapeTypeOK, Uploading, Sealed
    <2>2. \A i \in 1 .. n : pending[i] \in Calls /\ (pending[i] = Sealed <=> i = flush.at)
      BY <2>1, SealedIs DEF TapeInv, InOrder
    <2> QED BY <2>1, <2>2, SealedIs
  <1>2. \A d \in Calls : Queued(d)' <=> Queued(d)
    BY DEF Queued
  <1>3. \A d \in Calls : Failed(d)' =>
            Unstored(d)' /\ \E i \in 1 .. Len(pending') : i < flush'.at /\ pending'[i] = d
    <2> SUFFICES ASSUME NEW d \in Calls, Failed(d)'
                 PROVE  Unstored(d)' /\ \E i \in 1 .. n : i < flush'.at /\ pending[i] = d
      OBVIOUS
    <2>1. CASE Failed(d)
      <3>1. Unstored(d) /\ \E i \in 1 .. n : i < flush.at /\ pending[i] = d
        BY <2>1 DEF TapeInv, InOrder
      <3>2. d # Sealed
        BY <1>1, <3>1
      <3> QED BY <1>1, <3>1, <3>2 DEF Unstored
    <2>2. CASE d = Sealed /\ Unstored(d)'
      BY <1>1, <2>2
    <2> QED BY <2>1, <2>2
  <1>4. \A i \in 1 .. Len(pending') : i >= flush'.at => (Unstored(pending[i]))'
    <2> SUFFICES ASSUME NEW i \in 1 .. n, i >= flush.at + 1
                 PROVE  (Unstored(pending[i]))'
      OBVIOUS
    <2>1. i >= flush.at /\ i # flush.at
      BY <1>1
    <2>2. Unstored(pending[i]) /\ pending[i] # Sealed /\ pending[i] \in Calls
      BY <1>1, <2>1 DEF TapeInv, InOrder
    <2> QED BY <2>2 DEF Unstored
  <1>5. \A i \in 1 .. Len(pending') : i < flush'.at =>
            (Failed(pending[i]))' \/ entry'[pending'[i]].kept > 0 \/ pending'[i] \in givenUp'
    <2> SUFFICES ASSUME NEW i \in 1 .. n, i < flush.at + 1
                 PROVE  (Failed(pending[i]))' \/ entry'[pending[i]].kept > 0 \/ pending[i] \in givenUp'
      OBVIOUS
    <2>1. CASE i = flush.at
      <3>1. s = pending[i] /\ pending' = pending
        BY <1>1, <2>1
      <3> QED BY <3>1
    <2>2. CASE i # flush.at
      <3>1. i < flush.at /\ flush.at > 0
        BY <1>1, <2>2
      <3>2. Failed(pending[i]) \/ entry[pending[i]].kept > 0 \/ pending[i] \in givenUp
        BY <3>1 DEF TapeInv, InOrder
      <3>3. pending[i] \in Calls /\ pending[i] # Sealed
        BY <1>1, <2>2
      <3>4. Failed(pending[i]) => (Failed(pending[i]))'
        BY <3>3
      <3> QED BY <3>2, <3>3, <3>4
    <2> QED BY <2>1, <2>2
  <1>6. /\ \A i, k \in 1 .. Len(pending') : pending'[i] = pending'[k] => i = k
        /\ \A d \in Calls : Queued(d)' => tape'[d].kept > 0 /\ ~tape'[d].open
    BY <1>2 DEF TapeInv, InOrder
  <1> QED BY <1>1, <1>3, <1>4, <1>5, <1>6 DEF InOrder

\* What an upload leaves alone.
LEMMA UploadFrame ==
    ASSUME TapeInv,
           UNCHANGED <<leg, ear, tape, pending, entry, now, keep, script, erasure>>,
           givenUp \subseteq givenUp'
    PROVE  Listening' /\ BothHear' /\ AudioIsAccountedFor'
  BY DEF TapeInv, Listening, Queued, Unstored, BothHear, AudioIsAccountedFor

LEMMA WriteKeeps ==
    ASSUME TapeInv, WritePart
    PROVE  TapeInv'
  <1>1. /\ Uploading /\ flush.step = 1
        /\ part' = part \cup {Sealed} /\ flush' = [NextStep EXCEPT !.since = now]
        /\ UNCHANGED <<leg, ear, tape, pending, object, entry, now, keep, script, givenUp, erasure>>
    BY UploadAtIs DEF WritePart, pipeVars, dayVars
  <1>2. flush' \in Flush /\ flush'.at = flush.at /\ flush'.step = 2 /\ flush'.failed = flush.failed
    <2> DEFINE f == NextStep
    <2>1. f \in Flush /\ f.at = flush.at /\ f.step = 2 /\ f.failed = flush.failed
      BY <1>1, NextStepIs
    <2>2. flush' = [f EXCEPT !.since = now] /\ now \in Nat
      BY <1>1 DEF TapeInv, TapeTypeOK
    <2> HIDE DEF f
    <2> QED BY <2>1, <2>2 DEF Flush
  <1>3. TapeTypeOK'
    BY <1>1, <1>2, SealedIs DEF TapeInv, TapeTypeOK, Flush
  <1>4. InOrder' /\ Uploading' /\ Sealed' = Sealed
    BY <1>1, <1>2, SameRecordingKeeps
  <1>5. Listening' /\ BothHear' /\ AudioIsAccountedFor'
    BY <1>1, UploadFrame
  <1>6. ObjectBeforeRow' /\ ScriptFits' /\ RowsAreTrue'
    BY <1>1, <1>2 DEF TapeInv, ObjectBeforeRow, ScriptFits, RowsAreTrue
  <1> QED BY <1>3, <1>4, <1>5, <1>6 DEF TapeInv

LEMMA RenameKeeps ==
    ASSUME TapeInv, RenamePart
    PROVE  /\ TapeInv'
           /\ \A c \in Calls : object[c] > 0 => object'[c] > 0
  <1> DEFINE s == Sealed
  <1>1. /\ Uploading /\ flush.step = 2
        /\ part' = part \ {s} /\ object' = [object EXCEPT ![s] = tape[s].kept]
        /\ flush' = NextStep
        /\ UNCHANGED <<leg, ear, tape, pending, entry, now, keep, script, givenUp, erasure>>
    BY UploadAtIs DEF RenamePart, pipeVars, dayVars
  <1>2. flush' \in Flush /\ flush'.at = flush.at /\ flush'.step = 3 /\ flush'.failed = flush.failed
    BY <1>1, NextStepIs
  <1>3. s \in Calls /\ Unstored(s) /\ tape[s].kept > 0
    BY <1>1, SealedIs
  <1> HIDE DEF s
  <1>4. /\ object' \in [Calls -> Nat] /\ object'[s] = tape[s].kept
        /\ \A d \in Calls : d # s => object'[d] = object[d]
    BY <1>1, <1>3 DEF TapeInv, TapeTypeOK
  <1>5. TapeTypeOK'
    BY <1>1, <1>2, <1>4 DEF TapeInv, TapeTypeOK, Flush
  <1>6. InOrder' /\ Uploading' /\ Sealed' = s
    BY <1>1, <1>2, SameRecordingKeeps DEF s
  <1>7. Listening' /\ BothHear' /\ AudioIsAccountedFor'
    BY <1>1, UploadFrame
  <1>8. ObjectBeforeRow'
    BY <1>1, <1>3, <1>4, <1>6 DEF TapeInv, ObjectBeforeRow
  <1>9. ScriptFits'
    <2>1. \A c \in Calls : script.at = c => entry[c].there
      <3> SUFFICES ASSUME NEW c \in Calls, script.at = c PROVE entry[c].there
        OBVIOUS
      <3>1. c \in script.todo /\ script # NoScript
        BY CallsAreNoSteps DEF TapeInv, ScriptFits, NoScript
      <3>2. script.kind \in {"purge"} \cup Calls
        BY <3>1 DEF TapeInv, TapeTypeOK, ScriptFits
      <3> QED BY <3>1, <3>2 DEF TapeInv, ScriptFits
    <2> QED BY <1>1, <1>3, <1>4, <2>1 DEF TapeInv, ScriptFits, Unstored
  <1>10. RowsAreTrue'
    BY <1>1, <1>3, <1>4 DEF TapeInv, RowsAreTrue, Unstored
  <1>11. \A c \in Calls : object[c] > 0 => object'[c] > 0
    BY <1>3, <1>4
  <1> QED BY <1>5, <1>6, <1>7, <1>8, <1>9, <1>10, <1>11 DEF TapeInv

\* The row names what is there, and promises a day.
LEMMA SaveKeeps ==
    ASSUME TapeInv, SaveRow
    PROVE  /\ TapeInv'
           /\ UNCHANGED object /\ \A c \in Calls : entry[c].there => entry'[c].there
  <1> DEFINE s == Sealed
             r == [there |-> TRUE, created |-> flush.since,
                   due |-> flush.since + keep, kept |-> tape[s].kept]
  <1>1. /\ Uploading /\ flush.step = 3
        /\ entry' = [entry EXCEPT ![s] = r]
        /\ flush' = NextStep
        /\ UNCHANGED <<leg, ear, tape, pending, part, object, now, keep, script, givenUp, erasure>>
    BY UploadAtIs DEF SaveRow, pipeVars, dayVars
  <1>2. flush' \in Flush /\ flush'.at = flush.at + 1 /\ flush'.step = 1 /\ flush'.failed = flush.failed
    BY <1>1, NextStepIs
  <1>3. /\ s \in Calls /\ Unstored(s) /\ tape[s].kept > 0 /\ ~tape[s].open /\ Queued(s)
        /\ object[s] = tape[s].kept \/ erasure[s] # "no"
    BY <1>1, SealedIs DEF TapeInv, ObjectBeforeRow
  <1>4. /\ r \in [there : BOOLEAN, created : Nat, due : Nat, kept : Nat]
        /\ r.there = TRUE /\ r.kept = tape[s].kept
    <2>1. flush.since \in Nat /\ keep \in Nat /\ flush.since + keep \in Nat /\ tape[s].kept \in Nat
      BY <1>3 DEF TapeInv, TapeTypeOK
    <2> QED BY <2>1
  <1>5. s = Sealed
    OBVIOUS
  <1> HIDE DEF r, s
  <1>6. /\ entry' \in [Calls -> [there : BOOLEAN, created : Nat, due : Nat, kept : Nat]]
        /\ entry'[s] = r /\ \A d \in Calls : d # s => entry'[d] = entry[d]
    BY <1>1, <1>3, <1>4 DEF TapeInv, TapeTypeOK
  <1>7. TapeTypeOK'
    BY <1>1, <1>2, <1>6 DEF TapeInv, TapeTypeOK, Flush
  <1>8. ear[s].state # "none"
    BY <1>3 DEF TapeInv, Listening
  <1>9. Listening' /\ BothHear'
    BY <1>1, <1>3, <1>6, <1>8 DEF TapeInv, Listening, Queued, Unstored, BothHear
  <1>10. ~Failed(s)
    <2> SUFFICES ASSUME Failed(s) PROVE FALSE
      OBVIOUS
    <2>1. PICK i \in 1 .. Len(pending) : i < flush.at /\ pending[i] = s
      BY <1>3 DEF TapeInv, InOrder
    <2>2. flush.at \in 1 .. Len(pending) /\ pending[flush.at] = s
      BY <1>1, <1>5 DEF Uploading, Sealed
    <2> QED BY <2>1, <2>2 DEF TapeInv, InOrder
  <1>11. InOrder'
    <2>1. \A d \in Calls : Failed(d)' <=> Failed(d)
      BY <1>2 DEF Failed
    <2>2. entry'[s].kept > 0
      BY <1>3, <1>4, <1>6
    <2>3. \A i, k \in 1 .. Len(flush'.failed) : flush'.failed[i] = flush'.failed[k] => i = k
      BY <1>2 DEF TapeInv, InOrder
    <2> QED BY <1>1, <1>2, <1>3, <1>5, <1>6, <2>1, <2>2, <2>3, NextRecordingKeeps
  <1>12. ObjectBeforeRow'
    <2>1. \A d \in Calls : entry'[d].there => entry'[d].kept > 0
      BY <1>3, <1>4, <1>6 DEF TapeInv, ObjectBeforeRow
    <2> QED BY <1>2, <2>1 DEF ObjectBeforeRow
  <1>13. ScriptFits'
    <2>1. \A d \in Calls : entry[d].there => entry'[d] = entry[d]
      BY <1>3, <1>6 DEF Unstored
    <2> QED BY <1>1, <2>1 DEF TapeInv, TapeTypeOK, ScriptFits, NoScript
  <1>14. RowsAreTrue' /\ AudioIsAccountedFor'
    BY <1>1, <1>3, <1>4, <1>6 DEF TapeInv, RowsAreTrue, AudioIsAccountedFor
  <1>15. \A c \in Calls : entry[c].there => entry'[c].there
    BY <1>3, <1>6 DEF Unstored
  <1> QED BY <1>1, <1>7, <1>9, <1>11, <1>12, <1>13, <1>14, <1>15 DEF TapeInv

\* The store cannot be reached, or the recording is given up.
LEMMA UploadEndsKeeps ==
    ASSUME TapeInv, UploadRetries \/ UploadFails
    PROVE  TapeInv' /\ UNCHANGED <<object, entry>>
  <1>0. PICK s \in Calls : s = Sealed
    BY SealedIs, UploadAtIs DEF UploadRetries, UploadFails
  <1>1. /\ Uploading
        /\ \/ /\ flush' = [flush EXCEPT !.at = @ + 1, !.step = 1, !.failed = Append(@, s)]
              /\ givenUp' = givenUp
           \/ /\ flush' = [flush EXCEPT !.at = @ + 1, !.step = 1]
              /\ givenUp' = givenUp \cup {s}
        /\ UNCHANGED <<leg, ear, tape, pending, part, object, entry, now, keep, script, erasure>>
    BY <1>0, UploadAtIs DEF UploadRetries, UploadFails, pipeVars, storeVars, dayVars
  <1>2. /\ s \in Calls /\ Unstored(s)
        /\ flush \in Flush
    BY <1>0, <1>1, SealedIs DEF TapeInv, TapeTypeOK, Flush
  <1>4. /\ flush' \in Flush /\ flush'.at = flush.at + 1 /\ flush'.step = 1
        /\ \/ flush'.failed = Append(flush.failed, s) /\ givenUp' = givenUp
           \/ flush'.failed = flush.failed /\ givenUp' = givenUp \cup {s}
    <2>1. /\ flush.at + 1 \in Nat /\ flush.failed \in Seq(Calls)
          /\ Append(flush.failed, s) \in Seq(Calls)
      BY <1>2, AppendProperties DEF Flush
    <2> DEFINE f == [flush EXCEPT !.at = flush.at + 1]
               g == [f EXCEPT !.step = 1]
    <2>2. f \in Flush /\ f.at = flush.at + 1 /\ f.failed = flush.failed
      BY <1>2, <2>1 DEF Flush
    <2>3. g \in Flush /\ g.at = flush.at + 1 /\ g.step = 1 /\ g.failed = flush.failed
      <3> HIDE DEF f
      <3> QED BY <2>2 DEF Flush
    <2>4. \/ flush' = [g EXCEPT !.failed = Append(flush.failed, s)] /\ givenUp' = givenUp
          \/ flush' = g /\ givenUp' = givenUp \cup {s}
      BY <1>1, <2>3
    <2> HIDE DEF g
    <2> QED BY <2>1, <2>3, <2>4 DEF Flush
  <1>5. TapeTypeOK'
    BY <1>1, <1>2, <1>4 DEF TapeInv, TapeTypeOK, Flush
  <1>6. ~Failed(s)
    <2> SUFFICES ASSUME Failed(s) PROVE FALSE
      OBVIOUS
    <2>1. PICK i \in 1 .. Len(pending) : i < flush.at /\ pending[i] = s
      BY <1>2 DEF TapeInv, InOrder
    <2>2. flush.at \in 1 .. Len(pending) /\ pending[flush.at] = s
      BY <1>1, <1>0 DEF Uploading, Sealed
    <2> QED BY <2>1, <2>2 DEF TapeInv, InOrder
  <1>7. InOrder'
    <2> DEFINE n == Len(flush.failed)
    <2>0. n \in Nat /\ flush.failed \in Seq(Calls)
      BY <1>2 DEF Flush
    <2>1. CASE flush'.failed = flush.failed /\ givenUp' = givenUp \cup {s}
      <3>1. \A d \in Calls : Failed(d)' <=> Failed(d)
        BY <2>1 DEF Failed
      <3>2. \A i, k \in 1 .. Len(flush'.failed) : flush'.failed[i] = flush'.failed[k] => i = k
        BY <2>1 DEF TapeInv, InOrder
      <3> QED BY <1>1, <1>2, <1>0, <1>4, <2>1, <3>1, <3>2, NextRecordingKeeps
    <2>2. CASE flush'.failed = Append(flush.failed, s) /\ givenUp' = givenUp
      <3>1. /\ Len(flush'.failed) = n + 1 /\ flush'.failed[n + 1] = s
            /\ \A i \in 1 .. n : flush'.failed[i] = flush.failed[i]
        BY <1>2, <2>0, <2>2, AppendProperties
      <3>2. /\ \A i \in 1 .. n + 1 : i \in 1 .. n \/ i = n + 1
            /\ \A i \in 1 .. n : i \in 1 .. n + 1
            /\ n + 1 \in 1 .. n + 1
        BY <2>0
      <3>3. \A d \in Calls : Failed(d)' <=> Failed(d) \/ d = s
        BY <3>1, <3>2 DEF Failed
      <3>4. \A i, k \in 1 .. Len(flush'.failed) : flush'.failed[i] = flush'.failed[k] => i = k
        <4>1. \A i \in 1 .. n : flush.failed[i] # s
          BY <1>6 DEF Failed
        <4> QED BY <3>1, <3>2, <4>1 DEF TapeInv, InOrder
      <3>5. Unstored(s)'
        BY <1>1, <1>2 DEF Unstored
      <3> QED BY <1>1, <1>2, <1>0, <1>4, <2>2, <3>3, <3>4, <3>5, NextRecordingKeeps
    <2> QED BY <1>4, <2>1, <2>2
  <1>8. Listening' /\ BothHear' /\ AudioIsAccountedFor'
    BY <1>1, <1>4, UploadFrame
  <1>9. ObjectBeforeRow' /\ ScriptFits' /\ RowsAreTrue'
    BY <1>1, <1>4 DEF TapeInv, ObjectBeforeRow, ScriptFits, RowsAreTrue
  <1> QED BY <1>1, <1>5, <1>7, <1>8, <1>9 DEF TapeInv

\* The loop begins at the head of the queue.
LEMMA StartFlushKeeps ==
    ASSUME TapeInv, StartFlush
    PROVE  TapeInv' /\ UNCHANGED <<object, entry>>
  <1>1. /\ flush.at = 0 /\ flush.step = 1 /\ flush.failed = <<>> /\ pending # <<>>
        /\ flush' \in Flush /\ flush'.at = 1 /\ flush'.step = 1 /\ flush'.failed = <<>>
        /\ UNCHANGED <<leg, ear, tape, pending, part, object, entry, now, keep, script, givenUp, erasure>>
    <2>1. /\ flush' = [at |-> 1, step |-> 1, since |-> 0, failed |-> <<>>]
          /\ flush = NotFlushing /\ pending # <<>>
          /\ UNCHANGED <<leg, ear, tape, pending, part, object, entry, now, keep, script, givenUp, erasure>>
      BY DEF StartFlush, NotFlushing, pipeVars, storeVars, dayVars
    <2>2. <<>> \in Seq(Calls)
      OBVIOUS
    <2> QED BY <2>1, <2>2 DEF NotFlushing, Flush
  <1>2. Len(pending) \in Nat \ {0} /\ 1 \in 1 .. Len(pending)
    BY <1>1 DEF TapeInv, TapeTypeOK
  <1>3. TapeTypeOK'
    BY <1>1 DEF TapeInv, TapeTypeOK, Flush
  <1>4. Uploading'
    BY <1>1, <1>2 DEF Uploading
  <1>5. InOrder'
    <2>1. \A d \in Calls : ~Failed(d)'
      BY <1>1 DEF Failed
    <2>2. \A i \in 1 .. Len(pending) : i >= flush.at /\ ~(i < 1)
      BY <1>1
    <2> QED BY <1>1, <1>2, <1>4, <2>1, <2>2 DEF TapeInv, InOrder, Queued, Unstored
  <1>6. Listening' /\ BothHear' /\ AudioIsAccountedFor'
    BY <1>1, UploadFrame
  <1>7. ObjectBeforeRow' /\ ScriptFits' /\ RowsAreTrue'
    BY <1>1 DEF TapeInv, ObjectBeforeRow, ScriptFits, RowsAreTrue
  <1> QED BY <1>1, <1>3, <1>5, <1>6, <1>7 DEF TapeInv

\* What failed for a while is the queue of the next sweep.
LEMMA EndFlushKeeps ==
    ASSUME TapeInv, EndFlush
    PROVE  TapeInv' /\ UNCHANGED <<object, entry>>
  <1>1. /\ flush.at > Len(pending) /\ pending' = flush.failed /\ flush' = NotFlushing
        /\ UNCHANGED <<leg, ear, tape, part, object, entry, now, keep, script, givenUp, erasure>>
    BY DEF EndFlush, Remaining, pipeVars, storeVars, dayVars
  <1>2. /\ pending \in Seq(Calls) /\ flush.failed \in Seq(Calls) /\ Len(pending) \in Nat
        /\ flush.at \in Nat /\ flush.at > 0
    BY <1>1 DEF TapeInv, TapeTypeOK
  <1>3. TapeTypeOK'
    BY <1>1, <1>2 DEF TapeInv, TapeTypeOK, NotFlushing
  <1>4. \A d \in Calls : /\ Queued(d)' <=> Failed(d)
                         /\ ~Failed(d)'
                         /\ Failed(d) => Queued(d) /\ Unstored(d)
    BY <1>1 DEF TapeInv, InOrder, Queued, Failed, NotFlushing
  <1>5. InOrder'
    <2>1. \A i \in 1 .. Len(pending') : (Unstored(pending[i]))'
      <3> SUFFICES ASSUME NEW i \in 1 .. Len(flush.failed) PROVE (Unstored(pending[i]))'
        BY <1>1
      <3>1. pending'[i] \in Calls /\ Failed(pending'[i])
        BY <1>1, <1>2 DEF Failed
      <3>2. Unstored(pending'[i])
        BY <1>4, <3>1
      <3> QED BY <1>1, <3>2 DEF Unstored
    <2>2. /\ flush'.at = 0 /\ flush'.step = 1 /\ Len(flush'.failed) = 0
          /\ Len(pending') \in Nat /\ flush'.at <= Len(pending') + 1
          /\ ~Uploading'
      BY <1>1, <1>2 DEF NotFlushing, Uploading
    <2>3. \A i, k \in 1 .. Len(pending') : pending'[i] = pending'[k] => i = k
      BY <1>1 DEF TapeInv, InOrder
    <2>4. \A d \in Calls : Queued(d)' => tape'[d].kept > 0 /\ ~tape'[d].open
      BY <1>1, <1>4 DEF TapeInv, InOrder
    <2> QED BY <1>1, <1>4, <2>1, <2>2, <2>3, <2>4 DEF InOrder
  <1>6. Listening'
    BY <1>1, <1>4 DEF TapeInv, Listening, Unstored
  <1>7. AudioIsAccountedFor'
    <2> SUFFICES ASSUME NEW d \in Calls, tape[d].kept > 0, ~tape[d].open, ~(entry[d].kept > 0), d \notin givenUp
                 PROVE  d \in Range(pending')
      BY <1>1 DEF AudioIsAccountedFor
    <2>1. d \in Range(pending)
      BY DEF TapeInv, AudioIsAccountedFor
    <2>2. PICK i \in 1 .. Len(pending) : pending[i] = d
      BY <1>2, <2>1 DEF Range
    <2>3. i < flush.at
      BY <1>1, <1>2, <2>2
    <2>4. Failed(d)
      BY <1>2, <2>2, <2>3 DEF TapeInv, InOrder
    <2> QED BY <1>1, <1>2, <2>4 DEF Failed, Range
  <1>8. ObjectBeforeRow' /\ ScriptFits' /\ BothHear' /\ RowsAreTrue'
    BY <1>1 DEF TapeInv, ObjectBeforeRow, ScriptFits, BothHear, RowsAreTrue, NotFlushing
  <1> QED BY <1>1, <1>3, <1>5, <1>6, <1>7, <1>8 DEF TapeInv

\* A stop takes what was in memory, and what it takes is given up.
LEMMA StopKeeps ==
    ASSUME TapeInv, ProcessRestarts
    PROVE  TapeInv' /\ UNCHANGED <<object, entry>>
  <1>1. /\ givenUp' = givenUp \cup {c \in InMemory : ~entry[c].there}
        /\ leg' = [c \in Calls |-> NoLeg]
        /\ ear' = [c \in Calls |-> IF ear[c].state = "none" THEN ear[c]
                                   ELSE [state |-> "closed", heard |-> 0]]
        /\ tape' = [c \in Calls |-> [NoTape EXCEPT !.kept = tape[c].kept]]
        /\ pending' = <<>> /\ flush' = NotFlushing /\ keep' \in Nat
        /\ UNCHANGED <<part, object, entry, now, script, erasure>>
    BY TapeAssumption DEF ProcessRestarts, storeVars
  <1>2. InMemory \subseteq Calls
    BY DEF TapeInv, TapeTypeOK, InMemory, Range
  <1>3. \A c \in Calls : /\ tape'[c] \in Tape /\ tape'[c].kept = tape[c].kept /\ ~tape'[c].open
                         /\ ear'[c] \in Ear
                         /\ ear'[c].state = "none" => ear[c].state = "none" /\ ear'[c].heard = ear[c].heard
                         /\ ear'[c].state # "live"
    BY <1>1 DEF TapeInv, TapeTypeOK, Listening, NoTape, Tape, Ear
  <1>4. TapeTypeOK'
    <2>1. tape' \in [Calls -> Tape] /\ ear' \in [Calls -> Ear]
      BY <1>1, <1>3
    <2>2. leg' \in [Calls -> Leg]
      BY <1>1 DEF NoLeg, Leg
    <2>3. pending' \in Seq(Calls) /\ flush' \in Flush
      BY <1>1 DEF NotFlushing, Flush
    <2> QED BY <1>1, <1>2, <2>1, <2>2, <2>3 DEF TapeInv, TapeTypeOK, Tape, Ear, Leg, Flush
  <1>5. \A d \in Calls : ~Queued(d)' /\ ~Failed(d)'
    BY <1>1 DEF Queued, Failed, NotFlushing
  <1>6. Listening'
    BY <1>1, <1>3, <1>5 DEF TapeInv, Listening, Unstored
  <1>7. InOrder'
    <2>1. Len(pending') = 0 /\ flush'.at = 0 /\ flush'.step = 1 /\ Len(flush'.failed) = 0
      BY <1>1 DEF NotFlushing
    <2> QED BY <1>1, <1>5, <2>1 DEF InOrder, Uploading
  <1>8. ObjectBeforeRow' /\ ScriptFits' /\ RowsAreTrue'
    BY <1>1 DEF TapeInv, ObjectBeforeRow, ScriptFits, RowsAreTrue, NotFlushing
  <1>9. BothHear'
    BY <1>3 DEF BothHear
  <1>10. AudioIsAccountedFor'
    <2> SUFFICES ASSUME NEW d \in Calls, tape[d].kept > 0, ~(entry[d].kept > 0), d \notin givenUp
                 PROVE  d \in givenUp'
      BY <1>1, <1>3 DEF AudioIsAccountedFor
    <2>1. d \in InMemory
      BY DEF TapeInv, AudioIsAccountedFor, InMemory
    <2>2. ~entry[d].there
      BY DEF TapeInv, ObjectBeforeRow
    <2> QED BY <1>1, <2>1, <2>2
  <1> QED BY <1>1, <1>4, <1>6, <1>7, <1>8, <1>9, <1>10 DEF TapeInv

LEMMA TapeInitially == TapeInit => TapeInv
  <1> SUFFICES ASSUME TapeInit PROVE TapeInv
    OBVIOUS
  <1>1. TapeTypeOK
    BY TapeAssumption DEF TapeInit, TapeTypeOK, NoLeg, NoTape, NoRow, NotFlushing, NoScript
  <1>2. \A c \in Calls : ~Queued(c) /\ ~Failed(c) /\ Unstored(c)
    BY DEF TapeInit, Queued, Failed, Unstored, NotFlushing, NoRow
  <1>3. Listening
    BY <1>2 DEF TapeInit, Listening, NoTape
  <1>4. InOrder
    <2>1. Len(pending) = 0 /\ flush.at = 0 /\ flush.step = 1 /\ Len(flush.failed) = 0 /\ flush = NotFlushing
      BY DEF TapeInit, NotFlushing
    <2> QED BY <1>2, <2>1 DEF InOrder, Uploading
  <1>5. ObjectBeforeRow /\ BothHear /\ AudioIsAccountedFor /\ RowsAreTrue
    BY DEF TapeInit, ObjectBeforeRow, BothHear, AudioIsAccountedFor, RowsAreTrue,
           NoRow, NoTape, NotFlushing
  <1>6. ScriptFits
    BY CallsAreNoSteps DEF TapeInit, ScriptFits, NoScript
  <1> QED BY <1>1, <1>3, <1>4, <1>5, <1>6 DEF TapeInv

\* What a step may do to what is stored.
Promised ==
    \A c \in Calls :
        /\ object[c] > 0 /\ object'[c] = 0 =>
             erasure[c] = "begun" \/ (entry[c].there /\ entry[c].due <= now)
        /\ entry[c].there /\ ~entry'[c].there => object[c] = 0

LEMMA TapeStep == TapeInv /\ [TapeNext]_tapeVars => TapeInv' /\ Promised
  <1> SUFFICES ASSUME TapeInv, [TapeNext]_tapeVars PROVE TapeInv' /\ Promised
    OBVIOUS
  <1>0. ASSUME UNCHANGED <<object, entry>> PROVE Promised
    BY <1>0 DEF Promised
  <1>1. CASE UNCHANGED tapeVars
    <2>1. /\ UNCHANGED <<leg, ear, tape, pending, flush, part, object, entry>>
          /\ UNCHANGED <<givenUp, keep, now, script, erasure>>
      BY <1>1 DEF tapeVars, pipeVars, storeVars, ownVars, dayVars
    <2>2. now \in Nat /\ now <= now /\ ScriptFits'
      BY <2>1 DEF TapeInv, TapeTypeOK, ScriptFits
    <2> QED BY <1>0, <2>1, <2>2, TapeFrame DEF TapeInv, TapeTypeOK
  <1>2. ASSUME NEW c \in Calls, OpenTape(c) \/ PushPacket(c) \/ CloseLeg(c)
        PROVE  TapeInv' /\ Promised
    BY <1>0, <1>2, ListeningKeeps DEF OpenTape, PushPacket, CloseLeg, storeVars
  <1>3. ASSUME NEW c \in Calls, SealTape(c) PROVE TapeInv' /\ Promised
    BY <1>0, <1>3, SealKeeps DEF SealTape, storeVars
  <1>4. ASSUME NEW c \in Calls, DiscardTape(c) PROVE TapeInv' /\ Promised
    BY <1>0, <1>4, DiscardKeeps DEF DiscardTape, storeVars
  <1>5. ASSUME NEW c \in Calls, StartErase(c) \/ DeleteFails(c) PROVE TapeInv' /\ Promised
    BY <1>0, <1>5, ScriptKeeps DEF StartErase, DeleteFails, storeVars
  <1>6. ASSUME NEW c \in Calls, DeleteObject(c) PROVE TapeInv' /\ Promised
    <2>1. TapeInv' /\ (erasure[c] = "begun" \/ (entry[c].there /\ entry[c].due <= now))
      BY <1>6, DeleteObjectKeeps
    <2>2. entry' = entry /\ \A d \in Calls : d # c => object'[d] = object[d]
      BY <1>6 DEF DeleteObject, TapeInv, TapeTypeOK
    <2> QED BY <2>1, <2>2 DEF Promised
  <1>7. ASSUME NEW c \in Calls, DeleteRow(c) PROVE TapeInv' /\ Promised
    <2>1. TapeInv' /\ object[c] = 0
      BY <1>7, DeleteRowKeeps
    <2>2. object' = object /\ \A d \in Calls : d # c => entry'[d] = entry[d]
      BY <1>7 DEF DeleteRow, TapeInv, TapeTypeOK
    <2> QED BY <2>1, <2>2 DEF Promised
  <1>8. ASSUME NEW c \in Calls, EraseFiles(c) PROVE TapeInv' /\ Promised
    <2>1. TapeInv' /\ erasure[c] = "begun"
      BY <1>8, EraseFilesKeeps
    <2>2. entry' = entry /\ \A d \in Calls : d # c => object'[d] = object[d]
      BY <1>8 DEF EraseFiles, TapeInv, TapeTypeOK
    <2> QED BY <2>1, <2>2 DEF Promised
  <1>9. CASE StartFlush \/ EndFlush \/ ProcessRestarts
    BY <1>0, <1>9, StartFlushKeeps, EndFlushKeeps, StopKeeps
  <1>10. CASE WritePart
    BY <1>0, <1>10, WriteKeeps DEF WritePart
  <1>11. CASE RenamePart
    <2>1. TapeInv' /\ \A c \in Calls : object[c] > 0 => object'[c] > 0
      BY <1>11, RenameKeeps
    <2>2. entry' = entry
      BY <1>11 DEF RenamePart
    <2> QED BY <2>1, <2>2 DEF Promised
  <1>12. CASE SaveRow
    BY <1>12, SaveKeeps DEF Promised
  <1>13. CASE UploadRetries \/ UploadFails
    BY <1>0, <1>13, UploadEndsKeeps
  <1>14. CASE StartPurge \/ EndPurge \/ ScriptStops
    BY <1>0, <1>14, ScriptKeeps DEF StartPurge, EndPurge, ScriptStops, storeVars
  <1>15. CASE DayPasses
    BY <1>0, <1>15, DayKeeps DEF DayPasses, storeVars
  <1> QED BY <1>1, <1>2, <1>3, <1>4, <1>5, <1>6, <1>7, <1>8, <1>9, <1>10, <1>11, <1>12,
             <1>13, <1>14, <1>15 DEF TapeNext

-----------------------------------------------------------------------------
(* And with the rows beside it.                                            *)

\* The tape's invariant holds whatever the rows do (CallTape).
THEOREM TapeHolds == KeptSpec => []TapeInv
  <1>1. KeptInit => TapeInv
    BY TapeInitially DEF KeptInit
  <1>2. TapeInv /\ [KeptNext]_keptVars => TapeInv'
    <2> SUFFICES ASSUME TapeInv, [KeptNext]_keptVars PROVE [TapeNext]_tapeVars
      BY TapeStep
    <2> QED BY DEF KeptNext, InRows, InTape, keptVars
  <1> QED BY <1>1, <1>2, PTL DEF KeptSpec

\* The recorder has every packet the transcriber heard; what a caller said is
\* held, queued, stored or gone for a reason somebody can name; and no row
\* names audio that is not there, unless it is past its day or being erased
\* (gateway.py:76-81, recording/service.py:218-246).
THEOREM NoAudioIsLost == KeptSpec => []AudioIsKept
  <1>1. TapeInv => AudioIsKept
    BY DEF TapeInv, AudioIsKept
  <1> QED BY <1>1, TapeHolds, PTL

\* Audio goes only on the day that was promised when it was stored or by an
\* erasure of its call, and a row goes only after what it points at
\* (recording/service.py:240-242, 271-275).
THEOREM PromisesAreKept == KeptSpec => KeptAsPromised
  <1>1. TapeInv /\ [KeptNext]_keptVars => [Promised]_tapeVars
    <2> SUFFICES ASSUME TapeInv, [KeptNext]_keptVars PROVE [Promised]_tapeVars
      OBVIOUS
    <2>1. [TapeNext]_tapeVars
      BY DEF KeptNext, InRows, InTape, keptVars
    <2> QED BY <2>1, TapeStep
  <1>2. KeptSpec => [][Promised]_tapeVars
    BY <1>1, TapeHolds, PTL DEF KeptSpec
  <1> QED BY <1>2 DEF KeptAsPromised, Promised
=============================================================================
