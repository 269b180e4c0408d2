--------------------------- MODULE PlaceCallProofs ---------------------------
(***************************************************************************)
(* What the parts of PlaceCall guarantee for any number of snapshots,      *)
(* customers and calls, any menus, schedules and floors.                   *)
(*                                                                         *)
(* The stages share no state, so each part has an invariant of its own,    *)
(* which every step of another stage leaves alone or starts anew.  The     *)
(* matching has two: TickFits of the rescue and the decisions, SolverFits  *)
(* of the solver's arrays.                                                 *)
(***************************************************************************)
EXTENDS PlaceCall, FiniteSums, FunctionTheorems, SequenceTheorems, TLAPS

-----------------------------------------------------------------------------
(* Reading the bank.                                                       *)

Stamp == Nat \cup {-1}

Entry == [value : Stamp, at : Stamp]

OneRead == [step : {"none", "asked", "answered", "done"}, since : Stamp, entry : Entry,
            value : Stamp, stale : BOOLEAN]

\* The bank gave the value no earlier than the read that fetched it began.
EntryIsDated(e) == e # Nothing => e.at \in Nat /\ e.value \in Nat /\ e.value >= e.at

ReadIsDated(r, now) ==
    /\ r.step \in {"asked", "answered"} => r.since \in Nat
    /\ r.step = "asked" => r.since <= now
    /\ r.step = "answered" => r.value \in Nat /\ r.value >= r.since
    /\ r.step = "done" /\ ~r.stale /\ r.value # -1 => r.value > r.since - Ttl

ReadsFit ==
    /\ moment \in Nat
    /\ cache \in [Reads -> Entry] /\ \A k \in Reads : EntryIsDated(cache[k])
    /\ read \in [Builds -> [Reads -> OneRead]]
    /\ \A b \in Builds, k \in Reads : ReadIsDated(read[b][k], moment)

LEMMA ReadsFitInit == CoreInit => ReadsFit
  BY DEF CoreInit, ReadsFit, Entry, OneRead, EntryIsDated, ReadIsDated, NotRead, Nothing, Stamp

\* One read changes, and the cache with it or not.
LEMMA ReadChanges ==
    ASSUME ReadsFit, NEW b \in Builds, NEW k \in Reads, NEW r \in OneRead,
           ReadIsDated(r, moment), read' = [read EXCEPT ![b] = [read[b] EXCEPT ![k] = r]],
           moment' = moment,
           cache' = cache \/ \E e \in Entry : EntryIsDated(e) /\ cache' = [cache EXCEPT ![k] = e]
    PROVE  ReadsFit'
  <1>1. moment' \in Nat /\ cache' \in [Reads -> Entry] /\ \A j \in Reads : EntryIsDated(cache'[j])
    BY DEF ReadsFit
  <1>2. read' \in [Builds -> [Reads -> OneRead]]
    <2>1. [read[b] EXCEPT ![k] = r] \in [Reads -> OneRead]
      BY DEF ReadsFit
    <2> QED BY <2>1 DEF ReadsFit
  <1>3. ASSUME NEW c \in Builds, NEW j \in Reads PROVE ReadIsDated(read'[c][j], moment)
    BY DEF ReadsFit
  <1> QED BY <1>1, <1>2, <1>3 DEF ReadsFit, EntryIsDated, ReadIsDated

LEMMA ReadsFitStep == ReadsFit /\ [CoreNext]_coreVars => ReadsFit'
  <1> SUFFICES ASSUME ReadsFit, [CoreNext]_coreVars PROVE ReadsFit'
    OBVIOUS
  <1>1. ASSUME NEW b \in Builds, NEW k \in Reads, NEW e \in Entry, FallBack(b, k, e),
               UNCHANGED <<moment, cache>>
        PROVE  ReadsFit'
    <2>0. (e # Nothing) \in BOOLEAN /\ e.value \in Stamp
      BY DEF Entry
    <2>1. PICK r \in OneRead : r = [NotRead EXCEPT !.step = "done", !.value = e.value,
                                                   !.stale = (e # Nothing)]
      <3>1. NotRead \in OneRead
        BY DEF OneRead, NotRead, Entry, Stamp, Nothing
      <3> QED BY <2>0, <3>1 DEF OneRead
    <2>2. ReadIsDated(r, moment)
      <3>1. r.step = "done" /\ r.value = e.value
        BY <2>1 DEF NotRead
      <3>2. r.stale = (e # Nothing)
        BY <2>1, Zenon DEF NotRead
      <3>3. ~r.stale => r.value = -1
        <4>1. ~r.stale => e = Nothing
          BY <3>2, Zenon
        <4> QED BY <3>1, <4>1 DEF Nothing
      <3> QED BY <3>1, <3>3 DEF ReadIsDated
    <2>3. read' = [read EXCEPT ![b] = [read[b] EXCEPT ![k] = r]]
      BY <1>1, <2>1 DEF FallBack
    <2> QED BY <1>1, <2>2, <2>3, ReadChanges
  <1>2. ASSUME NEW b \in Builds, NEW k \in Reads, StartRead(b, k) PROVE ReadsFit'
    <2>1. CASE ReadCached(b, k)
      <3>1. cache[k] \in Entry /\ EntryIsDated(cache[k]) /\ cache[k] # Nothing
            /\ moment - cache[k].at < Ttl /\ moment \in Nat
        BY <2>1 DEF ReadCached, IsFresh, ReadsFit
      <3>2. PICK r \in OneRead : r = [NotRead EXCEPT !.step = "done", !.since = moment,
                                                     !.value = cache[k].value]
        BY <3>1 DEF OneRead, NotRead, Entry, Stamp, Nothing
      <3>3. r.since = moment /\ r.value = cache[k].value /\ r.step = "done"
        BY <3>2 DEF NotRead
      <3>4. cache[k].value > moment - Ttl
        BY <3>1, CoreDataAssumption DEF EntryIsDated
      <3>5. ReadIsDated(r, moment)
        BY <3>3, <3>4 DEF ReadIsDated
      <3>6. read' = [read EXCEPT ![b] = [read[b] EXCEPT ![k] = r]]
        BY <2>1, <3>2 DEF ReadCached
      <3> QED BY <1>2, <3>5, <3>6, ReadChanges DEF StartRead
    <2>2. CASE ReadSpared(b, k)
      BY <1>1, <1>2, <2>2 DEF ReadSpared, StartRead, ReadsFit
    <2>3. CASE AskBank(b, k)
      <3>1. PICK r \in OneRead : r = [NotRead EXCEPT !.step = "asked", !.since = moment,
                                                     !.entry = cache[k]]
        BY DEF OneRead, NotRead, Stamp, Nothing, ReadsFit, Entry
      <3>2. ReadIsDated(r, moment)
        BY <3>1 DEF ReadIsDated, NotRead, ReadsFit
      <3>3. read' = [read EXCEPT ![b] = [read[b] EXCEPT ![k] = r]]
        BY <2>3, <3>1 DEF AskBank
      <3> QED BY <1>2, <3>2, <3>3, ReadChanges DEF StartRead
    <2> QED BY <1>2, <2>1, <2>2, <2>3 DEF StartRead
  <1>3. ASSUME NEW b \in Builds, NEW k \in Reads, BankReads(b, k) PROVE ReadsFit'
    <2>0. read[b][k] \in OneRead /\ ReadIsDated(read[b][k], moment) /\ moment \in Nat
      BY DEF ReadsFit
    <2>1. PICK r \in OneRead : r = [read[b][k] EXCEPT !.step = "answered", !.value = moment]
      BY <2>0 DEF OneRead, Stamp
    <2>2. ReadIsDated(r, moment)
      BY <2>0, <2>1, <1>3 DEF ReadIsDated, BankReads, OneRead
    <2>3. read' = [read EXCEPT ![b] = [read[b] EXCEPT ![k] = r]]
      BY <1>3, <2>1 DEF BankReads, ReadsFit
    <2> QED BY <1>3, <2>2, <2>3, ReadChanges DEF BankReads
  <1>4. ASSUME NEW b \in Builds, NEW k \in Reads, BankAnswers(b, k) PROVE ReadsFit'
    <2>0. /\ read[b][k] \in OneRead /\ ReadIsDated(read[b][k], moment)
          /\ read[b][k].step = "answered"
      BY <1>4 DEF ReadsFit, BankAnswers
    <2>1. PICK r \in OneRead : r = [read[b][k] EXCEPT !.step = "done", !.entry = Nothing]
      BY <2>0 DEF OneRead, Stamp, Entry, Nothing
    <2>2. ReadIsDated(r, moment)
      <3>1. r.step = "done" /\ r.since = read[b][k].since /\ r.value = read[b][k].value
        BY <2>0, <2>1 DEF OneRead
      <3>2. r.since \in Nat /\ r.value \in Nat /\ r.value >= r.since
        BY <2>0, <3>1 DEF ReadIsDated
      <3> QED BY <3>1, <3>2, CoreDataAssumption DEF ReadIsDated
    <2>3. read' = [read EXCEPT ![b] = [read[b] EXCEPT ![k] = r]]
      BY <1>4, <2>1 DEF BankAnswers, ReadsFit
    <2>4. PICK e \in Entry : e = [value |-> read[b][k].value, at |-> StoredAt(read[b][k])]
      BY <2>0 DEF OneRead, Entry, StoredAt
    <2>5. EntryIsDated(e)
      BY <2>0, <2>4 DEF EntryIsDated, ReadIsDated, StoredAt
    <2>6. cache' = [cache EXCEPT ![k] = e]
      BY <1>4, <2>4 DEF BankAnswers
    <2>7. moment' = moment
      BY <1>4 DEF BankAnswers
    <2>8. \E f \in Entry : EntryIsDated(f) /\ cache' = [cache EXCEPT ![k] = f]
      BY <2>5, <2>6
    <2> QED BY <2>2, <2>3, <2>7, <2>8, ReadChanges
  <1>5. ASSUME NEW b \in Builds, NEW k \in Reads, BankFails(b, k) PROVE ReadsFit'
    <2>1. read[b][k].entry \in Entry
      BY DEF ReadsFit, OneRead
    <2> QED BY <1>1, <1>5, <2>1 DEF BankFails
  <1>6. CASE TimePasses
    BY <1>6 DEF TimePasses, ReadsFit, ReadIsDated
  <1>7. CASE (\E b \in Builds : FinishBuild(b)) \/ UNCHANGED coreVars
    BY <1>7 DEF FinishBuild, coreVars, ReadsFit
  <1> QED BY <1>2, <1>3, <1>4, <1>5, <1>6, <1>7 DEF CoreNext

\* However late the bank answers and however reads of one thing overlap, an
\* answer that is not said to be stale was true at the bank no longer than the
\* lifetime of an entry before it was asked for.
THEOREM AnswersAreAlwaysDated == Spec => []AnswersAreDated
  <1>1. Init => ReadsFit
    BY ReadsFitInit DEF Init
  <1>2. ReadsFit /\ [Next]_vars => ReadsFit'
    <2> SUFFICES ASSUME ReadsFit, [Next]_vars PROVE [CoreNext]_coreVars
      BY ReadsFitStep
    <2> QED BY DEF Next, vars, callerVars, InReads, InApp, InWho, Identified, StartIvr, InMenu,
                   Enqueue, AskHours, Admit, StartTick, InTick
  <1>3. ReadsFit => AnswersAreDated
    BY DEF ReadsFit, ReadIsDated, AnswersAreDated
  <1> QED BY <1>1, <1>2, <1>3, PTL DEF Spec

-----------------------------------------------------------------------------
(* Who is calling.                                                         *)

Somebody == Customers \cup {Nobody}

OneIntent == [of : Customers, at : Nat]

OneEvent == [intent : Nat, of : Somebody]

OneCall == [step : {"none", "looking", "resolved", "started", "building", "placed"},
            token : Nat, number : Somebody, since : Nat, who : Somebody,
            level : {"L0", "L1", "L2", "L3"}, shown : Somebody]

AliveAt(i, t) == {j \in 1 .. Len(i) : t < i[j].at + IntentTtl}

\* A number still being looked up has earned nothing yet.
LevelFits(c, i) ==
    /\ c.step \in {"none", "looking"} => c.level = "L0" /\ c.who = Nobody
    /\ c.step = "looking" => c.number # Nobody
    /\ c.level = "L3" => c.token \in AliveAt(i, c.since) /\ i[c.token].of = c.who
    /\ c.level = "L2" => c.number = c.who /\ \E j \in AliveAt(i, c.since) : i[j].of = c.who
    /\ c.level = "L1" => c.number = c.who /\ c.who # Nobody
    /\ c.level = "L0" => c.who = Nobody

CallersFit ==
    /\ hour \in Nat /\ intents \in Seq(OneIntent) /\ Len(intents) <= MaxIntents
    /\ created \in Seq(OneEvent) /\ fetching \in OneEvent
    /\ prefetched \in [Tokens -> Somebody]
    /\ arrival \in [Arrivals -> OneCall]
    /\ \A k \in Arrivals : LevelFits(arrival[k], intents)

LEMMA NobodyKnownFits ==
    ASSUME hour' = 1, intents' = <<>>, created' = <<>>, fetching' = Idle,
           prefetched' = [i \in Tokens |-> Nobody], arrival' = [k \in Arrivals |-> NotCalled]
    PROVE  CallersFit'
  <1>1. NotCalled \in OneCall /\ Idle \in OneEvent
    BY DEF NotCalled, OneCall, Somebody, NoToken, Idle, OneEvent
  <1>2. LevelFits(NotCalled, <<>>)
    BY DEF LevelFits, NotCalled
  <1>3. \A k \in Arrivals : arrival'[k] = NotCalled
    OBVIOUS
  <1>4. (\A k \in Arrivals : LevelFits(arrival[k], intents))'
    BY <1>2, <1>3
  <1>5. /\ hour' \in Nat /\ intents' \in Seq(OneIntent) /\ created' \in Seq(OneEvent)
        /\ Len(intents') <= MaxIntents
    BY CallerAssumption
  <1>6. prefetched' \in [Tokens -> Somebody]
    BY DEF Somebody
  <1>7. arrival' \in [Arrivals -> OneCall]
    BY <1>1
  <1> QED BY <1>1, <1>4, <1>5, <1>6, <1>7 DEF CallersFit

\* More intents take nothing away.
LEMMA MoreIntents ==
    ASSUME NEW i \in Seq(OneIntent), NEW e \in OneIntent, NEW c \in OneCall, LevelFits(c, i)
    PROVE  LevelFits(c, Append(i, e))
  <1>1. \A j \in 1 .. Len(i) : j \in 1 .. Len(Append(i, e)) /\ Append(i, e)[j] = i[j]
    OBVIOUS
  <1>2. \A j \in AliveAt(i, c.since) : j \in AliveAt(Append(i, e), c.since) /\ Append(i, e)[j] = i[j]
    BY <1>1 DEF AliveAt
  <1>3. c.level = "L2" => \E j \in AliveAt(Append(i, e), c.since) : Append(i, e)[j].of = c.who
    BY <1>2 DEF LevelFits
  <1> QED BY <1>2, <1>3 DEF LevelFits

\* One call changes.
LEMMA CallChanges ==
    ASSUME CallersFit, NEW k \in Arrivals, NEW c \in OneCall, LevelFits(c, intents),
           arrival' = [arrival EXCEPT ![k] = c], UNCHANGED <<hour, intents, fetchVars>>,
           created' \in Seq(OneEvent)
    PROVE  CallersFit'
  <1>1. \A j \in Arrivals : LevelFits(arrival'[j], intents)
    BY DEF CallersFit
  <1>2. (\A j \in Arrivals : LevelFits(arrival[j], intents))'
    BY <1>1
  <1>3. arrival' \in [Arrivals -> OneCall]
    BY DEF CallersFit
  <1> QED BY <1>2, <1>3 DEF CallersFit, fetchVars

LEMMA CallersFitStep == CallersFit /\ [WhoNext]_whoVars => CallersFit'
  <1> SUFFICES ASSUME CallersFit, [WhoNext]_whoVars PROVE CallersFit'
    OBVIOUS
  <1>1. \A k \in Arrivals : arrival[k] \in OneCall /\ LevelFits(arrival[k], intents)
    BY DEF CallersFit
  <1>2. ASSUME NEW c \in Customers, SignIn(c) \/ SignOut(c) \/ TapRefused(c) PROVE CallersFit'
    BY <1>2 DEF SignIn, SignOut, TapRefused, CallersFit, fetchVars
  <1>3. ASSUME NEW c \in Customers, TapContact(c) PROVE CallersFit'
    <2>1. PICK e \in OneIntent : e = [of |-> c, at |-> hour]
      BY DEF OneIntent, CallersFit
    <2>2. intents' = Append(intents, e) /\ intents \in Seq(OneIntent)
      BY <1>3, <2>1 DEF TapContact, CallersFit
    <2>3. \A k \in Arrivals : LevelFits(arrival[k], Append(intents, e))
      BY <1>1, <2>2, MoreIntents
    <2>4. PICK f \in OneEvent : f = [intent |-> Len(intents) + 1, of |-> c]
      <3>1. Len(intents) + 1 \in Nat
        BY <2>2
      <3> QED BY <3>1 DEF OneEvent, Somebody
    <2>5. created' = Append(created, f)
      BY <1>3, <2>4 DEF TapContact
    <2>6. created' \in Seq(OneEvent)
      BY <2>5 DEF CallersFit
    <2>7. intents' \in Seq(OneIntent) /\ Len(intents') <= MaxIntents
      BY <1>3, <2>2, CallerAssumption DEF TapContact
    <2>8. arrival' = arrival /\ hour' = hour /\ fetching' = fetching /\ prefetched' = prefetched
      BY <1>3 DEF TapContact, fetchVars
    <2>9. (\A k \in Arrivals : LevelFits(arrival[k], intents))'
      BY <2>2, <2>3, <2>8
    <2> QED BY <2>6, <2>7, <2>8, <2>9 DEF CallersFit
  <1>4. CASE StartPrefetch
    <2>1. created # <<>> /\ created \in Seq(OneEvent)
      BY <1>4 DEF StartPrefetch, CallersFit
    <2>2. Head(created) \in OneEvent /\ Tail(created) \in Seq(OneEvent)
      BY <2>1, HeadTailProperties
    <2> QED BY <1>4, <2>2 DEF StartPrefetch, CallersFit, appVars
  <1>5. CASE EndPrefetch
    <2>1. fetching.of \in Somebody
      BY DEF CallersFit, OneEvent
    <2>2. prefetched' \in [Tokens -> Somebody] /\ fetching' \in OneEvent
      BY <1>5, <2>1 DEF EndPrefetch, CallersFit, Idle, OneEvent, NoToken, Somebody
    <2> QED BY <1>5, <2>2 DEF EndPrefetch, CallersFit, appVars
  <1>6. CASE HourPasses
    BY <1>6 DEF HourPasses, CallersFit, appVars, fetchVars
  <1>7. ASSUME NEW k \in Arrivals, NEW token \in Tokens \cup {NoToken}, NEW number \in Somebody,
               Arrive(k, token, number)
        PROVE  CallersFit'
    <2>0. token \in Nat /\ hour \in Nat /\ intents \in Seq(OneIntent)
      BY CallerAssumption DEF Tokens, NoToken, CallersFit
    <2>1. PICK came \in OneCall : came = [NotCalled EXCEPT !.token = token, !.number = number,
                                                           !.since = hour]
      BY <2>0 DEF OneCall, NotCalled, NoToken, Somebody
    <2>2. /\ came.token = token /\ came.number = number /\ came.since = hour
          /\ came.level = "L0" /\ came.who = Nobody
      BY <2>1 DEF NotCalled
    <2>3. CASE Earns(token, hour)
      <3>1. intents[token] \in OneIntent /\ token \in 1 .. Len(intents)
        BY <2>0, <2>3 DEF Earns, Known
      <3>2. PICK c \in OneCall : c = [came EXCEPT !.step = "resolved", !.who = intents[token].of,
                                                  !.level = "L3"]
        BY <3>1 DEF OneCall, OneIntent, Somebody
      <3>3. /\ c.step = "resolved" /\ c.level = "L3" /\ c.who = intents[token].of
            /\ c.token = token /\ c.since = hour
        BY <2>2, <3>2 DEF OneCall
      <3>4. hour < intents[token].at + IntentTtl
        BY <2>0, <2>3, <3>1, CallerAssumption DEF Earns, IsExpired, OneIntent
      <3>5. LevelFits(c, intents)
        BY <3>1, <3>3, <3>4 DEF LevelFits, AliveAt
      <3>6. arrival' = [arrival EXCEPT ![k] = c]
        BY <1>7, <2>1, <2>3, <3>2 DEF Arrive
      <3> QED BY <1>7, <3>5, <3>6, CallChanges DEF Arrive, appVars, CallersFit
    <2>4. CASE ~Earns(token, hour)
      <3>1. PICK c \in OneCall :
                c = [came EXCEPT !.step = IF number = Nobody THEN "resolved" ELSE "looking"]
        BY DEF OneCall
      <3>2. /\ c.level = "L0" /\ c.who = Nobody /\ c.number = number
            /\ c.step = IF number = Nobody THEN "resolved" ELSE "looking"
        BY <2>2, <3>1 DEF OneCall
      <3>3. LevelFits(c, intents)
        BY <3>2 DEF LevelFits
      <3>4. arrival' = [arrival EXCEPT ![k] = c]
        BY <1>7, <2>1, <2>4, <3>1 DEF Arrive
      <3> QED BY <1>7, <3>3, <3>4, CallChanges DEF Arrive, appVars, CallersFit
    <2> QED BY <2>3, <2>4
  <1>8. ASSUME NEW k \in Arrivals, NumberFound(k) \/ NumberNotFound(k) PROVE CallersFit'
    <2>0. arrival[k] \in OneCall /\ LevelFits(arrival[k], intents) /\ arrival[k].step = "looking"
      BY <1>1, <1>8 DEF NumberFound, NumberNotFound
    <2>1. PICK w \in Somebody, l \in {"L0", "L1", "L2"} :
             /\ arrival' = Resolved(k, w, l)
             /\ l = "L0" => w = Nobody
             /\ l \in {"L1", "L2"} => w = arrival[k].number
             /\ l = "L2" => Pending(w, arrival[k].since)
      <3>1. CASE NumberFound(k)
        BY <2>0, <3>1 DEF NumberFound, OneCall
      <3>2. CASE NumberNotFound(k)
        BY <3>2 DEF NumberNotFound, Somebody
      <3> QED BY <1>8, <3>1, <3>2
    <2>2. PICK c \in OneCall : c = [arrival[k] EXCEPT !.step = "resolved", !.who = w, !.level = l]
      BY <2>0 DEF OneCall
    <2>3. /\ c.step = "resolved" /\ c.who = w /\ c.level = l
          /\ c.number = arrival[k].number /\ c.since = arrival[k].since
      BY <2>0, <2>2 DEF OneCall
    <2>4. l = "L2" => \E j \in AliveAt(intents, c.since) : intents[j].of = w
      <3>1. ASSUME l = "L2" PROVE \E j \in AliveAt(intents, c.since) : intents[j].of = w
        <4>1. PICK j \in 1 .. Len(intents) : intents[j].of = w /\ ~IsExpired(j, c.since)
          BY <2>1, <2>3, <3>1 DEF Pending
        <4>2. intents[j] \in OneIntent /\ c.since \in Nat
          BY DEF CallersFit, OneCall
        <4>3. j \in AliveAt(intents, c.since)
          BY <4>1, <4>2, CallerAssumption DEF AliveAt, IsExpired, OneIntent
        <4> QED BY <4>1, <4>3
      <3> QED BY <3>1
    <2>5. LevelFits(c, intents)
      BY <2>0, <2>1, <2>3, <2>4 DEF LevelFits
    <2>6. arrival' = [arrival EXCEPT ![k] = c]
      BY <2>1, <2>2 DEF Resolved, CallersFit
    <2> QED BY <1>8, <2>5, <2>6, CallChanges DEF NumberFound, NumberNotFound, appVars, CallersFit
  <1>9. ASSUME NEW k \in Arrivals, NEW st \in {"started", "building", "placed"}, NEW s \in Somebody,
               arrival[k].step \notin {"none", "looking"},
               arrival' = [arrival EXCEPT ![k] = [arrival[k] EXCEPT !.step = st, !.shown = s]],
               UNCHANGED <<hour, intents, fetchVars>>, created' \in Seq(OneEvent)
        PROVE  CallersFit'
    <2>1. PICK c \in OneCall : c = [arrival[k] EXCEPT !.step = st, !.shown = s]
      BY <1>1 DEF OneCall
    <2>2. LevelFits(c, intents)
      BY <1>1, <1>9, <2>1 DEF LevelFits, OneCall
    <2> QED BY <1>9, <2>1, <2>2, CallChanges
  <1>10. ASSUME NEW k \in Arrivals, StartCall(k) PROVE CallersFit'
    <2>1. arrival[k] \in OneCall /\ created \in Seq(OneEvent)
      BY <1>1 DEF CallersFit
    <2>2. created' \in Seq(OneEvent)
      <3>1. [intent |-> arrival[k].token, of |-> arrival[k].who] \in OneEvent
        BY <2>1 DEF OneCall, OneEvent
      <3> QED BY <1>10, <2>1, <3>1 DEF StartCall
    <2>3. arrival' = [arrival EXCEPT ![k] = [arrival[k] EXCEPT !.step = "started",
                                                               !.shown = arrival[k].shown]]
      BY <1>10, <2>1 DEF StartCall, OneCall, CallersFit
    <2>4. arrival[k].shown \in Somebody
      BY <2>1 DEF OneCall
    <2> QED BY <1>9, <1>10, <2>2, <2>3, <2>4 DEF StartCall, appVars
  <1>11. ASSUME NEW k \in Arrivals, AttachPrefetched(k) PROVE CallersFit'
    <2>1. prefetched[arrival[k].token] \in Somebody
      <3>1. arrival[k].token \in 1 .. Len(intents)
        BY <1>11 DEF AttachPrefetched, Reuses, Known
      <3>2. arrival[k].token \in Tokens
        BY <3>1, CallerAssumption DEF CallersFit, Tokens
      <3> QED BY <3>2 DEF CallersFit
    <2> QED BY <1>9, <1>11, <2>1 DEF AttachPrefetched, appVars, CallersFit
  <1>12. ASSUME NEW k \in Arrivals, AssembleNow(k) PROVE CallersFit'
    <2>1. arrival[k] \in OneCall /\ arrival[k].shown \in Somebody
      BY <1>1 DEF OneCall
    <2>2. PICK st \in {"building", "placed"} :
             arrival' = [arrival EXCEPT ![k].step = st]
      BY <1>12 DEF AssembleNow
    <2>3. arrival' = [arrival EXCEPT ![k] = [arrival[k] EXCEPT !.step = st,
                                                               !.shown = arrival[k].shown]]
      BY <2>1, <2>2 DEF OneCall, CallersFit
    <2> QED BY <1>9, <1>12, <2>1, <2>3 DEF AssembleNow, appVars, CallersFit
  <1>13. ASSUME NEW k \in Arrivals, AttachAssembled(k) PROVE CallersFit'
    <2>1. arrival[k].who \in Somebody
      BY <1>1 DEF OneCall
    <2> QED BY <1>9, <1>13, <2>1 DEF AttachAssembled, appVars, CallersFit
  <1>14. CASE UNCHANGED whoVars
    BY <1>14 DEF whoVars, appVars, fetchVars, CallersFit
  <1> QED BY <1>2, <1>3, <1>4, <1>5, <1>6, <1>7, <1>8, <1>10, <1>11, <1>12, <1>13, <1>14
          DEF WhoNext, Somebody

\* A call is believed as far as it earned when it came in, whoever else taps,
\* signs in or calls while its number is looked up, and however long that takes.
THEOREM LevelsAreEarned == Spec => []LevelIsEarned
  <1>1. Init => CallersFit
    <2> SUFFICES ASSUME WhoInit PROVE CallersFit
      BY DEF Init
    <2>1. NotCalled \in OneCall /\ Idle \in OneEvent /\ LevelFits(NotCalled, <<>>)
      BY DEF NotCalled, OneCall, Somebody, NoToken, Idle, OneEvent, LevelFits
    <2>2. arrival \in [Arrivals -> OneCall] /\ \A k \in Arrivals : LevelFits(arrival[k], intents)
      BY <2>1 DEF WhoInit
    <2> QED BY <2>1, <2>2, CallerAssumption DEF WhoInit, CallersFit, Somebody
  <1>2. CallersFit /\ [Next]_vars => CallersFit'
    <2> SUFFICES ASSUME CallersFit, [Next]_vars PROVE CallersFit'
      OBVIOUS
    <2>1. CASE Identified
      BY <2>1, NobodyKnownFits DEF Identified, WhoLetGo
    <2>2. CASE ~Identified
      <3>1. [WhoNext]_whoVars
        BY <2>2 DEF Next, vars, callerVars, InReads, InApp, InWho, StartIvr, InMenu,
                    Enqueue, AskHours, Admit, StartTick, InTick
      <3> QED BY <3>1, CallersFitStep
    <2> QED BY <2>1, <2>2
  <1>3. CallersFit => LevelIsEarned
    <2> SUFFICES ASSUME CallersFit, NEW k \in Arrivals, arrival[k].step \notin {"none", "looking"}
                 PROVE  LET c == arrival[k]
                            alive == {i \in 1 .. Len(intents) : c.since < intents[i].at + IntentTtl}
                        IN  CASE c.level = "L3" -> c.token \in alive /\ intents[c.token].of = c.who
                              [] c.level = "L2" -> c.number = c.who /\ \E i \in alive : intents[i].of = c.who
                              [] c.level = "L1" -> c.number = c.who /\ c.who # Nobody
                              [] c.level = "L0" -> c.who = Nobody
      BY DEF LevelIsEarned
    <2>1. LevelFits(arrival[k], intents) /\ arrival[k].level \in {"L0", "L1", "L2", "L3"}
      BY DEF CallersFit, OneCall
    <2> QED BY <2>1 DEF LevelFits, AliveAt
  <1> QED BY <1>1, <1>2, <1>3, PTL DEF Spec

\* Both together, for any number of customers, calls, builds and reads, and any
\* lifetimes (caching.py, resolver.py).
THEOREM CallersAreKnown == Spec => []CallerIsKnown
  BY AnswersAreAlwaysDated, LevelsAreEarned, PTL DEF CallerIsKnown

-----------------------------------------------------------------------------
(* The menus.                                                              *)

\* While the app is the subject every menu has a way out for either customer,
\* and a list of reasons on the screen shows it.
AppFits ==
    /\ stage = "app" =>
          /\ DOMAIN menus.root = MenuLines \cup {General}
          /\ \A l \in MenuLines \cup {General} : MenuIsValid(menus.reasons[l])
    /\ \/ app = Home
       \/ app.screen \in {"lines", "dial"}
       \/ app.screen = "reasons" /\ "catch_all" \in app.offered

LEMMA ReasonsHaveWayOut ==
    ASSUME DOMAIN menus.root = MenuLines \cup {General},
           \A l \in MenuLines \cup {General} : MenuIsValid(menus.reasons[l]),
           NEW line, NEW c \in Context
    PROVE  "catch_all" \in ReasonsOffered(line, c)
  <1>1. MenuIsValid(MenuFor(line))
    BY DEF MenuFor
  <1>2. PICK o \in MenuFor(line) : ShownIn(o, c) /\ o.intent = "catch_all"
    BY <1>1 DEF MenuIsValid
  <1> QED BY <1>2 DEF ReasonsOffered, NoReason

LEMMA AppFitsStep == AppFits /\ [Next]_vars => AppFits'
  <1> SUFFICES ASSUME AppFits, [Next]_vars PROVE AppFits'
    OBVIOUS
  <1>1. CASE InApp
    <2>0. stage = "app" /\ stage' = stage
      BY <1>1 DEF InApp
    <2>1. ASSUME NEW line, NEW c \in Context, Asks(line, c), menus' = menus PROVE AppFits'
      <3>1. "catch_all" \in ReasonsOffered(line, c)
        BY <2>0, ReasonsHaveWayOut DEF AppFits
      <3>2. app'.screen = "reasons" /\ app'.offered = ReasonsOffered(line, c)
        BY <2>1 DEF Asks
      <3> QED BY <2>0, <2>1, <3>1, <3>2 DEF AppFits
    <2>2. CASE TapSomethingElse \/ \E r \in Intent : TapReason(r)
      <3>1. app'.screen \in {"lines", "dial"} /\ menus' = menus
        BY <2>2 DEF TapSomethingElse, TapReason
      <3> QED BY <2>0, <3>1 DEF AppFits
    <2>3. CASE \E l \in MenuLines \cup OtherLines : TapPlan(l)
      BY <2>1, <2>3 DEF TapPlan, Context
    <2>4. CASE \E l \in MenuLines \cup {General} : TapLine(l)
      BY <2>1, <2>4 DEF TapLine, Context
    <2> QED BY <1>1, <2>2, <2>3, <2>4 DEF InApp, AppStep
  <1>2. CASE ~InApp
    <2>1. UNCHANGED contactVars /\ (stage' = "app" => stage = "app")
      BY <1>2 DEF Next, vars, callerVars, InReads, InWho, Identified, StartIvr, InMenu,
                  Enqueue, AskHours, Admit, StartTick, InTick
    <2> QED BY <2>1 DEF AppFits, contactVars
  <1> QED BY <1>1, <1>2

MenuNames == Lines \cup {Unknown, Top}

OneRun ==
    [line : Lines \cup {Unknown}, intent : {NoIntent} \cup ((Lines \cup {Unknown}) \X Nat),
     menu : MenuNames, presented : SUBSET [key : Nat, spoken : Nat], path : Seq(Nat),
     attempts : Nat, timeouts : Nat,
     outcome : {"none", "skipped", "routed", "exhausted", "abandoned"}]

\* A key that was read out is one option's, and the option is on the menu.
KeysAreRead(r) ==
    /\ \A o \in r.presented : o.key \in Keys(r.menu)
    /\ \A o, q \in r.presented : o.spoken = q.spoken => o.key = q.key

\* The menus asked before the reasons.
FirstAsked(c) == IF StartMenu(c) = Top THEN 1 ELSE 0

OnTheWay(r, c) ==
    /\ c.known = NoIntent /\ r.intent = NoIntent
    /\ r.menu = Top => r.path = <<>> /\ r.line = c.number.line /\ FirstAsked(c) = 1
    /\ r.menu # Top => Len(r.path) = FirstAsked(c) /\ r.line = r.menu
    /\ r.menu # Top /\ FirstAsked(c) = 1 => r.menu = LineOf(r.path[1])
    /\ r.menu # Top /\ FirstAsked(c) = 0 => r.menu = c.number.line

Arrived(r, c) ==
    /\ FirstAsked(c) = 1 /\ r.path # <<>> => r.menu = LineOf(r.path[1])
    /\ r.outcome = "routed" => r.intent = <<r.menu, r.path[FirstAsked(c) + 1]>>
    /\ r.line \in Lines => QueueFor(r, c)[1] = r.line

RunFits(r, c) ==
    /\ r \in OneRun /\ KeysAreRead(r)
    /\ r.outcome = "none" => OnTheWay(r, c)
    /\ r.outcome # "none" => Arrived(r, c)

\* Only the menu stage has a walk.
WalkFits ==
    \/ Queued /\ meant = <<>>
    \/ stage = "menu" /\ call \in Calls /\ RunFits(run, call) /\ meant = run.path

LEMMA StartMenus ==
    ASSUME NEW c \in Calls
    PROVE  /\ c.number.line \in Lines \cup {Unknown}
           /\ c.number.skips => c.number.line \in Lines /\ StartMenu(c) = c.number.line
                                /\ FirstAsked(c) = 0 /\ c.number.line # Top
           /\ ~c.number.skips => StartMenu(c) = Top /\ FirstAsked(c) = 1 /\ ~c.number.assumes
           /\ c.number.skips \in BOOLEAN
  <1>1. c.number \in Numbers
    BY DEF Calls
  <1>2. CASE c.number = [line |-> Unknown, skips |-> FALSE, assumes |-> FALSE]
    BY <1>2 DEF StartMenu, FirstAsked
  <1>3. CASE c.number \in [line : Lines, skips : {TRUE}, assumes : BOOLEAN]
    <2>1. c.number.line \in Lines /\ c.number.skips = TRUE
      BY <1>3
    <2> QED BY <2>1, MenuAssumption DEF StartMenu, FirstAsked, ValidMenus
  <1> QED BY <1>1, <1>2, <1>3 DEF Numbers

LEMMA KeysAreNumbers == ASSUME NEW m PROVE Keys(m) \subseteq Nat /\ IsFiniteSet(Keys(m))
  <1>1. Len(Order) + 1 \in Int /\ Reasons \in Int /\ 1 \in Int
    BY MenuAssumption DEF ValidMenus
  <1>2. IsFiniteSet(1 .. Len(Order) + 1) /\ IsFiniteSet(1 .. Reasons)
    BY <1>1, FS_Interval
  <1> QED BY <1>1, <1>2 DEF Keys

LEMMA LinesOfKeys == ASSUME NEW k \in Keys(Top) PROVE LineOf(k) \in Lines \cup {Unknown} /\ LineOf(k) # Top
  BY MenuAssumption DEF Keys, LineOf, Lines, Range, ValidMenus

LEMMA AsWrittenIsRead ==
    ASSUME NEW m
    PROVE  /\ AsWritten(m) \in SUBSET [key : Nat, spoken : Nat]
           /\ \A o \in AsWritten(m) : o.key \in Keys(m)
           /\ \A o, q \in AsWritten(m) : o.spoken = q.spoken => o.key = q.key
  BY KeysAreNumbers DEF AsWritten

\* Of two options of the first menu one is read before the other, and the one
\* that is read later has more before it.
LEMMA PlacesDiffer ==
    ASSUME NEW scores \in Scores, NEW promoted \in SUBSET (1 .. Len(Order)),
           NEW j \in Keys(Top), NEW k \in Keys(Top), j # k
    PROVE  /\ Place(Top, promoted, scores, j) \in Nat
           /\ Place(Top, promoted, scores, j) # Place(Top, promoted, scores, k)
  <1> DEFINE Earlier(x) == {y \in Keys(Top) : ReadBefore(promoted, scores, y, x)}
  <1>1. \A x \in 1 .. Len(Order) : scores[Order[x]] \in Nat
    BY MenuAssumption DEF Scores, ValidMenus, Lines, Range
  <1>2. Keys(Top) \subseteq Nat
    BY KeysAreNumbers
  <1>3. \A x, y \in Keys(Top) :
            x # y => ReadBefore(promoted, scores, x, y) \/ ReadBefore(promoted, scores, y, x)
    BY <1>1, <1>2 DEF ReadBefore, Leads
  <1>4. \A x \in Keys(Top) : ~ReadBefore(promoted, scores, x, x)
    BY <1>1, <1>2 DEF ReadBefore, Leads
  <1>5. \A x, y, z \in Keys(Top) :
            ReadBefore(promoted, scores, x, y) /\ ReadBefore(promoted, scores, y, z)
            => ReadBefore(promoted, scores, x, z)
    <2> SUFFICES ASSUME NEW x \in Keys(Top), NEW y \in Keys(Top), NEW z \in Keys(Top),
                        ReadBefore(promoted, scores, x, y), ReadBefore(promoted, scores, y, z)
                 PROVE  ReadBefore(promoted, scores, x, z)
      OBVIOUS
    <2>1. CASE x \in promoted /\ y \in promoted /\ z \in promoted
      BY <1>1, <1>2, <2>1 DEF ReadBefore, Leads
    <2>2. CASE ~(x \in promoted /\ y \in promoted /\ z \in promoted)
      BY <1>2, <2>2 DEF ReadBefore
    <2> QED BY <2>1, <2>2
  <1>6. \A x \in Keys(Top) : IsFiniteSet(Earlier(x)) /\ Cardinality(Earlier(x)) \in Nat
    BY KeysAreNumbers, FS_Subset, FS_CardinalityType
  <1>7. ASSUME NEW x \in Keys(Top), NEW y \in Keys(Top), ReadBefore(promoted, scores, x, y)
        PROVE  Cardinality(Earlier(x)) # Cardinality(Earlier(y))
    <2>1. Earlier(x) \in SUBSET Earlier(y) /\ x \in Earlier(y) /\ x \notin Earlier(x)
      BY <1>4, <1>5, <1>7
    <2>2. IsFiniteSet(Earlier(y))
      BY <1>6
    <2> HIDE DEF Earlier
    <2> QED BY <2>1, <2>2, FS_Subset
  <1>8. Cardinality(Earlier(j)) # Cardinality(Earlier(k))
    BY <1>3, <1>7
  <1>9. /\ Place(Top, promoted, scores, j) = Cardinality(Earlier(j)) + 1
        /\ Place(Top, promoted, scores, k) = Cardinality(Earlier(k)) + 1
    BY DEF Place
  <1> HIDE DEF Earlier
  <1> QED BY <1>6, <1>8, <1>9

LEMMA PresentIsRead ==
    ASSUME NEW m, NEW scores \in Scores, NEW renumber \in BOOLEAN
    PROVE  /\ Present(m, scores, renumber) \in SUBSET [key : Nat, spoken : Nat]
           /\ \A o \in Present(m, scores, renumber) : o.key \in Keys(m)
           /\ \A o, q \in Present(m, scores, renumber) : o.spoken = q.spoken => o.key = q.key
  <1>1. CASE ~renumber \/ Promoted(m, scores) = {}
    BY <1>1, AsWrittenIsRead DEF Present
  <1>2. CASE renumber /\ Promoted(m, scores) # {}
    <2>1. m = Top /\ Promoted(m, scores) \in SUBSET (1 .. Len(Order))
      <3>1. \A k \in Promoted(m, scores) : m = Top /\ k \in Keys(m) /\ k <= Len(Order)
        BY DEF Promoted
      <3>2. m = Top
        BY <1>2, <3>1
      <3> QED BY <3>1, <3>2, MenuAssumption DEF Keys, ValidMenus
    <2>2. PICK promoted \in SUBSET (1 .. Len(Order)) : promoted = Promoted(m, scores)
      BY <2>1
    <2>3. Present(m, scores, renumber)
          = {[key |-> k, spoken |-> Place(Top, promoted, scores, k)] : k \in Keys(Top)}
      BY <1>2, <2>1, <2>2 DEF Present
    <2>4. \A k \in Keys(Top) : k \in Nat /\ Place(Top, promoted, scores, k) \in Nat
      <3>1. \A k \in Keys(Top) : \E j \in Keys(Top) : j # k
        <4>1. CASE Len(Order) >= 1
          BY <4>1, MenuAssumption DEF Keys, ValidMenus
        <4>2. CASE Len(Order) < 1
          BY <1>2, <2>1, <2>2, <4>2, MenuAssumption DEF ValidMenus
        <4> QED BY <4>1, <4>2, MenuAssumption DEF ValidMenus
      <3> QED BY <3>1, PlacesDiffer, KeysAreNumbers
    <2>5. \A j, k \in Keys(Top) :
              Place(Top, promoted, scores, j) = Place(Top, promoted, scores, k) => j = k
      BY PlacesDiffer
    <2> QED BY <2>1, <2>3, <2>4, <2>5
  <1> QED BY <1>1, <1>2

LEMMA NoKeys == SetToSeq({}) = <<>>
  <1>1. Cardinality({}) = 0
    BY FS_EmptySet
  <1>2. \A f \in [1 .. 0 -> {}] : f = <<>>
    OBVIOUS
  <1>3. <<>> \in [1 .. 0 -> {}] /\ IsInjective(<<>>)
    BY DEF IsInjective
  <1>4. SetToSeq({}) = CHOOSE f \in [1 .. 0 -> {}] : IsInjective(f)
    BY <1>1 DEF SetToSeq
  <1> QED BY <1>2, <1>3, <1>4

LEMMA OneKey == ASSUME NEW k PROVE SetToSeq({k}) = <<k>>
  <1>1. Cardinality({k}) = 1
    BY FS_Singleton
  <1>2. \A f \in [1 .. 1 -> {k}] : f = <<k>>
    OBVIOUS
  <1>3. <<k>> \in [1 .. 1 -> {k}] /\ IsInjective(<<k>>)
    BY DEF IsInjective
  <1>4. SetToSeq({k}) = CHOOSE f \in [1 .. 1 -> {k}] : IsInjective(f)
    BY <1>1 DEF SetToSeq
  <1> QED BY <1>2, <1>3, <1>4

\* Whoever ends the walk early has what was gathered on the way.
LEMMA GatheredIsEnough ==
    ASSUME NEW c \in Calls, NEW r \in OneRun, OnTheWay(r, c), r.outcome # "routed"
    PROVE  Arrived(r, c)
  <1>1. r.line \in Lines => QueueFor(r, c)[1] = r.line
    <2>1. CASE c.number.assumes
      <3>1. r.menu # Top /\ r.line = c.number.line /\ r.intent = NoIntent
        BY <2>1, StartMenus DEF OnTheWay
      <3>2. QueueFor(r, c) = <<c.number.line, 1>>
        BY <2>1, <3>1 DEF QueueFor
      <3> QED BY <3>1, <3>2
    <2>2. CASE ~c.number.assumes
      <3>1. QueueFor(r, c) = CatchAll(r.line)
        BY <2>2 DEF QueueFor, OnTheWay
      <3> QED BY <3>1 DEF CatchAll
    <2> QED BY <2>1, <2>2
  <1> QED BY <1>1 DEF Arrived, OnTheWay

\* Whatever is no option's key changes the counts only, or ends the walk.
LEMMA CountsChange ==
    ASSUME NEW c \in Calls, NEW r \in OneRun, RunFits(r, c), r.outcome = "none",
           NEW e \in OneRun, e.path = r.path, e.menu = r.menu, e.line = r.line,
           e.intent = r.intent, e.presented = r.presented,
           e.outcome \in {"none", "exhausted", "abandoned"}
    PROVE  RunFits(e, c)
  <1>1. OnTheWay(e, c) /\ KeysAreRead(e)
    BY DEF RunFits, OnTheWay, KeysAreRead
  <1> QED BY <1>1, GatheredIsEnough DEF RunFits

LEMMA WalkStarts ==
    ASSUME NEW c \in Calls PROVE RunFits(Begin(c), c) /\ Begin(c).path = <<>>
  <1>0. PICK l \in Lines \cup {Unknown}, i \in {NoIntent} \cup ((Lines \cup {Unknown}) \X Nat) :
           /\ i = c.known
           /\ l = IF c.known # NoIntent THEN c.known[1] ELSE c.number.line
           /\ i # NoIntent => l \in Lines /\ i[1] = l
           /\ i = NoIntent => c.scores \in Scores /\ c.renumber \in BOOLEAN
    <2>1. c.known = NoIntent \/ c.known \in Lines \X (1 .. Reasons)
      BY DEF Calls
    <2>2. CASE c.known = NoIntent
      <3>1. c.scores \in Scores /\ c.renumber \in BOOLEAN
        <4>1. \A x \in Lines \X (1 .. Reasons) : x # NoIntent
          BY DEF NoIntent
        <4>2. c \in [number : Numbers, known : {NoIntent}, scores : Scores, renumber : BOOLEAN]
          BY <2>2, <4>1 DEF Calls
        <4> QED BY <4>2
      <3> QED BY <2>2, <3>1, StartMenus
    <2>3. CASE c.known # NoIntent
      <3>1. c.known \in Lines \X Nat /\ c.known[1] \in Lines
        BY <2>1, <2>3
      <3> QED BY <2>3, <3>1
    <2> QED BY <2>2, <2>3
  <1>1. PICK f \in OneRun : f = Fresh(c)
    <2>1. Fresh(c) = [line |-> l, intent |-> i, menu |-> Top, presented |-> {}, path |-> <<>>,
                      attempts |-> 0, timeouts |-> 0, outcome |-> "none"]
      BY <1>0 DEF Fresh
    <2>2. <<>> \in Seq(Nat) /\ {} \in SUBSET [key : Nat, spoken : Nat] /\ Top \in MenuNames
      BY DEF MenuNames
    <2> QED BY <2>1, <2>2 DEF OneRun
  <1>2. /\ f.line = l /\ f.intent = i /\ f.menu = Top /\ f.presented = {} /\ f.path = <<>>
        /\ f.outcome = "none"
    BY <1>0, <1>1 DEF Fresh
  <1>3. CASE c.known # NoIntent
    <2>1. PICK r \in OneRun : r = [f EXCEPT !.outcome = "skipped"]
      BY DEF OneRun
    <2>2. r = Begin(c)
      BY <1>1, <1>3, <2>1 DEF Begin, Finish
    <2>3. /\ r.line = l /\ r.intent = i /\ r.path = <<>> /\ r.outcome = "skipped"
          /\ r.presented = {}
      BY <1>2, <2>1 DEF OneRun
    <2>4. QueueFor(r, c) = i /\ i[1] = l
      BY <1>0, <1>3, <2>3 DEF QueueFor
    <2>5. Arrived(r, c) /\ KeysAreRead(r)
      BY <2>3, <2>4 DEF Arrived, KeysAreRead
    <2> QED BY <2>2, <2>3, <2>5 DEF RunFits
  <1>4. CASE c.known = NoIntent
    <2>0. PICK m \in MenuNames : m = StartMenu(c)
      BY StartMenus DEF MenuNames
    <2>1. PICK s \in SUBSET [key : Nat, spoken : Nat] : s = Present(m, c.scores, c.renumber)
      BY <1>0, <1>4, PresentIsRead
    <2>2. /\ \A o \in s : o.key \in Keys(m)
          /\ \A o, q \in s : o.spoken = q.spoken => o.key = q.key
      BY <1>0, <1>4, <2>1, PresentIsRead
    <2>3. PICK r \in OneRun :
             r = [f EXCEPT !.menu = m, !.attempts = 0, !.timeouts = 0, !.presented = s]
      BY DEF OneRun
    <2>4. r = Begin(c)
      BY <1>1, <1>4, <2>0, <2>1, <2>3 DEF Begin, Enter
    <2>5. /\ r.line = c.number.line /\ r.intent = NoIntent /\ r.path = <<>> /\ r.outcome = "none"
          /\ r.presented = s /\ r.menu = m
      BY <1>0, <1>2, <1>4, <2>3 DEF OneRun
    <2>6. OnTheWay(r, c)
      BY <1>4, <2>0, <2>5, StartMenus DEF OnTheWay, FirstAsked
    <2>7. KeysAreRead(r)
      BY <2>2, <2>5 DEF KeysAreRead
    <2> QED BY <2>4, <2>5, <2>6, <2>7 DEF RunFits
  <1> QED BY <1>3, <1>4

\* The option is the one its key stood beside.
LEMMA OptionIsTaken ==
    ASSUME NEW c \in Calls, NEW r \in OneRun, RunFits(r, c), r.outcome = "none",
           NEW key \in Keys(r.menu), NEW digit
    PROVE  RunFits(OnOption(r, key, digit), c) /\ OnOption(r, key, digit).path = Append(r.path, key)
  <1>1. key \in Nat /\ r.path \in Seq(Nat)
    BY KeysAreNumbers DEF OneRun
  <1>2. PICK t \in OneRun : t = [r EXCEPT !.path = Append(@, key), !.timeouts = 0]
    <2>1. PICK s \in Seq(Nat) : s = Append(r.path, key)
      BY <1>1, AppendProperties
    <2>2. [r EXCEPT !.path = s, !.timeouts = 0] \in OneRun
      BY DEF OneRun
    <2> QED BY <2>1, <2>2
  <1>3. /\ t.path = Append(r.path, key) /\ t.line = r.line /\ t.intent = r.intent /\ t.menu = r.menu
        /\ t.outcome = "none"
    BY <1>2 DEF OneRun
  <1>4. CASE r.menu = Top
    <2>1. PICK m \in Lines \cup {Unknown} : m = LineOf(key) /\ m # Top
      BY <1>4, LinesOfKeys
    <2>2. PICK s \in SUBSET [key : Nat, spoken : Nat] : s = AsWritten(m)
      BY AsWrittenIsRead
    <2>3. PICK e \in OneRun : e = [t EXCEPT !.line = m, !.menu = m, !.attempts = 0, !.timeouts = 0,
                                            !.presented = s]
      BY DEF OneRun, MenuNames
    <2>4. e = OnOption(r, key, digit)
      BY <1>2, <1>4, <2>1, <2>2, <2>3 DEF OnOption, Enter, OneRun
    <2>5. /\ e.line = m /\ e.menu = m /\ e.presented = s /\ e.path = Append(r.path, key)
          /\ e.intent = r.intent /\ e.outcome = "none"
      BY <1>3, <2>3 DEF OneRun
    <2>6. r.path = <<>> /\ FirstAsked(c) = 1 /\ r.intent = NoIntent /\ c.known = NoIntent
      BY <1>4 DEF RunFits, OnTheWay
    <2>7. e.path = <<key>>
      BY <2>5, <2>6
    <2>8. OnTheWay(e, c)
      BY <2>1, <2>5, <2>6, <2>7 DEF OnTheWay
    <2>9. KeysAreRead(e)
      BY <2>2, <2>5, AsWrittenIsRead DEF KeysAreRead
    <2> QED BY <2>4, <2>5, <2>8, <2>9 DEF RunFits
  <1>5. CASE r.menu # Top
    <2>1. r.line = r.menu /\ r.menu \in Lines \cup {Unknown} /\ Len(r.path) = FirstAsked(c)
      BY <1>5 DEF RunFits, OnTheWay, OneRun, MenuNames
    <2>2. PICK e \in OneRun : e = [t EXCEPT !.intent = <<r.menu, key>>, !.line = r.menu,
                                            !.outcome = "routed"]
      BY <1>1, <2>1 DEF OneRun
    <2>3. e = OnOption(r, key, digit)
      BY <1>2, <1>3, <1>5, <2>1, <2>2 DEF OnOption, Finish, OneRun
    <2>4. /\ e.line = r.menu /\ e.menu = r.menu /\ e.presented = r.presented
          /\ e.path = Append(r.path, key) /\ e.intent = <<r.menu, key>> /\ e.outcome = "routed"
      BY <1>2, <1>3, <2>2 DEF OneRun
    <2>5. e.path[FirstAsked(c) + 1] = key
      BY <1>1, <2>1, <2>4
    <2>6. FirstAsked(c) = 1 => e.path[1] = r.path[1]
      BY <1>1, <2>1, <2>4
    <2>7. QueueFor(e, c) = <<r.menu, key>>
      BY <2>4 DEF QueueFor, NoIntent
    <2>8. Arrived(e, c)
      BY <1>5, <2>4, <2>5, <2>6, <2>7 DEF Arrived, RunFits, OnTheWay
    <2>9. KeysAreRead(e)
      BY <2>4 DEF KeysAreRead, RunFits
    <2> QED BY <2>3, <2>4, <2>8, <2>9 DEF RunFits
  <1> QED BY <1>4, <1>5

LEMMA WalkFitsStep == WalkFits /\ [Next]_vars => WalkFits'
  <1> SUFFICES ASSUME WalkFits, [Next]_vars PROVE WalkFits'
    OBVIOUS
  <1>1. CASE InMenu
    <2>0. stage = "menu" /\ stage' = "menu" /\ MenuStep
      BY <1>1 DEF InMenu
    <2>1. /\ call \in Calls /\ RunFits(run, call) /\ meant = run.path /\ run.outcome = "none"
          /\ call' = call /\ run \in OneRun
      BY <2>0 DEF WalkFits, MenuStep, Repeat, Press, Silence, HangUp, Backstop, Listens, Walking, Queued,
                  RunFits
    <2>2. ASSUME NEW n \in Nat, NEW m \in Nat, NEW kind \in {"none", "exhausted", "abandoned"},
                 run' = [run EXCEPT !.attempts = n, !.timeouts = m, !.outcome = kind],
                 meant' = meant
          PROVE  WalkFits'
      <3>1. RunFits(run', call) /\ run'.path = run.path
        <4>1. PICK e \in OneRun : e = [run EXCEPT !.attempts = n, !.timeouts = m, !.outcome = kind]
          BY <2>1 DEF OneRun
        <4>2. /\ e.path = run.path /\ e.menu = run.menu /\ e.line = run.line
              /\ e.intent = run.intent /\ e.presented = run.presented /\ e.outcome = kind
          BY <2>1, <4>1 DEF OneRun
        <4>3. RunFits(e, call)
          BY <2>1, <4>2, CountsChange
        <4> QED BY <2>2, <4>1, <4>2, <4>3
      <3> QED BY <2>0, <2>1, <2>2, <3>1 DEF WalkFits
    <2>3. run.attempts \in Nat /\ run.timeouts \in Nat /\ run.attempts + 1 \in Nat
          /\ run.timeouts + 1 \in Nat
      BY <2>1 DEF OneRun
    <2>4. CASE Repeat
      <3>1. run' = [run EXCEPT !.attempts = run.attempts, !.timeouts = 0, !.outcome = "none"]
        BY <2>1, <2>4 DEF Repeat, OneRun
      <3> QED BY <2>2, <2>3, <2>4, <3>1 DEF Repeat
    <2>5. CASE Silence \/ Backstop
      <3>1. meant' = meant /\ run' = OnTimeout(run)
        BY <2>5 DEF Silence, Backstop
      <3>2. PICK kind \in {"none", "exhausted"} :
                run' = [run EXCEPT !.attempts = run.attempts, !.timeouts = run.timeouts + 1,
                                   !.outcome = kind]
        BY <2>1, <3>1 DEF OnTimeout, Finish, OneRun
      <3> QED BY <2>2, <2>3, <3>1, <3>2
    <2>6. CASE HangUp
      <3>1. run' = [run EXCEPT !.attempts = run.attempts, !.timeouts = run.timeouts,
                               !.outcome = "abandoned"]
        BY <2>1, <2>6 DEF HangUp, Finish, OneRun
      <3> QED BY <2>2, <2>3, <2>6, <3>1 DEF HangUp
    <2>7. ASSUME NEW digit \in Digits, Press(digit) PROVE WalkFits'
      <3>1. CASE Resolve(run.presented, digit) = {}
        <4>1. meant' = meant
          <5>1. meant \in Seq(Nat)
            BY <2>1 DEF OneRun
          <5> QED BY <2>7, <3>1, <5>1, NoKeys DEF Press
        <4>2. PICK kind \in {"none", "exhausted"} :
                  run' = [run EXCEPT !.attempts = run.attempts + 1, !.timeouts = run.timeouts,
                                     !.outcome = kind]
          BY <2>1, <2>7, <3>1 DEF Press, OnWrongKey, Finish, OneRun
        <4> QED BY <2>2, <2>3, <4>1, <4>2
      <3>2. ASSUME NEW key \in Resolve(run.presented, digit), run' = OnOption(run, key, digit)
            PROVE  WalkFits'
        <4>1. Resolve(run.presented, digit) = {key} /\ key \in Keys(run.menu)
          BY <2>1, <3>2 DEF Resolve, RunFits, KeysAreRead
        <4>2. key \in Nat
          BY <4>1, KeysAreNumbers
        <4>3. meant' = meant \o <<key>>
          BY <2>7, <4>1, OneKey DEF Press
        <4>4. meant' = Append(run.path, key)
          BY <2>1, <4>2, <4>3 DEF OneRun
        <4>5. RunFits(run', call) /\ run'.path = Append(run.path, key)
          BY <2>1, <3>2, <4>1, OptionIsTaken
        <4> QED BY <2>0, <2>1, <4>4, <4>5 DEF WalkFits
      <3> QED BY <2>7, <3>1, <3>2 DEF Press
    <2> QED BY <2>0, <2>4, <2>5, <2>6, <2>7 DEF MenuStep
  <1>2. CASE StartIvr
    <2>1. meant = <<>> /\ meant' = meant /\ stage' = "menu" /\ call' \in Calls /\ run' = Begin(call')
      BY <1>2 DEF StartIvr, StartWalk, WalkFits
    <2> QED BY <2>1, WalkStarts DEF WalkFits
  <1>3. CASE Enqueue
    BY <1>3 DEF Enqueue, LetGo, WalkFits, Queued
  <1>4. CASE ~(InMenu \/ StartIvr \/ Enqueue)
    <2>1. UNCHANGED menuVars /\ (stage = "menu" => stage' = "menu")
      BY <1>4 DEF Next, vars, InReads, InApp, InWho, Identified, AskHours, Admit, StartTick, InTick
    <2> QED BY <2>1 DEF WalkFits, menuVars, Queued
  <1> QED BY <1>1, <1>2, <1>3, <1>4

\* Neither menu fails its caller: what is on the record of the spoken one is
\* what they meant and leads where they are routed (D81, D40), and the one on
\* the screen has a reason for everyone (D122, D123).
THEOREM MenusAlwaysWork == Spec => []MenusWork
  <1>1. Init => AppFits /\ WalkFits
    <2> SUFFICES ASSUME Init PROVE AppFits /\ WalkFits
      OBVIOUS
    <2>1. WalkFits
      BY DEF Init, MenuInit, WalkFits, Queued
    <2>2. app = Home
      BY DEF Init, AppInit, NoApp
    <2>3. stage = "app" => DOMAIN menus.root = MenuLines \cup {General}
                           /\ menus.reasons \in [MenuLines \cup {General} -> ReasonMenus]
      BY DEF Init, AppInit
    <2>4. \A m \in ReasonMenus : MenuIsValid(m)
      BY DEF ReasonMenus
    <2> QED BY <2>1, <2>2, <2>3, <2>4 DEF AppFits
  <1>2. AppFits /\ WalkFits /\ [Next]_vars => (AppFits /\ WalkFits)'
    BY AppFitsStep, WalkFitsStep
  <1>3. AppFits /\ WalkFits => MenusWork
    <2> SUFFICES ASSUME AppFits, WalkFits PROVE PathIsMeant /\ NobodyIsStuck
      BY DEF MenusWork
    <2>1. NobodyIsStuck
      BY DEF NobodyIsStuck, AppFits, Home
    <2>2. ASSUME ~Queued PROVE PathIsMeant
      <3>1. call \in Calls /\ run \in OneRun /\ RunFits(run, call) /\ meant = run.path
        BY <2>2 DEF WalkFits, RunFits
      <3>2. FirstAsked(call) = 1 /\ run.path # <<>> => run.menu = LineOf(run.path[1])
        BY <3>1 DEF RunFits, Arrived, OnTheWay
      <3>3. run.outcome = "routed" => run.intent = <<run.menu, run.path[FirstAsked(call) + 1]>>
        BY <3>1 DEF RunFits, Arrived
      <3>4. ~Walking /\ run.line \in Lines => QueueFor(run, call)[1] = run.line
        BY <3>1 DEF RunFits, Arrived, Walking
      <3> QED BY <3>1, <3>2, <3>3, <3>4 DEF PathIsMeant, FirstAsked
    <2> QED BY <2>1, <2>2 DEF PathIsMeant
  <1> QED BY <1>1, <1>2, <1>3, PTL DEF Spec

-----------------------------------------------------------------------------
(* The hours of a queue.                                                   *)

\* A moment is a day and a time of it, in one way.
LEMMA DayAndTime ==
    ASSUME NEW t \in Nat
    PROVE  /\ Day(t) \in Nat /\ t % DayLength \in 0 .. DayLength - 1
           /\ Day(t) * DayLength \in Nat /\ t = Day(t) * DayLength + (t % DayLength)
  BY HoursAssumption DEF Day

LEMMA OneDay ==
    ASSUME NEW d \in Nat, NEW r \in Nat, r < DayLength
    PROVE  /\ d * DayLength + r \in Nat
           /\ Day(d * DayLength + r) = d /\ (d * DayLength + r) % DayLength = r
  <1>0. DayLength \in Nat /\ DayLength > 0 /\ d * DayLength \in Nat
    BY HoursAssumption
  <1>1. PICK t \in Nat : t = d * DayLength + r
    BY <1>0
  <1>2. PICK q \in Nat, s \in Nat : q = Day(t) /\ s = t % DayLength /\ s < DayLength
                                    /\ t = q * DayLength + s /\ q * DayLength \in Nat
    <2>1. PICK q \in Nat : q = Day(t) /\ q * DayLength \in Nat
      BY <1>0, DayAndTime
    <2>2. PICK s \in Nat : s = t % DayLength /\ s < DayLength
      <3>1. t % DayLength \in 0 .. DayLength - 1
        BY DayAndTime
      <3>2. t % DayLength \in Nat /\ t % DayLength < DayLength
        BY <1>0, <3>1
      <3> QED BY <3>2
    <2>3. t = q * DayLength + s
      BY <2>1, <2>2, DayAndTime
    <2> QED BY <2>1, <2>2, <2>3
  <1>3. ~(q >= d + 1)
    <2> SUFFICES ASSUME q >= d + 1 PROVE FALSE
      OBVIOUS
    <2>1. (d + 1) * DayLength <= q * DayLength
      BY <1>0, TimesMonotone
    <2>2. (d + 1) * DayLength = d * DayLength + DayLength
      BY <1>0
    <2> QED BY <1>0, <1>1, <1>2, <2>1, <2>2
  <1>4. ~(d >= q + 1)
    <2> SUFFICES ASSUME d >= q + 1 PROVE FALSE
      OBVIOUS
    <2>1. (q + 1) * DayLength <= d * DayLength
      BY <1>0, TimesMonotone
    <2>2. (q + 1) * DayLength = q * DayLength + DayLength
      BY <1>0
    <2> QED BY <1>0, <1>1, <1>2, <2>1, <2>2
  <1>5. q = d
    BY <1>3, <1>4
  <1> QED BY <1>0, <1>1, <1>2, <1>5

LEMMA DayIsWithin ==
    ASSUME NEW t \in Nat, NEW n \in Nat
    PROVE  (n + 1) * DayLength \in Nat /\ (Day(t) <= n <=> t <= (n + 1) * DayLength - 1)
  <1>0. DayLength \in Nat /\ DayLength > 0 /\ (n + 1) * DayLength \in Nat
        /\ (n + 1) * DayLength = n * DayLength + DayLength /\ n * DayLength \in Nat
    BY HoursAssumption
  <1>1. PICK q \in Nat, s \in Nat : q = Day(t) /\ s < DayLength
                                    /\ t = q * DayLength + s /\ q * DayLength \in Nat
    <2>1. PICK q \in Nat : q = Day(t) /\ q * DayLength \in Nat
      BY <1>0, DayAndTime
    <2>2. PICK s \in Nat : s = t % DayLength /\ s < DayLength
      <3>1. t % DayLength \in 0 .. DayLength - 1
        BY DayAndTime
      <3>2. t % DayLength \in Nat /\ t % DayLength < DayLength
        BY <1>0, <3>1
      <3> QED BY <3>2
    <2>3. t = q * DayLength + s
      BY <2>1, <2>2, DayAndTime
    <2> QED BY <2>1, <2>2, <2>3
  <1>2. ASSUME q <= n PROVE t <= (n + 1) * DayLength - 1
    <2>1. q * DayLength <= n * DayLength
      BY <1>0, <1>2, TimesMonotone
    <2> QED BY <1>0, <1>1, <2>1
  <1>3. ASSUME ~(q <= n) PROVE ~(t <= (n + 1) * DayLength - 1)
    <2>1. (n + 1) * DayLength <= q * DayLength
      BY <1>0, <1>3, TimesMonotone
    <2> QED BY <1>0, <1>1, <2>1
  <1> QED BY <1>0, <1>1, <1>2, <1>3

LEMMA WindowsFit ==
    ASSUME NEW s \in Schedules, ~s.always, NEW d \in Nat, NEW w \in WindowsOn(s, d)
    PROVE  w[1] \in Nat /\ w[2] \in Nat /\ w[1] < w[2] /\ w[2] <= DayLength
  <1>1. d % WeekLength \in 0 .. WeekLength - 1
    BY HoursAssumption
  <1>2. s.weekly \in [0 .. WeekLength - 1 -> DayWindows]
    BY DEF Schedules
  <1>3. WindowsOn(s, d) \in DayWindows
    BY <1>1, <1>2 DEF WindowsOn
  <1>4. w \in Nat \X Nat /\ w[1] < w[2] /\ w[2] <= DayLength
    BY <1>3, HoursAssumption DEF ValidWindows
  <1> QED BY <1>4

\* The walk over the openings of the days ahead finds the first moment at
\* which the schedule, asked moment by moment, is open again.
LEMMA WalkFindsFirst ==
    ASSUME NEW s \in Schedules, NEW h, NEW t \in Nat, ~OpenAt(s, h, t)
    PROVE  NextOpen(s, h, t) = FirstOpen(s, h, t)
  <1> DEFINE days  == {d \in Day(t) .. Day(t) + Horizon : ~Holiday(s, h, d)}
             ahead == {c \in UNION {Openings(s, d) : d \in days} : c > t}
             last  == (Day(t) + Horizon + 1) * DayLength - 1
             later == {x \in t + 1 .. last : OpenAt(s, h, x)}
  <1>0. ~s.always /\ Day(t) \in Nat /\ Horizon \in Nat /\ DayLength \in Nat
        /\ Day(t) + Horizon \in Nat /\ last \in Int
    <2>1. ~s.always /\ Day(t) \in Nat /\ Horizon \in Nat /\ DayLength \in Nat
      BY DayAndTime, HoursAssumption DEF OpenAt
    <2>2. PICK n \in Nat : n = Day(t) + Horizon
      BY <2>1
    <2>3. (n + 1) * DayLength \in Nat
      BY DayIsWithin
    <2> QED BY <2>1, <2>2, <2>3
  <1>1. ASSUME NEW c \in ahead PROVE c \in later
    <2>1. PICK d \in days : c \in Openings(s, d)
      OBVIOUS
    <2>2. d \in Nat /\ d <= Day(t) + Horizon /\ ~Holiday(s, h, d)
      BY <1>0
    <2>3. PICK w \in WindowsOn(s, d) : c = d * DayLength + w[1]
      BY <2>1 DEF Openings
    <2>4. w[1] \in Nat /\ w[2] \in Nat /\ w[1] < w[2] /\ w[1] < DayLength
      BY <1>0, <2>2, WindowsFit
    <2>5. c \in Nat /\ Day(c) = d /\ c % DayLength = w[1]
      BY <2>2, <2>3, <2>4, OneDay
    <2>6. OpenAt(s, h, c)
      BY <2>2, <2>4, <2>5 DEF OpenAt
    <2>7. c <= last
      BY <1>0, <2>2, <2>5, DayIsWithin
    <2> QED BY <2>5, <2>6, <2>7
  <1>2. later \in SUBSET Nat
    BY <1>0
  <1>3. ASSUME later # {} PROVE Min(later) \in ahead /\ \A x \in later : Min(later) <= x
    <2>1. PICK m \in Nat : m = Min(later) /\ m \in later /\ \A x \in later : m <= x
      <3> HIDE DEF later
      <3> QED BY <1>2, <1>3, LeastIs
    <2>2. m >= t + 1 /\ m <= last /\ OpenAt(s, h, m)
      BY <1>0, <2>1
    <2>3. PICK w \in WindowsOn(s, Day(m)) : w[1] <= m % DayLength /\ m % DayLength < w[2]
      BY <1>0, <2>2 DEF OpenAt
    <2>4. ~Holiday(s, h, Day(m))
      BY <1>0, <2>2 DEF OpenAt
    <2>5. Day(m) \in Nat /\ m % DayLength \in 0 .. DayLength - 1 /\ Day(m) * DayLength \in Nat
          /\ m = Day(m) * DayLength + (m % DayLength)
      BY DayAndTime
    <2>6. w[1] \in Nat /\ w[2] \in Nat
      BY <1>0, <2>5, WindowsFit
    <2>7. w[1] = m % DayLength
      <3> SUFFICES ASSUME w[1] < m % DayLength PROVE FALSE
        BY <2>3, <2>5, <2>6
      <3>1. PICK r \in Nat : r = (m % DayLength) - 1
        BY <2>5, <2>6
      <3>2. m - 1 = Day(m) * DayLength + r /\ r < DayLength /\ w[1] <= r /\ r < w[2]
        <4>1. PICK z \in Nat : z = m % DayLength /\ z < DayLength
          <5>1. m % DayLength \in Nat /\ m % DayLength < DayLength
            BY <1>0, <2>5
          <5> QED BY <5>1
        <4>2. PICK e \in Nat : e = Day(m) * DayLength
          BY <2>5
        <4>3. m = e + z /\ r = z - 1 /\ w[1] < z /\ z < w[2]
          BY <2>3, <2>5, <3>1, <4>1, <4>2
        <4>4. m - 1 = e + r
          BY <4>3
        <4>5. r < DayLength /\ w[1] <= r /\ r < w[2]
          BY <1>0, <2>6, <4>1, <4>3
        <4> QED BY <4>2, <4>4, <4>5
      <3>3. Day(m - 1) = Day(m) /\ (m - 1) % DayLength = r /\ m - 1 \in Nat
        BY <2>5, <3>2, OneDay
      <3>4. OpenAt(s, h, m - 1)
        BY <2>3, <2>4, <3>2, <3>3 DEF OpenAt
      <3>5. m - 1 # t
        BY <3>4
      <3>6. m - 1 \in later
        BY <1>0, <2>2, <3>3, <3>4, <3>5
      <3> QED BY <2>1, <3>6
    <2>8. Day(m) <= Day(t) + Horizon
      BY <1>0, <2>2, DayIsWithin
    <2>9. Day(m) >= Day(t)
      <3> SUFFICES ASSUME Day(m) < Day(t) PROVE FALSE
        BY <1>0, <2>5
      <3>1. PICK n \in Nat : n + 1 = Day(t)
        <4>1. Day(t) - 1 \in Nat /\ (Day(t) - 1) + 1 = Day(t)
          BY <1>0, <2>5
        <4> QED BY <4>1
      <3>2. Day(m) <= n
        BY <1>0, <2>5, <3>1
      <3>3. m <= (n + 1) * DayLength - 1 /\ ~(t <= (n + 1) * DayLength - 1)
            /\ (n + 1) * DayLength \in Nat
        BY <1>0, <3>1, <3>2, DayIsWithin
      <3> QED BY <2>2, <3>3
    <2>10. Day(m) \in days
      BY <1>0, <2>4, <2>5, <2>8, <2>9
    <2>11. m \in Openings(s, Day(m))
      BY <2>3, <2>5, <2>7 DEF Openings
    <2>12. m \in ahead
      BY <1>0, <2>2, <2>10, <2>11
    <2> QED BY <2>1, <2>12
  <1>4. NextOpen(s, h, t) = IF ahead = {} THEN Never ELSE Min(ahead)
    BY DEF NextOpen
  <1>5. FirstOpen(s, h, t) = IF later = {} THEN Never ELSE Min(later)
    BY DEF FirstOpen
  <1> HIDE DEF ahead, later
  <1>6. CASE later = {}
    BY <1>1, <1>4, <1>5, <1>6
  <1>7. CASE later # {}
    <2>1. Min(later) \in ahead /\ \A x \in ahead : Min(later) <= x
      BY <1>1, <1>3, <1>7
    <2>2. ahead \in SUBSET Nat
      BY <1>1, <1>2
    <2>3. Min(ahead) \in ahead /\ \A x \in ahead : Min(ahead) <= x
      BY <2>1, <2>2, LeastIs
    <2>4. Min(ahead) = Min(later)
      <3>1. Min(ahead) \in Nat /\ Min(later) \in Nat
        BY <2>1, <2>2, <2>3
      <3>2. Min(ahead) <= Min(later) /\ Min(later) <= Min(ahead)
        BY <2>1, <2>3
      <3> QED BY <3>1, <3>2
    <2> QED BY <1>4, <1>5, <1>7, <2>1, <2>4
  <1> QED BY <1>6, <1>7

\* Whoever is turned away was told by the schedule they were turned away by.
AnsweredByHours ==
    stage = "voicemail" =>
        /\ asked.schedule \in Schedules /\ asked.at \in Nat
        /\ ~OpenAt(asked.schedule, asked.holidays, asked.at)
        /\ told.next = NextOpen(asked.schedule, asked.holidays, asked.at)

\* A caller outside hours is told when the queue really opens next, for every
\* schedule and calendar and at every moment: not a holiday, not a moment gone
\* by, and no later opening than the first.
THEOREM CallersAreToldTheFirst == Spec => []NextOpenIsFirst
  <1>1. Init => AnsweredByHours
    BY DEF Init, AnsweredByHours
  <1>2. AnsweredByHours /\ [Next]_vars => AnsweredByHours'
    <2> SUFFICES ASSUME AnsweredByHours, [Next]_vars PROVE AnsweredByHours'
      OBVIOUS
    <2>1. CASE AskHours
      <3>1. PICK s \in Schedules, h \in HolidaySets, t \in 0 .. MaxTime :
               /\ asked' = [schedule |-> s, holidays |-> h, at |-> t]
               /\ told' = State(s, h, t)
               /\ stage' = "voicemail" => ~told'.open
        BY <2>1 DEF AskHours
      <3>2. ASSUME stage' = "voicemail"
            PROVE  ~OpenAt(s, h, t) /\ told'.next = NextOpen(s, h, t)
        BY <3>1, <3>2 DEF State
      <3>3. t \in Nat
        BY PlaceAssumption
      <3> QED BY <3>1, <3>2, <3>3 DEF AnsweredByHours
    <2>2. CASE ~AskHours
      <3>1. stage' = "voicemail" => stage = "voicemail" /\ UNCHANGED <<asked, told>>
        BY <2>2 DEF Next, vars, InReads, InApp, InWho, Identified, StartIvr, InMenu,
                    Enqueue, Admit, StartTick, InTick
      <3> QED BY <3>1 DEF AnsweredByHours
    <2> QED BY <2>1, <2>2
  <1>3. AnsweredByHours => NextOpenIsFirst
    BY WalkFindsFirst DEF AnsweredByHours, NextOpenIsFirst
  <1> QED BY <1>1, <1>2, <1>3, PTL DEF Spec

-----------------------------------------------------------------------------
(* The wait ceiling.                                                       *)

Decision == [kind : {"assign", "fallback", "defer", "unplaced"}, agent : Desks \cup {0}]

\* The calls looked at so far come before the rest, and the one that got
\* nobody found everyone it could have with one before it.
RescueFits ==
    /\ DOMAIN rescued \subseteq Starved
    /\ \A c \in DOMAIN rescued, d \in Starved \ DOMAIN rescued : Before(c, d)
    /\ \A c \in DOMAIN rescued : rescued[c] \in Qualified(c) \cup {0}
    /\ \A c, d \in DOMAIN rescued : c # d /\ rescued[c] # 0 => rescued[c] # rescued[d]
    /\ \A c \in DOMAIN rescued : rescued[c] = 0 =>
          \A a \in Qualified(c) : \E d \in DOMAIN rescued : Before(d, c) /\ rescued[d] = a

\* A rescued call has its desk, which no other call is given.
DecisionsFit ==
    /\ decisions \in Seq(Decision)
    /\ \A c \in 1 .. Len(decisions) : IsRescued(c) => decisions[c].agent = rescued[c]
    /\ \A c \in 1 .. Len(decisions) : ~IsRescued(c) => decisions[c].agent \notin Reserved

TickFits ==
    /\ pc \in {"idle", "rescue", "rows", "grow", "walk", "decide", "done"}
    /\ pc # "idle" => IsFloor(floor) /\ RescueFits /\ DecisionsFit
    /\ pc \notin {"idle", "rescue"} => DOMAIN rescued = Starved
    /\ pc \notin {"idle", "decide", "done"} => decisions = <<>>
    /\ pc = "done" => Len(decisions) = Len(floor.calls)

LEMMA FitsAreNumbers ==
    ASSUME IsFloor(floor), NEW c \in Callers
    PROVE  /\ Len(floor.fit[1]) \in Nat /\ Desks \subseteq Nat \ {0}
           /\ \A a \in Qualified(c) : a \in Desks /\ floor.fit[c][a] \in 0 .. TopFit
  <1>1. c \in 1 .. Len(floor.fit) /\ 1 \in 1 .. Len(floor.fit)
    BY DEF IsFloor, Callers
  <1>2. floor.fit[c] \in Seq((0 .. TopFit) \cup {Unfit}) /\ floor.fit[1] \in Seq((0 .. TopFit) \cup {Unfit})
        /\ Len(floor.fit[c]) = Len(floor.fit[1])
    BY <1>1 DEF IsFloor
  <1>3. Len(floor.fit[1]) \in Nat
    BY <1>2
  <1>4. \A a \in Desks : floor.fit[c][a] \in (0 .. TopFit) \cup {Unfit}
    BY <1>2 DEF Desks
  <1> QED BY <1>3, <1>4 DEF Desks, Qualified

\* What a tick that leaves the floor and the rescue alone leaves alone with them.
LEMMA FloorStays ==
    ASSUME floor' = floor, rescued' = rescued
    PROVE  /\ Starved' = Starved /\ Desks' = Desks /\ Reserved' = Reserved /\ Decision' = Decision
           /\ RescueFits => RescueFits'
           /\ \A c : IsRescued(c)' <=> IsRescued(c)
  <1>1. Starved' = Starved /\ Desks' = Desks /\ Reserved' = Reserved
    BY DEF Starved, Callers, Wait, Tier, Desks, Reserved
  <1>2. Decision' = Decision
    BY <1>1 DEF Decision
  <1>3. RescueFits => RescueFits'
    BY <1>1 DEF RescueFits, Before, Qualified, Tier, Wait, Desks
  <1>4. \A c : IsRescued(c)' <=> IsRescued(c)
    BY DEF IsRescued
  <1> QED BY <1>1, <1>2, <1>3, <1>4

LEMMA RescueKeepsOrder == TickFits /\ Rescue => TickFits'
  <1> SUFFICES ASSUME TickFits, Rescue PROVE TickFits'
    OBVIOUS
  <1> DEFINE dom == DOMAIN rescued
  <1>1. /\ pc = "rescue" /\ pc' = "rescue" /\ floor' = floor /\ decisions' = decisions
        /\ IsFloor(floor) /\ RescueFits /\ decisions = <<>>
    BY DEF Rescue, TickFits, solverVars
  <1>2. PICK c \in Starved \ dom :
           /\ First(c, Starved \ dom)
           /\ LET options == Qualified(c) \ Reserved
                  least   == {a \in options : \A b \in options : floor.fit[c][a] <= floor.fit[c][b]}
              IN  rescued' = [d \in dom \cup {c} |->
                                 IF d # c THEN rescued[d]
                                 ELSE IF options = {} THEN 0 ELSE Min(least)]
    BY DEF Rescue
  <1> DEFINE options == Qualified(c) \ Reserved
             least   == {a \in options : \A b \in options : floor.fit[c][a] <= floor.fit[c][b]}
  <1>3. c \in Callers /\ c \notin dom
    BY DEF Starved
  <1>4. PICK g : /\ g = IF options = {} THEN 0 ELSE Min(least)
                 /\ rescued' = [d \in dom \cup {c} |-> IF d # c THEN rescued[d] ELSE g]
    BY <1>2
  <1>5. options = {} => g = 0
    BY <1>4
  <1>6. options # {} => g \in options
    <2> SUFFICES ASSUME options # {} PROVE g \in options
      OBVIOUS
    <2> DEFINE fits == {floor.fit[c][a] : a \in options}
    <2>1. options \subseteq Nat /\ fits \in SUBSET Nat /\ fits # {}
      BY <1>1, <1>3, FitsAreNumbers
    <2>2. Min(fits) \in fits /\ \A x \in fits : Min(fits) <= x
      <3> HIDE DEF fits
      <3> QED BY <2>1, LeastIs
    <2>3. PICK a \in options : floor.fit[c][a] = Min(fits)
      BY <2>2
    <2>4. \A b \in options : floor.fit[c][b] \in fits
      OBVIOUS
    <2>5. a \in least
      <3> HIDE DEF fits
      <3> QED BY <2>2, <2>3, <2>4
    <2>6. least \in SUBSET Nat /\ least # {} /\ least \subseteq options
      BY <2>1, <2>5
    <2>7. Min(least) \in least
      <3> HIDE DEF least
      <3> QED BY <2>6, LeastIs
    <2> QED BY <1>4, <2>6, <2>7
  <1>7. options \subseteq Qualified(c) /\ \A a \in options : \A d \in dom : rescued[d] # a \/ a = 0
    BY DEF Reserved, Range
  <1>8. 0 \notin Qualified(c) /\ \A a \in Qualified(c) \ options : \E d \in dom : rescued[d] = a
    BY <1>1, <1>3, FitsAreNumbers DEF Reserved, Range
  <1>9. /\ DOMAIN rescued' = dom \cup {c} /\ rescued'[c] = g
        /\ \A d \in dom : rescued'[d] = rescued[d]
    BY <1>3, <1>4
  <1> HIDE DEF options, least
  <1>10. /\ DOMAIN rescued' \subseteq Starved
         /\ \A e \in DOMAIN rescued', d \in Starved \ DOMAIN rescued' : Before(e, d)
    BY <1>1, <1>2, <1>9 DEF RescueFits, First
  <1>11. \A e \in DOMAIN rescued' : rescued'[e] \in Qualified(e) \cup {0}
    BY <1>1, <1>5, <1>6, <1>7, <1>9 DEF RescueFits
  <1>12. \A e, d \in DOMAIN rescued' : e # d /\ rescued'[e] # 0 => rescued'[e] # rescued'[d]
    <2>1. \A d \in dom : g # 0 => rescued[d] # g
      BY <1>5, <1>6, <1>7
    <2> QED BY <1>1, <1>9, <2>1 DEF RescueFits
  <1>13. \A e \in DOMAIN rescued' : rescued'[e] = 0 =>
            \A a \in Qualified(e) : \E d \in DOMAIN rescued' : Before(d, e) /\ rescued'[d] = a
    <2>1. ASSUME g = 0, NEW a \in Qualified(c)
          PROVE  \E d \in DOMAIN rescued' : Before(d, c) /\ rescued'[d] = a
      <3>1. options = {}
        BY <1>6, <1>7, <1>8, <2>1
      <3>2. PICK d \in dom : rescued[d] = a
        BY <1>8, <3>1
      <3>3. Before(d, c)
        BY <1>1, <1>2, <3>2 DEF RescueFits
      <3> QED BY <1>9, <3>2, <3>3
    <2>2. ASSUME NEW e \in dom, rescued[e] = 0, NEW a \in Qualified(e)
          PROVE  \E d \in DOMAIN rescued' : Before(d, e) /\ rescued'[d] = a
      <3>1. PICK d \in dom : Before(d, e) /\ rescued[d] = a
        BY <1>1, <2>2 DEF RescueFits
      <3> QED BY <1>9, <3>1
    <2> QED BY <1>9, <2>1, <2>2
  <1>14. /\ Starved' = Starved /\ Decision' = Decision
         /\ \A e, d : Before(e, d)' <=> Before(e, d)
         /\ \A e : Qualified(e)' = Qualified(e)
    BY <1>1 DEF Starved, Callers, Wait, Tier, Decision, Desks, Before, Qualified
  <1>15. RescueFits'
    BY <1>10, <1>11, <1>12, <1>13, <1>14 DEF RescueFits
  <1>16. DecisionsFit'
    BY <1>1 DEF DecisionsFit
  <1> QED BY <1>1, <1>15, <1>16 DEF TickFits

LEMMA DecideKeepsRescue == TickFits /\ Decide => TickFits'
  <1> SUFFICES ASSUME TickFits, Decide PROVE TickFits'
    OBVIOUS
  <1>1. /\ pc = "decide" /\ floor' = floor /\ rescued' = rescued /\ IsFloor(floor)
        /\ RescueFits /\ DecisionsFit /\ DOMAIN rescued = Starved /\ decisions \in Seq(Decision)
    BY DEF Decide, TickFits, DecisionsFit
  <1>2. PICK c \in Nat : c = Len(decisions) + 1
    BY <1>1
  <1>3. PICK e \in Decision :
           /\ decisions' = Append(decisions, e)
           /\ IsRescued(c) => e.agent = rescued[c]
           /\ ~IsRescued(c) => e.agent \notin Reserved
    <2>1. PICK given : /\ given = IF IsRescued(c) THEN {rescued[c]} ELSE Assignment(c)
                       /\ \/ given = {} /\ decisions' = Append(decisions, Unplaced)
                          \/ \E a \in given :
                                LET kind == IF IsRescued(c) THEN "fallback" ELSE Guard(c, a)
                                IN  decisions' = Append(decisions,
                                        [kind |-> kind, agent |-> IF kind = "defer" THEN 0 ELSE a])
      BY <1>2 DEF Decide
    <2>2. 0 \notin Reserved
      BY DEF Reserved
    <2>3. CASE given = {} /\ decisions' = Append(decisions, Unplaced)
      <3>1. ~IsRescued(c)
        BY <2>1, <2>3
      <3> QED BY <2>2, <2>3, <3>1 DEF Decision, Unplaced
    <2>4. ASSUME NEW a \in given,
                 LET kind == IF IsRescued(c) THEN "fallback" ELSE Guard(c, a)
                 IN  decisions' = Append(decisions,
                         [kind |-> kind, agent |-> IF kind = "defer" THEN 0 ELSE a])
          PROVE  \E e \in Decision :
                    /\ decisions' = Append(decisions, e)
                    /\ IsRescued(c) => e.agent = rescued[c]
                    /\ ~IsRescued(c) => e.agent \notin Reserved
      <3>1. CASE IsRescued(c)
        <4>1. a = rescued[c] /\ a \in Desks
          BY <1>1, <2>1, <3>1 DEF IsRescued, RescueFits, Qualified
        <4>2. decisions' = Append(decisions, [kind |-> "fallback", agent |-> a])
          BY <2>4, <3>1
        <4> QED BY <3>1, <4>1, <4>2 DEF Decision
      <3>2. CASE ~IsRescued(c)
        <4>1. a \in Desks /\ Remaining(c, a) > Impossible
          BY <2>1, <3>2 DEF Assignment
        <4>2. a \notin Reserved
          BY <4>1, MatchingAssumption DEF Remaining
        <4>3. PICK kind \in {"assign", "fallback", "defer"} : kind = Guard(c, a)
          BY DEF Guard
        <4>4. PICK g \in Desks \cup {0} : g = IF kind = "defer" THEN 0 ELSE a
          BY <4>1
        <4>5. decisions' = Append(decisions, [kind |-> kind, agent |-> g]) /\ g \notin Reserved
          BY <2>2, <2>4, <3>2, <4>2, <4>3, <4>4
        <4> QED BY <3>2, <4>5 DEF Decision
      <3> QED BY <3>1, <3>2
    <2> QED BY <2>1, <2>3, <2>4
  <1>4. decisions' \in Seq(Decision) /\ Len(decisions') = c
        /\ decisions'[c] = e /\ \A d \in 1 .. Len(decisions) : decisions'[d] = decisions[d]
    BY <1>1, <1>2, <1>3
  <1>5. \A d \in 1 .. Len(decisions') : d = c \/ d \in 1 .. Len(decisions)
    BY <1>1, <1>2, <1>4
  <1>6. /\ Starved' = Starved /\ Decision' = Decision /\ Reserved' = Reserved /\ RescueFits'
        /\ \A d : IsRescued(d)' <=> IsRescued(d)
    BY <1>1, FloorStays
  <1>7. /\ \A d \in 1 .. Len(decisions') : IsRescued(d) => decisions'[d].agent = rescued[d]
        /\ \A d \in 1 .. Len(decisions') : ~IsRescued(d) => decisions'[d].agent \notin Reserved
    BY <1>1, <1>3, <1>4, <1>5 DEF DecisionsFit
  <1>8. DecisionsFit'
    BY <1>1, <1>4, <1>6, <1>7 DEF DecisionsFit
  <1>9. pc' \in {"decide", "done"} /\ (pc' = "done" => Len(decisions') = Len(floor.calls))
    BY <1>2, <1>4 DEF Decide
  <1> QED BY <1>1, <1>6, <1>8, <1>9 DEF TickFits

LEMMA TickFitsStep == TickFits /\ [Next]_vars => TickFits'
  <1> SUFFICES ASSUME TickFits, [Next]_vars PROVE TickFits'
    OBVIOUS
  <1>1. CASE StartTick
    <2>1. PICK f \in Floors : Tick(f)
      BY <1>1 DEF StartTick
    <2>2. floor' = f /\ pc' = "rescue" /\ rescued' = <<>> /\ decisions' = <<>> /\ IsFloor(f)
      BY <2>1, PlaceAssumption DEF Tick
    <2>3. DOMAIN rescued' = {}
      BY <2>2
    <2>4. RescueFits' /\ DecisionsFit'
      BY <2>2, <2>3 DEF RescueFits, DecisionsFit
    <2> QED BY <2>2, <2>4 DEF TickFits
  <1>2. CASE InTick
    <2>1. CASE StartSolver \/ AddRow \/ Grow \/ Rematch \/ Solved
      <3>1. /\ pc \in {"rescue", "rows", "grow", "walk"} /\ pc' \in {"rows", "grow", "walk", "decide"}
            /\ floor' = floor /\ rescued' = rescued /\ decisions' = decisions
            /\ pc = "rescue" => Starved \subseteq DOMAIN rescued
        BY <2>1 DEF StartSolver, AddRow, Grow, Rematch, Solved, solverVars
      <3>2. DOMAIN rescued = Starved
        BY <3>1 DEF TickFits, RescueFits
      <3>3. /\ Starved' = Starved /\ Decision' = Decision /\ Reserved' = Reserved /\ RescueFits'
            /\ \A d : IsRescued(d)' <=> IsRescued(d)
        BY <3>1, FloorStays DEF TickFits
      <3>4. decisions = <<>> /\ DecisionsFit'
        BY <3>1, <3>3 DEF TickFits, DecisionsFit
      <3> QED BY <3>1, <3>2, <3>3, <3>4 DEF TickFits
    <2> QED BY <1>2, <2>1, RescueKeepsOrder, DecideKeepsRescue DEF InTick, MatchStep
  <1>3. CASE ~(StartTick \/ InTick)
    <2>1. floor' = floor /\ rescued' = rescued /\ decisions' = decisions /\ pc' = pc
      BY <1>3 DEF Next, vars, matchVars, InReads, InApp, InWho, Identified, StartIvr, InMenu,
                  Enqueue, AskHours, Admit
    <2>2. /\ Starved' = Starved /\ Decision' = Decision /\ Reserved' = Reserved
          /\ RescueFits => RescueFits'
          /\ \A d : IsRescued(d)' <=> IsRescued(d)
      BY <2>1, FloorStays
    <2>3. DecisionsFit => DecisionsFit'
      BY <2>1, <2>2 DEF DecisionsFit
    <2> QED BY <2>1, <2>2, <2>3 DEF TickFits
  <1> QED BY <1>1, <1>2, <1>3

\* Past its tier's ceiling a call gets somebody who is given no other call,
\* unless everyone who could take it went to callers with a better claim to
\* the same promise: whatever the solver makes of the rest (B13, D93, D94).
THEOREM CeilingIsAlwaysKept == Spec => []CeilingIsKept
  <1>1. Init => TickFits
    BY DEF Init, MatchInit, TickFits
  <1>2. TickFits /\ [Next]_vars => TickFits'
    BY TickFitsStep
  <1>3. TickFits => CeilingIsKept
    <2> SUFFICES ASSUME TickFits, pc = "done", NEW c \in Starved
                 PROVE  \/ Served(c)
                        \/ \A a \in Qualified(c) :
                              \E d \in Starved : Before(d, c) /\ decisions[d].agent = a
      BY DEF CeilingIsKept
    <2>1. /\ IsFloor(floor) /\ RescueFits /\ DecisionsFit /\ DOMAIN rescued = Starved
          /\ Callers = 1 .. Len(decisions) /\ c \in Callers /\ Starved \subseteq Callers
      BY DEF TickFits, Callers, Starved
    <2>2. CASE rescued[c] # 0
      <3>1. IsRescued(c) /\ decisions[c].agent = rescued[c] /\ rescued[c] \in Qualified(c)
            /\ rescued[c] \in Reserved
        BY <2>1, <2>2 DEF IsRescued, DecisionsFit, RescueFits, Reserved, Range
      <3>2. ASSUME NEW d \in Callers \ {c} PROVE decisions[d].agent # rescued[c]
        BY <2>1, <2>2, <3>1 DEF IsRescued, DecisionsFit, RescueFits
      <3> QED BY <3>1, <3>2 DEF Served
    <2>3. CASE rescued[c] = 0
      <3> SUFFICES ASSUME NEW a \in Qualified(c)
                   PROVE  \E d \in Starved : Before(d, c) /\ decisions[d].agent = a
        OBVIOUS
      <3>1. PICK d \in Starved : Before(d, c) /\ rescued[d] = a
        BY <2>1, <2>3 DEF RescueFits
      <3>2. a # 0
        BY <2>1, FitsAreNumbers
      <3>3. decisions[d].agent = a
        BY <2>1, <3>1, <3>2 DEF IsRescued, DecisionsFit
      <3> QED BY <3>1, <3>3
    <2> QED BY <2>2, <2>3
  <1> QED BY <1>1, <1>2, <1>3, PTL DEF Spec

-----------------------------------------------------------------------------
(* The assignment solver.                                                  *)

LEMMA SizeIs ==
    ASSUME IsFloor(floor)
    PROVE  /\ Len(floor.calls) \in Nat \ {0} /\ Len(floor.fit[1]) \in Nat
           /\ Size \in Nat \ {0} /\ Len(floor.calls) <= Size /\ Len(floor.fit[1]) <= Size
           /\ Size = Len(floor.calls) \/ Size = Len(floor.fit[1])
           /\ Callers \subseteq 1 .. Size /\ Desks \subseteq 1 .. Size
           /\ IsFiniteSet(Callers) /\ IsFiniteSet(Desks)
           /\ Cardinality(Callers) = Len(floor.calls)
  <1>1. Len(floor.calls) \in Nat \ {0}
    <2>1. floor.calls \in Seq([tier : DOMAIN Ceiling, wait : Nat]) /\ floor.calls # <<>>
      BY DEF IsFloor
    <2> QED BY <2>1
  <1>2. Len(floor.fit[1]) \in Nat
    <2>1. 1 \in Callers
      BY <1>1 DEF Callers
    <2> QED BY <2>1, FitsAreNumbers
  <1>3. Size = IF Len(floor.calls) >= Len(floor.fit[1]) THEN Len(floor.calls) ELSE Len(floor.fit[1])
    <2>1. PICK a \in Int, b \in Int : a = Len(floor.calls) /\ b = Len(floor.fit[1])
      BY <1>1, <1>2
    <2>2. Max({a, b}) = IF a >= b THEN a ELSE b
      BY OfTwo
    <2> QED BY <2>1, <2>2 DEF Size
  <1>4. /\ IsFiniteSet(1 .. Len(floor.calls)) /\ IsFiniteSet(1 .. Len(floor.fit[1]))
        /\ Cardinality(1 .. Len(floor.calls)) = Len(floor.calls)
    <2>1. ASSUME NEW n \in Nat PROVE IsFiniteSet(1 .. n) /\ Cardinality(1 .. n) = n
      BY FS_Interval
    <2> QED BY <1>1, <1>2, <2>1
  <1> QED BY <1>1, <1>2, <1>3, <1>4 DEF Callers, Desks

LEMMA UrgencyIs ==
    ASSUME IsFloor(floor), NEW c \in Callers
    PROVE  Urgency(c) \in 1 .. MaxMultiplier
  <1>1. Wait(c) \in Nat /\ Tier(c) \in Nat
    <2>1. PICK calls \in Seq([tier : DOMAIN Ceiling, wait : Nat]) : calls = floor.calls
      BY DEF IsFloor
    <2>2. calls[c] \in [tier : DOMAIN Ceiling, wait : Nat]
      BY <2>1, ElementOfSeq DEF Callers
    <2> QED BY <2>1, <2>2, MatchingAssumption DEF Wait, Tier, ValidWeights
  <1>2. Sla \in Nat \ {0} /\ MaxMultiplier \in Nat \ {0}
    BY MatchingAssumption DEF ValidWeights
  <1>3. PICK w \in Int : w = Wait(c) \div Sla
    BY <1>1, <1>2
  <1>4. PICK pressure \in Int : pressure = Min({w, 2})
    BY <1>3, OfTwo
  <1>5. PICK breach \in Int : breach = IF Wait(c) >= Sla THEN 1 ELSE 0
    OBVIOUS
  <1>6. PICK raw \in Int : raw = 1 + pressure + breach + Tier(c)
    BY <1>1, <1>4, <1>5
  <1>7. PICK capped \in Int : capped = Min({raw, MaxMultiplier}) /\ capped <= MaxMultiplier
    BY <1>2, <1>6, OfTwo
  <1>8. Urgency(c) = Max({1, capped})
    BY <1>3, <1>4, <1>5, <1>6, <1>7 DEF Urgency
  <1>9. Max({1, capped}) = IF 1 >= capped THEN 1 ELSE capped
    BY <1>7, OfTwo
  <1> QED BY <1>2, <1>7, <1>8, <1>9

\* What a pair that may be can score.
PairScores == 0 .. TopFit * MaxMultiplier

LEMMA ScoresAre ==
    ASSUME IsFloor(floor)
    PROVE  /\ Impossible \in Int /\ TopFit * MaxMultiplier \in Nat
           /\ Len(floor.calls) * (TopFit * MaxMultiplier) < -Impossible /\ Impossible < 0
           /\ \A c \in Callers, a \in Desks : Remaining(c, a) \in PairScores \cup {Impossible}
  <1>1. TopFit \in Nat /\ MaxMultiplier \in Nat \ {0} /\ Impossible \in Int
    BY MatchingAssumption DEF ValidWeights
  <1>2. PICK top \in Nat : top = TopFit * MaxMultiplier
    BY <1>1
  <1>3. Len(floor.calls) * top < -Impossible
    BY <1>2 DEF IsFloor
  <1>4. Impossible < 0
    <2>1. Len(floor.calls) * top \in Nat
      BY <1>2, SizeIs
    <2> QED BY <1>1, <1>3, <2>1
  <1>5. ASSUME NEW c \in Callers, NEW a \in Desks PROVE Remaining(c, a) \in PairScores \cup {Impossible}
    <2>1. CASE a \in Qualified(c)
      <3>1. PICK f \in 0 .. TopFit : f = floor.fit[c][a]
        BY <2>1, FitsAreNumbers
      <3>2. PICK g \in 1 .. MaxMultiplier : g = Urgency(c)
        BY UrgencyIs
      <3>3. f * g <= TopFit * g /\ f * g \in Int /\ TopFit * g \in Int
        BY <1>1, TimesMonotone
      <3>4. TopFit * g <= TopFit * MaxMultiplier
        BY <1>1, TimesMonotone
      <3>5. f * g >= 0
        <4>1. f \in Nat /\ g \in Nat
          BY <1>1
        <4> QED BY <4>1
      <3>6. f * g \in PairScores
        BY <1>2, <3>3, <3>4, <3>5 DEF PairScores
      <3> QED BY <2>1, <3>1, <3>2, <3>6 DEF Remaining, Score
    <2> QED BY <2>1 DEF Remaining, Score
  <1> QED BY <1>1, <1>2, <1>3, <1>4, <1>5

LEMMA CostIs ==
    ASSUME IsFloor(floor), NEW i, NEW j
    PROVE  Cost(i, j) \in Int
  <1>1. CASE i \in Callers /\ j \in Desks
    <2>1. Remaining(i, j) \in Int
      BY <1>1, ScoresAre DEF PairScores
    <2> QED BY <1>1, <2>1 DEF Cost
  <1> QED BY <1>1 DEF Cost

LEMMA CostStays ==
    ASSUME floor' = floor, rescued' = rescued
    PROVE  /\ Size' = Size /\ Callers' = Callers /\ Desks' = Desks
           /\ \A c, a : Remaining(c, a)' = Remaining(c, a)
           /\ \A i, j : Cost(i, j)' = Cost(i, j)
  <1>1. Size' = Size /\ Callers' = Callers /\ Desks' = Desks
    BY DEF Size, Callers, Desks
  <1>2. ASSUME NEW c, NEW a PROVE Remaining(c, a)' = Remaining(c, a)
    BY DEF Remaining, Score, IsRescued, Reserved, Urgency, Wait, Tier, Qualified, Desks
  <1>3. ASSUME NEW i, NEW j PROVE Cost(i, j)' = Cost(i, j)
    BY <1>1, <1>2 DEF Cost
  <1> QED BY <1>1, <1>2, <1>3

\* p pairs every row up to r with one column of C.
Pairs(C, r) ==
    /\ \A j \in C : p[j] \in 0 .. r
    /\ \A i \in 1 .. r : \E j \in C : p[j] = i
    /\ \A j, k \in C : p[j] = p[k] /\ p[j] # 0 => j = k

\* What a pair costs beyond its prices.
Slack(i, j) == Cost(i, j) - u[i] - v[j]

\* No pair of the rows up to r costs less than its prices, and the pairs that p
\* makes in the columns C cost no more.
Feasible(r) == \A i \in 1 .. r, j \in 1 .. Size : Slack(i, j) >= 0

Tight(C) == \A j \in C : p[j] # 0 => Slack(p[j], j) = 0

\* From each column of K way leads back to 0, over pairs that cost no more than
\* their prices.
Tree(K, rank) ==
    /\ 0 \in K /\ K \subseteq 0 .. Size
    /\ \A j \in K \ {0} :
          way[j] \in K /\ rank[way[j]] < rank[j] /\ p[way[j]] # 0 /\ Slack(p[way[j]], j) = 0

Ranks == [0 .. Size -> Nat]

\* minv is the least slack of a column to the rows reached, and way says to which.
Distances ==
    \A j \in (1 .. Size) \ used :
        /\ minv[j] \in Int /\ way[j] \in used /\ minv[j] = Slack(p[way[j]], j)
        /\ \A k \in used : minv[j] <= Slack(p[k], j)

SolverTypes ==
    /\ row \in 0 .. Size /\ col \in 0 .. Size /\ used \subseteq 0 .. Size
    /\ u \in [0 .. Size -> Int] /\ v \in [0 .. Size -> Int]
    /\ p \in [0 .. Size -> 0 .. Size] /\ way \in [0 .. Size -> 0 .. Size]

\* The rows up to r are matched as cheaply as can be.
Matched(r) == Pairs(1 .. Size, r) /\ Feasible(r) /\ Tight(1 .. Size)

\* A row has no column yet: the column 0 stands for it.
NewRow == used = {} /\ col = 0 /\ Feasible(row - 1) /\ \A j \in 1 .. Size : minv[j] = Infinite

\* Or the columns in used have been reached, and col is the next.
Reaching ==
    /\ col \notin used /\ col # 0 /\ Feasible(row) /\ Distances
    /\ \A k \in used : p[k] # 0
    /\ \E rank \in Ranks : Tree(used \cup {col}, rank)

Growing ==
    /\ row > 0 /\ p[0] = row /\ p[col] # 0 /\ Pairs(0 .. Size, row) /\ Tight(1 .. Size)
    /\ NewRow \/ Reaching

\* The column col is free, and takes the row of the one it was reached from.
WayBack ==
    /\ col # 0 /\ Pairs((0 .. Size) \ {col}, row) /\ Feasible(row) /\ Tight((1 .. Size) \ {col})
    /\ \E K, rank : rank \in Ranks /\ col \in K /\ Tree(K, rank)

SolverFits ==
    pc # "idle" =>
        /\ SolverTypes
        /\ pc = "rescue" => row = 0 /\ \A j \in 0 .. Size : p[j] = 0
        /\ pc = "rows" => Matched(row)
        /\ pc = "grow" => Growing
        /\ pc = "walk" => WayBack
        /\ pc \in {"decide", "done"} => Matched(Size)

LEMMA SlackIs ==
    ASSUME IsFloor(floor), SolverTypes, NEW i \in 0 .. Size, NEW j \in 0 .. Size
    PROVE  Slack(i, j) \in Int
  BY CostIs DEF SolverTypes, Slack

LEMMA SlackChanges ==
    ASSUME floor' = floor, rescued' = rescued
    PROVE  /\ Size' = Size /\ (IsFloor(floor) => IsFloor(floor)')
           /\ \A i, j : Slack(i, j)' = Cost(i, j) - u'[i] - v'[j]
           /\ u' = u /\ v' = v =>
                 /\ \A i, j : Slack(i, j)' = Slack(i, j)
                 /\ \A r : Feasible(r)' <=> Feasible(r)
  <1>1. Size' = Size /\ \A i, j : Cost(i, j)' = Cost(i, j)
    BY CostStays
  <1>2. \A i, j : Slack(i, j)' = Cost(i, j) - u'[i] - v'[j]
    BY <1>1 DEF Slack
  <1>3. ASSUME u' = u, v' = v PROVE \A i, j : Slack(i, j)' = Slack(i, j)
    BY <1>2, <1>3 DEF Slack
  <1>4. ASSUME u' = u, v' = v, NEW r PROVE Feasible(r)' <=> Feasible(r)
    BY <1>1, <1>3, <1>4 DEF Feasible
  <1> QED BY <1>1, <1>2, <1>3, <1>4

LEMMA AddRowFits ==
    ASSUME IsFloor(floor), SolverTypes, Matched(row), AddRow
    PROVE  SolverTypes' /\ Growing'
  <1>1. /\ row < Size /\ row' = row + 1 /\ col' = 0 /\ used' = {}
        /\ p' = [p EXCEPT ![0] = row + 1] /\ minv' = [j \in 0 .. Size |-> Infinite]
        /\ u' = u /\ v' = v /\ way' = way /\ floor' = floor /\ rescued' = rescued
    BY DEF AddRow
  <1>2. Size' = Size /\ \A i, j : Slack(i, j)' = Slack(i, j)
    BY <1>1, SlackChanges
  <1>3. Size \in Nat \ {0} /\ row \in 0 .. Size - 1 /\ row + 1 \in 1 .. Size
    BY <1>1, SizeIs DEF SolverTypes
  <1>4. /\ p' \in [0 .. Size -> 0 .. Size] /\ p'[0] = row + 1
        /\ \A j \in 1 .. Size : p'[j] = p[j]
    <2>1. PICK r \in 0 .. Size : r = row + 1
      BY <1>3
    <2>2. p' = [p EXCEPT ![0] = r]
      BY <1>1, <2>1
    <2>5. 0 \in 0 .. Size
      BY <1>3
    <2>6. p \in [0 .. Size -> 0 .. Size]
      BY DEF SolverTypes
    <2>3. p' \in [0 .. Size -> 0 .. Size] /\ p'[0] = r
      BY <2>2, <2>5, <2>6
    <2>4. ASSUME NEW j \in 1 .. Size PROVE p'[j] = p[j]
      <3>1. j \in 0 .. Size /\ j # 0
        BY <1>3
      <3> QED BY <2>2, <2>6, <3>1
    <2> QED BY <2>1, <2>3, <2>4
  <1>5. SolverTypes'
    <2>1. row' \in 0 .. Size /\ col' \in 0 .. Size /\ used' \subseteq 0 .. Size
      BY <1>1, <1>3
    <2>2. /\ u' \in [0 .. Size -> Int] /\ v' \in [0 .. Size -> Int]
          /\ way' \in [0 .. Size -> 0 .. Size]
      BY <1>1 DEF SolverTypes
    <2> QED BY <1>2, <1>4, <2>1, <2>2 DEF SolverTypes
  <1>6. Pairs(1 .. Size, row) /\ Feasible(row) /\ Tight(1 .. Size)
    BY DEF Matched
  <1>7. ASSUME NEW j \in 0 .. Size PROVE j = 0 \/ j \in 1 .. Size
    BY <1>3
  <1>8. /\ \A j \in 0 .. Size : p'[j] \in 0 .. row + 1
        /\ \A i \in 1 .. row + 1 : \E j \in 0 .. Size : p'[j] = i
        /\ \A j, k \in 0 .. Size : p'[j] = p'[k] /\ p'[j] # 0 => j = k
    <2>1. ASSUME NEW j \in 0 .. Size PROVE p'[j] \in 0 .. row + 1
      <3>1. CASE j = 0
        BY <1>3, <1>4, <3>1
      <3>2. CASE j \in 1 .. Size
        <4>1. p'[j] \in 0 .. row
          BY <1>4, <1>6, <3>2 DEF Pairs
        <4> QED BY <1>3, <4>1
      <3> QED BY <1>7, <3>1, <3>2
    <2>2. ASSUME NEW i \in 1 .. row + 1 PROVE \E j \in 0 .. Size : p'[j] = i
      <3>1. i = row + 1 \/ i \in 1 .. row
        BY <1>3
      <3>2. CASE i = row + 1
        BY <1>3, <1>4, <3>2
      <3>3. CASE i \in 1 .. row
        <4>1. PICK j \in 1 .. Size : p[j] = i
          BY <1>6, <3>3 DEF Pairs
        <4> QED BY <1>3, <1>4, <4>1
      <3> QED BY <3>1, <3>2, <3>3
    <2>3. ASSUME NEW j \in 0 .. Size, NEW k \in 0 .. Size, p'[j] = p'[k], p'[j] # 0 PROVE j = k
      <3>1. \A i \in 1 .. Size : p[i] # row + 1
        BY <1>3, <1>6 DEF Pairs
      <3> QED BY <1>4, <1>6, <1>7, <2>3, <3>1 DEF Pairs
    <2> QED BY <2>1, <2>2, <2>3
  <1>9. Tight(1 .. Size)'
    BY <1>2, <1>4, <1>6 DEF Tight
  <1>10. NewRow'
    <2>1. \A i \in 1 .. row' - 1, j \in 1 .. Size : Slack(i, j)' >= 0
      <3>1. row' - 1 = row
        BY <1>1, <1>3
      <3> QED BY <1>2, <1>6, <3>1 DEF Feasible
    <2>2. \A j \in 1 .. Size : minv'[j] = Infinite
      BY <1>1, <1>3
    <2> QED BY <1>1, <1>2, <2>1, <2>2 DEF NewRow, Feasible
  <1>11. Pairs(0 .. Size, row)'
    BY <1>1, <1>2, <1>8 DEF Pairs
  <1> QED BY <1>1, <1>3, <1>4, <1>5, <1>9, <1>10, <1>11 DEF Growing

\* There is always a column left: the rows are too few for all of them.
LEMMA ColumnIsLeft ==
    ASSUME IsFloor(floor), SolverTypes, Pairs(0 .. Size, row), NEW K \in SUBSET (0 .. Size),
           \A k \in K : p[k] # 0
    PROVE  \E j \in 0 .. Size : j \notin K
  <1>1. Size \in Nat \ {0} /\ row \in 0 .. Size
    BY SizeIs DEF SolverTypes
  <1>2. SUFFICES ASSUME \A j \in 0 .. Size : j \in K PROVE FALSE
    OBVIOUS
  <1>3. p \in [0 .. Size -> 1 .. Size]
    <2>1. p \in [0 .. Size -> 0 .. Size] /\ \A j \in 0 .. Size : p[j] # 0
      BY <1>2 DEF SolverTypes
    <2>2. \A j \in 0 .. Size : p[j] \in 1 .. Size
      BY <1>1, <2>1
    <2> QED BY <2>1, <2>2
  <1>4. /\ IsFiniteSet(0 .. Size) /\ Cardinality(0 .. Size) = Size + 1
        /\ IsFiniteSet(1 .. Size) /\ Cardinality(1 .. Size) = Size
    <2>1. PICK n \in Nat \ {0} : n = Size
      BY <1>1
    <2>2. IsFiniteSet(0 .. n) /\ Cardinality(0 .. n) = n + 1
      BY FS_Interval
    <2>3. IsFiniteSet(1 .. n) /\ Cardinality(1 .. n) = n
      BY FS_Interval
    <2> QED BY <2>1, <2>2, <2>3
  <1>5. PICK j \in 0 .. Size, k \in 0 .. Size : j # k /\ p[j] = p[k]
    <2>1. Cardinality(1 .. Size) < Cardinality(0 .. Size)
      BY <1>1, <1>4
    <2> QED BY <1>3, <1>4, <2>1, FS_PigeonHole
  <1> QED BY <1>2, <1>5 DEF Pairs

\* One step of the search: the columns `in` are reached, prices move by delta,
\* and next is the nearest of the others.
Grows(in, delta, next) ==
    /\ in = used \cup {col} /\ in \subseteq 0 .. Size /\ 0 \in in /\ \A k \in in : p[k] \in 1 .. row
    /\ delta \in Int /\ next \in (1 .. Size) \ in
    /\ used' = in /\ col' = next /\ way' \in [0 .. Size -> 0 .. Size]
    /\ u' = [i \in 0 .. Size |-> IF \E k \in in : p[k] = i THEN u[i] + delta ELSE u[i]]
    /\ v' = [j \in 0 .. Size |-> IF j \in in THEN v[j] - delta ELSE v[j]]
    /\ \A j \in in : way'[j] = way[j]
    /\ \A j \in (1 .. Size) \ in :
          /\ minv'[j] \in Nat /\ way'[j] \in in /\ minv'[j] + delta = Slack(p[way'[j]], j)
          /\ \A k \in in : minv'[j] + delta <= Slack(p[k], j)
    /\ minv'[next] = 0
    /\ used # {} => delta >= 0

LEMMA GrowIs ==
    ASSUME IsFloor(floor), SolverTypes, Growing, Grow
    PROVE  /\ \E in, delta, next : Grows(in, delta, next)
           /\ pc' = IF p[col'] = 0 THEN "walk" ELSE "grow"
           /\ UNCHANGED <<floor, recent, rescued, row, p, decisions>>
  <1> DEFINE in    == used \cup {col}
             out   == (1 .. Size) \ in
             cur   == [j \in out |-> Cost(p[col], j) - u[p[col]] - v[j]]
             least == [j \in 0 .. Size |-> IF j \in out /\ Closer(cur[j], minv[j]) THEN cur[j] ELSE minv[j]]
             delta == Min({least[j] : j \in out})
             next  == Min({j \in out : least[j] = delta})
  <1>1. /\ used' = in
        /\ way' = [j \in 0 .. Size |-> IF j \in out /\ Closer(cur[j], minv[j]) THEN col ELSE way[j]]
        /\ u' = [i \in 0 .. Size |-> IF i \in {p[j] : j \in in} THEN u[i] + delta ELSE u[i]]
        /\ v' = [j \in 0 .. Size |-> IF j \in in THEN v[j] - delta ELSE v[j]]
        /\ minv' = [j \in 0 .. Size |-> IF j \in in THEN least[j] ELSE least[j] - delta]
        /\ col' = next
        /\ pc' = IF p[next] = 0 THEN "walk" ELSE "grow"
        /\ UNCHANGED <<floor, recent, rescued, row, p, decisions>>
    BY DEF Grow
  <1>2. Size \in Nat \ {0} /\ row \in 1 .. Size /\ col \in 0 .. Size
    BY SizeIs DEF SolverTypes, Growing
  <1>3. in \subseteq 0 .. Size /\ 0 \in in /\ \A k \in in : p[k] \in 1 .. row
    <2>1. 0 \in in
      BY DEF Growing, NewRow, Reaching, Tree
    <2>2. ASSUME NEW k \in in PROVE p[k] \in 1 .. row
      <3>1. k \in 0 .. Size /\ p[k] # 0
        BY <1>2 DEF SolverTypes, Growing, NewRow, Reaching
      <3>2. p[k] \in 0 .. row
        BY <3>1 DEF Growing, Pairs
      <3> QED BY <1>2, <3>1, <3>2
    <2> QED BY <1>2, <2>1, <2>2 DEF SolverTypes
  <1>4. out # {} /\ out \in SUBSET (1 .. Size)
    <2>1. PICK j \in 0 .. Size : j \notin in
      <3> HIDE DEF in
      <3>1. \A k \in in : p[k] # 0
        BY <1>2, <1>3
      <3> QED BY <1>3, <3>1, ColumnIsLeft DEF Growing
    <2>2. j \in out
      BY <1>2, <1>3, <2>1
    <2> QED BY <2>2
  <1>5. ASSUME NEW j \in out PROVE cur[j] = Slack(p[col], j) /\ cur[j] \in Int
    <2>1. cur[j] = Slack(p[col], j)
      BY DEF Slack
    <2>2. p[col] \in 0 .. Size /\ j \in 0 .. Size
      <3>1. j \in 1 .. Size
        OBVIOUS
      <3>2. p[col] \in 0 .. Size
        BY <1>2 DEF SolverTypes
      <3>3. j \in 0 .. Size
        BY <1>2, <3>1
      <3> QED BY <3>2, <3>3
    <2> QED BY <2>1, <2>2, SlackIs
  <1>6. ASSUME NEW j \in out
        PROVE  /\ least[j] \in Int /\ way'[j] \in in /\ least[j] = Slack(p[way'[j]], j)
               /\ \A k \in in : least[j] <= Slack(p[k], j)
               /\ used # {} => least[j] >= 0
    <2>0. j \in 1 .. Size /\ j \in 0 .. Size /\ j \notin used
      BY <1>2
    <2>1. /\ least[j] = IF Closer(cur[j], minv[j]) THEN cur[j] ELSE minv[j]
          /\ way'[j] = IF Closer(cur[j], minv[j]) THEN col ELSE way[j]
      <3> HIDE DEF cur, in, out
      <3> QED BY <1>1, <2>0
    <2>2. PICK c \in Int : c = cur[j] /\ c = Slack(p[col], j)
      BY <1>5
    <2>3. used # {} => c >= 0
      <3>1. used # {} => Feasible(row)
        BY DEF Growing, NewRow, Reaching
      <3>2. p[col] \in 1 .. row
        BY <1>3
      <3> HIDE DEF in, out, cur, least
      <3> QED BY <2>0, <2>2, <3>1, <3>2 DEF Feasible
    <2>4. CASE NewRow
      <3>1. minv[j] = Infinite /\ in = {col} /\ used = {}
        BY <2>0, <2>4 DEF NewRow
      <3>2. least[j] = c /\ way'[j] = col
        <4> HIDE DEF cur, in, out, least
        <4> QED BY <2>1, <2>2, <3>1 DEF Closer
      <3> HIDE DEF cur, out, least
      <3> QED BY <2>2, <3>1, <3>2
    <2>5. CASE Reaching
      <3>1. PICK m \in Int : m = minv[j]
        BY <2>0, <2>5 DEF Reaching, Distances
      <3>2. way[j] \in used /\ m = Slack(p[way[j]], j) /\ \A k \in used : m <= Slack(p[k], j)
        BY <2>0, <2>5, <3>1 DEF Reaching, Distances
      <3>3. m >= 0
        <4>1. p[way[j]] \in 1 .. row
          BY <1>3, <3>2
        <4> HIDE DEF in, out, cur, least
        <4> QED BY <2>0, <2>5, <3>2, <4>1 DEF Reaching, Feasible
      <3>4. Closer(cur[j], minv[j]) <=> c < m
        <4>1. m # Infinite
          BY MatchingAssumption
        <4> HIDE DEF cur, in, out, least
        <4> QED BY <2>2, <3>1, <4>1 DEF Closer
      <3>5. PICK l \in Int : l = IF c < m THEN c ELSE m
        OBVIOUS
      <3>6. least[j] = l /\ way'[j] = IF c < m THEN col ELSE way[j]
        <4> HIDE DEF cur, in, out, least
        <4> QED BY <2>1, <2>2, <3>1, <3>4, <3>5
      <3>7. \A k \in in : Slack(p[k], j) \in Int
        BY <1>3, <2>0, SlackIs DEF SolverTypes
      <3>8. \A k \in in : l <= Slack(p[k], j)
        BY <2>2, <3>2, <3>5, <3>7
      <3>9. l >= 0 \/ used = {}
        BY <2>3, <3>3, <3>5
      <3> HIDE DEF cur, out, least
      <3> QED BY <2>2, <3>2, <3>5, <3>6, <3>8, <3>9
    <2> QED BY <2>4, <2>5 DEF Growing
  <1> DEFINE costs == {least[j] : j \in out}
             nearest == {j \in out : least[j] = delta}
  <1>7. delta \in Int /\ delta \in costs /\ \A j \in out : delta <= least[j]
    <2>1. costs \in SUBSET Int /\ costs # {}
      <3> HIDE DEF least, out
      <3> QED BY <1>4, <1>6
    <2>2. IsFiniteSet(costs)
      <3>1. IsFiniteSet(out)
        <4>1. IsFiniteSet(1 .. Size)
          BY <1>2, FS_Interval
        <4> HIDE DEF out
        <4> QED BY <1>4, <4>1, FS_Subset
      <3> DEFINE f == [j \in out |-> least[j]]
      <3>2. f \in Surjection(out, costs)
        BY DEF Surjection
      <3> HIDE DEF f, costs, out
      <3> QED BY <3>1, <3>2, FS_Surjection
    <2>3. Min(costs) \in costs /\ \A x \in costs : Min(costs) <= x
      <3> HIDE DEF costs
      <3> QED BY <2>1, <2>2, FiniteBounds
    <2>4. \A j \in out : least[j] \in costs
      OBVIOUS
    <2>5. delta = Min(costs)
      OBVIOUS
    <2> HIDE DEF costs, delta, least, out
    <2> QED BY <2>1, <2>3, <2>4, <2>5
  <1>8. next \in out /\ least[next] = delta
    <2>1. nearest \in SUBSET Nat /\ nearest # {} /\ nearest \subseteq out
      <3>1. out \in SUBSET Nat
        BY <1>2, <1>4
      <3> HIDE DEF delta, least, out
      <3> QED BY <1>7, <3>1
    <2>2. Min(nearest) \in nearest
      <3> HIDE DEF nearest
      <3> QED BY <2>1, LeastIs
    <2>3. next = Min(nearest)
      OBVIOUS
    <2> HIDE DEF delta, least, out, next
    <2> QED BY <2>1, <2>2, <2>3
  <1>9. ASSUME NEW j \in out
        PROVE  /\ minv'[j] \in Nat /\ minv'[j] + delta = least[j]
    <2>1. minv'[j] = least[j] - delta
      <3>1. j \in 0 .. Size /\ j \notin in
        BY <1>2
      <3> HIDE DEF in, out, least, delta
      <3> QED BY <1>1, <3>1
    <2> HIDE DEF in, out, least, delta
    <2> QED BY <1>6, <1>7, <2>1
  <1>10. minv'[next] = 0
    <2>1. minv'[next] = least[next] - delta
      <3>1. next \in 0 .. Size /\ next \notin in
        <4> HIDE DEF next
        <4> QED BY <1>2, <1>8
      <3> HIDE DEF in, out, least, delta, next
      <3> QED BY <1>1, <3>1
    <2> HIDE DEF in, out, least, delta, next
    <2> QED BY <1>7, <1>8, <2>1
  <1>11. used # {} => delta >= 0
    <2> HIDE DEF out, least, delta
    <2> QED BY <1>6, <1>7, <1>8
  <1>12. u' = [i \in 0 .. Size |-> IF \E k \in in : p[k] = i THEN u[i] + delta ELSE u[i]]
    <2>1. \A i : i \in {p[j] : j \in in} <=> \E k \in in : p[k] = i
      OBVIOUS
    <2> HIDE DEF in, delta
    <2> QED BY <1>1, <2>1
  <1>13. way' \in [0 .. Size -> 0 .. Size] /\ \A j \in in : way'[j] = way[j]
    <2>1. \A j \in 0 .. Size : way[j] \in 0 .. Size
      BY DEF SolverTypes
    <2>2. \A j \in in : j \in 0 .. Size /\ j \notin out
      BY <1>3
    <2> HIDE DEF in, out, cur
    <2> QED BY <1>1, <1>2, <2>1, <2>2
  <1> HIDE DEF cur, least, delta, next, costs, nearest
  <1>14. Grows(in, delta, next)
    <2>1. \A j \in (1 .. Size) \ in :
             /\ minv'[j] \in Nat /\ way'[j] \in in /\ minv'[j] + delta = Slack(p[way'[j]], j)
             /\ \A k \in in : minv'[j] + delta <= Slack(p[k], j)
      <3> HIDE DEF in
      <3> QED BY <1>6, <1>9
    <2> QED BY <1>1, <1>3, <1>7, <1>8, <1>10, <1>11, <1>12, <1>13, <2>1 DEF Grows
  <1> QED BY <1>1, <1>14

\* The prices after a step of the search: rows and columns reached move together.
LEMMA PricesMove ==
    ASSUME IsFloor(floor), SolverTypes, floor' = floor, rescued' = rescued,
           NEW in, NEW delta, NEW next, Grows(in, delta, next),
           NEW i \in 0 .. Size, NEW j \in 0 .. Size
    PROVE  /\ Slack(i, j)' \in Int /\ Slack(i, j) \in Int
           /\ (\E k \in in : p[k] = i) /\ j \in in => Slack(i, j)' = Slack(i, j)
           /\ (\E k \in in : p[k] = i) /\ j \notin in => Slack(i, j)' = Slack(i, j) - delta
           /\ ~(\E k \in in : p[k] = i) /\ j \in in => Slack(i, j)' = Slack(i, j) + delta
           /\ ~(\E k \in in : p[k] = i) /\ j \notin in => Slack(i, j)' = Slack(i, j)
  <1>1. Slack(i, j)' = Cost(i, j) - u'[i] - v'[j] /\ Cost(i, j) \in Int
    BY SlackChanges, CostIs
  <1>2. Slack(i, j) = Cost(i, j) - u[i] - v[j] /\ u[i] \in Int /\ v[j] \in Int /\ delta \in Int
    BY DEF Slack, SolverTypes, Grows
  <1>3. /\ u'[i] = IF \E k \in in : p[k] = i THEN u[i] + delta ELSE u[i]
        /\ v'[j] = IF j \in in THEN v[j] - delta ELSE v[j]
    BY DEF Grows
  <1> QED BY <1>1, <1>2, <1>3

LEMMA GrowFits ==
    ASSUME IsFloor(floor), SolverTypes, Growing, Grow
    PROVE  SolverTypes' /\ (pc' = "grow" => Growing') /\ (pc' = "walk" => WayBack')
  <1>1. PICK in, delta, next : Grows(in, delta, next)
    BY GrowIs
  <1>2. /\ pc' = IF p[next] = 0 THEN "walk" ELSE "grow"
        /\ floor' = floor /\ rescued' = rescued /\ row' = row /\ p' = p
    BY <1>1, GrowIs DEF Grows
  <1>3. Size' = Size /\ Size \in Nat \ {0} /\ row \in 1 .. Size
    BY <1>2, SlackChanges, SizeIs DEF SolverTypes, Growing
  <1>4. /\ in = used \cup {col} /\ in \subseteq 0 .. Size /\ 0 \in in /\ \A k \in in : p[k] \in 1 .. row
        /\ delta \in Int /\ next \in 1 .. Size /\ next \notin in /\ used' = in /\ col' = next
        /\ used # {} => delta >= 0
    BY <1>1 DEF Grows
  <1>5. SolverTypes'
    <2>1. row' \in 0 .. Size /\ col' \in 0 .. Size /\ used' \subseteq 0 .. Size
      BY <1>2, <1>3, <1>4
    <2>2. u' \in [0 .. Size -> Int]
      <3>1. \A i \in 0 .. Size : u[i] \in Int /\ u[i] + delta \in Int
        BY <1>4 DEF SolverTypes
      <3> QED BY <1>1, <3>1 DEF Grows
    <2>3. v' \in [0 .. Size -> Int]
      <3>1. \A j \in 0 .. Size : v[j] \in Int /\ v[j] - delta \in Int
        BY <1>4 DEF SolverTypes
      <3> QED BY <1>1, <3>1 DEF Grows
    <2>4. p' \in [0 .. Size -> 0 .. Size] /\ way' \in [0 .. Size -> 0 .. Size]
      BY <1>1, <1>2 DEF Grows, SolverTypes
    <2> QED BY <1>3, <2>1, <2>2, <2>3, <2>4 DEF SolverTypes
  <1>6. /\ \A j \in 0 .. Size : p[j] \in 0 .. row
        /\ \A i \in 1 .. row : \E j \in 0 .. Size : p[j] = i
        /\ \A j, k \in 0 .. Size : p[j] = p[k] /\ p[j] # 0 => j = k
    BY DEF Growing, Pairs
  <1>7. /\ used = {} => in = {0} /\ Feasible(row - 1)
        /\ used # {} => Feasible(row)
    BY <1>4 DEF Growing, NewRow, Reaching
  <1>8. ASSUME NEW i \in 1 .. row, NEW j \in 1 .. Size PROVE Slack(i, j)' >= 0
    <2>0. i \in 0 .. Size /\ j \in 0 .. Size
      BY <1>3
    <2>1. CASE j \in in
      <3>1. used # {}
        BY <1>7, <2>1
      <3>2. Slack(i, j) >= 0 /\ delta >= 0
        BY <1>4, <1>7, <3>1 DEF Feasible
      <3> QED BY <1>1, <1>2, <1>4, <2>0, <2>1, <3>2, PricesMove
    <2>2. CASE j \notin in /\ \E k \in in : p[k] = i
      <3>1. PICK k \in in : p[k] = i
        BY <2>2
      <3>2. minv'[j] \in Nat /\ minv'[j] + delta <= Slack(p[k], j)
        BY <1>1, <2>2, <3>1 DEF Grows
      <3>3. Slack(i, j)' = Slack(i, j) - delta /\ Slack(i, j) \in Int
        BY <1>1, <1>2, <2>0, <2>2, PricesMove
      <3> QED BY <1>4, <3>1, <3>2, <3>3
    <2>3. CASE j \notin in /\ ~(\E k \in in : p[k] = i)
      <3>1. Slack(i, j)' = Slack(i, j)
        BY <1>1, <1>2, <2>0, <2>3, PricesMove
      <3>2. i # row
        BY <1>4, <2>3 DEF Growing
      <3>3. i \in 1 .. row - 1
        BY <1>3, <3>2
      <3> QED BY <1>7, <3>1, <3>3 DEF Feasible
    <2> QED BY <2>1, <2>2, <2>3
  <1>9. Feasible(row)'
    BY <1>2, <1>3, <1>8 DEF Feasible
  <1>10. ASSUME NEW j \in 1 .. Size, p[j] # 0 PROVE Slack(p[j], j)' = 0
    <2>1. Slack(p[j], j) = 0 /\ p[j] \in 0 .. Size /\ j \in 0 .. Size
      BY <1>3, <1>6, <1>10 DEF Growing, Tight
    <2>2. CASE j \in in
      <3>1. \E k \in in : p[k] = p[j]
        BY <2>2
      <3> QED BY <1>1, <1>2, <2>1, <2>2, <3>1, PricesMove
    <2>3. CASE j \notin in
      <3>1. ~(\E k \in in : p[k] = p[j])
        BY <1>4, <1>6, <1>10, <2>1, <2>3
      <3> QED BY <1>1, <1>2, <2>1, <2>3, <3>1, PricesMove
    <2> QED BY <2>2, <2>3
  <1>11. ASSUME NEW k \in in, NEW j \in 1 .. Size
         PROVE  /\ j \in in => Slack(p[k], j)' = Slack(p[k], j)
                /\ j \notin in => Slack(p[k], j)' = Slack(p[k], j) - delta
                /\ Slack(p[k], j) \in Int
    <2>1. p[k] \in 0 .. Size /\ j \in 0 .. Size /\ \E l \in in : p[l] = p[k]
      BY <1>3, <1>4, <1>6
    <2> QED BY <1>1, <1>2, <2>1, PricesMove
  <1>12. ASSUME NEW j \in (1 .. Size) \ in
         PROVE  /\ minv'[j] \in Int /\ way'[j] \in in /\ minv'[j] = Slack(p[way[j]], j)'
                /\ \A k \in in : minv'[j] <= Slack(p[k], j)'
    <2>1. /\ minv'[j] \in Nat /\ way'[j] \in in /\ minv'[j] + delta = Slack(p[way'[j]], j)
          /\ \A k \in in : minv'[j] + delta <= Slack(p[k], j)
      BY <1>1 DEF Grows
    <2>2. \A k \in in : Slack(p[k], j)' = Slack(p[k], j) - delta /\ Slack(p[k], j) \in Int
      BY <1>11
    <2>3. minv'[j] = Slack(p[way'[j]], j) - delta
      BY <1>4, <2>1, <2>2
    <2>4. \A k \in in : minv'[j] <= Slack(p[k], j)'
      BY <1>4, <2>1, <2>2
    <2>5. Slack(p[way[j]], j)' = Slack(p[way'[j]], j) - delta
      <3>1. PICK k \in in : k = way'[j]
        BY <2>1
      <3> QED BY <1>2, <2>2, <3>1
    <2> QED BY <2>1, <2>3, <2>4, <2>5
  <1>13. PICK rank \in Ranks : Tree(in, rank)
    <2>1. CASE used = {}
      <3>1. in = {0}
        BY <1>7, <2>1
      <3>2. [j \in 0 .. Size |-> 0] \in Ranks
        BY DEF Ranks
      <3> QED BY <1>4, <3>1, <3>2 DEF Tree
    <2>2. CASE used # {}
      BY <1>4, <2>2 DEF Growing, NewRow, Reaching
    <2> QED BY <2>1, <2>2
  <1> DEFINE K == in \cup {next}
  <1>14. way'[next] \in in /\ minv'[next] = 0 /\ (\A j \in in : way'[j] = way[j])
         /\ minv'[next] = Slack(p[way[next]], next)'
    BY <1>1, <1>4, <1>12 DEF Grows
  <1>15. PICK rank2 \in [0 .. Size -> Nat] :
            /\ rank2[next] = rank[way'[next]] + 1
            /\ \A j \in in : rank2[j] = rank[j] /\ rank[j] \in Nat
    <2> DEFINE f == [rank EXCEPT ![next] = rank[way'[next]] + 1]
    <2>1. rank \in [0 .. Size -> Nat] /\ rank[way'[next]] \in Nat /\ next \in 0 .. Size
      BY <1>3, <1>4, <1>14 DEF Ranks
    <2>2. \A j \in in : j \in 0 .. Size /\ j # next
      BY <1>4
    <2>3. f \in [0 .. Size -> Nat] /\ f[next] = rank[way'[next]] + 1
      BY <2>1
    <2>4. \A j \in in : f[j] = rank[j] /\ rank[j] \in Nat
      BY <2>1, <2>2
    <2> QED BY <2>3, <2>4
  <1>16. ASSUME NEW j \in K \ {0}
         PROVE  /\ way'[j] \in K /\ rank2[way'[j]] < rank2[j]
                /\ p'[way'[j]] # 0 /\ Slack(p[way[j]], j)' = 0
    <2>1. CASE j = next
      BY <1>2, <1>4, <1>14, <1>15, <2>1
    <2>2. CASE j \in in
      <3>1. way[j] \in in /\ rank[way[j]] < rank[j] /\ p[way[j]] # 0 /\ Slack(p[way[j]], j) = 0
        BY <1>13, <2>2 DEF Tree
      <3>2. j \in 1 .. Size
        BY <1>3, <1>4, <2>2
      <3>3. way'[j] = way[j]
        BY <1>14, <2>2
      <3>4. Slack(p[way[j]], j)' = 0
        <4>1. PICK k \in in : k = way[j]
          BY <3>1
        <4>2. Slack(p[k], j)' = 0
          BY <1>11, <2>2, <3>1, <3>2, <4>1
        <4> QED BY <1>2, <3>3, <4>1, <4>2
      <3> QED BY <1>2, <1>15, <2>2, <3>1, <3>3, <3>4
    <2> QED BY <2>1, <2>2
  <1>17. Tree(used \cup {col}, rank2)' /\ rank2 \in Ranks'
    <2>1. K = used' \cup {col'} /\ 0 \in K /\ K \subseteq 0 .. Size
      BY <1>3, <1>4
    <2>2. rank2 \in Ranks'
      BY <1>3, <1>15 DEF Ranks
    <2> HIDE DEF K
    <2>3. Tree(K, rank2)'
      BY <1>3, <1>16, <2>1 DEF Tree
    <2> QED BY <2>1, <2>2, <2>3
  <1>18. Tight(1 .. Size)'
    BY <1>2, <1>3, <1>10 DEF Tight
  <1>19. ASSUME pc' = "grow" PROVE Growing'
    <2>1. p[next] # 0
      BY <1>2, <1>19
    <2>2. Distances'
      BY <1>2, <1>3, <1>4, <1>12 DEF Distances
    <2>3. Reaching'
      BY <1>2, <1>3, <1>4, <1>9, <1>17, <2>2 DEF Reaching
    <2>4. Pairs(0 .. Size, row)'
      BY <1>2, <1>3, <1>6 DEF Pairs
    <2> QED BY <1>2, <1>3, <1>4, <1>18, <2>1, <2>3, <2>4 DEF Growing
  <1>20. ASSUME pc' = "walk" PROVE WayBack'
    <2>1. p[next] = 0
      BY <1>2, <1>20
    <2>2. Pairs((0 .. Size) \ {col}, row)'
      <3>1. ASSUME NEW i \in 1 .. row PROVE \E j \in (0 .. Size) \ {next} : p[j] = i
        <4>1. PICK j \in 0 .. Size : p[j] = i
          BY <1>6
        <4>2. j # next
          BY <1>3, <2>1, <4>1
        <4> QED BY <4>1, <4>2
      <3> QED BY <1>2, <1>3, <1>4, <1>6, <3>1 DEF Pairs
    <2>3. Tight((1 .. Size) \ {col})'
      BY <1>2, <1>3, <1>10 DEF Tight
    <2>4. col' \in used' \cup {col'} /\ col' # 0
      BY <1>4
    <2> QED BY <1>9, <1>17, <2>2, <2>3, <2>4 DEF WayBack
  <1> QED BY <1>5, <1>19, <1>20

LEMMA RematchFits ==
    ASSUME IsFloor(floor), SolverTypes, WayBack, Rematch
    PROVE  SolverTypes' /\ (pc' = "walk" => WayBack') /\ (pc' = "rows" => Matched(row)')
  <1>0. PICK w : w = way[col]
    OBVIOUS
  <1>1. /\ col' = w /\ p' = [p EXCEPT ![col] = p[w]] /\ pc' = IF w = 0 THEN "rows" ELSE "walk"
        /\ u' = u /\ v' = v /\ way' = way /\ row' = row /\ used' = used
        /\ floor' = floor /\ rescued' = rescued
    BY <1>0 DEF Rematch
  <1>2. Size' = Size /\ \A i, j : Slack(i, j)' = Slack(i, j)
    BY <1>1, SlackChanges
  <1>3. /\ col \in 0 .. Size /\ col # 0 /\ p \in [0 .. Size -> 0 .. Size] /\ Size \in Nat \ {0}
        /\ way \in [0 .. Size -> 0 .. Size]
    BY SizeIs DEF SolverTypes, WayBack
  <1>4. PICK K, rank : rank \in Ranks /\ col \in K /\ Tree(K, rank)
    BY DEF WayBack
  <1>5. /\ w \in K /\ rank[w] < rank[col] /\ p[w] # 0 /\ Slack(p[w], col) = 0
        /\ K \subseteq 0 .. Size
    BY <1>0, <1>3, <1>4 DEF Tree
  <1>6. rank \in [0 .. Size -> Nat] /\ w # col /\ w \in 0 .. Size
    <2>1. rank \in [0 .. Size -> Nat] /\ w \in 0 .. Size
      BY <1>4, <1>5 DEF Ranks
    <2>2. rank[col] \in Nat
      BY <1>3, <2>1
    <2>3. w # col
      BY <1>5, <2>2
    <2> QED BY <2>1, <2>3
  <1>7. p' \in [0 .. Size -> 0 .. Size] /\ p'[col] = p[w] /\ \A j \in (0 .. Size) \ {col} : p'[j] = p[j]
    BY <1>1, <1>3, <1>6
  <1>8. SolverTypes'
    BY <1>1, <1>2, <1>6, <1>7 DEF SolverTypes
  <1>9. Feasible(row)'
    BY <1>1, SlackChanges DEF WayBack
  <1>10. Pairs((0 .. Size) \ {w}, row)'
    <2>1. /\ \A j \in (0 .. Size) \ {col} : p[j] \in 0 .. row
          /\ \A i \in 1 .. row : \E j \in (0 .. Size) \ {col} : p[j] = i
          /\ \A j, k \in (0 .. Size) \ {col} : p[j] = p[k] /\ p[j] # 0 => j = k
      BY DEF WayBack, Pairs
    <2>2. ASSUME NEW j \in (0 .. Size) \ {w} PROVE p'[j] \in 0 .. row
      BY <1>6, <1>7, <2>1
    <2>3. ASSUME NEW i \in 1 .. row PROVE \E j \in (0 .. Size) \ {w} : p'[j] = i
      <3>1. PICK j \in (0 .. Size) \ {col} : p[j] = i
        BY <2>1
      <3>2. CASE j = w
        BY <1>3, <1>6, <1>7, <3>1, <3>2
      <3>3. CASE j # w
        BY <1>7, <3>1, <3>3
      <3> QED BY <3>2, <3>3
    <2>4. ASSUME NEW j \in (0 .. Size) \ {w}, NEW k \in (0 .. Size) \ {w}, p'[j] = p'[k], p'[j] # 0
          PROVE  j = k
      <3>1. CASE j = col /\ k # col
        BY <1>6, <1>7, <2>1, <2>4, <3>1
      <3>2. CASE j # col /\ k = col
        BY <1>6, <1>7, <2>1, <2>4, <3>2
      <3>3. CASE j # col /\ k # col
        BY <1>7, <2>1, <2>4, <3>3
      <3> QED BY <3>1, <3>2, <3>3
    <2> QED BY <1>1, <1>2, <2>2, <2>3, <2>4 DEF Pairs
  <1>11. ASSUME NEW j \in (1 .. Size) \ {w}, p'[j] # 0 PROVE Slack(p'[j], j) = 0
    <2>1. CASE j = col
      BY <1>5, <1>7, <2>1
    <2>2. CASE j # col
      <3>1. j \in (0 .. Size) \ {col} /\ j \in (1 .. Size) \ {col}
        BY <1>3, <2>2
      <3> QED BY <1>7, <1>11, <3>1 DEF WayBack, Tight
    <2> QED BY <2>1, <2>2
  <1>12. ASSUME NEW j PROVE Slack(p[j], j)' = Slack(p'[j], j)
    BY <1>1, <1>2, SlackChanges DEF Slack
  <1>13. ASSUME pc' = "rows" PROVE Matched(row)'
    <2>1. w = 0
      BY <1>1, <1>13
    <2>2. (0 .. Size) \ {w} = 1 .. Size /\ (1 .. Size) \ {w} = 1 .. Size
      <3>1. ASSUME NEW n \in Nat PROVE (0 .. n) \ {0} = 1 .. n /\ (1 .. n) \ {0} = 1 .. n
        OBVIOUS
      <3> QED BY <1>3, <2>1, <3>1
    <2>3. Pairs(1 .. Size, row)'
      BY <1>2, <1>10, <2>2 DEF Pairs
    <2>4. Tight(1 .. Size)'
      BY <1>2, <1>11, <1>12, <2>2 DEF Tight
    <2> QED BY <1>9, <2>3, <2>4 DEF Matched
  <1>14. ASSUME pc' = "walk" PROVE WayBack'
    <2>0. PICK L : L = {j \in K : rank[j] < rank[col]} \cup {0}
      OBVIOUS
    <2>1. w # 0
      BY <1>1, <1>14
    <2>2. 0 \in L /\ L \subseteq 0 .. Size /\ w \in L
      BY <1>3, <1>4, <1>5, <2>0 DEF Tree
    <2>3. ASSUME NEW j \in L \ {0}
          PROVE  /\ way[j] \in L /\ rank[way[j]] < rank[j] /\ p'[way[j]] # 0
                 /\ Slack(p'[way[j]], j) = 0
      <3>1. /\ j \in K \ {0} /\ rank[j] < rank[col] /\ way[j] \in K /\ rank[way[j]] < rank[j]
            /\ p[way[j]] # 0 /\ Slack(p[way[j]], j) = 0
        BY <1>4, <2>0 DEF Tree
      <3>2. rank[j] \in Nat /\ rank[col] \in Nat /\ rank[way[j]] \in Nat /\ way[j] \in 0 .. Size
        BY <1>3, <1>5, <1>6, <3>1
      <3>3. way[j] \in L /\ way[j] # col
        BY <2>0, <3>1, <3>2
      <3>4. p'[way[j]] = p[way[j]]
        BY <1>7, <3>2, <3>3
      <3> QED BY <3>1, <3>3, <3>4
    <2>4. ASSUME NEW j \in L \ {0} PROVE Slack(p[way[j]], j)' = 0
      BY <1>1, <1>2, <2>3, SlackChanges DEF Slack
    <2>5. Tree(L, rank)' /\ rank \in Ranks'
      <3>1. \A j \in L \ {0} : way'[j] \in L /\ rank[way'[j]] < rank[j] /\ p'[way'[j]] # 0
        BY <1>1, <2>3
      <3> QED BY <1>2, <1>6, <2>2, <2>4, <3>1 DEF Tree, Ranks
    <2>6. Tight((1 .. Size) \ {col})'
      BY <1>1, <1>2, <1>11, <1>12 DEF Tight
    <2>7. Pairs((0 .. Size) \ {col}, row)'
      BY <1>1, <1>2, <1>10 DEF Pairs
    <2>8. col' \in L /\ col' # 0
      BY <1>1, <2>1, <2>2
    <2>9. \E M, r : (r \in Ranks /\ col \in M /\ Tree(M, r))'
      BY <2>5, <2>8
    <2> QED BY <1>9, <2>6, <2>7, <2>8, <2>9 DEF WayBack
  <1> QED BY <1>8, <1>13, <1>14

\* The solver starts from nothing.
LEMMA TickStartsSolver == ASSUME NEW f \in Floors, Tick(f) PROVE SolverFits'
  <1>1. /\ floor' = f /\ pc' = "rescue" /\ row' = 0 /\ col' = 0 /\ used' = {}
        /\ u' = [k \in 0 .. Size' |-> 0] /\ v' = [k \in 0 .. Size' |-> 0]
        /\ p' = [k \in 0 .. Size' |-> 0] /\ way' = [k \in 0 .. Size' |-> 0]
    <2>1. floor' = f
      BY DEF Tick
    <2>2. Size' = Max({Len(f.calls), Len(f.fit[1])})
      BY <2>1 DEF Size
    <2> QED BY <2>2 DEF Tick
  <1>2. IsFloor(floor)'
    BY <1>1, PlaceAssumption
  <1>3. Size' \in Nat \ {0}
    <2>1. (Size \in Nat \ {0})'
      BY <1>2, SizeIs, PTL
    <2> QED BY <2>1
  <1>4. SolverTypes'
    BY <1>1, <1>3 DEF SolverTypes
  <1> QED BY <1>1, <1>4 DEF SolverFits

\* A call that the rescue looks at changes what pairs score, but nothing has
\* been matched yet; and what is decided of the calls changes no price.
LEMMA RescueFitsSolver == SolverFits /\ Rescue => SolverFits'
  <1> SUFFICES ASSUME SolverFits, Rescue PROVE SolverFits'
    OBVIOUS
  <1>1. /\ pc = "rescue" /\ pc' = "rescue" /\ floor' = floor
        /\ row' = row /\ col' = col /\ u' = u /\ v' = v /\ p' = p /\ way' = way
        /\ minv' = minv /\ used' = used
    BY DEF Rescue, solverVars
  <1>2. Size' = Size
    BY <1>1 DEF Size
  <1> QED BY <1>1, <1>2 DEF SolverFits, SolverTypes

LEMMA PartsStay ==
    ASSUME floor' = floor, rescued' = rescued, UNCHANGED solverVars
    PROVE  /\ SolverTypes => SolverTypes'
           /\ \A i, j : Slack(i, j)' = Slack(i, j)
           /\ \A r : Feasible(r) => Feasible(r)'
           /\ \A C : Tight(C) => Tight(C)'
           /\ \A C, r : Pairs(C, r) => Pairs(C, r)'
           /\ \A K, rank : Tree(K, rank) => Tree(K, rank)'
           /\ \A r : Matched(r) => Matched(r)'
  <1>1. /\ row' = row /\ col' = col /\ u' = u /\ v' = v /\ p' = p /\ way' = way
        /\ minv' = minv /\ used' = used
    BY DEF solverVars
  <1>2. Size' = Size /\ (\A i, j : Slack(i, j)' = Slack(i, j)) /\ \A r : Feasible(r) => Feasible(r)'
    BY <1>1, SlackChanges
  <1>3. ASSUME NEW C, Tight(C) PROVE Tight(C)'
    <2>1. ASSUME NEW j PROVE Slack(p[j], j)' = Slack(p[j], j)
      BY <1>1, SlackChanges DEF Slack
    <2> QED BY <1>1, <1>3, <2>1 DEF Tight
  <1>4. ASSUME NEW C, NEW r, Pairs(C, r) PROVE Pairs(C, r)'
    BY <1>1, <1>4 DEF Pairs
  <1>5. ASSUME NEW K, NEW rank, Tree(K, rank) PROVE Tree(K, rank)'
    <2>1. ASSUME NEW j PROVE Slack(p[way[j]], j)' = Slack(p[way[j]], j)
      BY <1>1, SlackChanges DEF Slack
    <2> QED BY <1>1, <1>2, <1>5, <2>1 DEF Tree
  <1>6. ASSUME NEW r, Matched(r) PROVE Matched(r)'
    <2>1. Tight(1 .. Size)' /\ Pairs(1 .. Size, r)'
      BY <1>1, <1>2, <1>3, <1>4, <1>6 DEF Matched, Tight, Pairs
    <2> QED BY <1>2, <1>6, <2>1 DEF Matched
  <1> QED BY <1>1, <1>2, <1>3, <1>4, <1>5, <1>6 DEF SolverTypes

LEMMA AllStays == ASSUME SolverFits, UNCHANGED matchVars PROVE SolverFits'
  <1>1. /\ floor' = floor /\ rescued' = rescued /\ pc' = pc /\ row' = row /\ col' = col /\ u' = u
        /\ v' = v /\ p' = p /\ way' = way /\ minv' = minv /\ used' = used /\ UNCHANGED solverVars
    BY DEF matchVars, solverVars
  <1>2. /\ Size' = Size /\ Ranks' = Ranks
        /\ \A i, j : Slack(i, j)' = Slack(i, j)
        /\ \A r : Feasible(r) => Feasible(r)'
        /\ \A C : Tight(C) => Tight(C)'
        /\ \A C, r : Pairs(C, r) => Pairs(C, r)'
        /\ \A K, rank : Tree(K, rank) => Tree(K, rank)'
        /\ \A r : Matched(r) => Matched(r)'
    BY <1>1, PartsStay, SlackChanges DEF Ranks
  <1>3. Matched(row) => Matched(row)'
    <2>1. PICK r : r = row
      OBVIOUS
    <2> QED BY <1>1, <1>2, <2>1 DEF Matched
  <1>4. Matched(Size) => Matched(Size)'
    <2>1. PICK r : r = Size
      OBVIOUS
    <2> QED BY <1>1, <1>2, <2>1 DEF Matched
  <1>5. Growing => Growing'
    <2> SUFFICES ASSUME Growing PROVE Growing'
      OBVIOUS
    <2>1. row' > 0 /\ p'[0] = row' /\ p'[col'] # 0
      BY <1>1 DEF Growing
    <2>2. Pairs(0 .. Size, row)'
      BY <1>1, <1>2 DEF Growing, Pairs
    <2>3. Tight(1 .. Size)'
      BY <1>2 DEF Growing, Tight
    <2>4. CASE NewRow
      BY <1>1, <1>2, <2>1, <2>2, <2>3, <2>4 DEF NewRow, Growing, Feasible
    <2>5. CASE Reaching
      <3>1. col' \notin used' /\ col' # 0 /\ Feasible(row)' /\ \A k \in used' : p'[k] # 0
        BY <1>1, <1>2, <2>5 DEF Reaching, Feasible
      <3>2. Distances'
        <4>1. ASSUME NEW j, NEW k PROVE Slack(p[k], j)' = Slack(p[k], j)
          BY <1>1, SlackChanges DEF Slack
        <4>2. ASSUME NEW j PROVE Slack(p[way[j]], j)' = Slack(p[way[j]], j)
          BY <1>1, SlackChanges DEF Slack
        <4> QED BY <1>1, <1>2, <2>5, <4>1, <4>2 DEF Reaching, Distances
      <3>3. \E rank \in Ranks' : Tree(used \cup {col}, rank)'
        <4>1. PICK rank \in Ranks : Tree(used \cup {col}, rank)
          BY <2>5 DEF Reaching
        <4>2. PICK K : K = used \cup {col}
          OBVIOUS
        <4>3. Tree(K, rank)' /\ K = used' \cup {col'}
          BY <1>1, <1>2, <4>1, <4>2
        <4> QED BY <1>2, <4>3 DEF Tree
      <3>4. Reaching'
        BY <3>1, <3>2, <3>3 DEF Reaching
      <3> QED BY <2>1, <2>2, <2>3, <3>4 DEF Growing
    <2> QED BY <2>4, <2>5 DEF Growing
  <1>6. WayBack => WayBack'
    <2> SUFFICES ASSUME WayBack PROVE WayBack'
      OBVIOUS
    <2>1. /\ col' # 0 /\ Pairs((0 .. Size) \ {col}, row)' /\ Feasible(row)'
          /\ Tight((1 .. Size) \ {col})'
      BY <1>1, <1>2 DEF WayBack, Pairs, Feasible, Tight
    <2>2. \E K, rank : rank \in Ranks' /\ col' \in K /\ Tree(K, rank)'
      BY <1>1, <1>2 DEF WayBack
    <2> QED BY <2>1, <2>2 DEF WayBack
  <1> QED BY <1>1, <1>2, <1>3, <1>4, <1>5, <1>6, PartsStay DEF SolverFits, SolverTypes

LEMMA NothingMatched == ASSUME IsFloor(floor), SolverTypes, row = 0, \A j \in 0 .. Size : p[j] = 0
                        PROVE  Matched(row)
  <1>1. Size \in Nat
    BY SizeIs
  <1> QED BY <1>1 DEF Matched, Pairs, Feasible, Tight

LEMMA SolverFitsStep == TickFits /\ SolverFits /\ [Next]_vars => SolverFits'
  <1> SUFFICES ASSUME TickFits, SolverFits, [Next]_vars PROVE SolverFits'
    OBVIOUS
  <1>1. CASE StartTick
    BY <1>1, TickStartsSolver DEF StartTick
  <1>2. CASE InTick
    <2>0. pc # "idle" => IsFloor(floor) /\ SolverTypes
      BY DEF TickFits, SolverFits
    <2>1. CASE Rescue
      BY <2>1, RescueFitsSolver
    <2>2. CASE StartSolver
      <3>1. /\ pc = "rescue" /\ pc' = "rows" /\ floor' = floor /\ rescued' = rescued
            /\ UNCHANGED solverVars
        BY <2>2 DEF StartSolver
      <3>2. SolverTypes /\ Matched(row)
        BY <2>0, <3>1, NothingMatched DEF SolverFits
      <3>3. SolverTypes' /\ Matched(row)' /\ row' = row
        <4>1. PICK r : r = row
          OBVIOUS
        <4>2. SolverTypes' /\ Matched(r)' /\ row' = r
          BY <3>1, <3>2, <4>1, PartsStay DEF solverVars
        <4> QED BY <4>1, <4>2 DEF Matched
      <3> QED BY <3>1, <3>3 DEF SolverFits
    <2>3. CASE AddRow
      <3>1. pc = "rows" /\ pc' = "grow"
        BY <2>3 DEF AddRow
      <3>2. SolverTypes' /\ Growing'
        BY <2>0, <2>3, <3>1, AddRowFits DEF SolverFits
      <3> QED BY <3>1, <3>2 DEF SolverFits
    <2>4. CASE Grow
      <3>1. pc = "grow" /\ pc' \in {"grow", "walk"}
        BY <2>4 DEF Grow
      <3>2. SolverTypes' /\ (pc' = "grow" => Growing') /\ (pc' = "walk" => WayBack')
        BY <2>0, <2>4, <3>1, GrowFits DEF SolverFits
      <3> QED BY <3>1, <3>2 DEF SolverFits
    <2>5. CASE Rematch
      <3>1. pc = "walk" /\ pc' \in {"rows", "walk"}
        BY <2>5 DEF Rematch
      <3>2. SolverTypes' /\ (pc' = "walk" => WayBack') /\ (pc' = "rows" => Matched(row)')
        BY <2>0, <2>5, <3>1, RematchFits DEF SolverFits
      <3> QED BY <3>1, <3>2 DEF SolverFits
    <2>6. CASE Solved \/ Decide
      <3>1. /\ (pc = "rows" /\ row = Size) \/ pc = "decide"
            /\ pc' \in {"decide", "done"} /\ floor' = floor /\ rescued' = rescued
            /\ UNCHANGED solverVars
        BY <2>6 DEF Solved, Decide
      <3>2. SolverTypes /\ Matched(Size)
        BY <2>0, <3>1 DEF SolverFits
      <3>3. PICK r : r = Size
        OBVIOUS
      <3>4. SolverTypes' /\ Matched(r)' /\ Size' = r
        BY <3>1, <3>2, <3>3, PartsStay, SlackChanges
      <3>5. Matched(Size)'
        BY <3>4 DEF Matched
      <3> QED BY <3>1, <3>4, <3>5 DEF SolverFits
    <2> QED BY <1>2, <2>1, <2>2, <2>3, <2>4, <2>5, <2>6 DEF InTick, MatchStep
  <1>3. CASE ~(StartTick \/ InTick)
    <2>1. UNCHANGED matchVars
      BY <1>3 DEF Next, vars, InReads, InApp, InWho, Identified, StartIvr, InMenu,
                  Enqueue, AskHours, Admit
    <2>2. SolverFits'
      BY <2>1, AllStays
    <2> QED BY <2>2
  <1> QED BY <1>1, <1>2, <1>3

-----------------------------------------------------------------------------
(* That the cheapest matching of the padded square is the best pairing.    *)

Everyone == 1 .. Size

Whole == Bijection(Everyone, Everyone)

\* What a matching of every column with a row costs.
Paid(q) == SumFunction([j \in Everyone |-> Cost(q[j], j)])

Prices == SumFunction([i \in Everyone |-> u[i]]) + SumFunction([j \in Everyone |-> v[j]])

LEMMA EveryoneIs ==
    ASSUME IsFloor(floor)
    PROVE  IsFiniteSet(Everyone) /\ Cardinality(Everyone) = Size
  <1>1. ASSUME NEW n \in Nat \ {0} PROVE IsFiniteSet(1 .. n) /\ Cardinality(1 .. n) = n
    BY FS_Interval
  <1> QED BY <1>1, SizeIs DEF Everyone

LEMMA WholeIs ==
    ASSUME NEW q \in Whole
    PROVE  /\ q \in [Everyone -> Everyone] /\ \A j, k \in Everyone : q[j] = q[k] => j = k
           /\ \A i \in Everyone : \E j \in Everyone : q[j] = i
  BY DEF Whole, Bijection, Injection, Surjection, IsInjective

\* No matching costs less than the prices, and the one the solver ends with no
\* more.
LEMMA PricesAreLeast ==
    ASSUME IsFloor(floor), SolverTypes, Matched(Size), NEW q \in Whole
    PROVE  /\ Paid(q) \in Int /\ Prices \in Int /\ Prices <= Paid(q)
           /\ (\A j \in Everyone : q[j] = p[j]) => Paid(q) = Prices
  <1> DEFINE rows == [i \in Everyone |-> u[i]]
             cols == [j \in Everyone |-> v[j]]
             ofRows == [j \in Everyone |-> rows[q[j]]]
             both == [j \in Everyone |-> ofRows[j] + cols[j]]
             costs == [j \in Everyone |-> Cost(q[j], j)]
  <1>1. IsFiniteSet(Everyone) /\ q \in [Everyone -> Everyone] /\ Everyone \subseteq 0 .. Size
    BY EveryoneIs, WholeIs, SizeIs DEF Everyone
  <1>2. /\ rows \in [Everyone -> Int] /\ cols \in [Everyone -> Int] /\ ofRows \in [Everyone -> Int]
        /\ both \in [Everyone -> Int]
    <2>1. \A i \in Everyone : u[i] \in Int /\ v[i] \in Int
      BY <1>1 DEF SolverTypes
    <2>2. rows \in [Everyone -> Int] /\ cols \in [Everyone -> Int]
      BY <2>1
    <2>3. ofRows \in [Everyone -> Int]
      <3> HIDE DEF rows
      <3> QED BY <1>1, <2>2
    <2>4. both \in [Everyone -> Int]
      <3> HIDE DEF rows, cols, ofRows
      <3> QED BY <2>2, <2>3
    <2> QED BY <2>2, <2>3, <2>4
  <1>3. costs \in [Everyone -> Int]
    BY CostIs
  <1>4. \A j \in Everyone : both[j] <= costs[j]
    <2> SUFFICES ASSUME NEW j \in Everyone PROVE both[j] <= costs[j]
      OBVIOUS
    <2>1. both[j] = u[q[j]] + v[j] /\ costs[j] = Cost(q[j], j) /\ q[j] \in 1 .. Size /\ j \in 1 .. Size
      BY <1>1 DEF Everyone
    <2>2. Slack(q[j], j) >= 0
      BY <2>1 DEF Matched, Feasible
    <2>3. u[q[j]] \in Int /\ v[j] \in Int /\ Cost(q[j], j) \in Int
      BY <1>1, CostIs DEF SolverTypes
    <2> HIDE DEF both, costs
    <2> QED BY <2>1, <2>2, <2>3 DEF Slack
  <1>5. (\A j \in Everyone : q[j] = p[j]) => \A j \in Everyone : both[j] = costs[j]
    <2> SUFFICES ASSUME NEW j \in Everyone, q[j] = p[j] PROVE both[j] = costs[j]
      OBVIOUS
    <2>1. both[j] = u[q[j]] + v[j] /\ costs[j] = Cost(q[j], j) /\ q[j] \in 1 .. Size /\ j \in 1 .. Size
      BY <1>1 DEF Everyone
    <2>2. q[j] # 0
      BY <2>1
    <2>3. Slack(q[j], j) = 0
      BY <2>1, <2>2 DEF Matched, Tight
    <2>4. u[q[j]] \in Int /\ v[j] \in Int /\ Cost(q[j], j) \in Int
      BY <1>1, CostIs DEF SolverTypes
    <2> HIDE DEF both, costs
    <2> QED BY <2>1, <2>3, <2>4 DEF Slack
  <1>6. SumFunction(both) = Prices /\ Prices \in Int
    <2>1. SumFunction(ofRows) = SumFunction(rows)
      <3> HIDE DEF rows
      <3>1. q \in Bijection(Everyone, Everyone)
        BY DEF Whole
      <3>2. \A j \in Everyone : ofRows[j] = rows[q[j]]
        OBVIOUS
      <3>3. IsFiniteSet(Everyone) /\ rows \in [Everyone -> Int] /\ ofRows \in [Everyone -> Int]
        BY <1>1, <1>2
      <3> HIDE DEF ofRows
      <3> QED BY <3>1, <3>2, <3>3, SumRenamed
    <2>2. SumFunction(both) = SumFunction(ofRows) + SumFunction(cols)
      <3> HIDE DEF ofRows, cols
      <3> QED BY <1>1, <1>2, SumAdd
    <2>3. SumFunction(rows) \in Int /\ SumFunction(cols) \in Int
      <3> HIDE DEF rows, cols
      <3> QED BY <1>1, <1>2, SumIsInt
    <2>4. Prices = SumFunction(rows) + SumFunction(cols)
      BY DEF Prices
    <2> HIDE DEF both, ofRows, rows, cols
    <2> QED BY <2>1, <2>2, <2>3, <2>4
  <1>7. Paid(q) = SumFunction(costs)
    BY DEF Paid
  <1>8. SumFunction(both) <= SumFunction(costs) /\ SumFunction(costs) \in Int
    <2> HIDE DEF both, costs
    <2> QED BY <1>1, <1>2, <1>3, <1>4, SumMonotone
  <1>9. (\A j \in Everyone : q[j] = p[j]) => costs = both
    BY <1>5
  <1> HIDE DEF both, costs
  <1> QED BY <1>6, <1>7, <1>8, <1>9

\* The matching that the solver ends with.
Final == [j \in Everyone |-> p[j]]

LEMMA FinalIsWhole == ASSUME IsFloor(floor), SolverTypes, Matched(Size) PROVE Final \in Whole
  <1>1. IsFiniteSet(Everyone) /\ Cardinality(Everyone) = Size /\ Size \in Nat \ {0}
    BY EveryoneIs, SizeIs
  <1>2. /\ \A j \in Everyone : p[j] \in 0 .. Size
        /\ \A i \in Everyone : \E j \in Everyone : p[j] = i
    BY DEF Matched, Pairs, Everyone
  <1>3. ASSUME NEW j \in Everyone PROVE p[j] # 0
    <2> SUFFICES ASSUME p[j] = 0 PROVE FALSE
      OBVIOUS
    <2> DEFINE rest == Everyone \ {j}
               back == [i \in Everyone |-> CHOOSE k \in rest : p[k] = i]
    <2>1. IsFiniteSet(rest) /\ Cardinality(rest) = Size - 1
      BY <1>1, FS_RemoveElement
    <2>2. \A i \in Everyone : back[i] \in rest /\ p[back[i]] = i
      <3> SUFFICES ASSUME NEW i \in Everyone PROVE \E k \in rest : p[k] = i
        OBVIOUS
      <3>1. PICK k \in Everyone : p[k] = i
        BY <1>2
      <3>2. i # 0
        BY <1>1 DEF Everyone
      <3> QED BY <3>1, <3>2
    <2>3. back \in Injection(Everyone, rest)
      <3>1. back \in [Everyone -> rest]
        BY <2>2
      <3>2. \A i, k \in Everyone : back[i] = back[k] => i = k
        <4> HIDE DEF back, rest
        <4> QED BY <2>2
      <3> HIDE DEF back, rest
      <3> QED BY <3>1, <3>2, Fun_IsInj
    <2>4. Cardinality(Everyone) <= Cardinality(rest)
      <3> HIDE DEF back, rest
      <3> QED BY <2>1, <2>3, FS_Injection
    <2> HIDE DEF rest
    <2> QED BY <1>1, <2>1, <2>4
  <1>4. Final \in [Everyone -> Everyone]
    <2>1. \A j \in Everyone : p[j] \in 1 .. Size
      BY <1>1, <1>2, <1>3
    <2> QED BY <2>1 DEF Final, Everyone
  <1>5. \A j, k \in Everyone : Final[j] = Final[k] => j = k
    BY <1>3 DEF Matched, Pairs, Everyone, Final
  <1>6. \A i \in Everyone : \E j \in Everyone : Final[j] = i
    BY <1>2 DEF Final
  <1> QED BY <1>4, <1>5, <1>6, Fun_IsBij DEF Whole

\* A one-to-one choice for some can be completed to one for all.
LEMMA ChoiceCompleted ==
    ASSUME NEW S, IsFiniteSet(S), NEW T \in SUBSET S, NEW m \in [T -> S],
           \A c, d \in T : m[c] = m[d] => c = d
    PROVE  \E q \in Bijection(S, S) : \A c \in T : q[m[c]] = c
  <1> DEFINE A == {m[c] : c \in T}
  <1>1. IsFiniteSet(T) /\ A \in SUBSET S /\ IsFiniteSet(A) /\ Cardinality(A) = Cardinality(T)
    <2>1. IsFiniteSet(T) /\ A \in SUBSET S
      BY FS_Subset
    <2>2. m \in Bijection(T, A)
      BY Fun_IsBij
    <2> HIDE DEF A
    <2> QED BY <2>1, <2>2, FS_Bijection DEF ExistsBijection
  <1> HIDE DEF A
  <1>2. PICK b \in Bijection(S \ A, S \ T) : TRUE
    <2>1. /\ IsFiniteSet(S \ A) /\ Cardinality(S \ A) = Cardinality(S) - Cardinality(S \cap A)
          /\ IsFiniteSet(S \ T) /\ Cardinality(S \ T) = Cardinality(S) - Cardinality(S \cap T)
      BY FS_Difference
    <2>2. S \cap A = A /\ S \cap T = T
      BY <1>1
    <2> QED BY <1>1, <2>1, <2>2, FS_SameCardinalityBij DEF ExistsBijection
  <1>3. /\ b \in [S \ A -> S \ T] /\ \A j, k \in S \ A : b[j] = b[k] => j = k
        /\ \A i \in S \ T : \E j \in S \ A : b[j] = i
    BY Fun_BijectionProperties
  <1> DEFINE q == [j \in S |-> IF j \in A THEN CHOOSE c \in T : m[c] = j ELSE b[j]]
  <1>4. /\ \A j \in A : q[j] \in T /\ m[q[j]] = j
        /\ \A j \in S \ A : q[j] = b[j] /\ q[j] \in S \ T
    <2>1. ASSUME NEW j \in A PROVE \E c \in T : m[c] = j
      BY DEF A
    <2> QED BY <1>1, <1>3, <2>1
  <1>5. \A c \in T : q[m[c]] = c
    <2> SUFFICES ASSUME NEW c \in T PROVE q[m[c]] = c
      OBVIOUS
    <2>1. m[c] \in A
      BY DEF A
    <2>2. q[m[c]] \in T /\ m[q[m[c]]] = m[c]
      <3> HIDE DEF q
      <3> QED BY <1>4, <2>1
    <2> HIDE DEF q
    <2> QED BY <2>2
  <1>6. q \in [S -> S]
    <2>1. \A j \in S : q[j] \in S
      <3> HIDE DEF q
      <3> QED BY <1>4
    <2> QED BY <2>1
  <1>7. \A j, k \in S : q[j] = q[k] => j = k
    <2> HIDE DEF q
    <2> QED BY <1>3, <1>4
  <1>8. \A i \in S : \E j \in S : q[j] = i
    <2> SUFFICES ASSUME NEW i \in S PROVE \E j \in S : q[j] = i
      OBVIOUS
    <2> HIDE DEF q
    <2>1. CASE i \in T
      BY <1>5, <2>1
    <2>2. CASE i \notin T
      BY <1>3, <1>4, <2>2
    <2> QED BY <2>1, <2>2
  <1> HIDE DEF q
  <1> QED BY <1>5, <1>6, <1>7, <1>8, Fun_IsBij

\* The columns of a matching that pair a call with a desk, and their number:
\* the padding takes the rest.
Inside(q) == {j \in Desks : q[j] \in Callers}

Common == IF Len(floor.calls) <= Len(floor.fit[1]) THEN Len(floor.calls) ELSE Len(floor.fit[1])

LEMMA InsideIs ==
    ASSUME IsFloor(floor), NEW q \in Whole
    PROVE  /\ IsFiniteSet(Inside(q)) /\ Cardinality(Inside(q)) = Common /\ Common \in Nat
           /\ Inside(q) \subseteq Everyone
  <1>1. /\ q \in [Everyone -> Everyone] /\ \A j, k \in Everyone : q[j] = q[k] => j = k
        /\ \A i \in Everyone : \E j \in Everyone : q[j] = i
    BY WholeIs
  <1>2. /\ Len(floor.calls) \in Nat /\ Len(floor.fit[1]) \in Nat
        /\ Len(floor.calls) <= Size /\ Len(floor.fit[1]) <= Size
        /\ Size = Len(floor.calls) \/ Size = Len(floor.fit[1])
        /\ Callers \subseteq Everyone /\ Desks \subseteq Everyone
        /\ IsFiniteSet(Callers) /\ IsFiniteSet(Desks) /\ Cardinality(Callers) = Len(floor.calls)
    BY SizeIs DEF Everyone
  <1>3. CASE Size = Len(floor.calls)
    <2>1. Callers = Everyone
      BY <1>3 DEF Callers, Everyone
    <2>2. Inside(q) = Desks
      BY <1>1, <1>2, <2>1 DEF Inside
    <2>3. Cardinality(Desks) = Len(floor.fit[1])
      <3>1. ASSUME NEW n \in Nat PROVE Cardinality(1 .. n) = n
        BY FS_Interval
      <3> QED BY <1>2, <3>1 DEF Desks
    <2>4. Common = Len(floor.fit[1])
      BY <1>2, <1>3 DEF Common
    <2> QED BY <1>2, <2>2, <2>3, <2>4
  <1>4. CASE Size = Len(floor.fit[1])
    <2>1. Desks = Everyone
      BY <1>4 DEF Desks, Everyone
    <2> DEFINE f == [j \in Inside(q) |-> q[j]]
    <2>2. f \in Bijection(Inside(q), Callers)
      <3>1. f \in [Inside(q) -> Callers] /\ \A j, k \in Inside(q) : f[j] = f[k] => j = k
        BY <1>1, <2>1 DEF Inside
      <3>2. \A i \in Callers : \E j \in Inside(q) : f[j] = i
        BY <1>1, <1>2, <2>1 DEF Inside
      <3> HIDE DEF f
      <3> QED BY <3>1, <3>2, Fun_IsBij
    <2>3. IsFiniteSet(Inside(q))
      BY <1>2, FS_Subset DEF Inside
    <2>4. Cardinality(Inside(q)) = Cardinality(Callers)
      <3> HIDE DEF f
      <3> QED BY <2>2, <2>3, FS_Bijection DEF ExistsBijection
    <2>5. Common = Len(floor.calls)
      BY <1>2, <1>4 DEF Common
    <2> QED BY <1>2, <2>1, <2>3, <2>4, <2>5 DEF Inside
  <1> QED BY <1>2, <1>3, <1>4

LEMMA PairingIs ==
    ASSUME IsFloor(floor), NEW m \in Pairings
    PROVE  /\ Placed(m) \subseteq Callers /\ IsFiniteSet(Placed(m))
           /\ Cardinality(Placed(m)) \in 0 .. Len(floor.calls)
           /\ \A c \in Placed(m) : m[c] \in Desks /\ Remaining(c, m[c]) \in PairScores
           /\ \A c, d \in Placed(m) : m[c] = m[d] => c = d
           /\ Total(m) \in 0 .. -Impossible - 1
  <1>1. /\ Placed(m) \subseteq Callers
        /\ \A c \in Placed(m) : m[c] \in Desks /\ Remaining(c, m[c]) > Impossible
        /\ \A c, d \in Placed(m) : m[c] = m[d] => c = d
    BY DEF Pairings, Placed
  <1>2. IsFiniteSet(Placed(m)) /\ Cardinality(Placed(m)) \in 0 .. Len(floor.calls)
    <2>1. /\ IsFiniteSet(Placed(m)) /\ Cardinality(Placed(m)) <= Cardinality(Callers)
          /\ Cardinality(Callers) = Len(floor.calls)
      BY <1>1, SizeIs, FS_Subset
    <2>2. Cardinality(Placed(m)) \in Nat
      BY <2>1, FS_CardinalityType
    <2> QED BY <2>1, <2>2, SizeIs
  <1>3. ASSUME NEW c \in Placed(m) PROVE Remaining(c, m[c]) \in PairScores
    <2>1. Remaining(c, m[c]) \in PairScores \cup {Impossible} /\ Impossible \in Int
      BY <1>1, ScoresAre
    <2> QED BY <1>1, <2>1
  <1>4. Total(m) \in 0 .. -Impossible - 1
    <2> DEFINE scores == [c \in Placed(m) |-> Remaining(c, m[c])]
    <2>1. PICK top \in Nat : top = TopFit * MaxMultiplier
      BY ScoresAre
    <2>2. PICK k \in Nat : k = Cardinality(Placed(m))
      BY <1>2
    <2> DEFINE none == [c \in Placed(m) |-> 0]
               most == [c \in Placed(m) |-> top]
    <2>3. scores \in [Placed(m) -> Int] /\ \A c \in Placed(m) : none[c] <= scores[c] /\ scores[c] <= most[c]
      BY <1>3, <2>1 DEF PairScores
    <2>4. SumFunction(none) = 0 * k /\ SumFunction(most) = top * k
      <3>1. /\ none \in [Placed(m) -> Int] /\ most \in [Placed(m) -> Int]
            /\ \A c \in Placed(m) : none[c] = 0 /\ most[c] = top
        OBVIOUS
      <3> HIDE DEF none, most
      <3>2. SumFunction(none) = 0 * Cardinality(Placed(m))
        BY <1>2, <3>1, SumOfConstant
      <3>3. SumFunction(most) = top * Cardinality(Placed(m))
        <4>1. top \in Int
          BY <2>1
        <4> QED BY <1>2, <3>1, <4>1, SumOfConstant
      <3> QED BY <2>2, <3>2, <3>3
    <2>5. SumFunction(none) <= SumFunction(scores) /\ SumFunction(scores) <= SumFunction(most)
          /\ SumFunction(scores) \in Int
      <3>1. none \in [Placed(m) -> Int] /\ most \in [Placed(m) -> Int]
        OBVIOUS
      <3> HIDE DEF none, most, scores
      <3> QED BY <1>2, <2>3, <3>1, SumMonotone
    <2>6. PICK s \in Int : s = Total(m) /\ 0 <= s /\ s <= top * k
      <3>1. Total(m) = SumFunction(scores)
        BY DEF Total
      <3>2. 0 * k = 0
        BY <2>2
      <3> HIDE DEF none, most, scores
      <3> QED BY <2>4, <2>5, <3>1, <3>2
    <2>7. top * k <= Len(floor.calls) * top
      <3>1. PICK l \in Nat : l = Len(floor.calls) /\ k <= l
        BY <1>2, <2>2, SizeIs
      <3>2. k * top <= l * top
        BY <3>1, TimesMonotone
      <3>3. top * k = k * top
        BY <2>1, <2>2
      <3> QED BY <3>1, <3>2, <3>3
    <2>8. PICK b \in Int : b = Impossible /\ Len(floor.calls) * top < -b
      BY <2>1, ScoresAre
    <2>9. Len(floor.calls) * top \in Int /\ top * k \in Int
      BY SizeIs
    <2>10. s < -b
      BY <2>6, <2>7, <2>8, <2>9
    <2> QED BY <2>6, <2>8, <2>10
  <1> QED BY <1>1, <1>2, <1>3, <1>4

\* What a pairing is worth when nobody is left unserved who could be: a call
\* served outweighs all the scores together.
Worth(m) == (-Impossible) * Cardinality(Placed(m)) + Total(m)

\* A matching that contains a pairing saves what the pairing is worth, and no
\* less if none of its other pairs could have been.
LEMMA PairingIsPaid ==
    ASSUME IsFloor(floor), NEW m \in Pairings, NEW q \in Whole, \A c \in Placed(m) : q[m[c]] = c
    PROVE  /\ Paid(q) \in Int /\ Worth(m) \in Int /\ (-Impossible) * Common \in Int
           /\ Paid(q) + Worth(m) <= (-Impossible) * Common
           /\ (\A j \in Inside(q) : (\A c \in Placed(m) : m[c] # j) => Remaining(q[j], j) = Impossible)
                 => Paid(q) + Worth(m) = (-Impossible) * Common
  <1> DEFINE T == Placed(m)
             A == {m[c] : c \in T}
  <1>1. PICK b \in Int : b = -Impossible
    BY ScoresAre
  <1>2. /\ T \subseteq Callers /\ IsFiniteSet(T) /\ Cardinality(T) \in Nat
        /\ \A c \in T : m[c] \in Desks /\ Remaining(c, m[c]) \in Int
        /\ \A c, d \in T : m[c] = m[d] => c = d
        /\ Total(m) \in Int
    BY PairingIs, ScoresAre DEF PairScores
  <1>3. /\ q \in [Everyone -> Everyone] /\ IsFiniteSet(Everyone)
        /\ IsFiniteSet(Inside(q)) /\ Cardinality(Inside(q)) = Common /\ Common \in Nat
        /\ Inside(q) \subseteq Everyone /\ Inside(q) \subseteq Desks
    BY WholeIs, EveryoneIs, InsideIs DEF Inside
  <1>4. /\ A \subseteq Inside(q) /\ \A j \in A : q[j] \in T
        /\ \A j \in Everyone : j \in A <=> ~(\A c \in T : m[c] # j)
    BY <1>2 DEF Inside
  <1>5. IsFiniteSet(A) /\ A \subseteq Everyone
    BY <1>3, <1>4, FS_Subset
  <1> HIDE DEF T, A
  <1> DEFINE costs == [j \in Everyone |-> Cost(q[j], j)]
             inside == [j \in Everyone |-> IF j \in Inside(q) THEN b ELSE 0]
             saved == [j \in Everyone |-> IF j \in A THEN -Remaining(q[j], j) - b ELSE 0]
             both == [j \in Everyone |-> inside[j] + saved[j]]
             flat == [j \in Inside(q) |-> b]
             ofDesks == [j \in A |-> -Remaining(q[j], j) - b]
             ofCalls == [c \in T |-> -Remaining(c, m[c]) - b]
             scores == [c \in T |-> Remaining(c, m[c])]
             level == [c \in T |-> ofCalls[c] + scores[c]]
             paired == [c \in T |-> m[c]]
  <1>6. \A j \in Inside(q) : Remaining(q[j], j) \in Int /\ -Remaining(q[j], j) <= b
                             /\ Cost(q[j], j) = -Remaining(q[j], j)
    <2> SUFFICES ASSUME NEW j \in Inside(q)
                 PROVE  /\ Remaining(q[j], j) \in Int /\ -Remaining(q[j], j) <= b
                        /\ Cost(q[j], j) = -Remaining(q[j], j)
      OBVIOUS
    <2>1. q[j] \in Callers /\ j \in Desks
      BY DEF Inside
    <2>2. Remaining(q[j], j) \in PairScores \cup {Impossible} /\ Impossible < 0 /\ Impossible \in Int
      BY <2>1, ScoresAre
    <2>3. PICK s \in Int : s = Remaining(q[j], j) /\ s >= Impossible
      BY <2>2 DEF PairScores
    <2>4. -s <= b
      BY <1>1, <2>2, <2>3
    <2> QED BY <2>1, <2>3, <2>4 DEF Cost
  <1>7. \A j \in Everyone \ Inside(q) : Cost(q[j], j) = 0
    BY DEF Cost, Inside
  <1>8. /\ costs \in [Everyone -> Int] /\ inside \in [Everyone -> Int]
        /\ flat \in [Inside(q) -> Int] /\ paired \in Bijection(T, A)
    <2>1. costs \in [Everyone -> Int]
      BY CostIs
    <2>2. inside \in [Everyone -> Int] /\ flat \in [Inside(q) -> Int]
      BY <1>1
    <2>3. paired \in Bijection(T, A)
      <3>1. paired \in [T -> A] /\ \A j \in A : \E c \in T : paired[c] = j
        BY DEF A
      <3>2. \A c, d \in T : paired[c] = paired[d] => c = d
        BY <1>2
      <3> HIDE DEF paired
      <3> QED BY <3>1, <3>2, Fun_IsBij
    <2> QED BY <2>1, <2>2, <2>3
  <1>9. /\ saved \in [Everyone -> Int] /\ ofDesks \in [A -> Int]
        /\ ofCalls \in [T -> Int] /\ scores \in [T -> Int]
    <2>1. \A j \in A : -Remaining(q[j], j) - b \in Int
      BY <1>1, <1>4, <1>6
    <2>2. \A c \in T : -Remaining(c, m[c]) - b \in Int
      BY <1>1, <1>2
    <2> QED BY <1>2, <2>1, <2>2
  <1>10. both \in [Everyone -> Int] /\ level \in [T -> Int]
    <2> HIDE DEF inside, saved, ofCalls, scores
    <2> QED BY <1>8, <1>9
  <1>11. \A j \in Everyone : costs[j] <= both[j]
    <2> SUFFICES ASSUME NEW j \in Everyone PROVE costs[j] <= both[j]
      OBVIOUS
    <2>1. costs[j] = Cost(q[j], j) /\ both[j] = inside[j] + saved[j]
          /\ inside[j] = (IF j \in Inside(q) THEN b ELSE 0)
          /\ saved[j] = IF j \in A THEN -Remaining(q[j], j) - b ELSE 0
      OBVIOUS
    <2> HIDE DEF costs, both, inside, saved
    <2>2. CASE j \in Inside(q)
      <3>1. PICK s \in Int : s = Remaining(q[j], j) /\ -s <= b /\ costs[j] = -s
        BY <1>6, <2>1, <2>2
      <3> QED BY <1>1, <2>1, <2>2, <3>1
    <2>3. CASE j \notin Inside(q)
      BY <1>4, <1>7, <2>1, <2>3
    <2> QED BY <2>2, <2>3
  <1>12. (\A j \in Inside(q) : (\A c \in Placed(m) : m[c] # j) => Remaining(q[j], j) = Impossible)
            => costs = both
    <2> SUFFICES ASSUME \A j \in Inside(q) : (\A c \in T : m[c] # j) => Remaining(q[j], j) = Impossible,
                        NEW j \in Everyone
                 PROVE  costs[j] = both[j]
      BY DEF T
    <2>1. costs[j] = Cost(q[j], j) /\ both[j] = inside[j] + saved[j]
          /\ inside[j] = (IF j \in Inside(q) THEN b ELSE 0)
          /\ saved[j] = IF j \in A THEN -Remaining(q[j], j) - b ELSE 0
      OBVIOUS
    <2> HIDE DEF costs, both, inside, saved
    <2>2. CASE j \in Inside(q)
      <3>1. PICK s \in Int : s = Remaining(q[j], j) /\ -s <= b /\ costs[j] = -s
        BY <1>6, <2>1, <2>2
      <3>2. j \notin A => s = Impossible
        BY <1>4, <2>2, <3>1
      <3>3. s = Impossible => -s = b
        BY <1>1
      <3> QED BY <1>1, <2>1, <2>2, <3>1, <3>2, <3>3
    <2>3. CASE j \notin Inside(q)
      BY <1>4, <1>7, <2>1, <2>3
    <2> QED BY <2>2, <2>3
  <1>13. SumFunction(inside) = b * Common
    <2>1. SumFunction(flat) = b * Cardinality(Inside(q))
      <3>1. \A j \in Inside(q) : flat[j] = b
        OBVIOUS
      <3> HIDE DEF flat
      <3> QED BY <1>3, <1>8, <3>1, SumOfConstant
    <2>2. SumFunction(inside) = SumFunction(flat)
      <3>1. /\ \A j \in Inside(q) : inside[j] = flat[j]
            /\ \A j \in Everyone \ Inside(q) : inside[j] = 0
        BY <1>3
      <3> HIDE DEF flat, inside
      <3> QED BY <1>3, <1>8, <3>1, SumOfPart
    <2> HIDE DEF flat, inside
    <2> QED BY <1>3, <2>1, <2>2
  <1>14. SumFunction(saved) = SumFunction(ofDesks)
    <2>1. /\ \A j \in A : saved[j] = ofDesks[j]
          /\ \A j \in Everyone \ A : saved[j] = 0
      BY <1>5
    <2> HIDE DEF saved, ofDesks
    <2> QED BY <1>3, <1>5, <1>9, <2>1, SumOfPart
  <1>15. SumFunction(ofCalls) = SumFunction(ofDesks)
    <2>1. \A c \in T : ofCalls[c] = ofDesks[paired[c]]
      <3> SUFFICES ASSUME NEW c \in T PROVE ofCalls[c] = ofDesks[paired[c]]
        OBVIOUS
      <3>1. m[c] \in A /\ q[m[c]] = c
        BY DEF A, T
      <3> QED BY <3>1
    <2> HIDE DEF ofCalls, ofDesks, paired
    <2> QED BY <1>5, <1>8, <1>9, <2>1, SumRenamed
  <1>16. SumFunction(level) = SumFunction(ofCalls) + SumFunction(scores)
    <2> HIDE DEF ofCalls, scores
    <2> QED BY <1>2, <1>9, SumAdd
  <1>17. SumFunction(level) = (-b) * Cardinality(T)
    <2>1. \A c \in T : level[c] = -b
      <3> SUFFICES ASSUME NEW c \in T PROVE level[c] = -b
        OBVIOUS
      <3>1. PICK s \in Int : s = Remaining(c, m[c])
        BY <1>2
      <3>2. level[c] = (-s - b) + s
        BY <3>1
      <3> HIDE DEF level
      <3> QED BY <1>1, <3>1, <3>2
    <2>2. -b \in Int
      BY <1>1
    <2> HIDE DEF level
    <2> QED BY <1>2, <1>10, <2>1, <2>2, SumOfConstant
  <1>18. SumFunction(scores) = Total(m)
    BY DEF Total, T
  <1>19. SumFunction(both) = SumFunction(inside) + SumFunction(saved)
    <2> HIDE DEF inside, saved
    <2> QED BY <1>3, <1>8, <1>9, SumAdd
  <1>20. PICK k \in Nat : k = Cardinality(T)
    BY <1>2
  <1>21. PICK n \in Nat : n = Common
    BY <1>3
  <1>22. SumFunction(ofCalls) \in Int
    <2> HIDE DEF ofCalls
    <2> QED BY <1>2, <1>9, SumIsInt
  <1>23. Worth(m) = b * k + Total(m)
    BY <1>1, <1>20 DEF Worth, T
  <1>24. SumFunction(both) = b * n - Worth(m) /\ b * n \in Int /\ Worth(m) \in Int
    <2>1. b * k \in Int /\ b * n \in Int /\ (-b) * k = -(b * k)
      OBVIOUS
    <2> HIDE DEF both, inside, saved, ofDesks, ofCalls, scores, level
    <2>2. SumFunction(saved) = -(b * k) - Total(m)
      BY <1>2, <1>14, <1>15, <1>16, <1>17, <1>18, <1>20, <1>22, <2>1
    <2> QED BY <1>2, <1>13, <1>19, <1>21, <1>23, <2>1, <2>2
  <1>25. Paid(q) = SumFunction(costs)
    BY DEF Paid
  <1>26. SumFunction(costs) <= SumFunction(both) /\ SumFunction(costs) \in Int
    <2> HIDE DEF costs, both
    <2> QED BY <1>3, <1>8, <1>10, <1>11, SumMonotone
  <1> HIDE DEF costs, both
  <1>27. (-Impossible) * Common = b * n
    BY <1>1, <1>21
  <1> QED BY <1>12, <1>24, <1>25, <1>26, <1>27

\* What is read off the matching is a pairing, and leaves out no pair that may
\* be.
LEMMA SolutionIs ==
    ASSUME IsFloor(floor), SolverTypes, Matched(Size)
    PROVE  /\ Solution \in Pairings /\ \A c \in Placed(Solution) : Final[Solution[c]] = c
           /\ \A j \in Inside(Final) :
                 (\A c \in Placed(Solution) : Solution[c] # j) => Remaining(Final[j], j) = Impossible
  <1>1. /\ Desks \subseteq Nat \ {0} /\ Desks \subseteq Everyone
        /\ \A j, k \in Everyone : p[j] = p[k] /\ p[j] # 0 => j = k
        /\ \A j \in Desks : Final[j] = p[j]
    <2>1. Desks \subseteq Everyone /\ Everyone \subseteq Nat \ {0}
      BY SizeIs DEF Everyone
    <2> QED BY <2>1 DEF Final, Matched, Pairs, Everyone
  <1>2. \A c \in Callers : Solution[c] \in Assignment(c) \/ (Solution[c] = 0 /\ Assignment(c) = {})
    <2> SUFFICES ASSUME NEW c \in Callers, Assignment(c) # {} PROVE Solution[c] \in Assignment(c)
      BY DEF Solution
    <2>1. Assignment(c) \in SUBSET Nat
      BY <1>1 DEF Assignment
    <2> QED BY <2>1, LeastIs DEF Solution
  <1>3. \A c \in Callers : \A a \in Assignment(c) :
           a \in Desks /\ a # 0 /\ p[a] = c /\ c # 0 /\ Remaining(c, a) > Impossible
    BY <1>1 DEF Assignment, Callers
  <1>4. \A c \in Callers : Solution[c] # 0 =>
           /\ Solution[c] \in Desks /\ p[Solution[c]] = c /\ c # 0 /\ Remaining(c, Solution[c]) > Impossible
    BY <1>2, <1>3
  <1>5. Solution \in [Callers -> Desks \cup {0}]
    <2>1. \A c \in Callers : Solution[c] \in Desks \cup {0}
      BY <1>2, <1>3
    <2> QED BY <2>1 DEF Solution
  <1>6. \A c \in Callers : Solution[c] # 0 => \A d \in Callers \ {c} : Solution[d] # Solution[c]
    BY <1>1, <1>4
  <1>7. Solution \in Pairings
    BY <1>4, <1>5, <1>6 DEF Pairings
  <1>8. \A c \in Placed(Solution) : Final[Solution[c]] = c
    BY <1>1, <1>4 DEF Placed
  <1>9. ASSUME NEW j \in Inside(Final), \A c \in Placed(Solution) : Solution[c] # j
        PROVE  Remaining(Final[j], j) = Impossible
    <2>1. j \in Desks /\ p[j] \in Callers /\ Final[j] = p[j]
      BY <1>1 DEF Inside
    <2>2. p[j] # 0
      BY <2>1 DEF Callers
    <2> SUFFICES ASSUME Remaining(p[j], j) # Impossible PROVE FALSE
      BY <2>1
    <2>3. Remaining(p[j], j) \in PairScores /\ Impossible \in Int /\ Impossible < 0
      BY <2>1, ScoresAre
    <2>4. Remaining(p[j], j) > Impossible
      BY <2>3 DEF PairScores
    <2>5. j \in Assignment(p[j])
      BY <2>1, <2>4 DEF Assignment
    <2>6. Solution[p[j]] \in Assignment(p[j])
      BY <1>2, <2>1, <2>5
    <2>7. Solution[p[j]] = j
      BY <1>1, <1>3, <2>1, <2>2, <2>6
    <2>8. p[j] \in Placed(Solution)
      BY <1>3, <2>1, <2>6 DEF Placed
    <2> QED BY <1>9, <2>7, <2>8
  <1> QED BY <1>7, <1>8, <1>9

\* No pairing is worth more than the one the solver ends with.
LEMMA SolutionIsWorthMost ==
    ASSUME IsFloor(floor), SolverTypes, Matched(Size), NEW m \in Pairings
    PROVE  Worth(m) <= Worth(Solution)
  <1>1. PICK q \in Whole : \A c \in Placed(m) : q[m[c]] = c
    <2>1. /\ Placed(m) \subseteq Everyone /\ \A c \in Placed(m) : m[c] \in Everyone
          /\ \A c, d \in Placed(m) : m[c] = m[d] => c = d
      BY PairingIs, SizeIs DEF Everyone
    <2> DEFINE f == [c \in Placed(m) |-> m[c]]
    <2>2. f \in [Placed(m) -> Everyone] /\ \A c \in Placed(m) : f[c] = m[c]
      BY <2>1
    <2> HIDE DEF f
    <2>3. \A c, d \in Placed(m) : f[c] = f[d] => c = d
      BY <2>1, <2>2
    <2>4. PICK q \in Bijection(Everyone, Everyone) : \A c \in Placed(m) : q[f[c]] = c
      BY <2>1, <2>2, <2>3, EveryoneIs, ChoiceCompleted
    <2> QED BY <2>2, <2>4 DEF Whole
  <1>2. /\ Paid(q) \in Int /\ Worth(m) \in Int /\ (-Impossible) * Common \in Int
        /\ Paid(q) + Worth(m) <= (-Impossible) * Common
    BY <1>1, PairingIsPaid
  <1>3. Paid(Final) + Worth(Solution) = (-Impossible) * Common /\ Worth(Solution) \in Int
    BY FinalIsWhole, SolutionIs, PairingIsPaid
  <1>4. Prices \in Int /\ Prices <= Paid(q)
    BY PricesAreLeast
  <1>5. Paid(Final) = Prices
    <2>1. Final \in Whole /\ \A j \in Everyone : Final[j] = p[j]
      BY FinalIsWhole DEF Final
    <2> QED BY <2>1, PricesAreLeast
  <1> QED BY <1>2, <1>3, <1>4, <1>5

\* Among all pairings of the callers and desks that the rescue leaves, the one
\* the solver ends with serves as many as can be, and scores the most of those
\* that do: for any numbers of calls and desks and any fits, as long as all
\* the calls together score less than IMPOSSIBLE costs.
THEOREM SolverIsAlwaysBest == Spec => []SolverIsBest
  <1>1. Init => TickFits /\ SolverFits
    BY DEF Init, MatchInit, TickFits, SolverFits
  <1>2. TickFits /\ SolverFits /\ [Next]_vars => TickFits' /\ SolverFits'
    BY TickFitsStep, SolverFitsStep
  <1>3. TickFits /\ SolverFits => SolverIsBest
    <2> SUFFICES ASSUME TickFits, SolverFits, pc = "done" PROVE SolverIsBest
      BY DEF SolverIsBest
    <2>1. IsFloor(floor) /\ SolverTypes /\ Matched(Size)
      BY DEF TickFits, SolverFits
    <2>2. Solution \in Pairings
      BY <2>1, SolutionIs
    <2>3. ASSUME NEW m \in Pairings
          PROVE  \/ Cardinality(Placed(m)) < Cardinality(Placed(Solution))
                 \/ /\ Cardinality(Placed(m)) = Cardinality(Placed(Solution))
                    /\ Total(m) <= Total(Solution)
      <3>1. PICK b \in Int : b = -Impossible
        BY <2>1, ScoresAre
      <3>2. PICK k \in Nat, s \in 0 .. b - 1 : k = Cardinality(Placed(m)) /\ s = Total(m)
        BY <2>1, <3>1, PairingIs, SizeIs
      <3>3. PICK l \in Nat, t \in 0 .. b - 1 :
               l = Cardinality(Placed(Solution)) /\ t = Total(Solution)
        BY <2>1, <2>2, <3>1, PairingIs, SizeIs
      <3>4. b * k + s <= b * l + t
        BY <2>1, <3>1, <3>2, <3>3, SolutionIsWorthMost DEF Worth
      <3>5. k <= l
        <4> SUFFICES ASSUME k >= l + 1 PROVE FALSE
          BY <3>2, <3>3
        <4>1. b \in Nat
          BY <3>2
        <4>2. b * (l + 1) <= b * k
          BY <3>2, <3>3, <4>1, TimesMonotone
        <4>3. b * (l + 1) = b * l + b /\ b * l \in Int /\ b * k \in Int
          <5>1. ASSUME NEW x \in Nat, NEW y \in Nat PROVE x * (y + 1) = x * y + x /\ x * y \in Int
            OBVIOUS
          <5> QED BY <4>1, <5>1
        <4> QED BY <3>2, <3>3, <3>4, <4>2, <4>3
      <3>6. k = l => s <= t
        <4>1. b * l \in Int
          BY <3>3
        <4> QED BY <3>2, <3>3, <3>4, <4>1
      <3> QED BY <3>2, <3>3, <3>5, <3>6
    <2> QED BY <2>2, <2>3 DEF SolverIsBest
  <1> QED BY <1>1, <1>2, <1>3, PTL DEF Spec
=============================================================================
