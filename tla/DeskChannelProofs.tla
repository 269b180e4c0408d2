-------------------------- MODULE DeskChannelProofs --------------------------
(***************************************************************************)
(* What DeskChannel guarantees for any number of agents, turns, offers,    *)
(* tabs, messages and dropped connections.                                 *)
(*                                                                         *)
(* The turns.  Whoever the delivery sends to took the call, and so did     *)
(* whoever an acceptance still in the bus speaks of: an acceptance is      *)
(* published last of all resolutions, and nobody is rung after it.         *)
(*                                                                         *)
(* The summary.  Once the final pass has written, its task is over and no  *)
(* accept can start another.                                               *)
(*                                                                         *)
(* The link.  Of every message this session has sent, a live tab has seen  *)
(* it, or a snapshot that covers it is on the wire, or it will be applied  *)
(* when it arrives: nothing numbered higher comes before it.               *)
(***************************************************************************)
EXTENDS DeskChannel, FiniteSetTheorems, SequenceTheorems, TLAPS

-----------------------------------------------------------------------------
(* The turns.                                                              *)

Event == [kind : {"turn"}, turn : Nat]
         \cup [kind : {"resolved"}, agent : Agents \cup {NoOne}, accepted : BOOLEAN]
         \cup {Over}

Hand == [event : Event \cup {Nothing.event}, left : {<<>>, <<"recorder">>, <<"delivery">>}]

Taken(a) == phase \in {"connected", "over"} /\ desk = a

\* An acceptance speaks of the one who took the call.
SpeaksTrue(e) == e.kind = "resolved" /\ e.accepted => Taken(e.agent)

\* A drainer that goes on has a handler that takes the event in its hand.
HandFits(h) ==
    /\ h.left = <<"recorder">> => h.event.kind = "turn"
    /\ h.left = <<"delivery">> => h.event = Over

FeedTypeOK ==
    /\ phase \in {"waiting", "ringing", "accepting", "connected", "over"}
    /\ desk \in Agents \cup {NoOne}
    /\ offers \in Nat /\ offers <= MaxOffers /\ said \in Nat
    /\ pending \in Seq(Event)
    /\ handling \in [Drainers -> Hand]
    /\ held \in Seq(Nat)
    /\ screen \in [Agents -> Seq(Nat)]

FeedInv ==
    /\ FeedTypeOK
    /\ owner # NoOne => Taken(owner)
    /\ \A i \in 1 .. Len(pending) : SpeaksTrue(pending[i])
    /\ \A d \in Drainers : HandFits(handling[d])
    /\ OnlyTheTakerReads

\* What the delivery sends, it sends to the one who took the call.
LEMMA DeliveryKeeps ==
    ASSUME FeedInv, NEW e \in Event, SpeaksTrue(e), Delivery(e), UNCHANGED <<phase, desk>>
    PROVE  /\ held' \in Seq(Nat) /\ screen' \in [Agents -> Seq(Nat)]
           /\ owner' # NoOne => Taken(owner)'
           /\ OnlyTheTakerReads'
  <1>0. held \in Seq(Nat) /\ screen \in [Agents -> Seq(Nat)]
    BY DEF FeedInv, FeedTypeOK
  <1>1. CASE e.kind = "turn"
    <2>1. OnTurn(e.turn) /\ e.turn \in Nat
      BY <1>1 DEF Delivery, Event, Over
    <2> DEFINE more == Append(held, e.turn)
    <2>2. more \in Seq(Nat) /\ Len(more) = Len(held) + 1 /\ Len(held) \in Nat
      BY <1>0, <2>1, AppendProperties
    <2> HIDE DEF more
    <2>3. held' \in Seq(Nat)
      <3>1. CASE Len(held) < MaxTurnsPerCall
        BY <2>1, <2>2, <3>1 DEF OnTurn, more
      <3>2. CASE ~(Len(held) < MaxTurnsPerCall)
        <4>1. held' = SubSeq(more, Len(more) - MaxTurnsPerCall + 1, Len(more))
          BY <2>1, <3>2 DEF OnTurn, more, Lastly
        <4>2. Len(more) - MaxTurnsPerCall + 1 \in Nat \ {0}
          BY <2>2, <3>2, FeedAssumption
        <4> QED BY <2>2, <4>1, <4>2, SubSeqProperties
      <3> QED BY <3>1, <3>2
    <2>4. owner' = owner /\ \/ screen' = screen
                            \/ owner # NoOne /\ screen' = [screen EXCEPT ![owner] = held']
      BY <2>1 DEF OnTurn, Show
    <2>5. screen' \in [Agents -> Seq(Nat)] /\ \A a \in Agents : screen'[a] # screen[a] => Taken(a)
      BY <1>0, <2>3, <2>4 DEF FeedInv
    <2> QED BY <2>3, <2>4, <2>5 DEF FeedInv, OnlyTheTakerReads, Taken
  <1>2. CASE e.kind = "resolved"
    <2>1. OnOfferResolved(e) /\ held' = held
      BY <1>2 DEF Delivery, OnOfferResolved
    <2>2. CASE ~e.accepted
      BY <1>0, <2>1, <2>2 DEF OnOfferResolved, FeedInv, OnlyTheTakerReads, Taken
    <2>3. CASE e.accepted
      <3>1. owner' = e.agent /\ screen' = [screen EXCEPT ![e.agent] = held] /\ Taken(e.agent)
        BY <1>2, <2>1, <2>3 DEF OnOfferResolved, Show, SpeaksTrue
      <3>2. screen' \in [Agents -> Seq(Nat)] /\ \A a \in Agents : screen'[a] # screen[a] => Taken(a)
        BY <1>0, <3>1
      <3> QED BY <1>0, <2>1, <3>1, <3>2 DEF FeedInv, OnlyTheTakerReads, Taken
    <2> QED BY <2>2, <2>3
  <1>3. CASE e = Over
    BY <1>0, <1>3 DEF Delivery, Over, Forget, FeedInv, OnlyTheTakerReads
  <1> QED BY <1>1, <1>2, <1>3 DEF Event

\* Whoever is done, the other drainer's hand and the queue are as they were.
LEMMA HandKeeps ==
    ASSUME FeedInv, NEW d \in Drainers, NEW h \in Hand, HandFits(h),
           handling' = [handling EXCEPT ![d] = h]
    PROVE  /\ handling' \in [Drainers -> Hand]
           /\ \A x \in Drainers : HandFits(handling'[x])
  BY DEF FeedInv, FeedTypeOK

LEMMA PopKeeps ==
    ASSUME FeedInv, NEW d \in Drainers, Pop(d)
    PROVE  FeedInv'
  <1> DEFINE e == Head(pending)
             h == [event |-> e, left |-> Tail(Handlers(e))]
  <1>1. /\ pending # <<>> /\ pending' = Tail(pending)
        /\ Run(Head(Handlers(e)), e)
        /\ handling' = [handling EXCEPT ![d] = h]
        /\ UNCHANGED <<phase, desk, offers, listening, said>>
    BY DEF Pop, callVars
  <1>2. pending \in Seq(Event)
    BY DEF FeedInv, FeedTypeOK
  <1>3. /\ e = pending[1] /\ e \in Event
        /\ pending' \in Seq(Event) /\ Len(pending') = Len(pending) - 1 /\ Len(pending) \in Nat \ {0}
        /\ \A i \in 1 .. Len(pending') : i + 1 \in 1 .. Len(pending) /\ pending'[i] = pending[i + 1]
    BY <1>1, <1>2, HeadTailProperties
  <1>4. 1 \in 1 .. Len(pending)
    BY <1>3
  <1>5. SpeaksTrue(e) /\ \A i \in 1 .. Len(pending') : (SpeaksTrue(pending[i]))'
    <2>1. SpeaksTrue(e)
      BY <1>3, <1>4 DEF FeedInv
    <2>2. ASSUME NEW i \in 1 .. Len(pending') PROVE (SpeaksTrue(pending[i]))'
      <3>1. SpeaksTrue(pending[i + 1]) /\ pending'[i] = pending[i + 1]
        BY <1>3 DEF FeedInv
      <3> QED BY <1>1, <3>1 DEF SpeaksTrue, Taken
    <2> QED BY <2>1, <2>2
  <1> HIDE DEF e
  <1>6. CASE e = Over
    <2>1. Handlers(e) = <<"recording", "delivery">>
      BY <1>6 DEF Handlers, Over
    <2>2. Head(Handlers(e)) = "recording" /\ Tail(Handlers(e)) = <<"delivery">>
      BY <2>1
    <2>3. UNCHANGED <<held, owner, screen, recorded>>
      BY <1>1, <2>2 DEF Run
    <2>4. h \in Hand /\ HandFits(h)
      BY <1>3, <1>6, <2>2 DEF Hand, HandFits
    <2>5. handling' \in [Drainers -> Hand] /\ \A x \in Drainers : HandFits(handling'[x])
      BY <1>1, <2>4, HandKeeps
    <2> QED BY <1>1, <1>3, <1>5, <2>3, <2>5 DEF FeedInv, FeedTypeOK, OnlyTheTakerReads, Taken
  <1>7. CASE e # Over
    <2>1. /\ Head(Handlers(e)) = "delivery"
          /\ Tail(Handlers(e)) \in {<<>>, <<"recorder">>}
          /\ Tail(Handlers(e)) = <<"recorder">> => e.kind = "turn"
      <3>1. CASE e.kind = "turn"
        <4>1. Handlers(e) = <<"delivery", "recorder">>
          BY <3>1 DEF Handlers
        <4> QED BY <3>1, <4>1
      <3>2. CASE e.kind = "resolved"
        <4>1. Handlers(e) = <<"delivery">>
          BY <3>2 DEF Handlers
        <4> QED BY <4>1
      <3> QED BY <1>3, <1>7, <3>1, <3>2 DEF Event
    <2>2. Delivery(e)
      BY <1>1, <2>1 DEF Run
    <2>3. h \in Hand /\ HandFits(h)
      <3>1. <<"recorder">> # <<"delivery">> /\ <<>> # <<"delivery">>
        OBVIOUS
      <3> QED BY <1>3, <2>1, <3>1 DEF Hand, HandFits
    <2>4. handling' \in [Drainers -> Hand] /\ \A x \in Drainers : HandFits(handling'[x])
      BY <1>1, <2>3, HandKeeps
    <2>5. /\ held' \in Seq(Nat) /\ screen' \in [Agents -> Seq(Nat)]
          /\ owner' # NoOne => Taken(owner)'
          /\ OnlyTheTakerReads'
      BY <1>1, <1>3, <1>5, <2>2, DeliveryKeeps
    <2> QED BY <1>1, <1>3, <1>5, <2>4, <2>5 DEF FeedInv, FeedTypeOK
  <1> QED BY <1>6, <1>7

LEMMA NextHandlerKeeps ==
    ASSUME FeedInv, NEW d \in Drainers, NextHandler(d)
    PROVE  FeedInv'
  <1> DEFINE e == handling[d].event
             h == [handling[d] EXCEPT !.left = Tail(@)]
  <1>1. /\ handling[d].left # <<>> /\ Run(Head(handling[d].left), e)
        /\ handling' = [handling EXCEPT ![d] = h]
        /\ UNCHANGED <<pending, phase, desk, offers, listening, said>>
    BY DEF NextHandler, callVars
  <1>2. handling[d] \in Hand /\ HandFits(handling[d])
    BY DEF FeedInv, FeedTypeOK
  <1>3. \/ handling[d].left = <<"recorder">> /\ Head(handling[d].left) = "recorder"
        \/ handling[d].left = <<"delivery">> /\ Head(handling[d].left) = "delivery" /\ e = Over
    BY <1>1, <1>2 DEF Hand, HandFits
  <1>4. h \in Hand /\ HandFits(h)
    <2>0. Tail(<<"recorder">>) = <<>> /\ Tail(<<"delivery">>) = <<>>
      OBVIOUS
    <2>1. Tail(handling[d].left) = <<>>
      BY <1>3, <2>0
    <2>2. h.left = <<>> /\ h \in Hand
      BY <1>2, <2>1 DEF Hand
    <2> HIDE DEF h
    <2> QED BY <2>2 DEF HandFits
  <1>5. handling' \in [Drainers -> Hand] /\ \A x \in Drainers : HandFits(handling'[x])
    BY <1>1, <1>4, HandKeeps
  <1>6. /\ held' \in Seq(Nat) /\ screen' \in [Agents -> Seq(Nat)]
        /\ owner' # NoOne => Taken(owner)'
        /\ OnlyTheTakerReads'
    <2>1. CASE Head(handling[d].left) = "recorder"
      BY <1>1, <2>1 DEF Run, Recorder, FeedInv, FeedTypeOK, OnlyTheTakerReads, Taken
    <2>2. CASE Head(handling[d].left) = "delivery" /\ e = Over
      <3>1. Over \in Event /\ SpeaksTrue(Over) /\ Delivery(Over)
        BY <1>1, <2>2 DEF Event, SpeaksTrue, Over, Run
      <3> QED BY <1>1, <3>1, DeliveryKeeps
    <2> QED BY <1>3, <2>1, <2>2
  <1> QED BY <1>1, <1>5, <1>6 DEF FeedInv, FeedTypeOK, SpeaksTrue, Taken

LEMMA LettingGoKeeps ==
    ASSUME FeedInv, NEW d \in Drainers, EventDone(d) \/ HandlerRaises(d)
    PROVE  FeedInv'
  <1>1. /\ handling' = [handling EXCEPT ![d] = Nothing]
        /\ UNCHANGED <<pending, held, owner, screen, phase, desk, offers, said>>
    BY DEF EventDone, HandlerRaises, callVars
  <1>2. Nothing \in Hand /\ HandFits(Nothing)
    BY DEF Nothing, Hand, HandFits
  <1>3. handling' \in [Drainers -> Hand] /\ \A x \in Drainers : HandFits(handling'[x])
    BY <1>1, <1>2, HandKeeps
  <1> QED BY <1>1, <1>3 DEF FeedInv, FeedTypeOK, SpeaksTrue, Taken, OnlyTheTakerReads

\* One more event at the end of the queue.
LEMMA PublishKeeps ==
    ASSUME FeedInv, NEW e \in Event, pending' = Append(pending, e), SpeaksTrue(e)',
           UNCHANGED <<handling, held, owner, screen>>,
           \A a \in Agents \cup {NoOne, owner} : Taken(a) => Taken(a)',
           phase' \in {"waiting", "ringing", "accepting", "connected", "over"},
           desk' \in Agents \cup {NoOne},
           offers' = offers, said' \in Nat
    PROVE  FeedInv'
  <1>1. pending \in Seq(Event)
    BY DEF FeedInv, FeedTypeOK
  <1>2. /\ pending' \in Seq(Event) /\ Len(pending') = Len(pending) + 1 /\ Len(pending) \in Nat
        /\ \A i \in 1 .. Len(pending) : pending'[i] = pending[i] /\ pending[i] \in Event
        /\ pending'[Len(pending) + 1] = e
    BY <1>1, AppendProperties
  <1>3. \A i \in 1 .. Len(pending') : (SpeaksTrue(pending[i]))'
    <2> SUFFICES ASSUME NEW i \in 1 .. Len(pending') PROVE (SpeaksTrue(pending[i]))'
      OBVIOUS
    <2>1. CASE i = Len(pending) + 1
      <3>1. pending'[i] = e
        BY <1>2, <2>1
      <3> QED BY <3>1 DEF SpeaksTrue
    <2>2. CASE i \in 1 .. Len(pending)
      <3>1. pending'[i] = pending[i] /\ SpeaksTrue(pending[i]) /\ pending[i] \in Event
        BY <1>2, <2>2 DEF FeedInv
      <3>2. pending[i].kind = "resolved" => pending[i].agent \in Agents \cup {NoOne}
        BY <3>1 DEF Event, Over
      <3> QED BY <3>1, <3>2 DEF SpeaksTrue
    <2> QED BY <1>2, <2>1, <2>2
  <1>4. OnlyTheTakerReads'
    BY DEF FeedInv, OnlyTheTakerReads, Taken
  <1>5. owner' # NoOne => Taken(owner)'
    BY DEF FeedInv, Taken
  <1> QED BY <1>2, <1>3, <1>4, <1>5 DEF FeedInv, FeedTypeOK

\* Nobody has taken the call before it is taken.
LEMMA UntakenIs ==
    ASSUME FeedInv, phase \in {"waiting", "ringing", "accepting"}
    PROVE  \A a : ~Taken(a)
  BY DEF Taken

LEMMA CallKeeps ==
    ASSUME FeedInv,
           \/ Say \/ Decline \/ AcceptCloses \/ Accept \/ HangUp \/ WrapUpDone \/ MaxDuration
           \/ \E a \in Agents : Ring(a)
    PROVE  FeedInv'
  <1>0. /\ desk \in Agents \cup {NoOne} /\ said \in Nat /\ offers \in Nat
        /\ \A a \in Agents \cup {NoOne} : Resolved(a, FALSE) \in Event /\ Resolved(a, TRUE) \in Event
        /\ Over \in Event
    BY DEF FeedInv, FeedTypeOK, Event, Resolved
  <1>1. CASE Say
    <2>1. PICK e \in Event : e = Turn(said + 1)
      <3>1. said + 1 \in Nat
        BY <1>0
      <3> QED BY <3>1 DEF Turn, Event
    <2>2. /\ said' = said + 1 /\ pending' = Append(pending, e) /\ e.kind = "turn"
          /\ UNCHANGED <<phase, desk, offers, handling, held, owner, screen>>
      BY <1>1, <2>1 DEF Say, busVars, Turn
    <2>3. SpeaksTrue(e)' /\ said' \in Nat
      BY <1>0, <2>2 DEF SpeaksTrue
    <2> QED BY <2>2, <2>3, PublishKeeps DEF Taken, FeedInv, FeedTypeOK
  <1>2. CASE Decline
    <2>1. PICK e \in Event : e = Resolved(desk, FALSE)
      BY <1>0
    <2>2. /\ phase = "ringing" /\ phase' = "waiting" /\ desk' = NoOne
          /\ pending' = Append(pending, e) /\ ~e.accepted
          /\ UNCHANGED <<said, offers, handling, held, owner, screen>>
      BY <1>2, <2>1 DEF Decline, busVars, Resolved
    <2>3. SpeaksTrue(e)'
      BY <2>2 DEF SpeaksTrue
    <2> QED BY <1>0, <2>2, <2>3, PublishKeeps, UntakenIs
  <1>3. CASE AcceptCloses \/ MaxDuration
    <2>1. /\ UNCHANGED <<desk, offers, said, pending, handling, held, owner, screen>>
          /\ phase' = phase \/ (phase = "ringing" /\ phase' = "accepting")
      BY <1>3 DEF AcceptCloses, MaxDuration, busVars
    <2> QED BY <2>1 DEF FeedInv, FeedTypeOK, SpeaksTrue, Taken, OnlyTheTakerReads
  <1>4. CASE Accept
    <2>1. PICK e \in Event : e = Resolved(desk, TRUE)
      BY <1>0
    <2>2. /\ phase = "accepting" /\ phase' = "connected" /\ desk' = desk
          /\ pending' = Append(pending, e) /\ e.agent = desk
          /\ UNCHANGED <<said, offers, handling, held, owner, screen>>
      BY <1>4, <2>1 DEF Accept, busVars, Resolved
    <2>3. SpeaksTrue(e)'
      BY <2>2 DEF SpeaksTrue, Taken
    <2> QED BY <1>0, <2>2, <2>3, PublishKeeps, UntakenIs
  <1>5. CASE HangUp
    <2>1. PICK e \in Event, o \in Event : e = Resolved(desk, FALSE) /\ o = Over
      BY <1>0
    <2>2. /\ phase \in {"waiting", "ringing", "accepting"} /\ phase' = "over" /\ desk' = NoOne
          /\ pending' = pending \o <<o>> \/ pending' = pending \o <<e, o>>
          /\ ~e.accepted /\ o.kind = "over"
          /\ UNCHANGED <<said, offers, handling, held, owner, screen>>
      BY <1>5, <2>1 DEF HangUp, busVars, Resolved, Over
    <2>3. \A a : ~Taken(a)
      BY <2>2, UntakenIs
    <2>4. /\ owner = NoOne /\ \A a \in Agents : screen[a] = <<>>
          /\ \A i \in 1 .. Len(pending) : pending[i] \in Event
                 /\ (pending[i].kind = "resolved" => ~pending[i].accepted)
      <3>1. \A i \in 1 .. Len(pending) : pending[i] \in Event /\ SpeaksTrue(pending[i])
        BY DEF FeedInv, FeedTypeOK
      <3> QED BY <2>3, <3>1 DEF FeedInv, OnlyTheTakerReads, SpeaksTrue, Taken
    <2>5. pending' \in Seq(Event) /\ \A i \in 1 .. Len(pending') : (SpeaksTrue(pending[i]))'
      <3>0. pending \in Seq(Event) /\ <<o>> \in Seq(Event) /\ <<e, o>> \in Seq(Event)
        BY DEF FeedInv, FeedTypeOK
      <3>1. ASSUME NEW s \in Seq(Event), pending' = pending \o s,
                   \A i \in 1 .. Len(s) : s[i].kind = "resolved" => ~s[i].accepted
            PROVE  pending' \in Seq(Event) /\ \A i \in 1 .. Len(pending') : (SpeaksTrue(pending[i]))'
        <4>1. /\ pending' \in Seq(Event) /\ Len(pending') = Len(pending) + Len(s)
              /\ \A i \in 1 .. Len(pending') : \/ i \in 1 .. Len(pending) /\ pending'[i] = pending[i]
                                               \/ i - Len(pending) \in 1 .. Len(s) /\ pending'[i] = s[i - Len(pending)]
          BY <3>0, <3>1, ConcatProperties
        <4> QED BY <2>4, <3>1, <4>1 DEF SpeaksTrue
      <3>2. CASE pending' = pending \o <<o>>
        <4>1. \A i \in 1 .. Len(<<o>>) : <<o>>[i] = o
          OBVIOUS
        <4> QED BY <2>2, <3>0, <3>1, <3>2, <4>1
      <3>3. CASE pending' = pending \o <<e, o>>
        <4>1. \A i \in 1 .. Len(<<e, o>>) : <<e, o>>[i] \in {e, o}
          OBVIOUS
        <4> QED BY <2>2, <3>0, <3>1, <3>3, <4>1
      <3> QED BY <2>2, <3>2, <3>3
    <2> QED BY <2>2, <2>4, <2>5 DEF FeedInv, FeedTypeOK, OnlyTheTakerReads
  <1>6. CASE WrapUpDone
    <2>1. PICK e \in Event : e = Over
      BY <1>0
    <2>2. /\ phase = "connected" /\ phase' = "over" /\ desk' = desk
          /\ pending' = Append(pending, e) /\ e.kind = "over"
          /\ UNCHANGED <<said, offers, handling, held, owner, screen>>
      BY <1>6, <2>1 DEF WrapUpDone, busVars, Over
    <2>3. SpeaksTrue(e)'
      BY <2>2 DEF SpeaksTrue
    <2> QED BY <1>0, <2>2, <2>3, PublishKeeps DEF Taken
  <1>7. ASSUME NEW a \in Agents, Ring(a) PROVE FeedInv'
    <2>1. /\ phase = "waiting" /\ offers < MaxOffers
          /\ phase' = "ringing" /\ desk' = a /\ offers' = offers + 1
          /\ UNCHANGED <<said, pending, handling, held, owner, screen>>
      BY <1>7 DEF Ring, busVars
    <2>2. \A b : ~Taken(b)
      BY <2>1, UntakenIs
    <2>3. FeedTypeOK'
      BY <2>1, FeedAssumption DEF FeedInv, FeedTypeOK
    <2> QED BY <2>1, <2>2, <2>3 DEF FeedInv, SpeaksTrue, OnlyTheTakerReads, Taken
  <1> QED BY <1>1, <1>2, <1>3, <1>4, <1>5, <1>6, <1>7

-----------------------------------------------------------------------------
(* The summary.                                                            *)

\* A final result is there, and so its task is over and every accept is past;
\* or the task waits or asks, and the accept is past.
FinalInv ==
    /\ task \in [Tasks -> [stage : {"absent", "due", "asking"}, of : Seq(Nat)]]
    /\ summary.final \in BOOLEAN
    /\ summary.final => task[Final].stage = "absent"
    /\ summary.final \/ task[Final].stage # "absent" => phase \in {"connected", "over"}

LEMMA FeedStep ==
    ASSUME FeedInv, FeedNext \/ UNCHANGED feedVars
    PROVE  FeedInv'
  <1>1. CASE UNCHANGED feedVars
    BY <1>1 DEF feedVars, FeedInv, FeedTypeOK, SpeaksTrue, OnlyTheTakerReads, Taken
  <1> QED BY <1>1, CallKeeps, PopKeeps, NextHandlerKeeps, LettingGoKeeps DEF FeedNext

LEMMA TranscriptInitially == TranscriptInit => FeedInv /\ FinalInv
  <1> SUFFICES ASSUME TranscriptInit PROVE FeedInv /\ FinalInv
    OBVIOUS
  <1>1. FeedTypeOK
    BY FeedAssumption DEF TranscriptInit, FeedInit, FeedTypeOK, Nothing, Hand
  <1>2. FeedInv
    <2>1. HandFits(Nothing) /\ Len(pending) = 0
      BY DEF HandFits, Nothing, TranscriptInit, FeedInit
    <2> QED BY <1>1, <2>1 DEF TranscriptInit, FeedInit, FeedInv, OnlyTheTakerReads
  <1>3. FinalInv
    BY FeedAssumption DEF TranscriptInit, FinalInv, Absent, NoSummary, Tasks, Final
  <1> QED BY <1>2, <1>3

LEMMA TranscriptStep ==
    ASSUME FeedInv, FinalInv, [TranscriptNext]_transcriptVars
    PROVE  /\ FeedInv' /\ FinalInv'
           /\ summary.final => summary' = summary
  <1>0. /\ Final \in Tasks /\ Sweep \in Tasks /\ Final # Sweep /\ MaxOffers \in Nat
        /\ \A n \in Nat : n > 0 /\ n <= MaxOffers => n \in Tasks /\ n # Final
    BY FeedAssumption DEF Tasks, Final, Sweep
  <1>1. CASE UNCHANGED transcriptVars
    BY <1>1, FeedStep DEF transcriptVars, feedVars, summaryVars, FinalInv
  <1>2. CASE FeedNext /\ StartsTask /\ UNCHANGED <<summary, previews>>
    <2>1. FeedInv'
      BY <1>2, FeedStep
    <2>2. /\ phase \in {"connected", "over"} => phase' \in {"connected", "over"} /\ offers' = offers
          /\ phase = "accepting" => offers' = offers
      BY <1>2 DEF FeedNext, Say, Decline, AcceptCloses, Accept, HangUp, WrapUpDone, MaxDuration,
                  Ring, Pop, NextHandler, EventDone, HandlerRaises, callVars
    <2>3. CASE offers' > offers
      <3>1. offers' \in Tasks /\ offers' # Final
        BY <1>0, <2>1, <2>3 DEF FeedInv, FeedTypeOK
      <3>2. phase # "accepting" /\ ~(phase = "accepting" /\ phase' = "connected")
        BY <2>1, <2>2, <2>3 DEF FeedInv, FeedTypeOK
      <3>3. task' = [task EXCEPT ![offers'].stage = "due"]
        BY <1>2, <2>3, <3>2 DEF StartsTask
      <3> QED BY <1>0, <1>2, <2>1, <2>2, <3>1, <3>3 DEF FinalInv
    <2>4. CASE ~(offers' > offers) /\ phase = "accepting" /\ phase' = "connected"
      <3>1. task' = [task EXCEPT ![Final].stage = "due"]
        BY <1>2, <2>4 DEF StartsTask
      <3> QED BY <1>0, <1>2, <2>1, <2>4, <3>1 DEF FinalInv
    <2>5. CASE ~(offers' > offers) /\ ~(phase = "accepting" /\ phase' = "connected")
      <3>1. task' = task
        BY <1>2, <2>5 DEF StartsTask
      <3> QED BY <1>2, <2>1, <2>2, <3>1 DEF FinalInv
    <2> QED BY <2>3, <2>4, <2>5
  <1>3. CASE RefreshPreview
    <2>1. /\ UNCHANGED feedVars /\ phase' = phase /\ summary' = summary
          /\ task' = [task EXCEPT ![Sweep] = [stage |-> "asking", of |-> held]]
          /\ held \in Seq(Nat)
      BY <1>3 DEF RefreshPreview, feedVars, FeedInv, FeedTypeOK
    <2>2. FeedInv'
      BY <2>1, FeedStep
    <2> QED BY <1>0, <2>1, <2>2 DEF FinalInv
  <1>4. ASSUME NEW t \in Tasks, Begin(t) \/ NoAnswer(t)
        PROVE  FeedInv' /\ FinalInv' /\ summary' = summary
    <2>1. /\ UNCHANGED feedVars /\ phase' = phase /\ summary' = summary
          /\ task[t].stage # "absent"
          /\ \/ task' = [task EXCEPT ![t] = Absent]
             \/ task' = [task EXCEPT ![t] = [stage |-> "asking", of |-> held]]
          /\ held \in Seq(Nat)
      BY <1>4 DEF Begin, NoAnswer, feedVars, FeedInv, FeedTypeOK
    <2>2. FeedInv'
      BY <2>1, FeedStep
    <2>3. Absent \in [stage : {"absent", "due", "asking"}, of : Seq(Nat)] /\ Absent.stage = "absent"
      BY DEF Absent
    <2>4. PICK x \in [stage : {"absent", "due", "asking"}, of : Seq(Nat)] : task' = [task EXCEPT ![t] = x]
      BY <2>1, <2>3
    <2>5. /\ task' \in [Tasks -> [stage : {"absent", "due", "asking"}, of : Seq(Nat)]]
          /\ \A u \in Tasks : task'[u].stage # "absent" => task[u].stage # "absent"
      BY <2>1, <2>4 DEF FinalInv
    <2> QED BY <1>0, <2>1, <2>2, <2>5 DEF FinalInv
  <1>5. ASSUME NEW t \in Tasks, SummaryAnswer(t)
        PROVE  FeedInv' /\ FinalInv' /\ (summary.final => summary' = summary)
    <2>1. /\ UNCHANGED feedVars /\ phase' = phase
          /\ task[t].stage = "asking"
          /\ task' = [task EXCEPT ![t] = Absent]
          /\ IF summary.final /\ t # Final THEN summary' = summary
             ELSE summary' = [of |-> task[t].of, final |-> t = Final]
      BY <1>5 DEF SummaryAnswer, feedVars
    <2>2. FeedInv'
      BY <2>1, FeedStep
    <2>3. summary.final => summary' = summary
      BY <2>1 DEF FinalInv
    <2>4. summary'.final \in BOOLEAN /\ (summary'.final => t = Final \/ summary.final)
      <3>1. CASE summary' = summary
        BY <3>1 DEF FinalInv
      <3>2. CASE summary' = [of |-> task[t].of, final |-> t = Final]
        BY <3>2, Zenon
      <3> QED BY <2>1, <3>1, <3>2
    <2> QED BY <1>0, <2>1, <2>2, <2>3, <2>4 DEF FinalInv, Absent
  <1> QED BY <1>1, <1>2, <1>3, <1>4, <1>5 DEF TranscriptNext

-----------------------------------------------------------------------------
(* The link.                                                               *)

Message == [session : Nat, seq : Nat]
Snapshot == [upto : Nat, session : Nat]
Frame == Message \cup Snapshot

LEMMA FrameIs ==
    \A f \in Frame : /\ IsSnapshot(f) => f \in Snapshot
                     /\ ~IsSnapshot(f) => f \in Message
  <1>1. ASSUME NEW f \in Message PROVE ~IsSnapshot(f)
    BY DEF Message, IsSnapshot
  <1>2. ASSUME NEW f \in Snapshot PROVE IsSnapshot(f)
    BY DEF Snapshot, IsSnapshot
  <1> QED BY <1>1, <1>2 DEF Frame

\* What belongs to the session that is signed in.
Mine(m) == m.session = session /\ m.seq <= seq
FrameIsMine(f) ==
    /\ f.session = session
    /\ IsSnapshot(f) => f.upto <= seq
    /\ ~IsSnapshot(f) => f.seq <= seq

SocketTypeOK ==
    /\ session \in Nat /\ seq \in Nat /\ outbox \in Seq(Message)
    /\ tab \in [Tabs -> {"closed", "starting", "open"}]
    /\ link \in [Tabs -> {"closed", "hello", "replay", "live"}]
    /\ backlog \in [Tabs -> Seq(Message)]
    /\ unsent \in [Tabs -> SUBSET Message]
    /\ wire \in [Tabs -> Seq(Frame)]
    /\ last \in [Tabs -> Nat]
    /\ seen \in [Tabs -> SUBSET Message]
    /\ overtaken \in [Tabs -> SUBSET Message]

OutboxIsMine == \A i \in 1 .. Len(outbox) : Mine(outbox[i])

\* Only an open tab has a link, and all it carries is of this session.
TabInv(t) ==
    /\ link[t] # "closed" => tab[t] = "open"
    /\ link[t] \in {"closed", "hello"} => unsent[t] = {} /\ wire[t] = <<>>
    /\ link[t] # "replay" => backlog[t] = <<>>
    /\ tab[t] = "open" => last[t] <= seq /\ \A m \in seen[t] : Mine(m)
    /\ \A m \in unsent[t] : Mine(m)
    /\ \A i \in 1 .. Len(backlog[t]) : Mine(backlog[t][i])
    /\ \A i \in 1 .. Len(wire[t]) : FrameIsMine(wire[t][i])

\* A frame after which message n is still applied.
Below(f, n) == ~IsSnapshot(f) => f.seq < n

Coming(t, n) ==
    \/ Msg(n) \in seen[t] \cup unsent[t] \cup overtaken[t]
    \/ \E i \in 1 .. Len(wire[t]) : IsSnapshot(wire[t][i]) /\ n <= wire[t][i].upto
    \/ \E i \in 1 .. Len(wire[t]) :
          /\ wire[t][i] = Msg(n) /\ n > last[t]
          /\ \A k \in 1 .. Len(wire[t]) : k < i => Below(wire[t][k], n)

\* What a send() has still to write to the tab is nowhere else on its way.
WrittenOnce(t) ==
    \A m \in unsent[t] :
        /\ m.seq # last[t]
        /\ \A i \in 1 .. Len(wire[t]) : wire[t][i] # m
        /\ \A i \in 1 .. Len(backlog[t]) : backlog[t][i] # m

\* A live tab has seen everything or will, but for what was overtaken.
NothingLost(t) == link[t] = "live" => \A n \in 1 .. seq : Coming(t, n)

SocketInv ==
    /\ SocketTypeOK /\ OutboxIsMine
    /\ \A t \in Tabs : TabInv(t) /\ WrittenOnce(t) /\ NothingLost(t)

\* A tab nothing happens to.
LEMMA QuietTab ==
    ASSUME NEW u \in Tabs, TabInv(u), WrittenOnce(u), NothingLost(u), UNCHANGED <<session, seq>>,
           tab'[u] = tab[u], link'[u] = link[u], backlog'[u] = backlog[u],
           unsent'[u] = unsent[u], wire'[u] = wire[u], last'[u] = last[u], seen'[u] = seen[u],
           overtaken'[u] = overtaken[u]
    PROVE  TabInv(u)' /\ WrittenOnce(u)' /\ NothingLost(u)'
  <1>1. TabInv(u)'
    BY DEF TabInv, Mine, FrameIsMine
  <1>2. WrittenOnce(u)'
    BY DEF WrittenOnce
  <1>3. NothingLost(u)'
    BY DEF NothingLost, Coming, Msg
  <1> QED BY <1>1, <1>2, <1>3

\* What happens to one tab, the others being quiet.
LEMMA OneTab ==
    ASSUME SocketInv, NEW t \in Tabs, SocketTypeOK', UNCHANGED <<session, seq, outbox>>,
           \A u \in Tabs \ {t} :
               /\ tab'[u] = tab[u] /\ link'[u] = link[u] /\ backlog'[u] = backlog[u]
               /\ unsent'[u] = unsent[u] /\ wire'[u] = wire[u]
               /\ last'[u] = last[u] /\ seen'[u] = seen[u] /\ overtaken'[u] = overtaken[u],
           TabInv(t)', WrittenOnce(t)', NothingLost(t)'
    PROVE  SocketInv'
  <1>1. OutboxIsMine'
    BY DEF SocketInv, OutboxIsMine, Mine
  <1>2. ASSUME NEW u \in Tabs PROVE TabInv(u)' /\ WrittenOnce(u)' /\ NothingLost(u)'
    <2>1. CASE u # t
      BY <2>1, QuietTab DEF SocketInv
    <2> QED BY <2>1
  <1> QED BY <1>1, <1>2 DEF SocketInv

\* One more frame on the wire of a tab.
LEMMA OnTheWire ==
    ASSUME SocketTypeOK, NEW t \in Tabs, NEW f \in Frame, wire'[t] = Append(wire[t], f)
    PROVE  /\ wire'[t] \in Seq(Frame) /\ Len(wire[t]) \in Nat /\ Len(wire'[t]) = Len(wire[t]) + 1
           /\ wire'[t][Len(wire[t]) + 1] = f
           /\ \A i \in 1 .. Len(wire[t]) : i \in 1 .. Len(wire'[t]) /\ wire'[t][i] = wire[t][i]
           /\ \A i \in 1 .. Len(wire'[t]) : i \in 1 .. Len(wire[t]) \/ i = Len(wire[t]) + 1
           /\ Len(wire[t]) + 1 \in 1 .. Len(wire'[t])
  <1>1. wire[t] \in Seq(Frame)
    BY DEF SocketTypeOK
  <1>2. Len(wire[t]) \in Nat /\ wire'[t] \in Seq(Frame) /\ Len(wire'[t]) = Len(wire[t]) + 1
    BY <1>1, AppendProperties
  <1>3. /\ wire'[t][Len(wire[t]) + 1] = f
        /\ \A i \in 1 .. Len(wire[t]) : wire'[t][i] = wire[t][i]
    BY <1>1, AppendProperties
  <1> QED BY <1>2, <1>3

\* And what is still to come of the messages.
LEMMA StillComing ==
    ASSUME SocketTypeOK, NEW t \in Tabs, NEW f \in Frame, wire'[t] = Append(wire[t], f),
           UNCHANGED session, seen'[t] = seen[t], last'[t] = last[t],
           overtaken[t] \subseteq overtaken'[t],
           NEW n \in Nat, Coming(t, n), Msg(n) \in unsent[t] => Msg(n) \in unsent'[t]
    PROVE  Coming(t, n)'
  <1> DEFINE l == Len(wire[t])
  <1>0. /\ Len(wire'[t]) = l + 1 /\ wire'[t][l + 1] = f /\ l \in Nat
        /\ \A i \in 1 .. l : i \in 1 .. l + 1 /\ wire'[t][i] = wire[t][i]
        /\ \A i \in 1 .. l + 1 : i \in 1 .. l \/ i = l + 1
        /\ l + 1 \in 1 .. l + 1
    BY OnTheWire
  <1>1. CASE Msg(n) \in seen[t] \cup unsent[t] \cup overtaken[t]
    BY <1>1 DEF Coming, Msg
  <1>2. ASSUME NEW i \in 1 .. l, IsSnapshot(wire[t][i]), n <= wire[t][i].upto
        PROVE  Coming(t, n)'
    BY <1>0, <1>2 DEF Coming, IsSnapshot
  <1>3. ASSUME NEW i \in 1 .. l, wire[t][i] = Msg(n), n > last[t],
               \A k \in 1 .. l : k < i => Below(wire[t][k], n)
        PROVE  Coming(t, n)'
    <2>1. i \in 1 .. Len(wire'[t]) /\ wire'[t][i] = Msg(n)' /\ n > last'[t]
      BY <1>0, <1>3 DEF Msg
    <2>2. \A k \in 1 .. Len(wire'[t]) : k < i => (Below(wire[t][k], n))'
      BY <1>0, <1>3 DEF Below, IsSnapshot
    <2> QED BY <2>1, <2>2 DEF Coming
  <1> QED BY <1>1, <1>2, <1>3 DEF Coming

\* The first frame of the wire is taken.
LEMMA OffTheWire ==
    ASSUME SocketTypeOK, NEW t \in Tabs, wire[t] # <<>>, wire'[t] = Tail(wire[t])
    PROVE  /\ wire'[t] \in Seq(Frame) /\ Len(wire[t]) \in Nat \ {0} /\ Len(wire'[t]) = Len(wire[t]) - 1
           /\ Head(wire[t]) = wire[t][1] /\ wire[t][1] \in Frame /\ 1 \in 1 .. Len(wire[t])
           /\ \A i \in 1 .. Len(wire'[t]) : i + 1 \in 1 .. Len(wire[t]) /\ wire'[t][i] = wire[t][i + 1]
           /\ \A i \in 1 .. Len(wire[t]) : i # 1 => i - 1 \in 1 .. Len(wire'[t])
                                                    /\ wire'[t][i - 1] = wire[t][i]
  <1>1. wire[t] \in Seq(Frame)
    BY DEF SocketTypeOK
  <1>2. /\ wire'[t] \in Seq(Frame) /\ Len(wire[t]) \in Nat \ {0} /\ Len(wire'[t]) = Len(wire[t]) - 1
        /\ Head(wire[t]) = wire[t][1]
        /\ \A i \in 1 .. Len(wire'[t]) : wire'[t][i] = wire[t][i + 1]
    BY <1>1, HeadTailProperties
  <1>3. 1 \in 1 .. Len(wire[t]) /\ wire[t][1] \in Frame
    BY <1>1, <1>2
  <1>4. \A i \in 1 .. Len(wire[t]) : i # 1 => i - 1 \in 1 .. Len(wire'[t]) /\ wire'[t][i - 1] = wire[t][i]
    BY <1>2
  <1> QED BY <1>2, <1>3, <1>4

LEMMA ReceiveKeeps ==
    ASSUME SocketInv, NEW t \in Tabs, Receive(t) \/ ReceiveSnapshot(t)
    PROVE  SocketInv'
  <1> DEFINE f == wire[t][1]
             l == Len(wire[t])
  <1>1. /\ wire[t] # <<>> /\ wire' = [wire EXCEPT ![t] = Tail(wire[t])]
        /\ UNCHANGED <<session, seq, outbox, cookie, unsent, tab, link, backlog, overtaken, drops>>
    BY DEF Receive, ReceiveSnapshot
  <1>2. SocketTypeOK /\ TabInv(t) /\ wire'[t] = Tail(wire[t]) /\ tab[t] = "open" /\ link[t] # "closed"
    BY <1>1 DEF SocketInv, SocketTypeOK, TabInv
  <1>3. /\ l \in Nat \ {0} /\ Len(wire'[t]) = l - 1 /\ Head(wire[t]) = f /\ f \in Frame
        /\ wire'[t] \in Seq(Frame)
        /\ \A i \in 1 .. l - 1 : i + 1 \in 1 .. l /\ wire'[t][i] = wire[t][i + 1]
        /\ \A i \in 1 .. l : i # 1 => i - 1 \in 1 .. l - 1 /\ wire'[t][i - 1] = wire[t][i]
        /\ 1 \in 1 .. l
    BY <1>1, <1>2, OffTheWire
  <1>4. FrameIsMine(f)
    BY <1>2, <1>3 DEF TabInv
  <1>5. /\ seen' \in [Tabs -> SUBSET Message] /\ last' \in [Tabs -> Nat]
        /\ \A u \in Tabs : u # t => seen'[u] = seen[u] /\ last'[u] = last[u]
        /\ seen[t] \subseteq seen'[t] /\ last'[t] <= seq /\ \A m \in seen'[t] : Mine(m)
        /\ \/ /\ IsSnapshot(f) /\ last'[t] = last[t]
              /\ \A n \in 1 .. seq : n <= f.upto => Msg(n) \in seen'[t]
           \/ ~IsSnapshot(f) /\ f.seq <= last[t] /\ last'[t] = last[t]
           \/ ~IsSnapshot(f) /\ f.seq > last[t] /\ last'[t] = f.seq /\ f \in seen'[t]
    <2>0. /\ seen \in [Tabs -> SUBSET Message] /\ last \in [Tabs -> Nat] /\ session \in Nat /\ seq \in Nat
          /\ last[t] <= seq /\ \A m \in seen[t] : Mine(m)
      BY <1>2 DEF SocketTypeOK, TabInv
    <2>1. CASE ReceiveSnapshot(t)
      <3>1. /\ IsSnapshot(f) /\ last' = last
            /\ seen' = [seen EXCEPT ![t] = seen[t] \cup Covered(f.session, f.upto)]
        BY <1>3, <2>1 DEF ReceiveSnapshot
      <3>2. f.session = session /\ f.upto <= seq /\ f.upto \in Nat
        BY <1>3, <1>4, <3>1, FrameIs DEF FrameIsMine, Snapshot
      <3>3. \A m \in Covered(f.session, f.upto) : m \in Message /\ Mine(m)
        BY <2>0, <3>2 DEF Covered, Message, Mine
      <3>4. \A n \in 1 .. seq : n <= f.upto => Msg(n) \in Covered(f.session, f.upto)
        BY <2>0, <3>2 DEF Covered, Msg
      <3> QED BY <2>0, <3>1, <3>3, <3>4
    <2>2. CASE Receive(t)
      <3>1. ~IsSnapshot(f) /\ f \in Message /\ Mine(f) /\ f.seq \in Nat
        BY <1>3, <1>4, <2>2, FrameIs DEF Receive, FrameIsMine, Mine, Message
      <3>2. IF f.seq <= last[t] THEN UNCHANGED <<last, seen>>
            ELSE /\ last' = [last EXCEPT ![t] = f.seq]
                 /\ seen' = [seen EXCEPT ![t] = seen[t] \cup {f}]
        BY <1>3, <2>2 DEF Receive
      <3>3. f.seq <= last[t] \/ f.seq > last[t]
        BY <2>0, <3>1
      <3> QED BY <2>0, <3>1, <3>2, <3>3 DEF Mine
    <2> QED BY <2>1, <2>2
  <1>6. SocketTypeOK'
    BY <1>1, <1>3, <1>5 DEF SocketInv, SocketTypeOK
  <1>7. TabInv(t)'
    <2>1. \A i \in 1 .. Len(wire'[t]) : (FrameIsMine(wire[t][i]))'
      BY <1>1, <1>2, <1>3 DEF TabInv, FrameIsMine, IsSnapshot
    <2>2. ~(link'[t] \in {"closed", "hello"})
      BY <1>1, <1>2 DEF TabInv
    <2> QED BY <1>1, <1>2, <1>5, <2>1, <2>2 DEF TabInv, Mine
  <1>8. WrittenOnce(t)'
    <2>1. \A m \in unsent[t] : m \in Message /\ Mine(m)
      BY <1>2 DEF SocketTypeOK, TabInv
    <2>2. last'[t] = last[t] \/ (~IsSnapshot(f) /\ last'[t] = f.seq)
      BY <1>5
    <2>3. WrittenOnce(t)
      BY DEF SocketInv
    <2>4. ASSUME NEW m \in unsent[t], ~IsSnapshot(f) PROVE m.seq # f.seq
      <3>1. f \in Message /\ f.session = session /\ f # m
        BY <1>3, <1>4, <2>3, <2>4, FrameIs DEF FrameIsMine, WrittenOnce
      <3> QED BY <2>1, <3>1 DEF Message, Mine
    <2>5. ASSUME NEW m \in unsent[t]
          PROVE  m.seq # last'[t] /\ \A i \in 1 .. Len(wire'[t]) : wire'[t][i] # m
      BY <1>3, <2>2, <2>3, <2>4 DEF WrittenOnce
    <2> QED BY <1>1, <2>3, <2>5 DEF WrittenOnce
  <1>9. NothingLost(t)'
    <2>2. ASSUME link[t] = "live", NEW n \in 1 .. seq PROVE Coming(t, n)'
      <3>0. Coming(t, n) /\ Msg(n)' = Msg(n) /\ n \in Nat /\ Msg(n).seq = n /\ ~IsSnapshot(Msg(n))
        BY <1>1, <1>2, <2>2 DEF SocketInv, NothingLost, Msg, IsSnapshot
      <3>1. CASE Msg(n) \in seen[t] \cup unsent[t] \cup overtaken[t]
        BY <1>1, <1>5, <3>0, <3>1 DEF Coming
      <3>2. ASSUME NEW i \in 1 .. l, IsSnapshot(wire[t][i]), n <= wire[t][i].upto
            PROVE  Coming(t, n)'
        <4>1. CASE i = 1
          BY <1>5, <3>0, <3>2, <4>1 DEF Coming
        <4>2. CASE i # 1
          BY <1>3, <3>2, <4>2 DEF Coming, IsSnapshot
        <4> QED BY <4>1, <4>2
      <3>3. last'[t] = last[t] \/ (~IsSnapshot(f) /\ last'[t] = f.seq)
        BY <1>5
      <3>4. ASSUME NEW i \in 1 .. l, wire[t][i] = Msg(n), n > last[t],
                   \A k \in 1 .. l : k < i => Below(wire[t][k], n)
            PROVE  Coming(t, n)'
        <4>1. CASE i = 1
          <5>1. f = Msg(n) /\ f \in seen'[t]
            <6>1. f = Msg(n) /\ ~IsSnapshot(f) /\ f.seq = n /\ last[t] \in Nat
              BY <1>2, <3>0, <3>4, <4>1 DEF SocketTypeOK
            <6> QED BY <1>5, <3>0, <3>4, <6>1
          <5> QED BY <3>0, <5>1 DEF Coming
        <4>2. CASE i # 1
          <5>1. Below(f, n) /\ n > last'[t]
            BY <1>3, <3>3, <3>4, <4>2 DEF Below
          <5>2. i - 1 \in 1 .. Len(wire'[t]) /\ wire'[t][i - 1] = Msg(n)'
            BY <1>3, <3>0, <3>4, <4>2
          <5>3. \A k \in 1 .. Len(wire'[t]) : k < i - 1 => (Below(wire[t][k], n))'
            <6> SUFFICES ASSUME NEW k \in 1 .. Len(wire'[t]), k < i - 1
                         PROVE  (Below(wire[t][k], n))'
              OBVIOUS
            <6>1. k + 1 \in 1 .. l /\ k + 1 < i /\ wire'[t][k] = wire[t][k + 1]
              BY <1>3
            <6>2. Below(wire[t][k + 1], n)
              BY <3>4, <6>1
            <6> QED BY <6>1, <6>2 DEF Below, IsSnapshot
          <5> QED BY <5>1, <5>2, <5>3 DEF Coming
        <4> QED BY <4>1, <4>2
      <3> QED BY <3>0, <3>1, <3>2, <3>4 DEF Coming
    <2> QED BY <1>1, <2>2 DEF NothingLost
  <1> QED BY <1>1, <1>2, <1>5, <1>6, <1>7, <1>8, <1>9, OneTab DEF SocketTypeOK

\* Where no newer message has been written, none is on the wire or applied.
LEMMA NothingNewer ==
    ASSUME SocketInv, NEW t \in Tabs, NEW m \in unsent[t], ~Newer(t, m)
    PROVE  m.seq > last[t] /\ \A k \in 1 .. Len(wire[t]) : Below(wire[t][k], m.seq)
  <1>1. /\ WrittenOnce(t) /\ TabInv(t) /\ m \in Message /\ m = Msg(m.seq) /\ m.seq \in Nat
        /\ last[t] \in Nat /\ seq \in Nat /\ session \in Nat /\ wire[t] \in Seq(Frame)
    BY DEF SocketInv, SocketTypeOK, TabInv, Mine, Msg, Message
  <1>2. \A n \in m.seq + 1 .. seq : Msg(n) \in unsent[t] /\ Msg(n).seq = n
    BY DEF Newer, Msg
  <1>3. m.seq > last[t]
    <2>1. m.seq # last[t] /\ last[t] <= seq
      BY <1>1 DEF WrittenOnce, TabInv
    <2>2. CASE last[t] > m.seq
      <3>1. last[t] \in m.seq + 1 .. seq
        BY <1>1, <2>1, <2>2
      <3> QED BY <1>1, <1>2, <3>1 DEF WrittenOnce
    <2> QED BY <1>1, <2>1, <2>2
  <1>4. ASSUME NEW k \in 1 .. Len(wire[t]), ~IsSnapshot(wire[t][k]) PROVE wire[t][k].seq < m.seq
    <2>1. PICK f \in Message : f = wire[t][k] /\ f = Msg(f.seq) /\ f.seq \in Nat /\ f.seq <= seq
      <3>1. wire[t][k] \in Frame /\ FrameIsMine(wire[t][k])
        BY <1>1 DEF TabInv
      <3>2. wire[t][k] \in Message
        BY <1>4, <3>1, FrameIs
      <3> QED BY <1>4, <3>1, <3>2 DEF FrameIsMine, Msg, Message
    <2>2. f \notin unsent[t]
      BY <1>1, <2>1 DEF WrittenOnce
    <2>3. f.seq # m.seq
      BY <1>1, <2>1, <2>2
    <2>4. CASE f.seq > m.seq
      <3>1. f.seq \in m.seq + 1 .. seq
        BY <1>1, <2>1, <2>4
      <3> QED BY <1>2, <2>1, <2>2, <3>1
    <2> QED BY <1>1, <2>1, <2>3, <2>4
  <1> QED BY <1>3, <1>4 DEF Below

\* What a slow connection waited for.
LEMMA DeliverKeeps ==
    ASSUME SocketInv, NEW t \in Tabs, Deliver(t)
    PROVE  SocketInv'
  <1>1. PICK m \in unsent[t] :
           /\ unsent' = [unsent EXCEPT ![t] = @ \ {m}]
           /\ wire' = [wire EXCEPT ![t] = Append(@, m)]
           /\ overtaken' = [overtaken EXCEPT ![t] = IF Newer(t, m) THEN @ \cup {m} ELSE @]
           /\ UNCHANGED <<session, seq, outbox, cookie, tab, link, backlog, last, seen, drops>>
    BY DEF Deliver
  <1>2. /\ SocketTypeOK /\ TabInv(t) /\ m \in Message /\ m \in Frame /\ Mine(m)
        /\ wire'[t] = Append(wire[t], m) /\ unsent'[t] = unsent[t] \ {m}
        /\ link[t] \notin {"closed", "hello"}
    BY <1>1 DEF SocketInv, SocketTypeOK, TabInv, Frame
  <1>3. /\ wire'[t] \in Seq(Frame) /\ wire'[t][Len(wire[t]) + 1] = m
        /\ \A i \in 1 .. Len(wire[t]) : wire'[t][i] = wire[t][i]
        /\ \A i \in 1 .. Len(wire'[t]) : i \in 1 .. Len(wire[t]) \/ i = Len(wire[t]) + 1
    BY <1>2, OnTheWire
  <1>4. /\ SocketTypeOK' /\ overtaken[t] \subseteq overtaken'[t]
        /\ Newer(t, m) => m \in overtaken'[t]
    <2>1. overtaken' \in [Tabs -> SUBSET Message]
      BY <1>1, <1>2 DEF SocketTypeOK
    <2>2. overtaken[t] \subseteq overtaken'[t] /\ (Newer(t, m) => m \in overtaken'[t])
      BY <1>1, <1>2 DEF SocketTypeOK
    <2>3. SocketTypeOK'
      BY <1>1, <1>2, <1>3, <2>1 DEF SocketTypeOK
    <2> QED BY <2>2, <2>3
  <1>5. TabInv(t)'
    <2>1. FrameIsMine(m)
      BY <1>2 DEF Mine, FrameIsMine, IsSnapshot, Message
    <2>2. \A i \in 1 .. Len(wire'[t]) : (FrameIsMine(wire[t][i]))'
      BY <1>1, <1>2, <1>3, <2>1 DEF TabInv, FrameIsMine, IsSnapshot
    <2> QED BY <1>1, <1>2, <2>2 DEF TabInv, Mine
  <1>6. WrittenOnce(t)'
    <2>1. WrittenOnce(t)
      BY DEF SocketInv
    <2>2. ASSUME NEW x \in unsent'[t] PROVE \A i \in 1 .. Len(wire'[t]) : wire'[t][i] # x
      BY <1>2, <1>3, <2>1 DEF WrittenOnce
    <2> QED BY <1>1, <1>2, <2>1, <2>2 DEF WrittenOnce
  <1>7. ASSUME link[t] = "live", NEW n \in 1 .. seq PROVE Coming(t, n)'
    <2>0. Coming(t, n) /\ n \in Nat /\ Msg(n)' = Msg(n) /\ Msg(n).seq = n
      BY <1>1, <1>2, <1>7 DEF SocketInv, NothingLost, SocketTypeOK, Msg
    <2>1. CASE Msg(n) # m
      BY <1>1, <1>2, <1>4, <2>0, <2>1, StillComing
    <2>2. CASE Msg(n) = m /\ Newer(t, m)
      BY <1>4, <2>0, <2>2 DEF Coming
    <2>3. CASE Msg(n) = m /\ ~Newer(t, m)
      <3>1. n > last[t] /\ \A k \in 1 .. Len(wire[t]) : Below(wire[t][k], n)
        BY <1>1, <2>0, <2>3, NothingNewer
      <3>2. Len(wire[t]) + 1 \in 1 .. Len(wire'[t]) /\ n > last'[t]
        BY <1>1, <1>2, <3>1, OnTheWire
      <3>3. \A k \in 1 .. Len(wire'[t]) : k < Len(wire[t]) + 1 => (Below(wire[t][k], n))'
        BY <1>2, <1>3, <3>1 DEF Below, IsSnapshot
      <3> QED BY <1>3, <2>0, <2>3, <3>2, <3>3 DEF Coming
    <2> QED BY <2>1, <2>2, <2>3
  <1> QED BY <1>1, <1>2, <1>4, <1>5, <1>6, <1>7, OneTab DEF SocketTypeOK, NothingLost

\* Every connection is written to, or waits for its write.
LEMMA SendKeeps ==
    ASSUME SocketInv, NEW late \in SUBSET Tabs, Send(late)
    PROVE  SocketInv'
  <1>0. PICK m \in Message : m = Msg(seq + 1)
    <2>1. seq + 1 \in Nat /\ session \in Nat
      BY DEF SocketInv, SocketTypeOK
    <2> QED BY <2>1 DEF Msg, Message
  <1> DEFINE kept == Append(outbox, m)
  <1>1. /\ late = {} \/ (late \subseteq Registered /\ late # Registered)
        /\ seq' = seq + 1
        /\ outbox' = IF Len(kept) > OutboxLimit THEN Tail(kept) ELSE kept
        /\ unsent' = [t \in Tabs |-> IF t \in late THEN unsent[t] \cup {m} ELSE unsent[t]]
        /\ wire' = [t \in Tabs |-> IF t \in Registered \ late THEN Append(wire[t], m) ELSE wire[t]]
        /\ UNCHANGED <<session, cookie, tab, link, backlog, last, seen, overtaken, drops>>
    BY <1>0 DEF Send
  <1>2. /\ SocketTypeOK /\ seq \in Nat /\ seq' \in Nat /\ seq <= seq'
        /\ m \in Message /\ m \in Frame /\ ~IsSnapshot(m) /\ m.session = session /\ m.seq = seq'
    BY <1>0, <1>1 DEF SocketInv, SocketTypeOK, Msg, Message, Frame, IsSnapshot
  <1>3. /\ Msg(seq)' = m
        /\ \A n \in 1 .. seq' : n = seq' \/ n \in 1 .. seq
    BY <1>0, <1>1, <1>2 DEF Msg
  <1>4. outbox' \in Seq(Message) /\ \A i \in 1 .. Len(outbox') : (Mine(outbox[i]))'
    <2>1. outbox \in Seq(Message)
      BY <1>2 DEF SocketTypeOK
    <2>2. /\ kept \in Seq(Message) /\ Len(kept) = Len(outbox) + 1 /\ Len(outbox) \in Nat
          /\ kept[Len(outbox) + 1] = m /\ \A i \in 1 .. Len(outbox) : kept[i] = outbox[i]
      BY <1>2, <2>1, AppendProperties
    <2>3. \A i \in 1 .. Len(kept) : kept[i].session = session /\ kept[i].seq <= seq'
      <3> SUFFICES ASSUME NEW i \in 1 .. Len(kept)
                   PROVE  kept[i].session = session /\ kept[i].seq <= seq'
        OBVIOUS
      <3>1. CASE i = Len(outbox) + 1
        BY <1>2, <2>2, <3>1
      <3>2. CASE i \in 1 .. Len(outbox)
        <4>1. kept[i] = outbox[i] /\ Mine(outbox[i]) /\ outbox[i] \in Message
          BY <2>1, <2>2, <3>2 DEF SocketInv, OutboxIsMine
        <4> QED BY <1>1, <1>2, <4>1 DEF Mine, Message
      <3> QED BY <2>2, <3>1, <3>2
    <2> HIDE DEF kept
    <2>4. CASE outbox' = kept
      BY <1>1, <2>2, <2>3, <2>4 DEF Mine
    <2>5. CASE outbox' = Tail(kept)
      <3>1. kept # <<>>
        BY <2>2
      <3>2. /\ outbox' \in Seq(Message) /\ Len(outbox') = Len(kept) - 1
            /\ \A i \in 1 .. Len(outbox') : i + 1 \in 1 .. Len(kept) /\ outbox'[i] = kept[i + 1]
        BY <2>2, <2>5, <3>1, HeadTailProperties
      <3> QED BY <1>1, <2>3, <3>2 DEF Mine
    <2> QED BY <1>1, <2>4, <2>5 DEF kept
  <1>5. ASSUME NEW t \in Tabs
        PROVE  /\ wire'[t] \in Seq(Frame) /\ unsent'[t] \in SUBSET Message
               /\ TabInv(t)' /\ WrittenOnce(t)' /\ NothingLost(t)'
    <2>0. /\ TabInv(t) /\ wire[t] \in Seq(Frame) /\ unsent[t] \subseteq Message /\ seen[t] \subseteq Message
          /\ last[t] \in Nat /\ backlog[t] \in Seq(Message)
          /\ \A x \in Message : Mine(x) => Mine(x)'
      BY <1>1, <1>2 DEF SocketInv, SocketTypeOK, Mine, Message
    <2>z. WrittenOnce(t) /\ NothingLost(t)
      BY DEF SocketInv
    <2>1. FrameIsMine(m)'
      BY <1>1, <1>2 DEF FrameIsMine, IsSnapshot
    <2>2. ASSUME NEW x \in Frame, FrameIsMine(x) PROVE FrameIsMine(x)'
      <3>1. (IsSnapshot(x) => x.upto \in Nat) /\ (~IsSnapshot(x) => x.seq \in Nat)
        BY FrameIs DEF Message, Snapshot
      <3> QED BY <1>1, <1>2, <2>2, <3>1 DEF FrameIsMine
    <2>3. /\ tab[t] = "open" => last'[t] <= seq' /\ \A x \in seen'[t] : Mine(x)'
          /\ \A i \in 1 .. Len(backlog'[t]) : (Mine(backlog[t][i]))'
      <3>1. \A i \in 1 .. Len(backlog[t]) : backlog[t][i] \in Message
        BY <2>0
      <3>2. \A x \in seen[t] : x \in Message
        BY <2>0
      <3>3. tab[t] = "open" => last'[t] <= seq' /\ \A x \in seen'[t] : Mine(x)'
        BY <1>1, <1>2, <2>0, <3>2 DEF TabInv
      <3>4. ASSUME NEW i \in 1 .. Len(backlog'[t]) PROVE (Mine(backlog[t][i]))'
        <4>1. i \in 1 .. Len(backlog[t]) /\ backlog'[t][i] = backlog[t][i] /\ Mine(backlog[t][i])
          BY <1>1, <2>0 DEF TabInv
        <4> QED BY <1>1, <1>2, <3>1, <4>1 DEF Mine, Message
      <3> QED BY <3>3, <3>4
    <2>4. CASE t \notin Registered
      <3>1. wire'[t] = wire[t] /\ unsent'[t] = unsent[t] /\ link[t] \in {"closed", "hello"}
        BY <1>1, <1>2, <2>4 DEF Registered, SocketTypeOK
      <3>2. unsent[t] = {} /\ wire[t] = <<>>
        BY <2>0, <3>1 DEF TabInv
      <3>3. TabInv(t)'
        <4>1. Len(wire'[t]) = 0 /\ unsent'[t] = {}
          BY <3>1, <3>2
        <4> QED BY <1>1, <2>0, <2>3, <3>1, <3>2, <4>1 DEF TabInv
      <3>4. WrittenOnce(t)' /\ NothingLost(t)'
        BY <1>1, <3>1, <3>2 DEF WrittenOnce, NothingLost
      <3> QED BY <2>0, <1>2, <3>1, <3>3, <3>4
    <2>5. CASE t \in late
      <3>1. /\ wire'[t] = wire[t] /\ unsent'[t] = unsent[t] \cup {m} /\ link[t] \in {"replay", "live"}
        BY <1>1, <2>5 DEF Registered
      <3>2. \A i \in 1 .. Len(wire[t]) : wire[t][i] \in Frame /\ FrameIsMine(wire[t][i])
        BY <2>0 DEF TabInv
      <3>3. TabInv(t)'
        <4>1. \A i \in 1 .. Len(wire'[t]) : (FrameIsMine(wire[t][i]))'
          BY <2>2, <3>1, <3>2 DEF FrameIsMine, IsSnapshot
        <4>2. \A x \in unsent'[t] : Mine(x)'
          <5>1. Mine(m)'
            BY <1>1, <1>2 DEF Mine
          <5>2. \A x \in unsent[t] : x \in Message /\ Mine(x)
            BY <2>0 DEF TabInv
          <5> QED BY <2>0, <3>1, <5>1, <5>2
        <4> QED BY <1>1, <2>0, <2>3, <3>1, <4>1, <4>2 DEF TabInv
      <3>4. WrittenOnce(t)'
        <4>1. \A i \in 1 .. Len(wire[t]) : wire[t][i] # m
          BY <1>1, <1>2, <3>2 DEF FrameIsMine
        <4>2. \A i \in 1 .. Len(backlog[t]) : backlog[t][i] # m
          BY <1>1, <1>2, <2>0 DEF TabInv, Mine
        <4>3. m.seq # last[t]
          BY <1>1, <1>2, <2>0, <3>1 DEF TabInv
        <4> QED BY <1>1, <2>z, <3>1, <4>1, <4>2, <4>3 DEF WrittenOnce
      <3>5. NothingLost(t)'
        <4> SUFFICES ASSUME link[t] = "live", NEW n \in 1 .. seq' PROVE Coming(t, n)'
          BY <1>1 DEF NothingLost
        <4>1. CASE n = seq'
          BY <1>3, <3>1, <4>1 DEF Coming, Msg
        <4>2. CASE n \in 1 .. seq
          <5>1. Coming(t, n)
            BY <2>z, <4>2 DEF NothingLost
          <5> QED BY <1>1, <3>1, <5>1 DEF Coming, Msg, Below, IsSnapshot
        <4> QED BY <1>3, <4>1, <4>2
      <3> QED BY <2>0, <1>2, <3>1, <3>3, <3>4, <3>5
    <2>6. CASE t \in Registered \ late
      <3>1. wire'[t] = Append(wire[t], m) /\ unsent'[t] = unsent[t] /\ link[t] \in {"replay", "live"}
        BY <1>1, <2>6 DEF Registered
      <3>2. /\ wire'[t] \in Seq(Frame) /\ Len(wire[t]) \in Nat /\ Len(wire'[t]) = Len(wire[t]) + 1
            /\ wire'[t][Len(wire[t]) + 1] = m
            /\ \A i \in 1 .. Len(wire[t]) : i \in 1 .. Len(wire'[t]) /\ wire'[t][i] = wire[t][i]
            /\ \A i \in 1 .. Len(wire'[t]) : i \in 1 .. Len(wire[t]) \/ i = Len(wire[t]) + 1
            /\ Len(wire[t]) + 1 \in 1 .. Len(wire'[t])
        BY <1>2, <3>1, OnTheWire
      <3>3. \A i \in 1 .. Len(wire[t]) : wire[t][i] \in Frame /\ FrameIsMine(wire[t][i])
        BY <2>0 DEF TabInv
      <3>4. TabInv(t)'
        <4>1. \A i \in 1 .. Len(wire'[t]) : (FrameIsMine(wire[t][i]))'
          <5> SUFFICES ASSUME NEW i \in 1 .. Len(wire'[t]) PROVE (FrameIsMine(wire[t][i]))'
            OBVIOUS
          <5>1. PICK x \in Frame : x = wire'[t][i] /\ FrameIsMine(x)'
            <6>1. CASE i \in 1 .. Len(wire[t])
              BY <2>2, <3>2, <3>3, <6>1
            <6>2. CASE i = Len(wire[t]) + 1
              <7>1. PICK x \in Frame : x = m
                BY <1>2
              <7>2. FrameIsMine(x)'
                BY <2>1, <7>1 DEF FrameIsMine, IsSnapshot
              <7> QED BY <3>2, <6>2, <7>1, <7>2
            <6> QED BY <3>2, <6>1, <6>2
          <5> QED BY <5>1 DEF FrameIsMine, IsSnapshot
        <4>2. \A x \in unsent'[t] : Mine(x)'
          <5>1. \A x \in unsent[t] : x \in Message /\ Mine(x)
            BY <2>0 DEF TabInv
          <5> QED BY <2>0, <3>1, <5>1
        <4> QED BY <1>1, <2>0, <2>3, <3>1, <4>1, <4>2 DEF TabInv
      <3>5. WrittenOnce(t)'
        <4>1. ASSUME NEW x \in unsent[t] PROVE x # m
          BY <1>1, <1>2, <2>0 DEF TabInv, Mine
        <4>2. ASSUME NEW x \in unsent[t], NEW i \in 1 .. Len(wire'[t]) PROVE wire'[t][i] # x
          BY <2>z, <3>2, <4>1, <4>2 DEF WrittenOnce
        <4> QED BY <1>1, <2>z, <3>1, <4>2 DEF WrittenOnce
      <3>6. NothingLost(t)'
        <4> SUFFICES ASSUME link[t] = "live", NEW n \in 1 .. seq' PROVE Coming(t, n)'
          BY <1>1 DEF NothingLost
        <4>1. CASE n = seq'
          <5>1. \A k \in 1 .. Len(wire'[t]) : k < Len(wire[t]) + 1 => (Below(wire[t][k], n))'
            <6>1. \A k \in 1 .. Len(wire[t]) : ~IsSnapshot(wire[t][k]) =>
                      wire[t][k].seq \in Nat /\ wire[t][k].seq <= seq
              BY <3>3, FrameIs DEF FrameIsMine, Message
            <6> QED BY <1>1, <1>2, <3>2, <4>1, <6>1 DEF Below, IsSnapshot
          <5>2. wire'[t][Len(wire[t]) + 1] = Msg(n)' /\ n > last'[t]
            <6>1. Msg(n)' = m
              BY <1>3, <4>1 DEF Msg
            <6>2. last[t] <= seq
              BY <2>0, <3>1 DEF TabInv
            <6> QED BY <1>1, <1>2, <2>0, <3>2, <4>1, <6>1, <6>2
          <5> QED BY <3>2, <5>1, <5>2 DEF Coming
        <4>2. CASE n \in 1 .. seq
          <5>1. Coming(t, n) /\ n \in Nat
            BY <2>z, <4>2 DEF NothingLost
          <5>2. m \in Frame /\ wire'[t] = Append(wire[t], m) /\ SocketTypeOK
            BY <1>2, <3>1
          <5> QED BY <1>1, <3>1, <5>1, <5>2, StillComing
        <4> QED BY <1>3, <4>1, <4>2
      <3> QED BY <2>0, <1>2, <3>1, <3>2, <3>4, <3>5, <3>6
    <2> QED BY <2>4, <2>5, <2>6
  <1>6. SocketTypeOK'
    <2>1. unsent' \in [Tabs -> SUBSET Message] /\ wire' \in [Tabs -> Seq(Frame)]
      BY <1>1, <1>5
    <2> QED BY <1>1, <1>2, <1>4, <2>1 DEF SocketTypeOK
  <1> QED BY <1>4, <1>5, <1>6 DEF SocketInv, OutboxIsMine

\* What the outbox still has of the gap.
LEMMA GapIs ==
    ASSUME SocketTypeOK, OutboxIsMine, NEW n \in Nat
    PROVE  Gap(n) \in Seq(Message) /\ \A i \in 1 .. Len(Gap(n)) : Mine(Gap(n)[i])
  <1> DEFINE k == Cardinality(Passed(n)) + 1
             l == Len(outbox)
  <1>1. outbox \in Seq(Message) /\ l \in Nat
    BY DEF SocketTypeOK
  <1>2. k \in Nat \ {0}
    <2>0. IsFiniteSet(1 .. l)
      BY <1>1, FS_Interval
    <2>1. IsFiniteSet(1 .. l) /\ Passed(n) \subseteq 1 .. l
      BY <1>1, <2>0 DEF Passed
    <2>2. Cardinality(Passed(n)) \in Nat
      BY <2>1, FS_Subset, FS_CardinalityType
    <2> QED BY <2>2
  <1>3. Gap(n) = SubSeq(outbox, k, l)
    BY DEF Gap
  <1> HIDE DEF k
  <1>4. Gap(n) \in Seq(Message)
    BY <1>1, <1>2, <1>3, SubSeqProperties
  <1>5. ASSUME NEW i \in 1 .. Len(Gap(n)) PROVE Mine(Gap(n)[i])
    <2>1. k <= l + 1
      BY <1>1, <1>2, <1>3, <1>5, SubSeqProperties
    <2>2. Len(Gap(n)) = l - k + 1 /\ Gap(n)[i] = outbox[k + i - 1]
      BY <1>1, <1>2, <1>3, <2>1, SubSeqProperties
    <2>3. k + i - 1 \in 1 .. l
      BY <1>1, <1>2, <2>2
    <2> QED BY <2>2, <2>3 DEF OutboxIsMine
  <1> QED BY <1>4, <1>5

LEMMA ConnectKeeps ==
    ASSUME SocketInv, NEW t \in Tabs, Connect(t)
    PROVE  SocketInv'
  <1> DEFINE gap == Gap(last[t])
  <1>1. /\ link[t] = "hello" /\ link' = [link EXCEPT ![t] = "replay"]
        /\ \/ UNCHANGED <<wire, backlog>>
           \/ /\ gap # <<>>
              /\ wire' = [wire EXCEPT ![t] = Append(@, Head(gap))]
              /\ backlog' = [backlog EXCEPT ![t] = Tail(gap)]
        /\ UNCHANGED <<session, seq, outbox, cookie, unsent, tab, last, seen, overtaken, drops>>
    BY DEF Connect
  <1>2. /\ SocketTypeOK /\ TabInv(t) /\ OutboxIsMine /\ last[t] \in Nat
        /\ unsent[t] = {} /\ wire[t] = <<>> /\ backlog[t] = <<>> /\ tab[t] = "open"
    BY <1>1 DEF SocketInv, SocketTypeOK, TabInv
  <1>3. gap \in Seq(Message) /\ \A i \in 1 .. Len(gap) : Mine(gap[i]) /\ gap[i] \in Message
    BY <1>2, GapIs
  <1> HIDE DEF gap
  <1>4. /\ wire'[t] \in Seq(Frame) /\ backlog'[t] \in Seq(Message)
        /\ wire' \in [Tabs -> Seq(Frame)] /\ backlog' \in [Tabs -> Seq(Message)]
        /\ \A u \in Tabs : u # t => wire'[u] = wire[u] /\ backlog'[u] = backlog[u]
        /\ \A i \in 1 .. Len(wire'[t]) : wire'[t][i] \in Message /\ Mine(wire'[t][i])
        /\ \A i \in 1 .. Len(backlog'[t]) : Mine(backlog'[t][i])
    <2>1. CASE UNCHANGED <<wire, backlog>>
      <3>1. Len(wire'[t]) = 0 /\ Len(backlog'[t]) = 0
        BY <1>2, <2>1
      <3> QED BY <1>2, <2>1, <3>1 DEF SocketTypeOK
    <2>2. CASE gap # <<>> /\ wire' = [wire EXCEPT ![t] = Append(@, Head(gap))]
               /\ backlog' = [backlog EXCEPT ![t] = Tail(gap)]
      <3>1. /\ Head(gap) = gap[1] /\ Len(gap) \in Nat \ {0} /\ Tail(gap) \in Seq(Message)
            /\ Len(Tail(gap)) = Len(gap) - 1
            /\ \A i \in 1 .. Len(Tail(gap)) : i + 1 \in 1 .. Len(gap) /\ Tail(gap)[i] = gap[i + 1]
        BY <1>3, <2>2, HeadTailProperties
      <3>2. Head(gap) \in Message /\ Mine(Head(gap))
        BY <1>3, <3>1
      <3>3. wire'[t] = <<Head(gap)>> /\ backlog'[t] = Tail(gap)
        BY <1>2, <2>2 DEF SocketTypeOK
      <3>4. wire'[t] \in Seq(Frame) /\ \A i \in 1 .. Len(wire'[t]) : wire'[t][i] = Head(gap)
        BY <3>2, <3>3 DEF Frame
      <3>5. \A i \in 1 .. Len(backlog'[t]) : Mine(backlog'[t][i])
        BY <1>3, <3>1, <3>3
      <3> QED BY <1>2, <2>2, <3>1, <3>2, <3>3, <3>4, <3>5 DEF SocketTypeOK
    <2> QED BY <1>1, <2>1, <2>2
  <1>5. SocketTypeOK'
    BY <1>1, <1>2, <1>4 DEF SocketTypeOK
  <1>6. TabInv(t)' /\ WrittenOnce(t)' /\ NothingLost(t)'
    <2>1. link'[t] = "replay"
      BY <1>1, <1>2 DEF SocketTypeOK
    <2>2. \A i \in 1 .. Len(wire'[t]) : (FrameIsMine(wire[t][i]))'
      BY <1>1, <1>4 DEF FrameIsMine, Mine, IsSnapshot, Message
    <2> QED BY <1>1, <1>2, <1>4, <2>1, <2>2 DEF TabInv, Mine, WrittenOnce, NothingLost
  <1> QED BY <1>1, <1>2, <1>4, <1>5, <1>6, OneTab DEF SocketTypeOK

LEMMA ReplayKeeps ==
    ASSUME SocketInv, NEW t \in Tabs, Replay(t)
    PROVE  SocketInv'
  <1>0. SocketTypeOK /\ TabInv(t) /\ backlog[t] \in Seq(Message) /\ backlog[t] # <<>>
    BY DEF SocketInv, SocketTypeOK, Replay
  <1>1. /\ Head(backlog[t]) = backlog[t][1] /\ Len(backlog[t]) \in Nat \ {0}
        /\ Tail(backlog[t]) \in Seq(Message) /\ Len(Tail(backlog[t])) = Len(backlog[t]) - 1
        /\ \A i \in 1 .. Len(Tail(backlog[t])) :
               i + 1 \in 1 .. Len(backlog[t]) /\ Tail(backlog[t])[i] = backlog[t][i + 1]
    BY <1>0, HeadTailProperties
  <1>2. PICK m \in Message : m = Head(backlog[t]) /\ Mine(m)
    <2>1. 1 \in 1 .. Len(backlog[t])
      BY <1>1
    <2> QED BY <1>0, <1>1, <2>1 DEF TabInv
  <1>3. /\ wire' = [wire EXCEPT ![t] = Append(@, m)]
        /\ backlog' = [backlog EXCEPT ![t] = Tail(@)]
        /\ UNCHANGED <<session, seq, outbox, cookie, unsent, tab, link, last, seen, overtaken, drops>>
    BY <1>2 DEF Replay
  <1>4. /\ link[t] = "replay" /\ m \in Frame /\ FrameIsMine(m)
        /\ wire'[t] = Append(wire[t], m) /\ backlog'[t] = Tail(backlog[t])
    BY <1>0, <1>2, <1>3 DEF TabInv, SocketTypeOK, Frame, FrameIsMine, Mine, Message, IsSnapshot
  <1>5. /\ wire'[t] \in Seq(Frame) /\ wire'[t][Len(wire[t]) + 1] = m
        /\ \A i \in 1 .. Len(wire[t]) : wire'[t][i] = wire[t][i]
        /\ \A i \in 1 .. Len(wire'[t]) : i \in 1 .. Len(wire[t]) \/ i = Len(wire[t]) + 1
    BY <1>0, <1>4, OnTheWire
  <1>6. SocketTypeOK'
    BY <1>0, <1>1, <1>3, <1>4, <1>5 DEF SocketTypeOK
  <1>7. TabInv(t)'
    <2>1. \A i \in 1 .. Len(wire'[t]) : (FrameIsMine(wire[t][i]))'
      BY <1>0, <1>3, <1>4, <1>5 DEF TabInv, FrameIsMine, IsSnapshot
    <2>2. \A i \in 1 .. Len(backlog'[t]) : (Mine(backlog[t][i]))'
      BY <1>0, <1>1, <1>3, <1>4 DEF TabInv, Mine
    <2> QED BY <1>0, <1>3, <1>4, <2>1, <2>2 DEF TabInv, Mine
  <1>8. WrittenOnce(t)' /\ NothingLost(t)'
    <2>1. WrittenOnce(t)
      BY DEF SocketInv
    <2>2. \A x \in unsent[t] : x # m
      <3>1. 1 \in 1 .. Len(backlog[t])
        BY <1>1
      <3> QED BY <1>1, <1>2, <2>1, <3>1 DEF WrittenOnce
    <2>3. ASSUME NEW x \in unsent[t], NEW i \in 1 .. Len(wire'[t]) PROVE wire'[t][i] # x
      <3>1. i \in 1 .. Len(wire[t]) \/ i = Len(wire[t]) + 1
        BY <1>0, <1>4, OnTheWire
      <3> QED BY <1>5, <2>1, <2>2, <2>3, <3>1 DEF WrittenOnce
    <2>4. \A x \in unsent[t] : \A i \in 1 .. Len(backlog'[t]) : backlog'[t][i] # x
      BY <1>1, <1>4, <2>1 DEF WrittenOnce
    <2> QED BY <1>3, <1>4, <2>1, <2>3, <2>4 DEF WrittenOnce, NothingLost
  <1> QED BY <1>0, <1>3, <1>6, <1>7, <1>8, OneTab DEF SocketTypeOK

\* The snapshot covers all this session has sent, and the tab is live.
LEMMA SendSnapshotKeeps ==
    ASSUME SocketInv, NEW t \in Tabs, SendSnapshot(t)
    PROVE  SocketInv'
  <1>0. SocketTypeOK /\ TabInv(t) /\ session \in Nat /\ seq \in Nat
    BY DEF SocketInv, SocketTypeOK
  <1>1. PICK f \in Snapshot : f = [upto |-> seq, session |-> session]
    BY <1>0 DEF Snapshot
  <1>2. /\ link[t] = "replay" /\ backlog[t] = <<>>
        /\ link' = [link EXCEPT ![t] = "live"]
        /\ wire' = [wire EXCEPT ![t] = Append(@, f)]
        /\ overtaken' = [overtaken EXCEPT ![t] = {}]
        /\ UNCHANGED <<session, seq, outbox, cookie, unsent, tab, backlog, last, seen, drops>>
    BY <1>1 DEF SendSnapshot
  <1>3. /\ f \in Frame /\ IsSnapshot(f) /\ f.upto = seq /\ FrameIsMine(f)
        /\ wire'[t] = Append(wire[t], f) /\ link'[t] = "live"
    BY <1>0, <1>1, <1>2 DEF SocketTypeOK, Frame, IsSnapshot, FrameIsMine
  <1>4. /\ wire'[t] \in Seq(Frame) /\ wire'[t][Len(wire[t]) + 1] = f
        /\ \A i \in 1 .. Len(wire[t]) : wire'[t][i] = wire[t][i]
        /\ \A i \in 1 .. Len(wire'[t]) : i \in 1 .. Len(wire[t]) \/ i = Len(wire[t]) + 1
        /\ Len(wire[t]) + 1 \in 1 .. Len(wire'[t])
    BY <1>0, <1>3, OnTheWire
  <1>5. SocketTypeOK'
    <2>1. overtaken' \in [Tabs -> SUBSET Message]
      <3>1. overtaken \in [Tabs -> SUBSET Message] /\ {} \in SUBSET Message
        BY <1>0 DEF SocketTypeOK
      <3> QED BY <1>2, <3>1
    <2> QED BY <1>0, <1>2, <1>4, <2>1 DEF SocketTypeOK
  <1>6. TabInv(t)'
    <2>1. \A i \in 1 .. Len(wire'[t]) : (FrameIsMine(wire[t][i]))'
      BY <1>0, <1>2, <1>3, <1>4 DEF TabInv, FrameIsMine, IsSnapshot
    <2> QED BY <1>0, <1>2, <1>3, <2>1 DEF TabInv, Mine
  <1>7. WrittenOnce(t)' /\ NothingLost(t)'
    <2>1. \A n \in 1 .. seq' : Coming(t, n)'
      <3> SUFFICES ASSUME NEW n \in 1 .. seq' PROVE Coming(t, n)'
        OBVIOUS
      <3>1. \E i \in 1 .. Len(wire'[t]) : IsSnapshot(wire'[t][i]) /\ n <= wire'[t][i].upto
        BY <1>0, <1>2, <1>3, <1>4
      <3> QED BY <3>1 DEF Coming, IsSnapshot
    <2>2. \A x \in unsent[t] : x # f
      <3> SUFFICES ASSUME NEW x \in unsent[t] PROVE ~IsSnapshot(x)
        BY <1>3
      <3>1. x \in Message
        BY <1>0 DEF SocketTypeOK
      <3> QED BY <3>1 DEF Message, IsSnapshot
    <2>3. ASSUME NEW x \in unsent[t], NEW i \in 1 .. Len(wire'[t]) PROVE wire'[t][i] # x
      <3>1. i \in 1 .. Len(wire[t]) \/ i = Len(wire[t]) + 1
        BY <1>0, <1>3, OnTheWire
      <3> QED BY <1>4, <2>2, <2>3, <3>1 DEF SocketInv, WrittenOnce
    <2> QED BY <1>2, <2>1, <2>3 DEF SocketInv, WrittenOnce, NothingLost
  <1> QED BY <1>0, <1>2, <1>5, <1>6, <1>7, OneTab DEF SocketTypeOK

\* A link that is lost or closed takes what was under way with it.
LEMMA HangsKeeps ==
    ASSUME SocketInv, NEW t \in Tabs, Drop(t) \/ CloseTab(t) \/ SignOut(t)
    PROVE  SocketInv'
  <1>1. /\ link' = [link EXCEPT ![t] = "closed"]
        /\ backlog' = [backlog EXCEPT ![t] = <<>>]
        /\ unsent' = [unsent EXCEPT ![t] = {}]
        /\ wire' = [wire EXCEPT ![t] = <<>>]
        /\ overtaken' = [overtaken EXCEPT ![t] = {}]
        /\ tab' = tab \/ tab' = [tab EXCEPT ![t] = "closed"]
        /\ UNCHANGED <<session, seq, outbox, last, seen>>
    BY DEF Drop, CloseTab, SignOut, Hangs
  <1>2. SocketTypeOK /\ TabInv(t)
    BY DEF SocketInv
  <1>3. SocketTypeOK'
    <2>1. /\ tab' \in [Tabs -> {"closed", "starting", "open"}]
          /\ link' \in [Tabs -> {"closed", "hello", "replay", "live"}]
      BY <1>1, <1>2 DEF SocketTypeOK
    <2>2. backlog' \in [Tabs -> Seq(Message)] /\ wire' \in [Tabs -> Seq(Frame)]
      BY <1>1, <1>2 DEF SocketTypeOK
    <2>3. unsent' \in [Tabs -> SUBSET Message] /\ overtaken' \in [Tabs -> SUBSET Message]
      <3>1. /\ unsent \in [Tabs -> SUBSET Message] /\ overtaken \in [Tabs -> SUBSET Message]
            /\ {} \in SUBSET Message
        BY <1>2 DEF SocketTypeOK
      <3> QED BY <1>1, <3>1
    <2> QED BY <1>1, <1>2, <2>1, <2>2, <2>3 DEF SocketTypeOK
  <1>4. /\ link'[t] = "closed" /\ backlog'[t] = <<>> /\ unsent'[t] = {} /\ wire'[t] = <<>>
        /\ tab'[t] = "open" => tab[t] = "open"
    BY <1>1, <1>2 DEF SocketTypeOK
  <1>5. TabInv(t)' /\ WrittenOnce(t)' /\ NothingLost(t)'
    <2>1. Len(wire'[t]) = 0 /\ Len(backlog'[t]) = 0
      BY <1>4
    <2> QED BY <1>1, <1>2, <1>4, <2>1 DEF TabInv, WrittenOnce, NothingLost, Mine
  <1> QED BY <1>1, <1>2, <1>3, <1>5, OneTab DEF SocketTypeOK

\* Opening, and the page that comes up: its numbers start at nothing.
LEMMA OpeningKeeps ==
    ASSUME SocketInv, NEW t \in Tabs, OpenTab(t) \/ Start(t) \/ Reconnect(t)
    PROVE  SocketInv'
  <1>1. /\ \/ tab[t] = "closed" /\ tab' = [tab EXCEPT ![t] = "starting"] /\ UNCHANGED <<link, last, seen>>
           \/ /\ tab[t] = "starting" /\ tab' = [tab EXCEPT ![t] = "open"]
              /\ last' = [last EXCEPT ![t] = 0] /\ seen' = [seen EXCEPT ![t] = {}]
              /\ link' = [link EXCEPT ![t] = "hello"]
           \/ /\ tab[t] = "open" /\ link[t] = "closed" /\ link' = [link EXCEPT ![t] = "hello"]
              /\ UNCHANGED <<tab, last, seen>>
        /\ UNCHANGED <<session, seq, outbox, backlog, unsent, wire, overtaken>>
    BY DEF OpenTab, Start, Reconnect
  <1>2. SocketTypeOK /\ TabInv(t) /\ seq \in Nat
    BY DEF SocketInv, SocketTypeOK
  <1>3. SocketTypeOK'
    <2>1. /\ tab' \in [Tabs -> {"closed", "starting", "open"}]
          /\ link' \in [Tabs -> {"closed", "hello", "replay", "live"}]
      BY <1>1, <1>2 DEF SocketTypeOK
    <2>2. last' \in [Tabs -> Nat]
      <3>1. last \in [Tabs -> Nat] /\ 0 \in Nat
        BY <1>2 DEF SocketTypeOK
      <3> QED BY <1>1, <3>1
    <2>3. seen' \in [Tabs -> SUBSET Message]
      <3>1. seen \in [Tabs -> SUBSET Message] /\ {} \in SUBSET Message
        BY <1>2 DEF SocketTypeOK
      <3> QED BY <1>1, <3>1
    <2> QED BY <1>1, <1>2, <2>1, <2>2, <2>3 DEF SocketTypeOK
  <1>4. link[t] = "closed" /\ unsent[t] = {} /\ wire[t] = <<>> /\ backlog[t] = <<>>
    BY <1>1, <1>2 DEF TabInv
  <1>5. /\ tab[t] = "open" \/ tab'[t] # "open" \/ (last'[t] = 0 /\ seen'[t] = {})
        /\ tab'[t] = "open" /\ tab[t] = "open" => last'[t] = last[t] /\ seen'[t] = seen[t]
        /\ link'[t] \in {"closed", "hello"} /\ (link'[t] = "hello" => tab'[t] = "open")
    BY <1>1, <1>2, <1>4 DEF SocketTypeOK
  <1>6. TabInv(t)' /\ WrittenOnce(t)' /\ NothingLost(t)'
    <2>1. Len(wire'[t]) = 0 /\ Len(backlog'[t]) = 0
      BY <1>1, <1>4
    <2> QED BY <1>1, <1>2, <1>4, <1>5, <2>1 DEF TabInv, WrittenOnce, NothingLost, Mine
  <1> QED BY <1>1, <1>2, <1>3, <1>6, OneTab DEF SocketTypeOK

\* A sign-in finds every tab closed, so nothing of the last session is shown.
LEMMA SignInKeeps ==
    ASSUME SocketInv, "left_open" \notin Habits, NEW t \in Tabs, SignIn(t)
    PROVE  SocketInv'
  <1>1. /\ \A u \in Tabs : tab[u] = "closed"
        /\ session' = session + 1 /\ seq' = 0 /\ outbox' = <<>>
        /\ tab' = [tab EXCEPT ![t] = "starting"]
        /\ UNCHANGED <<link, backlog, unsent, wire, last, seen, overtaken>>
    BY DEF SignIn, OthersClosed, Reset
  <1>2. SocketTypeOK
    BY DEF SocketInv
  <1>3. SocketTypeOK'
    <2>1. session' \in Nat /\ seq' \in Nat /\ outbox' \in Seq(Message)
      BY <1>1, <1>2 DEF SocketTypeOK
    <2>2. tab' \in [Tabs -> {"closed", "starting", "open"}]
      BY <1>1, <1>2 DEF SocketTypeOK
    <2> QED BY <1>1, <1>2, <2>1, <2>2 DEF SocketTypeOK
  <1>4. OutboxIsMine'
    <2>1. Len(outbox') = 0
      BY <1>1
    <2> QED BY <2>1 DEF OutboxIsMine
  <1>5. ASSUME NEW u \in Tabs PROVE TabInv(u)' /\ WrittenOnce(u)' /\ NothingLost(u)'
    <2>1. TabInv(u) /\ link[u] = "closed" /\ tab'[u] # "open"
      BY <1>1, <1>2 DEF SocketInv, TabInv, SocketTypeOK
    <2>2. unsent[u] = {} /\ wire[u] = <<>> /\ backlog[u] = <<>>
      BY <2>1 DEF TabInv
    <2>3. Len(wire'[u]) = 0 /\ Len(backlog'[u]) = 0
      BY <1>1, <2>2
    <2> QED BY <1>1, <2>1, <2>2, <2>3 DEF TabInv, WrittenOnce, NothingLost
  <1> QED BY <1>3, <1>4, <1>5 DEF SocketInv

LEMMA SocketInitially == SocketInit => SocketInv
  <1> SUFFICES ASSUME SocketInit PROVE SocketInv
    OBVIOUS
  <1>1. SocketTypeOK
    BY DEF SocketInit, SocketTypeOK
  <1>2. OutboxIsMine
    BY DEF SocketInit, OutboxIsMine
  <1>3. ASSUME NEW t \in Tabs PROVE TabInv(t) /\ WrittenOnce(t) /\ NothingLost(t)
    BY DEF SocketInit, TabInv, WrittenOnce, NothingLost
  <1> QED BY <1>1, <1>2, <1>3 DEF SocketInv

LEMMA SocketStep ==
    ASSUME "left_open" \notin Habits, SocketInv, [SocketNext]_socketVars
    PROVE  SocketInv'
  <1>1. CASE UNCHANGED socketVars
    <2>1. /\ UNCHANGED <<session, seq, outbox, cookie, tab, link, backlog, unsent, wire, last, seen, overtaken>>
      BY <1>1 DEF socketVars
    <2>2. SocketTypeOK' /\ OutboxIsMine'
      BY <2>1 DEF SocketInv, SocketTypeOK, OutboxIsMine, Mine
    <2>3. ASSUME NEW u \in Tabs PROVE TabInv(u)' /\ WrittenOnce(u)' /\ NothingLost(u)'
      BY <2>1, QuietTab DEF SocketInv
    <2> QED BY <2>2, <2>3 DEF SocketInv
  <1> QED BY <1>1, SendKeeps, DeliverKeeps, ConnectKeeps, ReplayKeeps, SendSnapshotKeeps,
             SignInKeeps, OpeningKeeps, HangsKeeps, ReceiveKeeps DEF SocketNext

-----------------------------------------------------------------------------
(* The two together.                                                       *)

\* The turns' and the summary's invariants hold whatever the link does.
THEOREM TurnsHold == Spec => [](FeedInv /\ FinalInv)
  <1>1. Init => FeedInv /\ FinalInv
    BY TranscriptInitially DEF Init
  <1>2. FeedInv /\ FinalInv /\ [Next]_vars => (FeedInv /\ FinalInv)'
    <2> SUFFICES ASSUME FeedInv, FinalInv, [Next]_vars PROVE [TranscriptNext]_transcriptVars
      BY TranscriptStep
    <2> QED BY DEF Next, InTranscript, InSocket, vars
  <1> QED BY <1>1, <1>2, PTL DEF Spec

\* And the link's invariant holds whatever is said, where no tab is left open
\* across a sign-in.
THEOREM LinkHolds ==
    ASSUME "left_open" \notin Habits
    PROVE  Spec => []SocketInv
  <1>1. Init => SocketInv
    BY SocketInitially DEF Init
  <1>2. SocketInv /\ [Next]_vars => SocketInv'
    <2> SUFFICES ASSUME SocketInv, [Next]_vars PROVE [SocketNext]_socketVars
      BY SocketStep
    <2> QED BY DEF Next, InTranscript, InSocket, vars
  <1> QED BY <1>1, <1>2, PTL DEF Spec

\* A desk is sent the words of its own caller and a tab the messages of its own
\* session, for any number of either (delivery.py, D52, D106; realtime.py, B27).
THEOREM EveryoneReadsTheirOwn ==
    ASSUME "left_open" \notin Habits
    PROVE  Spec => []ReadsItsOwn
  <1>1. FeedInv /\ FinalInv /\ SocketInv => ReadsItsOwn
    BY DEF FeedInv, SocketInv, TabInv, Mine, ReadsItsOwn, NobodyElsesMessages
  <1>2. Spec => [](FeedInv /\ FinalInv)
    BY TurnsHold
  <1>3. Spec => []SocketInv
    BY LinkHolds
  <1> QED BY <1>1, <1>2, <1>3, PTL

\* A live tab with nothing on its way shows everything its session has sent,
\* but for what a newer message overtook on this connection, however often the
\* link dropped, however far the outbox rolled and whatever send overtook
\* another (realtime.py, agent_socket, useSocket.ts).
THEOREM ViewStaysCurrent ==
    ASSUME "left_open" \notin Habits
    PROVE  Spec => []ViewIsCurrent
  <1>1. SocketInv => ViewIsCurrent
    <2> SUFFICES ASSUME SocketInv, NEW t \in Tabs, link[t] = "live", unsent[t] = {}, wire[t] = <<>>,
                        NEW n \in 1 .. seq
                 PROVE  Msg(n) \in seen[t] \cup overtaken[t]
      BY DEF ViewIsCurrent, UpToDate
    <2>1. Coming(t, n)
      BY DEF SocketInv, NothingLost
    <2>2. Len(wire[t]) = 0
      OBVIOUS
    <2> QED BY <2>1, <2>2 DEF Coming
  <1>2. Spec => []SocketInv
    BY LinkHolds
  <1> QED BY <1>1, <1>2, PTL

\* The final summary of a call is never replaced by anything (deps.py).
THEOREM FinalStays == Spec => FinalIsNeverReplaced
  <1>1. FeedInv /\ FinalInv /\ [Next]_vars => [summary.final => summary' = summary]_transcriptVars
    <2> SUFFICES ASSUME FeedInv, FinalInv, [Next]_vars
                 PROVE  [summary.final => summary' = summary]_transcriptVars
      OBVIOUS
    <2>1. [TranscriptNext]_transcriptVars
      BY DEF Next, InTranscript, InSocket, vars
    <2> QED BY <2>1, TranscriptStep
  <1> QED BY <1>1, TurnsHold, PTL DEF Spec, FinalIsNeverReplaced
=============================================================================
