-------------------------- MODULE SpeechToTextProofs --------------------------
(***************************************************************************)
(* What SpeechToText guarantees for any number of legs on one engine, any  *)
(* number of children and requests, and any sizes of buffer and segment.   *)
(*                                                                         *)
(* The engine.  Whoever holds the lock is the only one with anything in    *)
(* the pipes, and a child that is alive has one request or one answer of   *)
(* theirs; what is in the pipes of a child given up on goes with it.       *)
(***************************************************************************)
EXTENDS SpeechToText, FiniteSums, SequenceTheorems, TLAPS

-----------------------------------------------------------------------------
(* The engine.                                                             *)

AtWork == {"ensure", "hello", "exchange", "close"}

Steps == {"idle", "waiting", "closing"} \cup AtWork

WorkerTypes ==
    /\ step \in [Streams -> Steps]
    /\ asked \in [Streams -> Nat] /\ got \in [Streams -> Nat] /\ reqSeq \in Nat
    /\ proc \in 0 .. MaxSpawns /\ child \in [Children -> ChildStates]

Lives == proc # 0 /\ child[proc] \in {"loading", "ready", "stuck"}

\* Work is done under the lock.
UnderLock == \A s \in Streams : step[s] \in AtWork => lock = s

\* What has come out is the hello, or the holder's own reply.
OutputFits ==
    /\ stdout = <<>> \/ \E s \in Streams : step[s] \in {"hello", "exchange"}
    /\ \A s \in Streams : step[s] = "hello" => stdout \in {<<>>, <<Hello>>}
    /\ \A s \in Streams : step[s] = "exchange" => stdout \in {<<>>, <<asked[s]>>}
    /\ Lives /\ child[proc] = "loading" =>
          stdout = <<>> /\ \E s \in Streams : step[s] = "hello"

\* A living child has not yet read the holder's request, or nothing is left.
InputFits ==
    Lives =>
        \/ stdin = <<>>
        \/ \E s \in Streams : step[s] = "exchange" /\ stdin = <<asked[s]>> /\ stdout = <<>>

NoPipes == proc = 0 => stdin = <<>> /\ stdout = <<>>

WorkerFits ==
    /\ WorkerTypes /\ UnderLock /\ OutputFits /\ InputFits /\ NoPipes
    /\ ReplyIsMine

LEMMA RaiseKeepsFit ==
    ASSUME WorkerFits, NEW s \in Streams, step[s] \in AtWork, Raise(s)
    PROVE  WorkerFits'
  <1>1. /\ proc' = 0 /\ stdin' = <<>> /\ stdout' = <<>> /\ lock' = Nobody
        /\ step' = [step EXCEPT ![s] = "idle"] /\ got' = [got EXCEPT ![s] = 0]
        /\ asked' = asked /\ reqSeq' = reqSeq
        /\ child' = IF running THEN [child EXCEPT ![proc] = "gone"] ELSE child
    BY DEF Raise, Stop, Unlock
  <1>2. child' \in [Children -> ChildStates]
    BY <1>1 DEF WorkerFits, WorkerTypes, ChildStates
  <1>3. WorkerTypes'
    BY <1>1, <1>2, WorkerAssumption DEF WorkerFits, WorkerTypes, Steps
  <1>4. \A t \in Streams : step'[t] \notin AtWork
    BY <1>1 DEF WorkerFits, WorkerTypes, UnderLock, AtWork
  <1>5. ReplyIsMine'
    BY <1>1 DEF WorkerFits, WorkerTypes, ReplyIsMine
  <1> QED BY <1>1, <1>3, <1>4, <1>5 DEF WorkerFits, UnderLock, OutputFits, InputFits, NoPipes, Lives,
                                        AtWork

\* Only the child moves.
LEMMA ChildKeepsFit ==
    ASSUME WorkerFits, UNCHANGED <<lock, step, asked, got, reqSeq, proc, stdin, stdout>>,
           NEW k \in Children, NEW st \in {"ready", "stuck", "gone", "reaped"},
           child' = [child EXCEPT ![k] = st], child[k] # "unborn",
           st \in {"ready", "stuck"} => child[k] \in {"ready", "stuck"} \/ k # proc
    PROVE  WorkerFits'
  <1>1. child' \in [Children -> ChildStates]
    BY DEF WorkerFits, WorkerTypes, ChildStates
  <1>2. WorkerTypes' /\ UnderLock' /\ NoPipes' /\ ReplyIsMine'
    BY <1>1 DEF WorkerFits, WorkerTypes, UnderLock, NoPipes, ReplyIsMine
  <1>3. Lives' => Lives
    BY DEF WorkerFits, WorkerTypes, Lives
  <1>4. Lives' /\ child'[proc] = "loading" => child[proc] = "loading"
    BY DEF WorkerFits, WorkerTypes, Lives, Children
  <1> QED BY <1>2, <1>3, <1>4 DEF WorkerFits, OutputFits, InputFits

LEMMA WorkerFitsStep == WorkerFits /\ [WorkerNext]_workerVars => WorkerFits'
  <1> SUFFICES ASSUME WorkerFits, [WorkerNext]_workerVars PROVE WorkerFits'
    OBVIOUS
  <1> USE DEF WorkerFits
  <1>1. ASSUME NEW s \in Streams,
               SpawnFails(s) \/ StartupFails(s) \/ Deadline(s) \/ PipeBreaks(s) \/ CloseAfterEof(s)
        PROVE  WorkerFits'
    <2>1. step[s] \in AtWork /\ Raise(s)
      BY <1>1 DEF SpawnFails, StartupFails, Deadline, PipeBreaks, CloseAfterEof, AtWork
    <2> QED BY <2>1, RaiseKeepsFit
  <1>2. ASSUME NEW s \in Streams, Ask(s) PROVE WorkerFits'
    <2>1. /\ step[s] = "idle" /\ step' = [step EXCEPT ![s] = "waiting"]
          /\ UNCHANGED <<lock, asked, got, reqSeq, proc, child, stdin, stdout>>
      BY <1>2 DEF Ask
    <2>2. WorkerTypes'
      BY <2>1 DEF WorkerTypes, Steps
    <2>3. \A t \in Streams : t = s \/ step'[t] = step[t]
      BY <2>1 DEF WorkerTypes
    <2>4. step'[s] = "waiting"
      BY <2>1 DEF WorkerTypes
    <2> QED BY <2>1, <2>2, <2>3, <2>4
            DEF UnderLock, OutputFits, InputFits, NoPipes, Lives, ReplyIsMine, AtWork
  <1>3. ASSUME NEW s \in Streams, Acquire(s) PROVE WorkerFits'
    <2>1. /\ lock = Nobody /\ lock' = s
          /\ step' = [step EXCEPT ![s] = IF @ = "waiting" THEN "ensure" ELSE "close"]
          /\ UNCHANGED <<asked, got, reqSeq, proc, child, stdin, stdout>>
      BY <1>3 DEF Acquire
    <2>2. \A t \in Streams : step[t] \notin AtWork
      BY <2>1, WorkerAssumption DEF UnderLock
    <2>3. WorkerTypes' /\ step'[s] \in {"ensure", "close"}
      BY <2>1 DEF WorkerTypes, Steps, AtWork
    <2>4. \A t \in Streams : t = s \/ step'[t] = step[t]
      BY <2>1 DEF WorkerTypes
    <2> QED BY <2>1, <2>2, <2>3, <2>4
            DEF UnderLock, OutputFits, InputFits, NoPipes, Lives, ReplyIsMine, AtWork
  <1>4. ASSUME NEW s \in Streams, Spawn(s) PROVE WorkerFits'
    <2>1. PICK k \in Children : proc' = k /\ child' = [child EXCEPT ![k] = "loading"]
      BY <1>4 DEF Spawn
    <2>2. /\ step[s] = "ensure" /\ step' = [step EXCEPT ![s] = "hello"]
          /\ stdin' = <<>> /\ stdout' = <<>> /\ UNCHANGED <<lock, asked, got, reqSeq>>
      BY <1>4 DEF Spawn
    <2>3. child' \in [Children -> ChildStates] /\ proc' \in 0 .. MaxSpawns /\ proc' # 0
      BY <2>1, WorkerAssumption DEF WorkerTypes, ChildStates, Children
    <2>4. WorkerTypes'
      BY <2>2, <2>3 DEF WorkerTypes, Steps, AtWork
    <2>5. step'[s] = "hello" /\ \A t \in Streams : t = s \/ step'[t] = step[t]
      BY <2>2 DEF WorkerTypes
    <2>6. \A t \in Streams : step'[t] \in AtWork => t = s
      BY <2>2, <2>5 DEF UnderLock, AtWork
    <2> QED BY <2>2, <2>3, <2>4, <2>5, <2>6
            DEF UnderLock, OutputFits, InputFits, NoPipes, ReplyIsMine, AtWork
  <1>5. ASSUME NEW s \in Streams, ReadHello(s) PROVE WorkerFits'
    <2>1. /\ step[s] = "hello" /\ stdout # <<>> /\ stdout' = Tail(stdout)
          /\ step' = [step EXCEPT ![s] = "ensure"]
          /\ UNCHANGED <<lock, asked, got, reqSeq, proc, child, stdin>>
      BY <1>5 DEF ReadHello
    <2>2. stdout = <<Hello>> /\ stdout' = <<>>
      <3>1. Tail(<<Hello>>) = <<>>
        OBVIOUS
      <3> QED BY <2>1, <3>1 DEF OutputFits
    <2>3. ~(Lives /\ child[proc] = "loading")
      BY <2>1 DEF OutputFits
    <2>4. WorkerTypes'
      BY <2>1 DEF WorkerTypes, Steps, AtWork
    <2>5. step'[s] = "ensure" /\ \A t \in Streams : t = s \/ step'[t] = step[t]
      BY <2>1 DEF WorkerTypes
    <2>6. \A t \in Streams : step'[t] \in AtWork => t = s
      BY <2>1, <2>5 DEF UnderLock, AtWork
    <2>7. Lives => stdin = <<>>
      BY <2>1 DEF InputFits, UnderLock, AtWork
    <2> QED BY <2>1, <2>2, <2>3, <2>4, <2>5, <2>6, <2>7
            DEF UnderLock, OutputFits, InputFits, NoPipes, Lives, ReplyIsMine, AtWork
  <1>6. ASSUME NEW s \in Streams, Write(s) PROVE WorkerFits'
    <2>1. /\ step[s] = "ensure" /\ running
          /\ reqSeq' = reqSeq + 1 /\ asked' = [asked EXCEPT ![s] = reqSeq + 1]
          /\ stdin' = Append(stdin, reqSeq + 1) /\ step' = [step EXCEPT ![s] = "exchange"]
          /\ UNCHANGED <<lock, got, proc, child, stdout>>
      BY <1>6 DEF Write
    <2>2. \A t \in Streams : step[t] \in AtWork => t = s
      BY <2>1 DEF UnderLock, AtWork
    <2>3. stdout = <<>> /\ ~(Lives /\ child[proc] = "loading") /\ (Lives => stdin = <<>>)
      BY <2>1, <2>2 DEF OutputFits, InputFits, AtWork
    <2>4. WorkerTypes'
      BY <2>1 DEF WorkerTypes, Steps, AtWork
    <2>5. /\ step'[s] = "exchange" /\ asked'[s] = reqSeq + 1
          /\ \A t \in Streams : t = s \/ (step'[t] = step[t] /\ asked'[t] = asked[t])
      BY <2>1 DEF WorkerTypes
    <2>6. Lives => stdin' = <<asked'[s]>>
      BY <2>1, <2>3, <2>5
    <2>7. \A t \in Streams : step'[t] \in AtWork => t = s
      BY <2>2, <2>5 DEF AtWork
    <2>8. proc # 0
      BY <2>1 DEF running
    <2> QED BY <2>1, <2>3, <2>4, <2>5, <2>6, <2>7, <2>8
            DEF UnderLock, OutputFits, InputFits, NoPipes, Lives, ReplyIsMine, AtWork
  <1>7. ASSUME NEW s \in Streams, ReadReply(s) PROVE WorkerFits'
    <2>1. /\ step[s] = "exchange" /\ stdout # <<>> /\ stdout' = Tail(stdout)
          /\ got' = [got EXCEPT ![s] = Head(stdout)] /\ lock' = Nobody
          /\ step' = [step EXCEPT ![s] = "idle"]
          /\ UNCHANGED <<asked, reqSeq, proc, child, stdin>>
      BY <1>7 DEF ReadReply, Unlock
    <2>2. stdout = <<asked[s]>> /\ stdout' = <<>> /\ got' = [got EXCEPT ![s] = asked[s]]
      <3>1. Tail(<<asked[s]>>) = <<>> /\ Head(<<asked[s]>>) = asked[s]
        OBVIOUS
      <3>2. stdout = <<asked[s]>>
        BY <2>1 DEF OutputFits
      <3> QED BY <2>1, <3>1, <3>2
    <2>3. WorkerTypes'
      BY <2>1, <2>2 DEF WorkerTypes, Steps, AtWork
    <2>4. /\ step'[s] = "idle" /\ got'[s] = asked[s]
          /\ \A t \in Streams : t = s \/ (step'[t] = step[t] /\ got'[t] = got[t])
      BY <2>1, <2>2 DEF WorkerTypes
    <2>5. \A t \in Streams : step'[t] \notin AtWork
      BY <2>1, <2>4 DEF UnderLock, AtWork
    <2>6. ~(Lives /\ child[proc] = "loading") /\ (Lives => stdin = <<>>)
      BY <2>1 DEF OutputFits, InputFits
    <2> QED BY <2>1, <2>2, <2>3, <2>4, <2>5, <2>6
            DEF UnderLock, OutputFits, InputFits, NoPipes, Lives, ReplyIsMine, AtWork
  <1>8. ASSUME NEW s \in Streams, CleanEof(s) PROVE WorkerFits'
    <2>1. /\ step[s] = "exchange" /\ stdout = <<>> /\ child[proc] \in {"gone", "reaped"}
          /\ lock' = Nobody /\ step' = [step EXCEPT ![s] = "closing"]
          /\ UNCHANGED <<asked, got, reqSeq, proc, child, stdin, stdout>>
      BY <1>8 DEF CleanEof
    <2>2. WorkerTypes'
      BY <2>1 DEF WorkerTypes, Steps
    <2>3. step'[s] = "closing" /\ \A t \in Streams : t = s \/ step'[t] = step[t]
      BY <2>1 DEF WorkerTypes
    <2>4. \A t \in Streams : step'[t] \notin AtWork
      BY <2>1, <2>3 DEF UnderLock, AtWork
    <2> QED BY <2>1, <2>2, <2>3, <2>4
            DEF UnderLock, OutputFits, InputFits, NoPipes, Lives, ReplyIsMine, AtWork
  <1>9. ASSUME NEW k \in Children, Ready(k) PROVE WorkerFits'
    <2>1. /\ child[k] = "loading" /\ child' = [child EXCEPT ![k] = "ready"]
          /\ stdout' = IF k = proc THEN Append(stdout, Hello) ELSE stdout
          /\ UNCHANGED <<lock, step, asked, got, reqSeq, proc, stdin>>
      BY <1>9 DEF Ready
    <2>2. CASE k # proc
      BY <2>1, <2>2, ChildKeepsFit
    <2>3. CASE k = proc
      <3>1. Lives /\ stdout = <<>>
        BY <2>1, <2>3, WorkerAssumption DEF Lives, OutputFits, Children
      <3>2. PICK s \in Streams : step[s] = "hello"
        BY <2>1, <2>3, <3>1 DEF OutputFits
      <3>3. stdin = <<>> /\ \A t \in Streams : step[t] \in AtWork => t = s
        BY <3>1, <3>2 DEF InputFits, UnderLock, AtWork
      <3>4. stdout' = <<Hello>>
        BY <2>1, <2>3, <3>1
      <3>5. child' \in [Children -> ChildStates] /\ child'[proc] = "ready"
        BY <2>1, <2>3 DEF WorkerTypes, ChildStates
      <3>6. WorkerTypes' /\ UnderLock' /\ ReplyIsMine'
        BY <2>1, <3>5 DEF WorkerTypes, UnderLock, ReplyIsMine
      <3> QED BY <2>1, <3>1, <3>2, <3>3, <3>4, <3>5, <3>6
              DEF OutputFits, InputFits, NoPipes, Lives, AtWork
    <2> QED BY <2>2, <2>3
  <1>10. ASSUME NEW k \in Children, Answer(k) PROVE WorkerFits'
    <2>1. /\ k = proc /\ child[k] = "ready" /\ stdin # <<>>
          /\ stdout' = Append(stdout, Head(stdin)) /\ stdin' = Tail(stdin)
          /\ UNCHANGED <<lock, step, asked, got, reqSeq, proc, child>>
      BY <1>10 DEF Answer
    <2>2. Lives
      BY <2>1, WorkerAssumption DEF Lives, Children
    <2>3. PICK s \in Streams : step[s] = "exchange" /\ stdin = <<asked[s]>> /\ stdout = <<>>
      BY <2>1, <2>2 DEF InputFits
    <2>4. stdout' = <<asked[s]>> /\ stdin' = <<>>
      <3>1. Tail(<<asked[s]>>) = <<>> /\ Append(<<>>, asked[s]) = <<asked[s]>>
        OBVIOUS
      <3> QED BY <2>1, <2>3, <3>1
    <2>5. \A t \in Streams : step[t] \in AtWork => t = s
      BY <2>3 DEF UnderLock, AtWork
    <2>6. WorkerTypes' /\ UnderLock' /\ ReplyIsMine'
      BY <2>1 DEF WorkerTypes, UnderLock, ReplyIsMine
    <2> QED BY <2>1, <2>2, <2>3, <2>4, <2>5, <2>6
            DEF OutputFits, InputFits, NoPipes, Lives, AtWork
  <1>11. ASSUME NEW k \in Children, GetsStuck(k) \/ ComesBack(k) \/ Exits(k) \/ Reaped(k)
         PROVE  WorkerFits'
    <2>1. PICK st \in {"ready", "stuck", "gone", "reaped"} :
             /\ child' = [child EXCEPT ![k] = st] /\ child[k] # "unborn"
             /\ st \in {"ready", "stuck"} => child[k] \in {"ready", "stuck"}
             /\ UNCHANGED <<lock, step, asked, got, reqSeq, proc, stdin, stdout>>
      BY <1>11 DEF GetsStuck, ComesBack, Exits, Reaped, Alive
    <2> QED BY <2>1, ChildKeepsFit
  <1>12. CASE UNCHANGED workerVars
    BY <1>12 DEF workerVars, WorkerTypes, UnderLock, OutputFits, InputFits, NoPipes, Lives, ReplyIsMine
  <1> QED BY <1>1, <1>2, <1>3, <1>4, <1>5, <1>6, <1>7, <1>8, <1>9, <1>10, <1>11, <1>12 DEF WorkerNext

\* Nobody is given another utterance's words, for any number of legs, although
\* the id of a reply is never compared: a reply given up on dies with its child.
THEOREM RepliesAreTheirs == Spec => []ReplyIsMine
  <1>1. Init => WorkerFits
    BY WorkerAssumption
       DEF Init, WorkerInit, WorkerFits, WorkerTypes, UnderLock, OutputFits, InputFits, NoPipes,
           Lives, ReplyIsMine, Steps, AtWork, ChildStates
  <1>2. WorkerFits /\ [Next]_vars => WorkerFits'
    <2> SUFFICES ASSUME WorkerFits, [Next]_vars PROVE [WorkerNext]_workerVars
      BY WorkerFitsStep
    <2> QED BY DEF Next, InSpeech, InWorker, vars
  <1>3. WorkerFits => ReplyIsMine
    BY DEF WorkerFits
  <1> QED BY <1>1, <1>2, <1>3, PTL DEF Spec

-----------------------------------------------------------------------------
(* Arithmetic.                                                             *)

LEMMA MinOfOne == ASSUME NEW a \in Int PROVE Min({a}) = a
  BY DEF Min

LEMMA MinOfTwo == ASSUME NEW a \in Int, NEW b \in Int PROVE Min({a, b}) = IF a <= b THEN a ELSE b
  BY DEF Min

LEMMA MaxOfTwo == ASSUME NEW a \in Int, NEW b \in Int PROVE Max({a, b}) = IF a <= b THEN b ELSE a
  BY DEF Max

-----------------------------------------------------------------------------
(* The audio.                                                              *)

OneEp == [state : {"silence", "maybe_speech", "speech", "maybe_done"},
          cursor : Nat, from : Nat, voiced : Nat, silence : Nat]

OneSegment == [start : Nat, end : Nat, forced : BOOLEAN]

\* A segment that was closed by the time `now` frames had come in.
ClosedBy(s, now) == s.start <= now /\ s.start <= s.end /\ s.end <= now + PadAfter

\* Samples that begin at `from` and are each at their own place.
InPlace(samples, from) ==
    samples \in Seq(Nat) /\ \A i \in 1 .. Len(samples) : samples[i] = from + i - 1

HeardAll(u) ==
    /\ u.segment \in OneSegment /\ InPlace(u.heard, u.segment.start)
    /\ Len(u.heard) >= u.segment.end - PadAfter - u.segment.start

SpeechFits ==
    /\ ep \in OneEp /\ ep.from <= ep.cursor
    /\ base \in Nat /\ InPlace(buffer, base) /\ base + Len(buffer) = ep.cursor
    /\ Len(buffer) <= TrimWhenIdle
    /\ awaiting \in Seq(Nat)
    /\ queue \in Seq(OneSegment \cup {End})
    /\ \A i \in 1 .. Len(queue) : queue[i] # End => ClosedBy(queue[i], ep.cursor)
    /\ flight \in [size : Nat, asked : SUBSET [segment : OneSegment, heard : Seq(Nat)],
                   answered : BOOLEAN]
    /\ \A u \in flight.asked : HeardAll(u)

\* The phrase open in e ends.
LEMMA SegmentFits ==
    ASSUME NEW e \in OneEp, e.from <= e.cursor, NEW forced \in BOOLEAN
    PROVE  /\ Segment(e, forced) \in OneSegment
           /\ ClosedBy(Segment(e, forced), e.cursor)
           /\ Segment(e, forced).end = e.cursor + PadAfter
  <1>1. e.from \in Nat /\ e.cursor \in Nat /\ PadBefore \in Nat /\ PadAfter \in Nat
    BY EndpointAssumption DEF OneEp
  <1>2. PICK x \in Int : x = e.from - PadBefore
    BY <1>1
  <1>3. PICK m \in Nat : m = Max({0, e.from - PadBefore}) /\ m <= e.cursor
    BY <1>1, <1>2, MaxOfTwo
  <1> QED BY <1>1, <1>3 DEF Segment, OneSegment, ClosedBy

\* What a step of the endpointer returns.
StepFits(result, cursor) ==
    /\ result.ep \in OneEp /\ result.ep.from <= result.ep.cursor /\ result.ep.cursor = cursor
    /\ result.closed = {} \/ \E s \in OneSegment :
          result.closed = {s} /\ ClosedBy(s, cursor) /\ s.end = cursor + PadAfter

LEMMA OpenFits ==
    ASSUME NEW e \in OneEp, e.from <= e.cursor PROVE StepFits(Open(e), e.cursor)
  BY DEF StepFits, Open

LEMMA QuietFits ==
    ASSUME NEW e \in OneEp
    PROVE  /\ Quiet(e.cursor) \in OneEp /\ Quiet(e.cursor).from <= Quiet(e.cursor).cursor
           /\ Quiet(e.cursor).cursor = e.cursor
  <1>1. e.cursor \in Nat
    BY DEF OneEp
  <1> QED BY <1>1 DEF Quiet, OneEp

LEMMA CloseFits ==
    ASSUME NEW e \in OneEp, e.from <= e.cursor, NEW forced \in BOOLEAN
    PROVE  StepFits(CloseSegment(e, forced), e.cursor)
  <1>1. Quiet(e.cursor) \in OneEp /\ Quiet(e.cursor).from <= Quiet(e.cursor).cursor
        /\ Quiet(e.cursor).cursor = e.cursor
    BY QuietFits
  <1> QED BY <1>1, SegmentFits DEF StepFits, CloseSegment

LEMMA ForceFits ==
    ASSUME NEW e \in OneEp, e.from <= e.cursor PROVE StepFits(ForceIfTooLong(e), e.cursor)
  BY OpenFits, CloseFits DEF ForceIfTooLong

\* One field of the endpointer changes.
LEMMA EpFits ==
    ASSUME NEW e \in OneEp, NEW n \in Nat, NEW m \in Nat,
           NEW st \in {"silence", "maybe_speech", "speech", "maybe_done"}
    PROVE  /\ e.cursor \in Nat /\ e.from \in Nat /\ e.voiced \in Nat /\ e.silence \in Nat
           /\ [e EXCEPT !.cursor = n] \in OneEp
           /\ [e EXCEPT !.state = st, !.from = m, !.voiced = n] \in OneEp
           /\ [e EXCEPT !.state = st, !.voiced = n] \in OneEp
           /\ [e EXCEPT !.voiced = n] \in OneEp
           /\ [e EXCEPT !.state = st, !.silence = n] \in OneEp
           /\ [e EXCEPT !.silence = n] \in OneEp
  BY DEF OneEp

LEMMA PushFits ==
    ASSUME NEW old \in OneEp, old.from <= old.cursor, NEW voiced \in BOOLEAN
    PROVE  StepFits(Push(old, voiced), old.cursor + 1)
  <1>0. old.cursor \in Nat /\ old.cursor + 1 \in Nat /\ old.from \in Nat
    BY DEF OneEp
  <1>1. PICK e \in OneEp : e = [old EXCEPT !.cursor = @ + 1]
    <2>1. [old EXCEPT !.cursor = old.cursor + 1] \in OneEp
      BY <1>0, EpFits
    <2> QED BY <2>1
  <1>2. /\ e.cursor = old.cursor + 1 /\ e.from = old.from /\ e.state = old.state
        /\ e.voiced = old.voiced /\ e.silence = old.silence /\ e.from <= e.cursor
        /\ old.cursor \in Nat /\ e.voiced \in Nat /\ e.silence \in Nat
    BY <1>0, <1>1 DEF OneEp
  <1>3. CASE e.state = "silence"
    <2>1. PICK n \in OneEp : /\ n = IF voiced THEN [e EXCEPT !.state = "maybe_speech",
                                                             !.from = old.cursor, !.voiced = 1]
                                    ELSE e
                             /\ n.from <= n.cursor /\ n.cursor = e.cursor
      <3>1. PICK r \in OneEp : r = [e EXCEPT !.state = "maybe_speech", !.from = old.cursor,
                                             !.voiced = 1]
        <4>1. [e EXCEPT !.state = "maybe_speech", !.from = old.cursor, !.voiced = 1] \in OneEp
          BY <1>2, EpFits
        <4> QED BY <4>1
      <3>2. r.from = old.cursor /\ r.cursor = e.cursor
        BY <3>1 DEF OneEp
      <3>3. CASE voiced
        <4>1. r.from <= r.cursor
          BY <1>0, <1>2, <3>2
        <4> QED BY <3>1, <3>2, <3>3, <4>1
      <3>4. CASE ~voiced
        BY <1>2, <3>4
      <3> QED BY <3>3, <3>4
    <2>2. Push(old, voiced) = Open(n)
      BY <1>1, <1>2, <1>3, <2>1 DEF Push
    <2> QED BY <1>2, <2>1, <2>2, OpenFits
  <1>4. CASE e.state = "maybe_speech"
    <2>1. CASE ~voiced
      <3>1. PICK n \in OneEp : n = Quiet(e.cursor) /\ n.from <= n.cursor /\ n.cursor = e.cursor
        BY QuietFits
      <3>2. Push(old, voiced) = Open(n)
        BY <1>1, <1>2, <1>4, <2>1, <3>1 DEF Push
      <3> QED BY <1>2, <3>1, <3>2, OpenFits
    <2>2. CASE voiced
      <3>1. PICK n \in OneEp : /\ n = IF e.voiced + 1 >= MinSpeech
                                      THEN [e EXCEPT !.state = "speech", !.voiced = 0]
                                      ELSE [e EXCEPT !.voiced = @ + 1]
                               /\ n.from <= n.cursor /\ n.cursor = e.cursor
        <4>1. PICK r \in OneEp : r = [e EXCEPT !.state = "speech", !.voiced = 0]
          <5>1. [e EXCEPT !.state = "speech", !.voiced = 0] \in OneEp
            BY EpFits
          <5> QED BY <5>1
        <4>2. PICK q \in OneEp : q = [e EXCEPT !.voiced = @ + 1]
          <5>1. PICK n \in Nat : n = e.voiced + 1
            BY <1>2
          <5>2. [e EXCEPT !.voiced = n] \in OneEp
            BY EpFits
          <5> QED BY <5>1, <5>2
        <4>3. r.from = e.from /\ r.cursor = e.cursor /\ q.from = e.from /\ q.cursor = e.cursor
          BY <4>1, <4>2 DEF OneEp
        <4> QED BY <1>2, <4>1, <4>2, <4>3
      <3>2. Push(old, voiced) = ForceIfTooLong(n)
        BY <1>1, <1>2, <1>4, <2>2, <3>1 DEF Push
      <3> QED BY <1>2, <3>1, <3>2, ForceFits
    <2> QED BY <2>1, <2>2
  <1>5. CASE e.state = "speech"
    <2>1. PICK n \in OneEp : /\ n = IF voiced THEN e
                                    ELSE [e EXCEPT !.state = "maybe_done", !.silence = 1]
                             /\ n.from <= n.cursor /\ n.cursor = e.cursor
      <3>1. PICK r \in OneEp : r = [e EXCEPT !.state = "maybe_done", !.silence = 1]
        <4>1. [e EXCEPT !.state = "maybe_done", !.silence = 1] \in OneEp
          BY EpFits
        <4> QED BY <4>1
      <3>2. r.from = e.from /\ r.cursor = e.cursor
        BY <3>1 DEF OneEp
      <3> QED BY <1>2, <3>1, <3>2
    <2>2. Push(old, voiced) = ForceIfTooLong(n)
      BY <1>1, <1>2, <1>5, <2>1 DEF Push
    <2> QED BY <1>2, <2>1, <2>2, ForceFits
  <1>6. CASE e.state = "maybe_done"
    <2>1. CASE ~voiced /\ e.silence + 1 >= MinSilence
      <3>1. Push(old, voiced) = CloseSegment(e, FALSE)
        BY <1>1, <1>2, <1>6, <2>1 DEF Push
      <3> QED BY <1>2, <3>1, CloseFits
    <2>2. CASE voiced \/ ~(e.silence + 1 >= MinSilence)
      <3>1. PICK n \in OneEp : /\ n = IF voiced THEN [e EXCEPT !.state = "speech", !.silence = 0]
                                      ELSE [e EXCEPT !.silence = @ + 1]
                               /\ n.from <= n.cursor /\ n.cursor = e.cursor
        <4>1. PICK r \in OneEp : r = [e EXCEPT !.state = "speech", !.silence = 0]
          <5>1. [e EXCEPT !.state = "speech", !.silence = 0] \in OneEp
            BY EpFits
          <5> QED BY <5>1
        <4>2. PICK q \in OneEp : q = [e EXCEPT !.silence = @ + 1]
          <5>1. PICK n \in Nat : n = e.silence + 1
            BY <1>2
          <5>2. [e EXCEPT !.silence = n] \in OneEp
            BY EpFits
          <5> QED BY <5>1, <5>2
        <4>3. r.from = e.from /\ r.cursor = e.cursor /\ q.from = e.from /\ q.cursor = e.cursor
          BY <4>1, <4>2 DEF OneEp
        <4> QED BY <1>2, <4>1, <4>2, <4>3
      <3>2. Push(old, voiced) = ForceIfTooLong(n)
        BY <1>1, <1>2, <1>6, <2>2, <3>1 DEF Push
      <3> QED BY <1>2, <3>1, <3>2, ForceFits
    <2> QED BY <2>1, <2>2
  <1> QED BY <1>3, <1>4, <1>5, <1>6 DEF OneEp

LEMMA FlushFits ==
    ASSUME NEW e \in OneEp, e.from <= e.cursor PROVE StepFits(Flush(e), e.cursor)
  <1>1. PICK n \in OneEp : n = Quiet(e.cursor) /\ n.from <= n.cursor /\ n.cursor = e.cursor
    BY QuietFits
  <1> QED BY <1>1, OpenFits, CloseFits DEF Flush

\* The oldest claim that is kept does not lag more than the backlog allows.
LEMMA LaggingFits ==
    ASSUME NEW claims \in Seq(Nat), NEW upto \in Nat
    PROVE  /\ Lagging(claims, upto) \in 0 .. Len(claims)
           /\ Lagging(claims, upto) < Len(claims) =>
                 upto - claims[Lagging(claims, upto) + 1] <= MaxBacklog
  <1> DEFINE S == {n \in 0 .. Len(claims) : \A i \in 1 .. n : upto - claims[i] > MaxBacklog}
  <1>1. S \in SUBSET (0 .. Len(claims)) /\ S # {} /\ Len(claims) \in Nat
    <2>1. 0 \in S
      OBVIOUS
    <2> QED BY <2>1
  <1>2. Max(S) \in S /\ \A x \in S : Max(S) >= x
    <2> HIDE DEF S
    <2> QED BY <1>1, GreatestIs
  <1>3. PICK m \in 0 .. Len(claims) : /\ m = Lagging(claims, upto) /\ m \in S
                                      /\ \A x \in S : m >= x
    BY <1>2 DEF Lagging
  <1>4. ASSUME m < Len(claims) PROVE upto - claims[m + 1] <= MaxBacklog
    <2> SUFFICES ASSUME upto - claims[m + 1] > MaxBacklog PROVE FALSE
      <3>1. claims[m + 1] \in Nat /\ MaxBacklog \in Nat
        BY <1>4, StreamAssumption
      <3> QED BY <3>1
    <2>1. m + 1 \in 0 .. Len(claims)
      BY <1>4
    <2>2. \A i \in 1 .. m + 1 : upto - claims[i] > MaxBacklog
      <3>1. \A i \in 1 .. m + 1 : i \in 1 .. m \/ i = m + 1
        OBVIOUS
      <3> QED BY <1>3, <3>1
    <2>3. m + 1 \in S
      BY <2>1, <2>2
    <2> QED BY <1>3, <2>3
  <1> QED BY <1>3, <1>4

\* The end of some samples is in place when they are.
LEMMA TailInPlace ==
    ASSUME NEW from \in Nat, NEW samples, InPlace(samples, from), NEW k \in Nat, k <= Len(samples),
           NEW l \in Nat, k <= l, l <= Len(samples)
    PROVE  /\ InPlace(SubSeq(samples, k + 1, l), from + k)
           /\ Len(SubSeq(samples, k + 1, l)) = l - k
  <1>1. samples \in Seq(Nat) /\ Len(samples) \in Nat
    BY DEF InPlace
  <1>2. /\ SubSeq(samples, k + 1, l) \in Seq(Nat) /\ Len(SubSeq(samples, k + 1, l)) = l - k
        /\ \A i \in 1 .. l - k : SubSeq(samples, k + 1, l)[i] = samples[k + i]
    BY <1>1
  <1>3. \A i \in 1 .. l - k : samples[k + i] = from + k + i - 1
    BY <1>1 DEF InPlace
  <1> QED BY <1>2, <1>3 DEF InPlace

LEMMA RestInPlace ==
    ASSUME NEW from \in Nat, NEW samples, InPlace(samples, from), NEW k \in Nat, k <= Len(samples)
    PROVE  /\ InPlace(SubSeq(samples, k + 1, Len(samples)), from + k)
           /\ Len(SubSeq(samples, k + 1, Len(samples))) = Len(samples) - k
  <1>1. Len(samples) \in Nat /\ Len(samples) <= Len(samples)
    BY DEF InPlace
  <1> QED BY <1>1, TailInPlace

\* Trimming leaves what is behind the floor, in place, and a buffer that is
\* short whatever was waited for.
LEMMA TrimFits ==
    ASSUME base \in Nat, NEW claims \in Seq(Nat), NEW samples, InPlace(samples, base),
           NEW upto \in Nat, base + Len(samples) <= upto,
           upto <= base + Len(samples) + PadAfter, Trim(claims, samples, upto)
    PROVE  /\ base' \in Nat /\ InPlace(buffer', base') /\ awaiting' \in Seq(Nat)
           /\ base' + Len(buffer') = base + Len(samples)
           /\ Len(buffer') <= TrimWhenIdle
  <1>0. /\ History \in Nat /\ MaxBacklog \in Nat /\ TrimWhenIdle \in Nat /\ PadAfter \in Nat
        /\ PadAfter < History /\ History < MaxBacklog /\ MaxBacklog < TrimWhenIdle
        /\ Len(samples) \in Nat /\ Len(claims) \in Nat
    BY StreamAssumption, EndpointAssumption DEF InPlace
  <1>1. PICK gone \in 0 .. Len(claims) :
           /\ gone = Lagging(claims, upto)
           /\ gone < Len(claims) => upto - claims[gone + 1] <= MaxBacklog
    BY LaggingFits
  <1>2. PICK kept \in Seq(Nat) : /\ kept = SubSeq(claims, gone + 1, Len(claims))
                                 /\ Len(kept) = Len(claims) - gone
                                 /\ kept # <<>> => kept[1] = claims[gone + 1]
    <2>1. \A i \in gone + 1 .. Len(claims) : claims[i] \in Nat
      BY <1>0
    <2>2. SubSeq(claims, gone + 1, Len(claims)) \in Seq(Nat)
      BY <1>0, <2>1, SubSeqProperties
    <2>3. /\ Len(SubSeq(claims, gone + 1, Len(claims))) = Len(claims) - gone
          /\ SubSeq(claims, gone + 1, Len(claims)) # <<>> =>
                SubSeq(claims, gone + 1, Len(claims))[1] = claims[gone + 1]
      BY <1>0
    <2> QED BY <2>2, <2>3
  <1>3. kept # <<>> => gone < Len(claims) /\ Head(kept) = claims[gone + 1] /\ Head(kept) \in Nat
    BY <1>0, <1>2
  <1>4. PICK floor \in Int :
           /\ floor = Min({upto - History} \cup (IF kept = <<>> THEN {} ELSE {Head(kept)}))
           /\ floor <= upto - History /\ floor >= upto - MaxBacklog
    <2>1. PICK x \in Int : x = upto - History
      BY <1>0
    <2>2. CASE kept = <<>>
      <3>1. {x} \cup {} = {x}
        OBVIOUS
      <3> QED BY <1>0, <2>1, <2>2, <3>1, MinOfOne
    <2>3. CASE kept # <<>>
      <3>1. PICK h \in Nat : h = Head(kept) /\ upto - h <= MaxBacklog
        BY <1>1, <1>3, <2>3
      <3>2. {x} \cup {h} = {x, h}
        OBVIOUS
      <3>3. Min({x, h}) = IF x <= h THEN x ELSE h
        <4>1. x \in Int /\ h \in Int
          BY <2>1, <3>1
        <4> QED BY <4>1, MinOfTwo
      <3>4. PICK f \in Int : f = Min({x, h}) /\ f <= x /\ f >= upto - MaxBacklog
        BY <1>0, <2>1, <3>1, <3>3
      <3>5. f = Min({upto - History} \cup (IF kept = <<>> THEN {} ELSE {Head(kept)}))
        BY <2>1, <2>3, <3>1, <3>2, <3>4
      <3> QED BY <2>1, <3>4, <3>5
    <2> QED BY <2>2, <2>3
  <1>5. PICK from \in Nat : /\ from = Max({base, floor}) /\ from >= base /\ from >= floor
                            /\ from <= base + Len(samples)
    <2>1. Max({base, floor}) = IF base <= floor THEN floor ELSE base
      BY MaxOfTwo
    <2>2. floor <= base + Len(samples)
      BY <1>0, <1>4
    <2> QED BY <1>0, <2>1, <2>2
  <1>6. PICK k \in Nat : k = from - base /\ k <= Len(samples)
    <2>1. from - base \in Nat /\ from - base <= Len(samples)
      BY <1>0, <1>5
    <2> QED BY <2>1
  <1>7. /\ awaiting' = kept /\ base' = from
        /\ buffer' = SubSeq(samples, k + 1, Len(samples))
    BY <1>1, <1>2, <1>4, <1>5, <1>6 DEF Trim
  <1>8. InPlace(buffer', base + k) /\ Len(buffer') = Len(samples) - k
    <2>1. ASSUME NEW j \in Nat, j <= Len(samples)
          PROVE  /\ InPlace(SubSeq(samples, j + 1, Len(samples)), base + j)
                 /\ Len(SubSeq(samples, j + 1, Len(samples))) = Len(samples) - j
      BY <1>0, <2>1, RestInPlace
    <2>2. ASSUME NEW b, b = SubSeq(samples, k + 1, Len(samples))
          PROVE  InPlace(b, base + k) /\ Len(b) = Len(samples) - k
      BY <1>6, <2>1, <2>2
    <2> QED BY <1>7, <2>2
  <1>9. Len(samples) - k <= TrimWhenIdle
    BY <1>0, <1>4, <1>5, <1>6
  <1>10. base + k = from /\ base + k + (Len(samples) - k) = base + Len(samples)
    BY <1>0, <1>5, <1>6
  <1> QED BY <1>2, <1>5, <1>7, <1>8, <1>9, <1>10

-----------------------------------------------------------------------------
(* Every step keeps it.                                                    *)

\* What is queued stays closed while the call goes on.
LEMMA QueueGoesOn ==
    ASSUME NEW now \in Nat, NEW later \in Nat, now <= later,
           NEW q \in Seq(OneSegment \cup {End}),
           \A i \in 1 .. Len(q) : q[i] # End => ClosedBy(q[i], now)
    PROVE  \A i \in 1 .. Len(q) : q[i] # End => ClosedBy(q[i], later)
  <1> SUFFICES ASSUME NEW i \in 1 .. Len(q), q[i] # End PROVE ClosedBy(q[i], later)
    OBVIOUS
  <1>1. q[i] \in OneSegment /\ ClosedBy(q[i], now)
    OBVIOUS
  <1>2. q[i].start \in Nat /\ q[i].end \in Nat
    BY <1>1 DEF OneSegment
  <1>3. PadAfter \in Nat
    BY EndpointAssumption
  <1> QED BY <1>1, <1>2, <1>3 DEF ClosedBy

\* One more segment at the end of the queue.
LEMMA QueueGrows ==
    ASSUME NEW now \in Nat, NEW q \in Seq(OneSegment \cup {End}),
           \A i \in 1 .. Len(q) : q[i] # End => ClosedBy(q[i], now),
           NEW s \in OneSegment \cup {End}, s # End => ClosedBy(s, now)
    PROVE  /\ Append(q, s) \in Seq(OneSegment \cup {End})
           /\ \A i \in 1 .. Len(Append(q, s)) : Append(q, s)[i] # End => ClosedBy(Append(q, s)[i], now)
  <1>1. Append(q, s) \in Seq(OneSegment \cup {End}) /\ Len(Append(q, s)) = Len(q) + 1
    BY AppendProperties
  <1>2. \A i \in 1 .. Len(q) + 1 : Append(q, s)[i] = IF i <= Len(q) THEN q[i] ELSE s
    BY AppendProperties
  <1>3. Len(q) \in Nat
    OBVIOUS
  <1>4. SUFFICES ASSUME NEW i \in 1 .. Len(q) + 1, Append(q, s)[i] # End
                 PROVE  ClosedBy(Append(q, s)[i], now)
    BY <1>1
  <1>5. CASE i <= Len(q)
    <2>1. i \in 1 .. Len(q) /\ Append(q, s)[i] = q[i]
      BY <1>2, <1>3, <1>5
    <2> QED BY <1>4, <2>1
  <1>6. CASE ~(i <= Len(q))
    BY <1>2, <1>4, <1>6
  <1> QED BY <1>5, <1>6

\* What is left of a queue when its first elements are taken.
LEMMA RestOfQueue ==
    ASSUME NEW S, NEW q \in Seq(S), NEW m \in Nat, m <= Len(q)
    PROVE  /\ SubSeq(q, m + 1, Len(q)) \in Seq(S)
           /\ Len(SubSeq(q, m + 1, Len(q))) = Len(q) - m
           /\ \A i \in 1 .. Len(q) - m : SubSeq(q, m + 1, Len(q))[i] = q[m + i]
  <1>1. Len(q) \in Nat
    OBVIOUS
  <1>2. \A i \in m + 1 .. Len(q) : q[i] \in S
    BY <1>1
  <1>3. SubSeq(q, m + 1, Len(q)) \in Seq(S)
    BY <1>1, <1>2, SubSeqProperties
  <1> QED BY <1>1, <1>3

\* Claims released leave claims.
LEMMA ReleaseFits ==
    ASSUME awaiting \in Seq(Nat), NEW n \in Nat, Release(n) PROVE awaiting' \in Seq(Nat)
  <1>1. PICK l \in Nat : l = Len(awaiting)
    OBVIOUS
  <1>2. PICK m \in Nat : m = Min({n, l}) /\ m <= l
    BY MinOfTwo
  <1>4. SubSeq(awaiting, m + 1, Len(awaiting)) \in Seq(Nat)
    BY <1>1, <1>2, RestOfQueue
  <1> QED BY <1>1, <1>2, <1>4 DEF Release

\* What is asked of the model is the segment's own audio, all of it but the
\* padding that has not come.
LEMMA SliceIsHeard ==
    ASSUME SpeechFits, NEW s \in OneSegment, ClosedBy(s, ep.cursor), Slice(s) # <<>>
    PROVE  HeardAll([segment |-> s, heard |-> Slice(s)])
  <1>1. /\ s.start \in Nat /\ s.end \in Nat /\ base \in Nat /\ PadAfter \in Nat
        /\ s.start >= base /\ s.start <= s.end
    BY EndpointAssumption DEF Slice, SpeechFits, OneSegment, ClosedBy
  <1>2. PICK l \in Nat : l = Len(buffer) /\ base + l = ep.cursor
    BY DEF SpeechFits, InPlace
  <1>3. PICK k \in Nat : base + k = s.start /\ k = s.start - base /\ k <= l
    <2>1. s.start - base \in Nat /\ s.start - base <= l
      BY <1>1, <1>2 DEF ClosedBy
    <2> QED BY <1>1, <2>1
  <1>4. PICK j \in Nat : /\ j = Min({s.end - base, l}) /\ k <= j /\ j <= l
                         /\ j - k >= s.end - PadAfter - s.start
    <2>1. PICK e \in Nat : e = s.end - base /\ k <= e
      <3>1. s.end - base \in Nat /\ k <= s.end - base
        BY <1>1, <1>3
      <3> QED BY <3>1
    <2>2. Min({e, l}) = IF e <= l THEN e ELSE l
      BY MinOfTwo
    <2>3. s.end <= base + l + PadAfter
      BY <1>2 DEF ClosedBy
    <2>4. PICK j \in Nat : j = Min({e, l}) /\ (j = e \/ j = l) /\ j <= e /\ j <= l
      BY <2>2
    <2>5. k <= j
      BY <1>3, <2>1, <2>4
    <2>6. j - k >= s.end - PadAfter - s.start
      <3>1. CASE j = e
        BY <1>1, <1>3, <2>1, <3>1
      <3>2. CASE j = l
        BY <1>1, <1>3, <2>3, <3>2
      <3> QED BY <2>4, <3>1, <3>2
    <2> QED BY <2>1, <2>4, <2>5, <2>6
  <1>5. Slice(s) = SubSeq(buffer, k + 1, j)
    BY <1>1, <1>2, <1>3, <1>4 DEF Slice
  <1>6. InPlace(SubSeq(buffer, k + 1, j), base + k) /\ Len(SubSeq(buffer, k + 1, j)) = j - k
    <2>1. InPlace(buffer, base)
      BY DEF SpeechFits
    <2>2. ASSUME NEW x \in Nat, NEW y \in Nat, x <= y, y <= Len(buffer)
          PROVE  InPlace(SubSeq(buffer, x + 1, y), base + x) /\ Len(SubSeq(buffer, x + 1, y)) = y - x
      <3>1. base \in Nat /\ x <= Len(buffer)
        BY <1>1, <1>2, <2>2
      <3> QED BY <2>1, <2>2, <3>1, TailInPlace
    <2> QED BY <1>2, <1>3, <1>4, <2>2
  <1>7. PICK u : /\ u = [segment |-> s, heard |-> Slice(s)]
                 /\ u.segment = s /\ u.heard = SubSeq(buffer, k + 1, j)
    <2>1. [segment |-> s, heard |-> Slice(s)].segment = s
      OBVIOUS
    <2>2. [segment |-> s, heard |-> Slice(s)].heard = SubSeq(buffer, k + 1, j)
      BY <1>5
    <2> QED BY <2>1, <2>2
  <1>8. HeardAll(u)
    BY <1>3, <1>4, <1>6, <1>7 DEF HeardAll
  <1> QED BY <1>7, <1>8

LEMMA BatchFits ==
    ASSUME queue \in Seq(OneSegment \cup {End})
    PROVE  BatchSize \in 0 .. Len(queue)
  <1> DEFINE S == {i \in 1 .. Len(queue) : queue[i] # End}
  <1>1. PICK l \in Nat : l = Len(queue)
    OBVIOUS
  <1>2. IsFiniteSet(1 .. l) /\ Cardinality(1 .. l) = l
    BY FS_Interval
  <1>3. S \subseteq 1 .. l
    BY <1>1
  <1>4. IsFiniteSet(S) /\ Cardinality(S) <= Cardinality(1 .. l)
    <2> HIDE DEF S
    <2> QED BY <1>2, <1>3, FS_Subset
  <1>5. PICK c \in Nat : c = Cardinality(S) /\ c <= l
    <2> HIDE DEF S
    <2> QED BY <1>2, <1>4, FS_CardinalityType
  <1>6. MaxBatch \in Nat
    BY StreamAssumption
  <1>7. Min({MaxBatch, c}) = IF MaxBatch <= c THEN MaxBatch ELSE c
    BY <1>6, MinOfTwo
  <1>8. BatchSize = Min({MaxBatch, c})
    BY <1>5 DEF BatchSize
  <1> HIDE DEF S
  <1> QED BY <1>1, <1>5, <1>6, <1>7, <1>8

LEMMA FeedFits ==
    ASSUME SpeechFits, NEW voiced \in BOOLEAN, Feed(voiced) PROVE SpeechFits'
  <1>1. /\ ep \in OneEp /\ ep.from <= ep.cursor /\ ep.cursor \in Nat /\ base \in Nat
        /\ InPlace(buffer, base) /\ Len(buffer) \in Nat /\ buffer \in Seq(Nat)
        /\ base + Len(buffer) = ep.cursor /\ awaiting \in Seq(Nat)
        /\ queue \in Seq(OneSegment \cup {End})
        /\ \A i \in 1 .. Len(queue) : queue[i] # End => ClosedBy(queue[i], ep.cursor)
    BY DEF SpeechFits, InPlace, OneEp
  <1>2. PICK now \in Nat : now = ep.cursor + 1 /\ ep.cursor <= now
    BY <1>1
  <1>3. PICK pushed : pushed = Push(ep, voiced) /\ StepFits(pushed, now)
    BY <1>1, <1>2, PushFits
  <1>4. PICK samples \in Seq(Nat) : /\ samples = Append(buffer, ep.cursor)
                                    /\ Len(samples) = Len(buffer) + 1
                                    /\ InPlace(samples, base) /\ base + Len(samples) = now
    <2>1. Append(buffer, ep.cursor) \in Seq(Nat) /\ Len(Append(buffer, ep.cursor)) = Len(buffer) + 1
      BY <1>1, AppendProperties
    <2>2. \A i \in 1 .. Len(buffer) + 1 :
             Append(buffer, ep.cursor)[i] = IF i <= Len(buffer) THEN buffer[i] ELSE ep.cursor
      BY <1>1, AppendProperties
    <2>3. \A i \in 1 .. Len(buffer) + 1 : Append(buffer, ep.cursor)[i] = base + i - 1
      <3> TAKE i \in 1 .. Len(buffer) + 1
      <3>1. CASE i <= Len(buffer)
        <4>1. i \in 1 .. Len(buffer)
          BY <1>1, <3>1
        <4> QED BY <1>1, <2>2, <3>1, <4>1 DEF InPlace
      <3>2. CASE ~(i <= Len(buffer))
        <4>1. i = Len(buffer) + 1
          BY <1>1, <3>2
        <4> QED BY <1>1, <2>2, <3>2, <4>1
      <3> QED BY <3>1, <3>2
    <2>4. InPlace(Append(buffer, ep.cursor), base)
      BY <2>1, <2>3 DEF InPlace
    <2>5. base + (Len(buffer) + 1) = now
      BY <1>1, <1>2
    <2> QED BY <2>1, <2>4, <2>5
  <1>5. /\ ep' \in OneEp /\ ep'.from <= ep'.cursor /\ ep'.cursor = now
        /\ flight' = flight
    BY <1>2, <1>3 DEF Feed, StepFits
  <1>6. \A i \in 1 .. Len(queue) : queue[i] # End => ClosedBy(queue[i], now)
    BY <1>1, <1>2, QueueGoesOn
  <1>7. /\ flight' \in [size : Nat, asked : SUBSET [segment : OneSegment, heard : Seq(Nat)],
                        answered : BOOLEAN]
        /\ \A u \in flight'.asked : HeardAll(u)
    BY <1>5 DEF SpeechFits
  <1>8. PadAfter \in Nat /\ TrimWhenIdle \in Nat
    BY EndpointAssumption, StreamAssumption
  <1>9. ASSUME NEW s \in pushed.closed, queue' = Append(queue, s),
               Trim(Append(awaiting, s.start), samples, s.end)
        PROVE  SpeechFits'
    <2>1. s \in OneSegment /\ ClosedBy(s, now) /\ s.end = now + PadAfter
      BY <1>3, <1>9 DEF StepFits
    <2>2. s.start \in Nat /\ s.end \in Nat
      BY <2>1 DEF OneSegment
    <2>3. PICK claims \in Seq(Nat) : claims = Append(awaiting, s.start)
      BY <1>1, <2>2, AppendProperties
    <2>4. PICK upto \in Nat : upto = s.end /\ now <= upto /\ upto <= now + PadAfter
      BY <1>8, <2>1, <2>2
    <2>5. /\ base' \in Nat /\ InPlace(buffer', base') /\ awaiting' \in Seq(Nat)
          /\ base' + Len(buffer') = base + Len(samples) /\ Len(buffer') <= TrimWhenIdle
      BY <1>1, <1>4, <1>9, <2>3, <2>4, TrimFits
    <2>6. /\ queue' \in Seq(OneSegment \cup {End})
          /\ \A i \in 1 .. Len(queue') : queue'[i] # End => ClosedBy(queue'[i], now)
      BY <1>1, <1>6, <1>9, <2>1, QueueGrows
    <2> QED BY <1>4, <1>5, <1>7, <2>5, <2>6 DEF SpeechFits
  <1>10. ASSUME queue' = queue, Trim(awaiting, samples, base + Len(samples)) PROVE SpeechFits'
    <2>1. now <= now /\ now <= now + PadAfter
      BY <1>8
    <2>2. /\ base' \in Nat /\ InPlace(buffer', base') /\ awaiting' \in Seq(Nat)
          /\ base' + Len(buffer') = base + Len(samples) /\ Len(buffer') <= TrimWhenIdle
      BY <1>1, <1>4, <1>10, <2>1, TrimFits
    <2> QED BY <1>1, <1>4, <1>5, <1>6, <1>7, <1>10, <2>2 DEF SpeechFits
  <1>11. ASSUME Len(samples) <= TrimWhenIdle, buffer' = samples,
                UNCHANGED <<queue, awaiting, base, abandoned>>
         PROVE  SpeechFits'
    BY <1>1, <1>4, <1>5, <1>6, <1>7, <1>11 DEF SpeechFits
  <1> QED BY <1>3, <1>4, <1>9, <1>10, <1>11 DEF Feed

LEMMA NoKeys == SetToSeq({}) = <<>>
  <1>1. Cardinality({}) = 0
    BY FS_EmptySet
  <1>2. \A f \in [1 .. 0 -> {}] : f = <<>>
    OBVIOUS
  <1>3. <<>> \in [1 .. 0 -> {}] /\ IsInjective(<<>>)
    BY DEF IsInjective
  <1>4. SetToSeq({}) = CHOOSE f \in [1 .. 0 -> {}] : IsInjective(f)
    BY <1>1 DEF SetToSeq
  <1> QED BY <1>2, <1>3, <1>4

LEMMA OneKey == ASSUME NEW k PROVE SetToSeq({k}) = <<k>>
  <1>1. Cardinality({k}) = 1
    BY FS_Singleton
  <1>2. \A f \in [1 .. 1 -> {k}] : f = <<k>>
    OBVIOUS
  <1>3. <<k>> \in [1 .. 1 -> {k}] /\ IsInjective(<<k>>)
    BY DEF IsInjective
  <1>4. SetToSeq({k}) = CHOOSE f \in [1 .. 1 -> {k}] : IsInjective(f)
    BY <1>1 DEF SetToSeq
  <1> QED BY <1>2, <1>3, <1>4

\* The queue and the claims are as they should be.
QueueFits(q, now) ==
    /\ q \in Seq(OneSegment \cup {End})
    /\ \A i \in 1 .. Len(q) : q[i] # End => ClosedBy(q[i], now)

LEMMA FinishFits == ASSUME SpeechFits, Finish PROVE SpeechFits'
  <1>1. /\ ep \in OneEp /\ ep.from <= ep.cursor /\ ep.cursor \in Nat
        /\ awaiting \in Seq(Nat) /\ QueueFits(queue, ep.cursor)
    BY DEF SpeechFits, OneEp, QueueFits
  <1>2. PICK now \in Nat : now = ep.cursor
    BY <1>1
  <1>3. PICK flushed : flushed = Flush(ep) /\ StepFits(flushed, now)
    BY <1>1, <1>2, FlushFits
  <1>4. /\ ep' \in OneEp /\ ep'.from <= ep'.cursor /\ ep'.cursor = now
        /\ UNCHANGED <<buffer, base, flight>>
    BY <1>3 DEF Finish, StepFits
  <1>5. QueueFits(Append(queue, End), now)
    BY <1>1, <1>2, QueueGrows DEF QueueFits
  <1>6. CASE flushed.closed = {}
    <2>1. queue' = (queue \o <<>>) \o <<End>> /\ awaiting' = awaiting \o [i \in 1 .. 0 |-> SetToSeq({})[i].start]
      BY <1>3, <1>6, NoKeys DEF Finish
    <2>2. queue' = Append(queue, End)
      BY <1>1, <2>1 DEF QueueFits
    <2>3. [i \in 1 .. 0 |-> SetToSeq({})[i].start] = <<>>
      OBVIOUS
    <2>4. awaiting' = awaiting
      BY <1>1, <2>1, <2>3
    <2> QED BY <1>1, <1>2, <1>4, <1>5, <2>2, <2>4 DEF SpeechFits, QueueFits
  <1>7. ASSUME NEW s \in OneSegment, flushed.closed = {s}, ClosedBy(s, now) PROVE SpeechFits'
    <2>1. SetToSeq({s}) = <<s>> /\ s.start \in Nat
      BY OneKey DEF OneSegment
    <2>2. queue' = (queue \o <<s>>) \o <<End>>
      BY <1>3, <1>7, <2>1 DEF Finish
    <2>3. awaiting' = awaiting \o [i \in 1 .. Len(<<s>>) |-> <<s>>[i].start]
      BY <1>3, <1>7, <2>1 DEF Finish
    <2>4. [i \in 1 .. Len(<<s>>) |-> <<s>>[i].start] = <<s.start>>
      OBVIOUS
    <2>5. awaiting' = Append(awaiting, s.start)
      BY <1>1, <2>1, <2>3, <2>4
    <2>6. awaiting' \in Seq(Nat)
      BY <1>1, <2>1, <2>5, AppendProperties
    <2>7. PICK q : q = Append(queue, s) /\ QueueFits(q, now)
      BY <1>1, <1>2, <1>7, QueueGrows DEF QueueFits
    <2>8. queue' = Append(q, End)
      <3>1. queue \o <<s>> = q
        BY <1>1, <2>7 DEF QueueFits
      <3> QED BY <2>2, <2>7, <3>1 DEF QueueFits
    <2>9. QueueFits(Append(q, End), now)
      BY <2>7, QueueGrows DEF QueueFits
    <2> QED BY <1>2, <1>4, <2>6, <2>8, <2>9 DEF SpeechFits, QueueFits
  <1> QED BY <1>3, <1>6, <1>7 DEF StepFits

LEMMA TakeFits == ASSUME SpeechFits, NEW silent \in SUBSET (1 .. MaxBatch), Take(silent) PROVE SpeechFits'
  <1>1. queue \in Seq(OneSegment \cup {End}) /\ awaiting \in Seq(Nat) /\ flight = NoFlight
    BY DEF SpeechFits, Take
  <1>2. PICK n \in Nat : n = BatchSize /\ n <= Len(queue)
    BY <1>1, BatchFits
  <1>3. \A i \in 1 .. n : i \in 1 .. Len(queue) /\ queue[i] \in OneSegment \cup {End}
    BY <1>1, <1>2
  <1>4. PICK batch : /\ batch = {[segment |-> s, heard |-> Slice(s)] :
                                    s \in {q \in {queue[i] : i \in (1 .. BatchSize) \ silent} :
                                              Slice(q) # <<>>}}
                     /\ IF batch = {}
                        THEN Release(BatchSize) /\ UNCHANGED flight
                        ELSE /\ flight' = [size |-> BatchSize, asked |-> batch, answered |-> FALSE]
                             /\ UNCHANGED awaiting
    BY DEF Take
  <1>5. \A u \in batch : HeardAll(u) /\ u \in [segment : OneSegment, heard : Seq(Nat)]
    <2> TAKE u \in batch
    <2>1. PICK i \in 1 .. n : u = [segment |-> queue[i], heard |-> Slice(queue[i])]
                              /\ Slice(queue[i]) # <<>>
      BY <1>2, <1>4
    <2>2. queue[i] # End
      <3>1. base \in Nat
        BY DEF SpeechFits
      <3>2. ASSUME queue[i] = End PROVE Slice(queue[i]) = <<>>
        <4>1. queue[i].start = -1
          BY <3>2 DEF End
        <4> QED BY <3>1, <4>1 DEF Slice
      <3> QED BY <2>1, <3>2
    <2>3. queue[i] \in OneSegment /\ ClosedBy(queue[i], ep.cursor)
      BY <1>3, <2>2 DEF SpeechFits
    <2>4. HeardAll(u)
      BY <2>1, <2>3, SliceIsHeard
    <2> QED BY <2>1, <2>3, <2>4 DEF HeardAll, InPlace
  <1>6. PICK q \in Seq(OneSegment \cup {End}) :
           /\ q = queue' /\ Len(q) = Len(queue) - n
           /\ \A i \in 1 .. Len(queue) - n : q[i] = queue[n + i]
    <2>1. queue' = SubSeq(queue, n + 1, Len(queue))
      BY <1>2 DEF Take
    <2>2. /\ SubSeq(queue, n + 1, Len(queue)) \in Seq(OneSegment \cup {End})
          /\ Len(SubSeq(queue, n + 1, Len(queue))) = Len(queue) - n
          /\ \A i \in 1 .. Len(queue) - n : SubSeq(queue, n + 1, Len(queue))[i] = queue[n + i]
      BY <1>1, <1>2, RestOfQueue
    <2> QED BY <2>1, <2>2
  <1>7. \A i \in 1 .. Len(q) : q[i] # End => ClosedBy(q[i], ep.cursor)
    <2> SUFFICES ASSUME NEW i \in 1 .. Len(q), q[i] # End PROVE ClosedBy(q[i], ep.cursor)
      OBVIOUS
    <2>1. Len(queue) \in Nat
      BY <1>1
    <2>2. i \in 1 .. Len(queue) - n /\ n + i \in 1 .. Len(queue)
      BY <1>2, <1>6, <2>1
    <2>3. q[i] = queue[n + i]
      BY <1>6, <2>2
    <2> QED BY <2>2, <2>3 DEF SpeechFits
  <1>8. UNCHANGED <<ep, base, buffer>>
    BY DEF Take
  <1>9. CASE batch = {}
    <2>1. awaiting' \in Seq(Nat) /\ flight' = flight
      BY <1>1, <1>2, <1>4, <1>9, ReleaseFits
    <2> QED BY <1>6, <1>7, <1>8, <2>1 DEF SpeechFits
  <1>10. CASE batch # {}
    <2>1. PICK f : f = flight' /\ f = [size |-> n, asked |-> batch, answered |-> FALSE]
      BY <1>2, <1>4, <1>10
    <2>2. /\ f \in [size : Nat, asked : SUBSET [segment : OneSegment, heard : Seq(Nat)],
                    answered : BOOLEAN]
          /\ f.asked = batch
      BY <1>5, <2>1
    <2>3. awaiting' = awaiting
      BY <1>4, <1>10
    <2> QED BY <1>1, <1>5, <1>6, <1>7, <1>8, <2>1, <2>2, <2>3 DEF SpeechFits
  <1> QED BY <1>9, <1>10

LEMMA RestFits ==
    ASSUME SpeechFits, Engine \/ Consumer PROVE SpeechFits'
  <1>1. CASE Answered
    <2>1. flight' = [flight EXCEPT !.answered = TRUE]
      BY <1>1 DEF Answered
    <2>2. /\ flight' \in [size : Nat, asked : SUBSET [segment : OneSegment, heard : Seq(Nat)],
                          answered : BOOLEAN]
          /\ flight'.asked = flight.asked
      BY <2>1 DEF SpeechFits
    <2> QED BY <1>1, <2>2 DEF Answered, SpeechFits
  <1>2. ASSUME NEW passes \in BOOLEAN, Publish(passes) PROVE SpeechFits'
    <2>1. PICK u \in flight.asked : flight' = [flight EXCEPT !.asked = flight.asked \ {u}]
      BY <1>2 DEF Publish
    <2>2. /\ flight' \in [size : Nat, asked : SUBSET [segment : OneSegment, heard : Seq(Nat)],
                          answered : BOOLEAN]
          /\ flight'.asked \subseteq flight.asked
      BY <2>1 DEF SpeechFits
    <2> QED BY <1>2, <2>2 DEF Publish, SpeechFits
  <1>3. CASE BatchDone \/ BatchFails
    <2>1. flight.size \in Nat /\ Release(flight.size) /\ awaiting \in Seq(Nat)
      BY <1>3 DEF BatchDone, BatchFails, SpeechFits
    <2>2. awaiting' \in Seq(Nat)
      BY <2>1, ReleaseFits
    <2>3. flight' = NoFlight /\ UNCHANGED <<ep, buffer, base, queue>>
      BY <1>3 DEF BatchDone, BatchFails
    <2>4. /\ flight' \in [size : Nat, asked : SUBSET [segment : OneSegment, heard : Seq(Nat)],
                          answered : BOOLEAN]
          /\ flight'.asked = {}
      BY <2>3 DEF NoFlight
    <2> QED BY <2>2, <2>3, <2>4 DEF SpeechFits
  <1>4. CASE StopWorker
    <2>1. queue \in Seq(OneSegment \cup {End}) /\ queue # <<>> /\ queue' = Tail(queue)
      BY <1>4 DEF StopWorker, SpeechFits
    <2>2. PICK q \in Seq(OneSegment \cup {End}) :
             /\ q = queue' /\ Len(q) = Len(queue) - 1
             /\ \A i \in 1 .. Len(q) : q[i] = queue[i + 1]
      BY <2>1, HeadTailProperties
    <2>3. \A i \in 1 .. Len(q) : q[i] # End => ClosedBy(q[i], ep.cursor)
      <3>1. \A i \in 1 .. Len(q) : i + 1 \in 1 .. Len(queue)
        BY <2>1, <2>2
      <3> QED BY <2>2, <3>1 DEF SpeechFits
    <2> QED BY <1>4, <2>2, <2>3 DEF StopWorker, SpeechFits
  <1> QED BY <1>1, <1>2, <1>3, <1>4 DEF Engine, Consumer

LEMMA SpeechFitsStep == ASSUME SpeechFits, [SpeechNext]_speechVars PROVE SpeechFits'
  <1>1. CASE UNCHANGED speechVars
    BY <1>1 DEF speechVars, SpeechFits
  <1>2. CASE SpeechNext
    BY <1>2, FeedFits, FinishFits, TakeFits, RestFits DEF SpeechNext
  <1> QED BY <1>1, <1>2

\* However far the model lags and whoever talks, what it is given for an
\* utterance is that utterance's own audio, from its first sample and all of it
\* but the padding not yet fed, out of a buffer that stays bounded (B20).
THEOREM UtterancesAreHeard == Spec => []HeardInFull
  <1>1. Init => SpeechFits
    <2> SUFFICES ASSUME Init PROVE SpeechFits
      OBVIOUS
    <2>1. TrimWhenIdle \in Nat
      BY StreamAssumption
    <2>2. ep \in OneEp /\ ep.from <= ep.cursor /\ ep.cursor = 0
      BY DEF Init, SpeechInit, Endpointer, Quiet, OneEp
    <2> QED BY <2>1, <2>2 DEF Init, SpeechInit, SpeechFits, InPlace, NoFlight
  <1>2. SpeechFits /\ [Next]_vars => SpeechFits'
    <2> SUFFICES ASSUME SpeechFits, [Next]_vars PROVE [SpeechNext]_speechVars
      BY SpeechFitsStep
    <2> QED BY DEF Next, InSpeech, InWorker, vars
  <1>3. SpeechFits => HeardInFull
    BY DEF SpeechFits, HeardInFull, HeardItsOwn, BufferIsBounded, HeardAll, InPlace
  <1> QED BY <1>1, <1>2, <1>3, PTL DEF Spec

=============================================================================
