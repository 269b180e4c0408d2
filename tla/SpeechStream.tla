---------------------------- MODULE SpeechStream ----------------------------
(***************************************************************************)
(* One leg's audio becoming turns (services/transcription/stream.py).      *)
(*                                                                         *)
(* feed() is called by the media gateway and never waits for the model; a  *)
(* single consumer takes the finished segments off a queue, in batches,    *)
(* and asks the engine, which may take its time or fail.  The buffer is    *)
(* trimmed behind both of them.  A sample is its absolute position, so     *)
(* what a slice of the buffer holds is what the model hears.               *)
(***************************************************************************)
EXTENDS Endpointing, Sequences, SequencesExt, FiniteSets

CONSTANTS
    History,      \* the 30 s an open utterance may look back
    MaxBacklog,   \* _MAX_BACKLOG_SAMPLES
    TrimWhenIdle, \* _TRIM_WHEN_IDLE_SAMPLES
    MaxBatch,     \* MAX_BATCH
    MaxFrames     \* bound: frames the gateway feeds

\* The proportions of the real constants (20 s and a pad, 30 s, 120 s, 150 s).
ASSUME StreamAssumption ==
    /\ MaxSegment + PadBefore < History /\ PadAfter < History
    /\ History < MaxBacklog /\ MaxBacklog < TrimWhenIdle
    /\ {History, MaxBacklog, TrimWhenIdle} \subseteq Nat /\ MaxBatch \in Nat \ {0} /\ MaxFrames \in Nat

VARIABLES
    ep,         \* _endpointer
    buffer,     \* _buffer
    base,       \* _base
    awaiting,   \* _awaiting
    queue,      \* _queue; End is the None that finish() puts last
    flight,     \* the batch in the consumer's hands, oldest first
    worker,     \* _worker: running or done
    closed,     \* _closed
    turns,      \* what was published, in order
    lost,       \* lost_utterances
    abandoned   \* claims _trim has given up, loudly

speechVars == <<ep, buffer, base, awaiting, queue, flight, worker, closed, turns, lost, abandoned>>

NoFlight == [size |-> 0, asked |-> {}, answered |-> FALSE]

End == [start |-> -1, end |-> -1, forced |-> FALSE]

SpeechInit ==
    /\ ep = Endpointer
    /\ buffer = <<>> /\ base = 0 /\ awaiting = <<>> /\ queue = <<>>
    /\ flight = NoFlight /\ worker = "running" /\ closed = FALSE
    /\ turns = <<>> /\ lost = 0 /\ abandoned = 0

-----------------------------------------------------------------------------
(* Ingestion.                                                              *)

\* How many of the oldest claims lag more than the backlog allows.
Lagging(claims, upto) ==
    Max({n \in 0 .. Len(claims) : \A i \in 1 .. n : upto - claims[i] > MaxBacklog})

\* A slip: the oldest claim is kept however far behind the model is.
TrimNeverAbandons(claims, samples, upto) ==
    LET floor == Min({upto - History} \cup (IF claims = <<>> THEN {} ELSE {Head(claims)}))
        from  == Max({base, floor})
    IN  /\ awaiting' = claims
        /\ UNCHANGED abandoned
        /\ base' = from
        /\ buffer' = SubSeq(samples, from - base + 1, Len(samples))

Trim(claims, samples, upto) ==
    LET gone  == Lagging(claims, upto)
        kept  == SubSeq(claims, gone + 1, Len(claims))
        floor == Min({upto - History} \cup (IF kept = <<>> THEN {} ELSE {Head(kept)}))
        from  == Max({base, floor})
    IN  /\ awaiting' = kept
        /\ abandoned' = abandoned + gone
        /\ base' = from
        /\ buffer' = SubSeq(samples, from - base + 1, Len(samples))

\* One frame of the detector: it closes a segment, or the buffer is trimmed
\* because nothing has closed one for long, or it is only kept.
Feed(voiced) ==
    /\ ~closed
    /\ ep.cursor < MaxFrames
    /\ LET pushed  == Push(ep, voiced)
           samples == Append(buffer, ep.cursor)
       IN  /\ ep' = pushed.ep
           /\ \/ \E s \in pushed.closed :
                    /\ queue' = Append(queue, s)
                    /\ Trim(Append(awaiting, s.start), samples, s.end)
              \/ /\ pushed.closed = {} /\ Len(samples) > TrimWhenIdle
                 /\ UNCHANGED queue
                 /\ Trim(awaiting, samples, base + Len(samples))
              \/ /\ pushed.closed = {} /\ Len(samples) <= TrimWhenIdle
                 /\ buffer' = samples
                 /\ UNCHANGED <<queue, awaiting, base, abandoned>>
    /\ UNCHANGED <<flight, worker, closed, turns, lost>>

\* The leg ended: what was open is kept, and the end is queued last.
Finish ==
    /\ ~closed
    /\ closed' = TRUE
    /\ LET flushed == Flush(ep) IN
       /\ ep' = flushed.ep
       /\ queue' = queue \o SetToSeq(flushed.closed) \o <<End>>
       /\ awaiting' = awaiting \o [i \in 1 .. Len(SetToSeq(flushed.closed)) |->
                                      SetToSeq(flushed.closed)[i].start]
    /\ UNCHANGED <<buffer, base, flight, worker, turns, lost, abandoned>>

-----------------------------------------------------------------------------
(* The consumer.                                                           *)

\* A slip (B20): the start is clamped to what is left of the buffer.
SliceClamped(s) ==
    LET from == Max({0, s.start - base}) IN
    SubSeq(buffer, from + 1, Min({from + s.end - s.start, Len(buffer)}))

Slice(s) ==
    IF s.start < base THEN <<>>
    ELSE SubSeq(buffer, s.start - base + 1, Min({s.end - base, Len(buffer)}))

\* The claims released once a batch is over, whatever became of it.
Release(n) == awaiting' = SubSeq(awaiting, Min({n, Len(awaiting)}) + 1, Len(awaiting))

\* What is waiting already, up to a batch; the end is put back.
BatchSize == Min({MaxBatch, Cardinality({i \in 1 .. Len(queue) : queue[i] # End})})

\* _prepare runs before the first await, so it sees the buffer as it is now.
\* A segment trimmed away, or one below the level gate, is not asked about.
Take(silent) ==
    /\ worker = "running" /\ flight = NoFlight
    /\ queue # <<>> /\ Head(queue) # End
    /\ silent \subseteq 1 .. BatchSize
    /\ LET loud  == {queue[i] : i \in (1 .. BatchSize) \ silent}
           asked == {[segment |-> s, heard |-> Slice(s)] : s \in {q \in loud : Slice(q) # <<>>}}
       IN  IF asked = {}
           THEN Release(BatchSize) /\ UNCHANGED flight
           ELSE /\ flight' = [size |-> BatchSize, asked |-> asked, answered |-> FALSE]
                /\ UNCHANGED awaiting
    /\ queue' = SubSeq(queue, BatchSize + 1, Len(queue))
    /\ UNCHANGED <<ep, buffer, base, worker, closed, turns, lost, abandoned>>

Answered ==
    /\ flight.size > 0 /\ ~flight.answered
    /\ flight' = [flight EXCEPT !.answered = TRUE]
    /\ UNCHANGED <<ep, buffer, base, awaiting, queue, worker, closed, turns, lost, abandoned>>

\* The next result passes the four guards, or is dropped by one.
Publish(passes) ==
    /\ flight.answered
    /\ \E u \in flight.asked :
          /\ \A w \in flight.asked : u.segment.end <= w.segment.end
          /\ flight' = [flight EXCEPT !.asked = @ \ {u}]
          /\ turns' = IF passes THEN Append(turns, u.segment) ELSE turns
    /\ UNCHANGED <<ep, buffer, base, awaiting, queue, worker, closed, lost, abandoned>>

BatchDone ==
    /\ flight.answered /\ flight.asked = {}
    /\ Release(flight.size)
    /\ flight' = NoFlight
    /\ UNCHANGED <<ep, buffer, base, queue, worker, closed, turns, lost, abandoned>>

\* The engine, or whoever is given the turns, raises: the batch is lost.
BatchFails ==
    /\ flight.asked # {}
    /\ lost' = lost + flight.size
    /\ Release(flight.size)
    /\ flight' = NoFlight
    /\ UNCHANGED <<ep, buffer, base, queue, worker, closed, turns, abandoned>>

StopWorker ==
    /\ worker = "running" /\ flight = NoFlight
    /\ queue # <<>> /\ Head(queue) = End
    /\ queue' = Tail(queue)
    /\ worker' = "done"
    /\ UNCHANGED <<ep, buffer, base, awaiting, flight, closed, turns, lost, abandoned>>

-----------------------------------------------------------------------------
Consumer == BatchDone \/ StopWorker \/ \E p \in BOOLEAN : Publish(p)

Engine == Answered \/ BatchFails

SpeechNext ==
    \/ \E voiced \in BOOLEAN : Feed(voiced)
    \/ Finish
    \/ \E silent \in SUBSET (1 .. MaxBatch) : Take(silent)
    \/ Consumer
    \/ Engine

-----------------------------------------------------------------------------
(* What must hold.                                                         *)

\* What the model is given for a segment is that segment's own audio from its
\* first sample, all of it but the padding not yet fed: never a piece of
\* another moment of the call, however far the model lags (B20).
HeardItsOwn ==
    \A u \in flight.asked :
        /\ \A i \in 1 .. Len(u.heard) : u.heard[i] = u.segment.start + i - 1
        /\ Len(u.heard) >= u.segment.end - PadAfter - u.segment.start

\* The buffer stays bounded, whoever talks or does not and however long the
\* model takes.
BufferIsBounded == Len(buffer) <= TrimWhenIdle

\* The model hears each segment as it was spoken, from a buffer that is bounded.
HeardInFull == HeardItsOwn /\ BufferIsBounded
=============================================================================
