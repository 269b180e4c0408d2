---------------------------- MODULE SpeechToText ----------------------------
(***************************************************************************)
(* A leg's audio becoming turns (SpeechStream) by way of the engine that   *)
(* all legs share (SttWorker).                                             *)
(*                                                                         *)
(* They meet in one call: the stream's Take is an Ask of the worker, and   *)
(* the reply or the error that ends it is the stream's Answered or         *)
(* BatchFails, whenever it comes.  Neither reads the state of the other,   *)
(* so a property of one is decided by the behaviours in which only that    *)
(* one moves.  `side` says which.                                          *)
(***************************************************************************)
EXTENDS SpeechStream, SttWorker

VARIABLE side

vars == <<speechVars, workerVars, side>>

Init ==
    /\ side \in {"stream", "worker"}
    /\ SpeechInit /\ WorkerInit

InSpeech == side = "stream" /\ UNCHANGED <<workerVars, side>>

InWorker == side = "worker" /\ UNCHANGED <<speechVars, side>>

Next ==
    \/ InSpeech /\ SpeechNext
    \/ InWorker /\ WorkerNext

\* The consumer is a task of its own, and the engine answers or raises, which
\* is what EveryAskEnds says of the worker; that the audio goes on, or that
\* the leg ends, is not assumed.
SpeechFairness ==
    /\ WF_vars(InSpeech /\ \E silent \in SUBSET (1 .. MaxBatch) : Take(silent))
    /\ WF_vars(InSpeech /\ Consumer) /\ WF_vars(InSpeech /\ Engine)

\* The event loop runs whoever can go on, and both deadlines are timers of
\* that loop.  Nothing is assumed of the child.
WorkerFairness ==
    \A s \in Streams :
        /\ WF_vars(InWorker /\ Acquire(s)) /\ WF_vars(InWorker /\ Write(s))
        /\ WF_vars(InWorker /\ (Spawn(s) \/ SpawnFails(s)))
        /\ WF_vars(InWorker /\ (ReadHello(s) \/ StartupFails(s)))
        /\ WF_vars(InWorker /\ (ReadReply(s) \/ Deadline(s)))
        /\ WF_vars(InWorker /\ CloseAfterEof(s))

Spec == Init /\ [][Next]_vars /\ SpeechFairness /\ WorkerFairness

-----------------------------------------------------------------------------
(* What must happen.                                                       *)

\* Once the leg has ended the queue is drained and the worker stops, so that
\* whoever waits in finish() goes on.
DrainEnds == closed ~> (worker = "done" /\ queue = <<>>)

\* Whatever the child does, every utterance gets its reply or an error.
EveryAskEnds == \A s \in Streams : step[s] = "waiting" ~> step[s] = "idle"

\* Nobody waits for ever: not who closes a leg, not who asked for a transcript.
SpeechEnds == DrainEnds /\ EveryAskEnds
=============================================================================
