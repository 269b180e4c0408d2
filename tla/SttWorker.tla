------------------------------ MODULE SttWorker ------------------------------
(***************************************************************************)
(* The speech-to-text engine in a process of its own: SubprocessSttEngine  *)
(* (adapters/stt/worker.py), the frames it speaks (wire.py) and the child  *)
(* that answers them (entrypoints/stt.py).                                 *)
(*                                                                         *)
(* Streams share one engine.  A lock lets one of them start the child and  *)
(* exchange one utterance with it; a child that misses the deadline is     *)
(* killed, since nothing else stops a decode.  An utterance is its id.     *)
(***************************************************************************)
EXTENDS Naturals, Sequences, SequencesExt, FiniteSets

CONSTANTS
    Streams,   \* the consumers that share the engine
    MaxAsks,   \* bound: utterances
    MaxSpawns  \* bound: children started

Nobody == "nobody"

ASSUME WorkerAssumption == MaxAsks \in Nat /\ MaxSpawns \in Nat /\ Nobody \notin Streams

VARIABLES
    lock,     \* who holds _lock: a stream, or nobody
    line,     \* who waits for it, in order
    step,     \* per stream: where it is in transcribe_utterance
    asked,    \* per stream: the id of its request
    got,      \* per stream: the id of the reply it was given, 0 for an error
    reqSeq,   \* _seq
    proc,     \* _proc: the child the engine knows, 0 for None
    child,    \* per child: what the process is doing
    stdin,    \* requests the child has not read
    stdout    \* frames the engine has not read

workerVars == <<lock, line, step, asked, got, reqSeq, proc, child, stdin, stdout>>

Children == 1 .. MaxSpawns

Hello == 0

\* What the system can make of a child: not yet started, loading its model,
\* ready, stuck in a decode, gone, and gone with returncode set.
ChildStates == {"unborn", "loading", "ready", "stuck", "gone", "reaped"}

Alive == {k \in Children : child[k] \in {"loading", "ready", "stuck"}}

running == proc # 0 /\ child[proc] # "reaped"

WorkerInit ==
    /\ lock = Nobody /\ line = <<>>
    /\ step = [s \in Streams |-> "idle"]
    /\ asked = [s \in Streams |-> 0] /\ got = [s \in Streams |-> 0]
    /\ reqSeq = 0 /\ proc = 0
    /\ child = [k \in Children |-> "unborn"]
    /\ stdin = <<>> /\ stdout = <<>>

-----------------------------------------------------------------------------
(* The engine, in the server's event loop.                                 *)

Stop ==
    /\ proc' = 0
    /\ stdin' = <<>> /\ stdout' = <<>>
    /\ child' = IF running THEN [child EXCEPT ![proc] = "gone"] ELSE child

Unlock(s) ==
    /\ lock' = Nobody
    /\ step' = [step EXCEPT ![s] = "idle"]

\* The exception the caller sees, once _stop is done.
Raise(s) ==
    /\ Stop
    /\ Unlock(s)
    /\ got' = [got EXCEPT ![s] = 0]
    /\ UNCHANGED <<line, asked, reqSeq>>

Ask(s) ==
    /\ step[s] = "idle"
    /\ reqSeq + Cardinality({t \in Streams : step[t] \in {"waiting", "ensure", "hello"}}) < MaxAsks
    /\ step' = [step EXCEPT ![s] = "waiting"]
    /\ line' = Append(line, s)
    /\ UNCHANGED <<lock, asked, got, reqSeq, proc, child, stdin, stdout>>

Acquire(s) ==
    /\ lock = Nobody
    /\ line # <<>> /\ Head(line) = s
    /\ lock' = s
    /\ line' = Tail(line)
    /\ step' = [step EXCEPT ![s] = IF @ = "waiting" THEN "ensure" ELSE "close"]
    /\ UNCHANGED <<asked, got, reqSeq, proc, child, stdin, stdout>>

\* _ensure starts a child unless one runs.
Spawn(s) ==
    /\ step[s] = "ensure" /\ ~running
    /\ \E k \in Children :
          /\ child[k] = "unborn" /\ \A j \in Children : j < k => child[j] # "unborn"
          /\ proc' = k
          /\ child' = [child EXCEPT ![k] = "loading"]
    /\ stdin' = <<>> /\ stdout' = <<>>
    /\ step' = [step EXCEPT ![s] = "hello"]
    /\ UNCHANGED <<lock, line, asked, got, reqSeq>>

\* No more children within the bound: the machine cannot start one.
SpawnFails(s) ==
    /\ step[s] = "ensure" /\ ~running
    /\ \A k \in Children : child[k] # "unborn"
    /\ Raise(s)

ReadHello(s) ==
    /\ step[s] = "hello" /\ stdout # <<>>
    /\ stdout' = Tail(stdout)
    /\ step' = [step EXCEPT ![s] = "ensure"]
    /\ UNCHANGED <<lock, line, asked, got, reqSeq, proc, child, stdin>>

\* The child went away, or took longer than startup_timeout_s.
StartupFails(s) ==
    /\ step[s] = "hello" /\ stdout = <<>>
    /\ Raise(s)

Write(s) ==
    /\ step[s] = "ensure" /\ running
    /\ reqSeq' = reqSeq + 1
    /\ asked' = [asked EXCEPT ![s] = reqSeq + 1]
    /\ stdin' = Append(stdin, reqSeq + 1)
    /\ step' = [step EXCEPT ![s] = "exchange"]
    /\ UNCHANGED <<lock, line, got, proc, child, stdout>>

\* The reply's own id is not looked at.
ReadReply(s) ==
    /\ step[s] = "exchange" /\ stdout # <<>>
    /\ stdout' = Tail(stdout)
    /\ got' = [got EXCEPT ![s] = Head(stdout)]
    /\ Unlock(s)
    /\ UNCHANGED <<line, asked, reqSeq, proc, child, stdin>>

\* A slip: the utterance is given up and the child left running.
DeadlineLeavesChild(s) ==
    /\ step[s] = "exchange" /\ stdout = <<>>
    /\ Unlock(s)
    /\ got' = [got EXCEPT ![s] = 0]
    /\ UNCHANGED <<line, asked, reqSeq, proc, child, stdin, stdout>>

\* A slip: the deadline covers the reading and not the writing.
DeadlineAfterDrain(s) ==
    /\ step[s] = "exchange" /\ stdout = <<>> /\ stdin = <<>>
    /\ Raise(s)

Deadline(s) ==
    /\ step[s] = "exchange" /\ stdout = <<>>
    /\ Raise(s)

\* The pipe broke, or ended inside a frame.
PipeBreaks(s) ==
    /\ step[s] = "exchange" /\ stdout = <<>>
    /\ child[proc] \in {"gone", "reaped"}
    /\ Raise(s)

\* A clean end of the output: the lock is let go first and close() takes it
\* again behind whoever waits.
CleanEof(s) ==
    /\ step[s] = "exchange" /\ stdout = <<>>
    /\ child[proc] \in {"gone", "reaped"}
    /\ lock' = Nobody
    /\ line' = Append(line, s)
    /\ step' = [step EXCEPT ![s] = "closing"]
    /\ UNCHANGED <<asked, got, reqSeq, proc, child, stdin, stdout>>

CloseAfterEof(s) ==
    /\ step[s] = "close"
    /\ Raise(s)

-----------------------------------------------------------------------------
(* The child.                                                              *)

Ready(k) ==
    /\ child[k] = "loading"
    /\ child' = [child EXCEPT ![k] = "ready"]
    /\ stdout' = IF k = proc THEN Append(stdout, Hello) ELSE stdout
    /\ UNCHANGED <<lock, line, step, asked, got, reqSeq, proc, stdin>>

Answer(k) ==
    /\ k = proc /\ child[k] = "ready" /\ stdin # <<>>
    /\ stdout' = Append(stdout, Head(stdin))
    /\ stdin' = Tail(stdin)
    /\ UNCHANGED <<lock, line, step, asked, got, reqSeq, proc, child>>

\* A decode that takes a minute, with the utterance read or still in the pipe.
GetsStuck(k) ==
    /\ k = proc /\ child[k] = "ready" /\ stdin # <<>>
    /\ child' = [child EXCEPT ![k] = "stuck"]
    /\ UNCHANGED <<lock, line, step, asked, got, reqSeq, proc, stdin, stdout>>

ComesBack(k) ==
    /\ child[k] = "stuck"
    /\ child' = [child EXCEPT ![k] = "ready"]
    /\ UNCHANGED <<lock, line, step, asked, got, reqSeq, proc, stdin, stdout>>

Exits(k) ==
    /\ k \in Alive
    /\ child' = [child EXCEPT ![k] = "gone"]
    /\ UNCHANGED <<lock, line, step, asked, got, reqSeq, proc, stdin, stdout>>

Reaped(k) ==
    /\ child[k] = "gone"
    /\ child' = [child EXCEPT ![k] = "reaped"]
    /\ UNCHANGED <<lock, line, step, asked, got, reqSeq, proc, stdin, stdout>>

-----------------------------------------------------------------------------
WorkerNext ==
    \/ \E s \in Streams :
          \/ Ask(s) \/ Acquire(s) \/ Spawn(s) \/ SpawnFails(s)
          \/ ReadHello(s) \/ StartupFails(s) \/ Write(s) \/ ReadReply(s)
          \/ Deadline(s) \/ PipeBreaks(s) \/ CleanEof(s) \/ CloseAfterEof(s)
    \/ \E k \in Children :
          Ready(k) \/ Answer(k) \/ GetsStuck(k) \/ ComesBack(k) \/ Exits(k) \/ Reaped(k)

-----------------------------------------------------------------------------
(* What must hold.                                                         *)

\* Nobody is given another utterance's words: a reply a deadline gave up on
\* dies with its child, although the id that would tell is never compared.
ReplyIsMine == \A s \in Streams : got[s] \in {0, asked[s]} \/ step[s] # "idle"
=============================================================================
