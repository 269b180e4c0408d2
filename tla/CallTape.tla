------------------------------ MODULE CallTape ------------------------------
(***************************************************************************)
(* The recording of a call, from the leg to the day it is deleted          *)
(* (media/gateway.py, services/recording, adapters/blob_storage,           *)
(* db/stores.py, scripts/purge_recordings.py).                             *)
(*                                                                         *)
(* The transcriber and the recorder listen to one leg.  The recorder holds *)
(* the samples in memory, seals them when the call is answered or over,    *)
(* and the sweep uploads them: an encrypted file first, then the row that  *)
(* names it.  Deleting is the business of a script, which is another       *)
(* process: it shares the files and the rows with this one and nothing     *)
(* else, and each may stop between any two of its steps.                   *)
(*                                                                         *)
(* Consent is the business of HoldIntake; here every call has it, as every *)
(* call has for which place_call opens a recording.                        *)
(***************************************************************************)
EXTENDS Integers, Sequences, SequencesExt

CONSTANTS
    Calls,
    MaxSamples,   \* MAX_SAMPLES, in packets
    Retentions,   \* what RECORDING_RETENTION_DAYS may be set to
    PurgeLimit,   \* --limit of the script
    Packets,      \* bound: packets a caller speaks
    LastDay,      \* bound: the clock
    Stops         \* bound: how often the process stops

ASSUME TapeAssumption ==
    /\ MaxSamples \in Nat \ {0} /\ PurgeLimit \in Nat \ {0}
    /\ Retentions \subseteq Nat /\ Retentions # {}
    /\ Packets \in Nat /\ LastDay \in Nat /\ Stops \in Nat
    /\ Calls \cap {"none", "purge", "object", "files"} = {}

VARIABLES
    leg,      \* MediaGateway._legs
    ear,      \* the transcriber's view: TranscriptionService._live
    tape,     \* RecordingService._open
    pending,  \* RecordingService._pending
    flush,    \* flush_pending() and _upload() under way
    part,     \* temporary files of LocalFsBlobStorage.put
    object,   \* the objects of the blob store, by call
    entry,    \* audio_recordings: the row of a call
    script,   \* scripts/purge_recordings.py under way
    now, keep,       \* the day; recording_retention_days
    givenUp,         \* recordings given up, with a line in the log
    erasure,         \* erase_call(): not asked for, begun, returned
    stops

pipeVars == <<leg, ear, tape>>
storeVars == <<part, object, entry>>
ownVars == <<pending, flush>>
dayVars == <<now, keep, stops>>
tapeVars == <<pipeVars, storeVars, ownVars, dayVars, script, givenUp, erasure>>

NoLeg == [open |-> FALSE, sinks |-> {}]
NoTape == [open |-> FALSE, kept |-> 0, dropped |-> 0]
NoRow == [there |-> FALSE, created |-> 0, due |-> 0, kept |-> 0]
NotFlushing == [at |-> 0, step |-> 1, since |-> 0, failed |-> <<>>]
NoScript == [kind |-> "none", todo |-> {}, at |-> "none"]

TapeInit ==
    /\ leg = [c \in Calls |-> NoLeg]
    /\ ear = [c \in Calls |-> [state |-> "none", heard |-> 0]]
    /\ tape = [c \in Calls |-> NoTape]
    /\ pending = <<>> /\ flush = NotFlushing
    /\ part = {} /\ object = [c \in Calls |-> 0] /\ entry = [c \in Calls |-> NoRow]
    /\ script = NoScript /\ now = 0 /\ keep \in Retentions
    /\ givenUp = {} /\ erasure = [c \in Calls |-> "no"] /\ stops = 0

-----------------------------------------------------------------------------
(* While the audio flows.                                                  *)

\* A slip: every opener gets a leg of its own, and the first keeps its own
\* idea of where the audio is.
OpenLegAnew(l) == [NoLeg EXCEPT !.open = TRUE]

\* Opening is idempotent: whoever comes second joins the leg that is there.
OpenLeg(l) == IF l.open THEN l ELSE [NoLeg EXCEPT !.open = TRUE]

Subscribe(l, who) == [l EXCEPT !.sinks = @ \cup {who}]

\* place_call opens the transcriber, then the recorder.
OpenTape(c) ==
    /\ ear[c].state = "none"
    /\ leg' = [leg EXCEPT ![c] = Subscribe(OpenLeg(Subscribe(OpenLeg(@), "ear")), "tape")]
    /\ ear' = [ear EXCEPT ![c].state = "live"]
    /\ tape' = [tape EXCEPT ![c] = [NoTape EXCEPT !.open = TRUE]]
    /\ UNCHANGED <<storeVars, ownVars, dayVars, script, givenUp, erasure>>

\* A sink: what goes past the cap is counted and not kept.
Keep(t) == IF t.kept >= MaxSamples THEN [t EXCEPT !.dropped = @ + 1]
           ELSE [t EXCEPT !.kept = @ + 1]

\* A packet: the transcriber's push() hands it to the leg, the leg to its sinks.
PushPacket(c) ==
    /\ ear[c].state = "live" /\ leg[c].open /\ tape[c].open
    /\ tape[c].kept + tape[c].dropped < Packets
    /\ ear' = IF "ear" \in leg[c].sinks THEN [ear EXCEPT ![c].heard = @ + 1] ELSE ear
    /\ tape' = IF "tape" \in leg[c].sinks THEN [tape EXCEPT ![c] = Keep(@)] ELSE tape
    /\ UNCHANGED <<leg, storeVars, ownVars, dayVars, script, givenUp, erasure>>

\* The transcriber lets go of the leg, which closes it for both.  In between
\* it drains (SpeechStream), and takes no packets.
CloseLeg(c) ==
    /\ ear[c].state = "live"
    /\ ear' = [ear EXCEPT ![c] = [state |-> "closed", heard |-> 0]]
    /\ leg' = [leg EXCEPT ![c] = NoLeg]
    /\ UNCHANGED <<tape, storeVars, ownVars, dayVars, script, givenUp, erasure>>

\* The accept and the event that the call is over race to seal; a tape nobody
\* spoke on is discarded.
SealTape(c) ==
    /\ tape[c].open
    /\ tape' = [tape EXCEPT ![c] = [NoTape EXCEPT !.kept = tape[c].kept]]
    /\ pending' = IF tape[c].kept = 0 THEN pending ELSE Append(pending, c)
    /\ UNCHANGED <<leg, ear, storeVars, flush, dayVars, script, givenUp, erasure>>

\* The event comes and the call cannot be loaded: nothing may be kept.
DiscardTape(c) ==
    /\ tape[c].open
    /\ tape' = [tape EXCEPT ![c] = NoTape]
    /\ givenUp' = givenUp \cup {c}
    /\ UNCHANGED <<leg, ear, storeVars, ownVars, dayVars, script, erasure>>

-----------------------------------------------------------------------------
(* The sweep uploads.                                                      *)

\* A slip: the reference is written optimistically.
UploadStepsRowFirst == <<"save", "write", "rename">>

\* A file under a temporary name, its rename, the row: in this order.
UploadSteps == <<"write", "rename", "save">>

Uploading == flush.at \in 1 .. Len(pending)

Sealed == pending[flush.at]

UploadAt(step) == Uploading /\ UploadSteps[flush.step] = step

NextStep == IF flush.step = Len(UploadSteps)
            THEN [flush EXCEPT !.at = @ + 1, !.step = 1]
            ELSE [flush EXCEPT !.step = @ + 1]

\* The loop runs over the list itself, so what is sealed meanwhile is reached.
StartFlush ==
    /\ flush = NotFlushing /\ pending # <<>>
    /\ flush' = [NotFlushing EXCEPT !.at = 1]
    /\ UNCHANGED <<pipeVars, storeVars, pending, dayVars, script, givenUp, erasure>>

\* The upload reads the clock when it starts.
WritePart ==
    /\ UploadAt("write")
    /\ part' = part \cup {Sealed}
    /\ flush' = [NextStep EXCEPT !.since = now]
    /\ UNCHANGED <<pipeVars, object, entry, pending, dayVars, script, givenUp, erasure>>

RenamePart ==
    /\ UploadAt("rename") /\ Sealed \in part
    /\ part' = part \ {Sealed}
    /\ object' = [object EXCEPT ![Sealed] = tape[Sealed].kept]
    /\ flush' = NextStep
    /\ UNCHANGED <<pipeVars, entry, pending, dayVars, script, givenUp, erasure>>

\* The promise is made concrete here, from the setting as it stands.
SaveRow ==
    /\ UploadAt("save")
    /\ entry' = [entry EXCEPT ![Sealed] = [there |-> TRUE, created |-> flush.since,
                                       due |-> flush.since + keep, kept |-> tape[Sealed].kept]]
    /\ flush' = NextStep
    /\ UNCHANGED <<pipeVars, part, object, pending, dayVars, script, givenUp, erasure>>

\* The store cannot be reached: the recording keeps its place.
UploadRetries ==
    /\ UploadAt("write")
    /\ flush' = [flush EXCEPT !.at = @ + 1, !.step = 1, !.failed = Append(@, Sealed)]
    /\ UNCHANGED <<pipeVars, storeVars, pending, dayVars, script, givenUp, erasure>>

\* Anything else that goes wrong, the entry's transaction included, gives it up.
UploadFails ==
    /\ Uploading
    /\ flush' = [flush EXCEPT !.at = @ + 1, !.step = 1]
    /\ givenUp' = givenUp \cup {Sealed}
    /\ UNCHANGED <<pipeVars, storeVars, pending, dayVars, script, erasure>>

\* What is left in the queue when the loop has reached its end.
Remaining == flush.failed

EndFlush ==
    /\ flush.at > Len(pending)
    /\ pending' = Remaining
    /\ flush' = NotFlushing
    /\ UNCHANGED <<pipeVars, storeVars, dayVars, script, givenUp, erasure>>

-----------------------------------------------------------------------------
(* The script deletes.                                                     *)

\* A slip: retention is computed when the purge runs.
DueOnBySetting(r) == r.created + keep

\* What a row says of the day it must go.
DueOn(r) == r.due

Due == {c \in Calls : entry[c].there /\ DueOn(entry[c]) <= now}

\* Oldest first, and no more than the limit.
Oldest(some) ==
    {c \in some : Cardinality({d \in some : entry[d].created < entry[c].created}) < PurgeLimit}

StartPurge ==
    /\ script = NoScript /\ Due # {}
    /\ \E batch \in SUBSET Oldest(Due) :
         /\ Cardinality(batch) = Min({PurgeLimit, Cardinality(Due)})
         /\ script' = [kind |-> "purge", todo |-> batch, at |-> "object"]
    /\ UNCHANGED <<pipeVars, storeVars, ownVars, dayVars, givenUp, erasure>>

\* Everything of one call, whatever its retention.
StartErase(c) ==
    /\ script = NoScript /\ erasure[c] # "done" /\ ear[c].state # "none"
    /\ erasure' = [erasure EXCEPT ![c] = "begun"]
    /\ script' = [kind |-> c, at |-> IF entry[c].there THEN "object" ELSE "files",
                  todo |-> IF entry[c].there THEN {c} ELSE {}]
    /\ UNCHANGED <<pipeVars, storeVars, ownVars, dayVars, givenUp>>

\* The object first, then the row.
DeleteObject(c) ==
    /\ script.at = "object" /\ c \in script.todo
    /\ object' = [object EXCEPT ![c] = 0]
    /\ script' = [script EXCEPT !.at = c]
    /\ UNCHANGED <<pipeVars, part, entry, ownVars, dayVars, givenUp, erasure>>

\* A purge that cannot delete an object keeps its row and goes on; an erasure
\* fails altogether.
DeleteFails(c) ==
    /\ script.at = "object" /\ c \in script.todo
    /\ script' = IF script.kind = "purge" THEN [script EXCEPT !.todo = @ \ {c}] ELSE NoScript
    /\ UNCHANGED <<pipeVars, storeVars, ownVars, dayVars, givenUp, erasure>>

DeleteRow(c) ==
    /\ script.at = c
    /\ entry' = [entry EXCEPT ![c].there = FALSE]
    /\ script' = [script EXCEPT !.todo = @ \ {c},
                                !.at = IF script.kind = "purge" THEN "object" ELSE "files"]
    /\ UNCHANGED <<pipeVars, part, object, ownVars, dayVars, givenUp, erasure>>

\* An erasure ends with whatever lies under the call's prefix.
EraseFiles(c) ==
    /\ script.kind = c /\ script.at = "files"
    /\ object' = [object EXCEPT ![c] = 0] /\ part' = part \ {c}
    /\ erasure' = [erasure EXCEPT ![c] = "done"] /\ script' = NoScript
    /\ UNCHANGED <<pipeVars, entry, ownVars, dayVars, givenUp>>

EndPurge ==
    /\ script.kind = "purge" /\ script.at = "object" /\ script.todo = {}
    /\ script' = NoScript
    /\ UNCHANGED <<pipeVars, storeVars, ownVars, dayVars, givenUp, erasure>>

ScriptStops ==
    /\ script # NoScript
    /\ script' = NoScript
    /\ UNCHANGED <<pipeVars, storeVars, ownVars, dayVars, givenUp, erasure>>

-----------------------------------------------------------------------------
(* Days pass, and the process may stop and start with another setting.     *)

DayPasses ==
    /\ now < LastDay /\ now' = now + 1
    /\ UNCHANGED <<pipeVars, storeVars, ownVars, keep, stops, script, givenUp, erasure>>

\* Whose samples are only in memory.
InMemory == {c \in Calls : tape[c].open} \cup Range(pending)

ProcessRestarts ==
    /\ stops < Stops /\ stops' = stops + 1
    /\ givenUp' = givenUp \cup {c \in InMemory : ~entry[c].there}
    /\ leg' = [c \in Calls |-> NoLeg]
    /\ ear' = [c \in Calls |-> IF ear[c].state = "none" THEN ear[c] ELSE [state |-> "closed", heard |-> 0]]
    /\ tape' = [c \in Calls |-> [NoTape EXCEPT !.kept = tape[c].kept]]
    /\ pending' = <<>> /\ flush' = NotFlushing
    /\ keep' \in Retentions
    /\ UNCHANGED <<storeVars, now, script, erasure>>

TapeNext ==
    \/ \E c \in Calls :
         \/ OpenTape(c) \/ PushPacket(c) \/ CloseLeg(c) \/ SealTape(c) \/ DiscardTape(c)
         \/ StartErase(c) \/ DeleteObject(c) \/ DeleteFails(c) \/ DeleteRow(c) \/ EraseFiles(c)
    \/ StartFlush \/ WritePart \/ RenamePart \/ SaveRow
    \/ UploadRetries \/ UploadFails \/ EndFlush
    \/ StartPurge \/ EndPurge \/ ScriptStops
    \/ DayPasses \/ ProcessRestarts

TapeSpec == TapeInit /\ [][TapeNext]_tapeVars

-----------------------------------------------------------------------------
(* What must hold.                                                         *)

\* Two services listen to one leg and neither takes the other's audio away:
\* the recorder has every packet the transcriber heard (gateway.py:76-81).
BothHear ==
    \A c \in Calls : ear[c].state = "live" /\ tape[c].open =>
        tape[c].kept + tape[c].dropped = ear[c].heard

\* What a caller said is held, queued, stored or gone for a reason somebody
\* can name; failures, stops and what is sealed while the sweep uploads make
\* no recording vanish (flush_pending, service.py:218-246).
AudioIsAccountedFor ==
    \A c \in Calls : tape[c].kept > 0 =>
        tape[c].open \/ c \in Range(pending) \/ entry[c].kept > 0 \/ c \in givenUp

\* Audio goes when the day has come that was promised when it was stored, or
\* when its call is erased, and a row goes only after what it points at
\* (service.py:240-242, 271-275).
KeptAsPromised ==
    [][\A c \in Calls :
         /\ object[c] > 0 /\ object'[c] = 0 =>
              erasure[c] = "begun" \/ (entry[c].there /\ entry[c].due <= now)
         /\ entry[c].there /\ ~entry'[c].there => object[c] = 0]_tapeVars

\* A row points at the audio it describes, until it is past its day or the
\* call's erasure has begun (service.py:221-223).
RowsAreTrue ==
    \A c \in Calls : entry[c].there =>
        object[c] = entry[c].kept \/ entry[c].due <= now \/ erasure[c] # "no"

\* From the leg to the store no audio gets lost on the way, and no row names
\* audio that is not there (D12, D110).
AudioIsKept == BothHear /\ AudioIsAccountedFor /\ RowsAreTrue
=============================================================================
