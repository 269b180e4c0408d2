# ReadyCall: specification and verification

ReadyCall (`src/`) routes insurance callers to agents.  One Python process,
`src/src/readycall`, holds the whole call centre: a caller is identified, walks
a menu, waits in a queue, may record what they want while waiting, is matched
to a desk, is rung there, talks while the agent's page fills with their words
and their plans, and leaves a record that somebody files and a recording that
somebody deletes.  This directory holds TLA+ models of that process, TLC
configurations that check them on small instances, and TLAPS proofs for
instances of every size.

Paths below are relative to `src/src/readycall` unless they say otherwise.
D*n* and B*n* are entries of `src/docs/DECISIONS.md` and
`src/docs/BUG_HISTORY.md`.

Contents: 1 inventory, 2 modules and plan, 3 the handshake, 4 hold and intake,
5 speech to text, 6 what reaches the agent's screen, 7 what is kept, 8 the
agent's tools, 9 a call on its way, 10 proofs, 11 disagreements between the
code and what is said of it, 12 not modelled.

## 1. Inventory

| part | state it keeps | operations | what makes it correct |
|---|---|---|---|
| Call orchestrator, `services/call_orchestrator` | `session.state` | `transition`, checked against `_TRANSITIONS`; the one writer | no move outside the table; ends are final |
| Presence, `services/agents/presence.py` | per agent: system state, intent, load, ACW clock, heartbeat | `sign_in`, `sign_out`, `declare`, `begin_*`, `release_offer`, `mark_not_responding`, `stop_offering`, `sweep` | the platform's axis agrees with the calls; the person's axis is theirs |
| Offer handshake, `services/agents/assignment.py` | assignments, open-offer index, per-call refusals and rounds | `offer`, `accept`, `decline`, `timeout`, `cancel`, `end_call`, wrap-up, `restore` | one ring per caller, one answer per caller, no ring for nobody; a refusal outlives a restart |
| Dispatch, `services/agents/dispatch.py` | the waiting pool | `admit`, `release`, `tick`, `_circle_back`, `expire_offers` | the pool is who waits; every ring ends; nobody waits for ever beside a free desk |
| Matching, `services/matching` | a window of recent desks | `match`: filters, scores, rescue, Hungarian solve, deferral, hot-spot guard | only desks that may take the call; the ceiling is kept; the rest is as good as it can be |
| Hold and intake, `services/intake` | per call: the run of the hold, the recording | `run_offer`, `reoffer_due`, `on_silence`, `on_max_duration`, `on_agent_accepted`, `on_typed_note` | consent before recording; finalised once; every recording ends |
| IVR, `services/ivr` | per call: menu position, tries, renumbering | `on_digit`, `on_timeout`, `on_hangup`, the driver's loop | a key does what was read out; every walk ends in a queue |
| Event bus, `adapters/event_bus/memory.py` | queue, seen keys, dead letters | `publish`, `drain` | every event reaches every subscriber, in order |
| Agent hub, `api/realtime.py` | per desk: sequence, outbox, sockets | `connect`, `send`, `ack`, `reset` | a tab that reconnects shows what was sent, and nobody else's |
| Recording, `services/recording` | open buffers, sealed recordings | sink, seal on end, `flush_pending`, purge, erase | no sealed audio lost; none past its day; no row without its object |
| Transcription, `services/transcription` | open streams, buffers, segments in flight, deliveries | frames, endpoints, decode, deliver, close | segments heard in full and in order; only the owning desk sees them |
| STT worker, `adapters/stt/worker.py` | child process, request lock | `transcribe_utterance`, kill on deadline | a late reply never answers a later request |
| Keypad capture, `services/capture` | per call: open capture, digits | start, keys, stop, discard, label, lookup | digits kept only where wanted |
| Identity, `services/identity`, `api/security.py` | sessions, intents, attestations | sign-in, issue, resolve, attest | a level is earned; a statement is logged before it counts |
| Assist, `services/assist` | links between a screen and a call | open, claim, push, respond, close, sweep | what is pushed is seen where the caller looks |
| Transfer, `services/transfer` | hand-offs on record | options, hand off, roster | what is offered is taken; the roster is the floor |
| Summary, `services/analysis` with `api/deps.py` | per call: summary, tasks; clients per stage | preview, final, context; switch of model | the final summary stays; the panel says which model it is |
| Comparison, `services/comparison` | cached reasons, tasks under way | rank, differences, reasons, push | a better plan ranks above a worse; polling ends |
| Context and cache, `services/context`, `adapters/core_data/caching.py` | cached records, breaker, prefetched snapshots | reads, assemble, prefetch | no old answer passes for a fresh one |
| Queue hours, `services/queues/hours.py` | none | `open_at`, `next_open` | the first real opening is told |
| Persistence and restart, `db`, `api/deps.py` | write-through stores | save; `restore` at startup | a restart loses nobody |
| Sweep and pump, `api/app.py` | none | `sweep_once`, `pump_once` | one failing pass costs no other |
| Brief, ACW statistics, configuration, domain pack, language-model adapters | none | | |

**How they interact.** HTTP handlers, websocket handlers and two background
loops run as asyncio tasks of one process and call the services directly.
`AssignmentService` calls presence and the orchestrator; `DispatchService`
calls the engine and `AssignmentService`; routers call several of them in
sequence.  Turns go from the transcriber over the event bus to the desk, the
recorder of turns and the summaries.  There is no lock around the handshake:
what protects it is that nothing else runs until a handler awaits something that
really waits.  With the default in-memory stores that is a push to a slow
websocket; with Postgres it is every store call.

**Hard behaviours.** Ticks that decide on one state of the world and act on
another; two ticks at once; an offer's acceptance, refusal, expiry and
cancellation racing each other; desks that vanish or reappear in any state;
projections (the pool, the open-offer index, presence) that must follow the call
they mirror; waits that must end though nobody acts; a stop between two writes;
copies of one row in several hands; slow or failing handlers, sockets, banks,
models and child processes; several tabs of one agent; buffers that are trimmed
behind their readers.  `PROJECT.json` lists each at its line under `hazards`.

## 2. Modules and plan

| section | modules | composed in | abstract specification |
|---|---|---|---|
| 3 | `CallLifecycle`, `OfferHandshake` | `OfferHandshake` (`MCOfferHandshake`) | `CallerService` |
| 4 | `HoldIntake` | | `CallerService` |
| 5 | `Endpointing`, `SpeechStream`, `SttWorker` | `SpeechToText` | |
| 6 | `TranscriptFeed`, `CallSummary`, `AgentSocket` | `DeskChannel` | |
| 7 | `StoredCall` (over `CallLifecycle`), `CallTape` | `KeptRecords` | |
| 8 | `KeypadCapture`, `PairedScreen`, `ComparisonReasons`, `PlanTable`, `AgentsCalls`, `TransferRoster`, `ModelSwitch` | `DeskTools` (`MCDeskTools`) | |
| 9 | `CoreData`, `KnownCaller`, `AppMenu`, `CallerMenu`, `QueueHours`, `MatchingTick` | `PlaceCall` (`MCPlaceCall`) | |
| 10 | `OfferHandshakeProofs`, `HoldIntakeProofs`, `SpeechToTextProofs`, `DeskChannelProofs`, `KeptRecordsProofs`, `DeskToolsProofs`, `PlaceCallProofs`, over `FiniteSums` | one for each composition | |

**Composition.** Three kinds occur.  `OfferHandshake` and `HoldIntake` are one
model each because what matters there is how several services agree.
`TranscriptFeed` and `CallSummary` read each other's state, and so do the stages
of `PlaceCall` that follow each other.  Elsewhere parts share no variable and
neither reads the other's state: `SpeechToText`, `DeskChannel`, `KeptRecords`,
`DeskTools` and two parts of `PlaceCall`.  A behaviour of such parts together is a
shuffle of one behaviour of each, so a property about one of them holds of every
shuffle exactly when it holds where only that one moves.  A variable (`side`,
`kept`, `tool`, `stage`) says which one it is; where the initial states of the
others are many, one is taken (`NoTable`, `NoRecord`, `NoRoster`, `NoSwitch`,
`NoApp`).  Each comment of a composition says in which call its parts meet.

**What is left**, in this order:

1. `StoredCall` as an implementation of the handshake for one call.  The
   copies a Postgres repository hands out (section 11) stand in the way: it holds
   only of the steps that leave the pool's own copy aside;
2. the sweep of presence writing back what it read before an await; it needs a
   second agent in `StoredCall`, which is beyond TLC with the awaits there now;
3. the sweep's passes under an exception, and its waiting for one caller's
   transcriber while other callers' offers run out.

## 3. The handshake

`CallLifecycle` is the transition table of `machine.py`; `OfferHandshake` has the
state, the handlers, the ticks and the passes of the sweep; `CallerService` is
what one caller is promised, in seven phases and a desk; `MCOfferHandshake` has
the small floors.

| variable | code |
|---|---|
| `state` | `CallSession.state` |
| `pool` | `DispatchService._waiting` |
| `patient` | callers with `total_wait_s < defer_max_wait_s` |
| `ticks` | decisions a running `tick()` has still to apply |
| `outcome`, `open` | `AssignmentService._assignments`, `_open_by_call` |
| `excluded`, `rounds` | `_CallOffers` |
| `acw`, `earlier` | `acw_started_at`, `acw_ended_at` and the order of the former |
| `wrapups` | `container.wrapups` |
| `desk` | `PresenceService._presence` and `_acw_since` |

`outcome` is the *newest* assignment of a call and an agent.  A second one for
the same pair comes only in a later round, when the first is resolved, and what
is modelled here never looks at an older one (`AgentsCalls` does).

**Actions.** Each action is a whole handler: `Accept` is `accept_offer` with what
`AssignmentService.accept` does to presence, the call and the pool; `Decline`
includes `stop_offering` and the tick the router runs last; `Declare` includes
closing out after-call work and the tick; `HangUp` has the three endings of
`app_hangup`; `Admit` is the end of `place_call`.  Requests the code refuses with
an error are absent (the step would change nothing), except where they do change
something: `AgentEndsAgain` overwrites timestamps before it is refused, and
`AbortTick` is `offer()` raising in the middle of a tick.

**Granularity.** Handlers are atomic, a tick is not.  `StartTick` solves over
what its handler leaves behind (`Decisions'`), and each decision is applied in
a step of its own to whatever it finds by then.  That is what the code can do
in its default build between `notifier.send` calls, and with Postgres at every
`decisions.append`.  The interleavings inside a single handler, which only
Postgres allows, are `StoredCall`'s.

**Abstractions.** Scores are left out: a solve may choose any maximal pairing
of waiting callers with feasible desks, and may defer a short wait when another
desk could take the call.  That covers the Hungarian solver, the greedy one, the
rescue past the ceiling and the hot-spot guard, which all stay inside it;
`MatchingTick` has them with their scores.  Skills and languages are the constant
`Skilled`.  Time is abstracted to the order of what it triggers: an offer may
expire, a heartbeat may lapse, a wait may pass the deferral limit, at any moment.

**Bounds.** `Ticks` limits ticks in flight; `RoundBound` is where the round
counter saturates; `DeclaredIntents` limits what agents declare; `Habits` limits
what agents do besides their work: signing in over a live desk (`login_over`),
leaving while ringing (`leave_ringing`), ending a call twice (`end_twice`).

| run | floor | shows |
|---|---|---|
| `orderly_floor` | 2 callers, 2 desks, one tick at a time, no habits | a desk has one caller, and presence, load and ACW clock agree with the calls (`PresenceMatchesCalls`) |
| `one_desk` | 2 callers, 1 desk, 2 ticks, all habits, 2 rounds at most | the pool is who waits; no ghost rings |
| `one_caller` | 1 caller, 2 desks, 2 ticks, all habits, no cap, fairness | one ring and one answer per caller; a refusal is heard by every tick that starts after it, and overlooked at most once by one already under way (`RefusalIsHeard`); the promise of `CallerService`; every ring ends; a free desk is rung; exhausted rounds end |

The bounds are enough for what the runs ask.  Two callers show competition for a
desk, two desks show passing a caller on, two ticks show a decision overtaken by
another, and a third of any kind adds no new relation between the pieces of
state the invariants compare.  For the safety properties of `one_desk` and
`one_caller` the proofs remove the question altogether.  Two callers *and* two
desks *and* two ticks with every habit exceed several million states, so that
floor is checked with one tick and no habits only.

`orderly_floor` states its restrictions for a reason, and the theorem about it assumes them.  With two ticks in flight
the code rings one desk for two callers; with `login_over` presence forgets a live call; `leave_ringing` reopens a desk that
has left.  Set `Ticks = {t1, t2}` or `Habits` in `OrderlyFloor.cfg` to see them;
section 11 gives the lines.

A desk that has just refused may be rung again by a tick already under way, so `one_caller`,
with two ticks, states what is left of a refusal: `RefusalIsHeard` follows the decisions each
tick has still to apply (`AboutToAsk`) against `excluded`.

**Symmetry** is used in the two runs without liveness: callers, desks and tick
slots are interchangeable when everybody has every skill.  **Deadlock** is checked
in all three: agents may always sign in or out.

**Fairness.** `Fairness` assumes only `_sweep_forever` (`api/app.py`), which comes
round every second for as long as the process lives: an offer past its time is
expired (WF), a wait does grow (WF), a running tick goes on (WF), and the sweep's
own tick runs (SF: a slot of this model may be taken by a request's tick and be
free again).  A tick that only defers is a step of its own, so fairness is met by
ticks that defer and the liveness properties do not rest on a lucky choice.
Nothing is assumed of callers and agents.

## 4. Hold, recording, and the transcriber

`HoldIntake` follows one caller from the queue on.  Five services keep pieces of
one story, and nothing but the order of calls keeps them together: that is what
the module is about.  The handshake is reduced to which desk is ringing.

| variable | code |
|---|---|
| `state`, `consents` | `CallSession.state`, `.consents` |
| `hold` | `HoldRun` and `_LiveHold` (`intake/service.py`); `live` is membership in `_live` |
| `intake` | `PassiveRecordIntake`: not started, running, final with its reason |
| `leg` | `TranscriptionService._live` and its stream: utterances pending in the speech model, time open, time quiet |
| `tape` | `RecordingService`: `_open`, `_pending`, uploaded |
| `ringing`, `rung` | the current desk; desks that hold a card for this caller |
| `answering`, `closer` | requests inside `accept_offer`; who awaits the drain |

**Actions.** `AcceptRecording`, `DeclineRecording` and `IgnoreOffer` are the ends of
`run_offer`; wrong keys and the repeat key only play the offer again.  `Match` is
the end of `place_call`.  `TurnArrives`, `EngineFails` and `GuardsDrop` are what can
become of an utterance in the stream's consumer.  The `Sweep...` actions are the
passes of `sweep_once` that concern the hold.  `PressAccept` and `FinishAccept` are
`accept_offer`, in two steps.

**Granularity.** `TranscriptionService.close` takes the leg out of `_live` and then
awaits the drain of its queue through the speech model, which takes seconds.  It is
the only await here that waits for something, so an Accept and a sweep that close a
leg are two steps each; a second closer finds no leg and does not wait.  All other
handlers are atomic.  While the sweep drains, none of its other passes run.

**Inputs.** A caller speaks into an open leg at any time until the call is over.
In today's build only the demo's audio file does, before matching; `push` is the
entry the telephone will use (`demo.py:346`).  The desks are rung once each; a card
that was rung may be answered at any later time, as `_require_own` allows.
`on_digit` during a recording, `on_hangup` and `answer_reoffer` exist without a
caller in the running build and are left out; so a second offer is made and nobody
collects its answer, and a hang-up is not told to the hold.  A caller who is in
`INTAKE_ACTIVE` or `INTAKE_COMPLETE` cannot hang up: those states are not in
`_LIVE_CALL_STATES`.

**Time** is counted in `INTAKE_SILENCE_TIMEOUT_S` (6 s).  The sweep runs every second,
so `TimePasses` waits for a pass that is due, unless the sweep is draining.

**Bounds.** `Utterances` and `Notes` limit what the caller says; `MaxDuration = 4`
and `ReofferAfter = 2` units stand for 180 s and 90 s: enough for both silences
(`max_silences` is 2, as in `menus.yaml`), a pause between them and the limit to fall
in every order.  Two desks show one card answered late while the other desk rings.
The proofs remove these bounds for safety.

`hold_and_record` checks consent (`HeardWithConsent`), one story between the two
objects (`OutcomeTellsIntake`), one ending (`ResultIsFinal`), the promise of
`CallerService` (`HoldKeepsPromise`), and that every recording ends with its tape
let go, though nobody does anything (`EveryIntakeEnds`).

**Fairness.** The clock, the sweep, the pump and a started Accept go on, and the
speech model answers or fails (its adapter has a deadline): each weakly fair.
Nothing is assumed of caller and agents.  **Deadlock** is not checked: when the call
is over and the clock has run out there is nothing left to do.

## 5. Speech to text

Sound comes in frames and leaves as turns.  `Endpointing` cuts it into segments
(`endpointer.py`; a machine of four states as functions, `Push` and `Flush`).
`SpeechStream` is one leg (`stream.py`), `SttWorker` the engine all legs share
(`adapters/stt/worker.py`, with the child `entrypoints/stt.py`).

| variable | code |
|---|---|
| `ep`, `buffer`, `base` | the endpointer, `_buffer` and the position of its first sample |
| `awaiting`, `queue`, `flight` | segments whose samples are still needed; those not asked about; the batch the model has |
| `closed`, `worker`, `turns`, `lost`, `abandoned` | `_closed`, the consumer task, what was published, `lost_utterances`, claims given up |
| `lock`, `line` | the engine's `asyncio.Lock` and who waits for it |
| `step`, `asked`, `got`, `reqSeq` | per stream: where it is in `transcribe_utterance`, its request and the reply it was given; `_seq` |
| `proc`, `child`, `stdin`, `stdout` | the engine's child, what each child is doing, the pipes |

**Actions.** `Feed` is `feed()` with its trim; `Finish` is `finish()`; `Take`,
`Answered`, `Publish`, `BatchDone`, `BatchFails` and `StopWorker` are the consumer,
from await to await.  In the worker, `Acquire` to `CloseAfterEof` are the awaits of
`transcribe_utterance`, `_request`, `_ensure_started` and `_stop`; `Answer`,
`GetsStuck`, `ComesBack`, `Exits` and `Reaped` are the child and the system it runs in.

**Abstractions.** A sample is its absolute position, so that what a slice holds is what
the model hears; an utterance is its id.  The guards on what was heard are one
refusal (`Publish(FALSE)`).  `warmup()` and `close()` of the engine run alone, at
start and at shutdown, and are left out.

| property of `speech_to_text` | says |
|---|---|
| `HeardInFull` | the samples the model is given are those of the segment, though the buffer is trimmed behind it, and the buffer is bounded |
| `ReplyIsMine` | nobody is given another utterance's words: a late reply dies with its child, since the reply's id is never compared |
| `SpeechEnds` | the drain of a leg that ended ends, and every request ends with a reply or an error, whatever the child does |

**Bounds.** Phrases of 2 frames, pads of 1, segments up to 4, a look back of 6, a
backlog of 8 and a buffer of 11, in the order of the real 20 s, 30 s, 120 s and 150 s
(`StreamAssumption`); 16 frames are longer than the buffer, so that it is
trimmed with segments waiting and with none.  Two streams, four requests and three
children let a request follow a kill, an exit and a start that failed.

**Fairness.** The consumer task runs and the engine answers or raises, which is what
the worker's deadlines give it; in the worker, the event loop runs whoever can go
on, and both deadlines are timers of that loop.  Nothing is assumed of the child,
nor that the audio goes on or the leg ends.  **Deadlock** is off: audio, requests and
children run out.

## 6. What reaches the agent's screen

`TranscriptFeed` is the way of a turn from the transcriber over the event bus to the
desk and to the recorder of turns; `CallSummary` adds the model's passes over
what the delivery holds; `AgentSocket` is the hub, the websocket handler and the
client of `useSocket.ts`.

| variable | code |
|---|---|
| `phase`, `desk`, `offers`, `listening`, `said` | the call, as far as it publishes: who rings or took it, whether the transcriber is open |
| `pending`, `handling` | `_pending` of the bus; per drain, the event in hand and the handlers to come |
| `held`, `owner`, `screen`, `recorded` | `_turns` and `_agent_for_call` of the delivery; what each desk was last sent; the recorder's rows |
| `summary`, `previews`, `task` | `ai_summaries`, `ai_preview_count`, the tasks in flight with the turns they read |
| `session`, `seq`, `outbox`, `cookie` | the agent's channel, its numbers and its outbox |
| `tab`, `link`, `backlog`, `unsent`, `wire`, `last`, `seen` | per tab: its page, its socket, what is still to be replayed or written, what is on its way, `lastSeq`, and what it shows |

**Actions.** `Say`, `Ring`, `Decline`, `AcceptCloses`, `Accept`, `HangUp`, `WrapUpDone`
and `MaxDuration` publish; `Pop`, `NextHandler`, `EventDone` and `HandlerRaises` are
`drain()`, which the pump and a request's background task run and which meet at
every await of a handler.  `Begin`, `RefreshPreview`, `NoAnswer` and `SummaryAnswer`
are `summarise_call`.  `Reset`, `Send`, `Connect`, `Replay` and `SendSnapshot` are the
hub and the handler; the rest are the tab.

| property of `desk_channel` | says |
|---|---|
| `ReadsItsOwn` | only who took the call is sent its words; a tab shows nothing of another session |
| `ViewIsCurrent` | a live tab with nothing on its way shows everything its session has sent, but for what a newer message overtook on this connection, however often the socket drops and however far the outbox has rolled |
| `FinalIsNeverReplaced` | no preview, however late, replaces the final summary |
| `TurnsReachTheDesk` | every turn reaches the taker's screen in order, and the recorder, with no request to carry it |

**Overtaking.** A message is numbered under the hub's lock and written outside it, so sends may
overtake each other (`overtake`), and a tab ignores the older of two messages that arrive in the wrong order.
`overtaken` is a history variable, read by no action: what was written to a connection after
a newer message, since it was opened or last sent a snapshot.  `ViewIsCurrent` says that this is
all that overtaking costs: the newest message is always shown, as nothing newer can have overtaken it,
a slow tab costs the other nothing, and a reconnect's snapshot makes up for it.

**Restriction.** Signing in while another tab of the agent is open (`left_open`) is allowed by the
code and breaks `ViewIsCurrent` (section 11); add it to `Habits` in `DeskChannel.cfg` to see
it.  One thing is simplified: a connection that died is removed at once, where the hub
removes it at the next write that fails.

**Bounds.** Two turns with room for one show that the oldest goes; two offers show a
card refused and one answered; two tabs, sessions and drops with an outbox of two for
three messages show a gap longer than the outbox.

**Fairness.** The pump wakes for ever, a drain with an event in hand goes on, tasks
that were created run and the model's deadline bounds them.  Nothing is assumed of the link or
of the agent.  **Deadlock** is off:
turns, sessions and messages run out.

## 7. What is kept

`StoredCall` is one call with `STORAGE_BACKEND=postgres`.  `CallTape` is its
recording, from the leg of the media gateway to the script that deletes it.

| variable | code |
|---|---|
| `row`, `rows`, `log` | the call's row, its assignments' rows, the disclosure log |
| `held`, `waiting` | the session object in the pool and in `place_call`'s hands; membership in the pool |
| `outcome`, `asked`, `open`, `excluded`, `desk` | `AssignmentService` and presence in memory |
| `identity`, `history`, `original`, `told` | `AttestationService`, and whom an answer has told of an attestation |
| `job` | the handlers in flight, each at one of its awaits |
| `leg`, `ear`, `tape`, `pending`, `flush` | the gateway's leg, its two listeners, `_open`, `_pending`, the upload under way |
| `part`, `object`, `entry` | temporary files, objects and rows |
| `script`, `erasure`, `now`, `keep`, `stops` | the nightly script, which is another process; an erasure; the day; the retention in force |

**Actions.** A handler of `StoredCall` is a job: `Offer`, `Answer`, `Expire`,
`AgentEnds`, `HangUp` and `Attest` start one, and `Decide`, `Store`, `MoveDesk`, `MoveCall`,
`Logged` and `SetIdentity` are its awaits in the order its kind has them.  `Restart`
stops the process at any of them and is `restore()`.  In `CallTape`, `WritePart`,
`RenamePart` and `SaveRow` are one upload; `UploadRetries` and `UploadFails` its errors;
`StartPurge` to `ScriptStops` the script and `erase_call`.

| property of `kept_records` | says |
|---|---|
| `StoredFirst` | a desk rings only for a committed row; no identity changes without the statement in the log |
| `AttestationsSurvive` | after a restart the lock still holds and the withdrawn proposal still comes back |
| `RestartKeepsRefusals` | a restart forgets no refusal and no missed ring |
| `AudioIsKept` | both listeners hear the same packets; what was sealed is pending, uploaded, purged or given up with a line in the log; no row names an object that is not there |
| `KeptAsPromised` | an object goes only on the day promised when it was stored or with its call's erasure, and a row only after its object |

**Bounds.** One agent is enough: two would let a second offer be answered while a late
handler of the first goes on, and the second offer to the same agent shows that too.
Two jobs overlap at every await; one restart comes between any two.  Two recordings show
the purge's limit of one, a failure in a batch and an erasure beside an upload; one stop
of the server or of the script.  `EarlyScreens = FALSE`: no desk
reads its own offer (the poll of `_snapshot`, `agent.py:1620`) while `offer()` still awaits the
save.  With `TRUE` a desk may refuse the offer in that time, and the save that follows writes the
row back to pending: a restart then forgets the refusal (section 11).  **Symmetry**: jobs are
interchangeable, and so are the recorded calls.  **Deadlock** is off, as offers, packets and days run out.

`refused_for_good` is a counterexample in `StoredCall` (section 11).

## 8. The agent's tools

Seven modules beside a call, in `DeskTools` by `tool`.

`KeypadCapture` (`services/capture`): one call's captures in memory (`capture`, `open`) and
in rows (`row`), with the requests of two tabs (`request`), each a load and a commit of
the columns that changed.  `CaptureRestart` is `restore`.  `OnlyWantedDigitsAreKept`: once a
discard is answered nothing brings the digits back, and digits nothing has named are
never in the database.

`PairedScreen` (`services/assist/service.py`): calls, pairings, what was pushed and
answered.  Handlers look a pairing up after their last await, so each is atomic; time
expires pairings and the sweep removes them later.  `ScreenWorks`: a call has one
screen, none outlives the grace after it, and a form the app shows can be sent back.  `CallsAtOnce = 1`: with two
live calls of one customer the app shows one call's screen and answers another's
(section 11).

`ComparisonReasons`: the endpoint's cache, its tasks and attempts, `apply_llm_choice`'s
clearing of them, and the panel that asks again for as long as it is told that more is
coming.  Requests may overtake each other and be lost.  `PollingEnds`: the panel comes to
rest, whatever the models do and across a switch.

`PlanTable` (`services/comparison/service.py` with the router): `Compare` ranks, `PushTable`
puts the best on the customer's screen.  Every market of two plans with two kinds of
figures, one where less is better, each stated or not, against every policy held.
`TableIsFair`: like is compared with like, the order in which the bank lists its plans moves
none of them, no plan scores below one that states the same figures and is better in none,
a loss that no small differences add up to is named with the gain, and the cell marked best is
the best of those shown.  Small differences are those under `min_material_improvement`: they
count in the score and are not named, so a plan a little worse in everything scores below zero
and nothing is said against it.  `Unnoticed` is the most that comes to; it is 0 where `Material`
is 1, as in the run.  The score itself is in whole numbers of `1/Scale`, where the code has
floats; that `TableAssumption` makes each quotient whole is what lets ties be ties.

`AgentsCalls`: what one agent's page says of their calls, as the router derives it from
assignments, with the hand-off of `services/transfer`.  `OneCallAtATime`: the several
derivations agree on one call.  `OptionsAreHonoured`: what the rail offers the server
takes, and some reason is always there; a file of reasons is one that has a reason which
needs no policy.  `ActiveCallIsMine` is violated (`not_my_call`).

`TransferRoster` (`internal_transfer_options`): every floor of two colleagues with two
skills.  `RosterIsTheFloor`: everybody is on it once, the matcher and presence agree on who is
free, who could take the call is listed first, and the system's choice is the best of them.
`HandOverWorks` is both of `AgentsCalls`' and this one.

`ModelSwitch`: the clients of four stages and of the fast model (`runs`, `quick`), what the
panel reports (`choice`, `standing`), their warm-up, and the context summary of one call.
`SetLlm` is `apply_llm_choice`, `SwitchRestart` a boot with any settings.  It takes
`llm_warmup_enabled` as it is by default, and one hosted provider.  `PanelIsHonest`: a stage
is served by the provider the panel names, with a key; the panel says that no model is used
exactly when none is; a text shown was written by the model now in force if it was asked for
since the last change; and what a boot configured is warm before a caller needs it.

**Bounds** of `desk_tools`.  One capture of one digit, two tabs, a restart.  Two
calls, three pairings (a second for one call, and one for the other), two things pushed; a
life of 3 units and a grace of 1.  Two lines, two attempts each, one switch, two picks, two
requests.  Two calls and three offers: a refused caller comes round again.  Two changes of model,
so that one follows another and a boot follows a switch.

**Fairness** concerns `PollingEnds` only: a task that was started is answered or fails at
its deadline, a request is answered or lost, and the panel's timer fires.  **Deadlock**
is off: a table shown or a roster asked for is the end of its behaviour.

## 9. A call on its way

`PlaceCall` composes the stages of `place_call` (`api/routers/demo.py`) with `stage`.
A stage hands on only its result, and what it kept is let go; what the menu knows of
the caller, which schedule the queue has and who else waits are free.  Two parts stand
by themselves: how the bank is read ("reads") and what the app asks before a call
("app").

| module | state and actions | property |
|---|---|---|
| `CoreData` | `CachedCoreData`: entries with the moment their read began, the breaker, `served_stale`; the reads of two snapshots at once.  A read is served, spared by the breaker, or asks the bank, which reads at some moment and answers later, or fails | `AnswersAreDated`: an answer not marked stale was true no longer than a lifetime before it was asked for |
| `KnownCaller` | sessions, intents, the prefetch on `IntentCreated`, and the first half of `place_call` in three awaits: the number's lookup, the intent, the snapshot | `LevelIsEarned`: a call is believed as far as it earned when it came in.  `SnapshotIsTheirs` is violated (`expired_token`) |
| `AppMenu` | every valid `menus.yaml` with options of some contexts; the screens of lines and reasons | `NobodyIsStuck`: whoever is asked for a reason is offered a catch-all |
| `CallerMenu` | `IvrRun`, with promotion and renumbering, silences, wrong keys, the backstop; `resolve` | `PathIsMeant`: the options chosen are those read out beside the keys pressed; `WalkEnds`: the walk ends whatever is pressed, with a queue |
| `QueueHours` | operators only: every schedule of a week of three days with three shapes, every calendar, every moment | `NextOpenIsFirst`: what is told is the first real opening |
| `MatchingTick` | one tick: the rescue past the ceiling, the solver's potentials, columns and augmenting path step by step, the guard and the deferral | `CeilingIsKept`: whoever is past the ceiling and can be served is served before the rest.  `SolverIsBest`: the rest is a pairing of the best total |

`CallerIsKnown` is `AnswersAreDated` and `LevelIsEarned`, `MenusWork` is `PathIsMeant` and
`NobodyIsStuck`.  The reference definitions,
`FirstOpen` and `Pairings`, are plain searches over all moments and over all pairings; they
share nothing with the algorithms they judge.

**Granularity.** The bank's port says that a read may take its time and fail; the
providers in this build (fixtures, null) do neither, so `CoreData` is checked against the
port's contract, for which the cache and the breaker were written.  In `KnownCaller` every
await is a step.  The walk takes a step per key or silence.  The solver takes a step per
column grown, which is what `while True` in `hungarian` does.  Its floats are integers here, so that sums
are exact.

**Bounds.** Two builds with a lifetime of 2, a cooldown of 1 and a threshold of 2 in four
moments: an entry grows old while two reads of it overlap, and the breaker opens and closes.
Two customers, one call, two taps: a token of the other customer, an expired one, two
intents of one.  Two lines of two reasons and limits of two silences and three presses are
each reached, alone and mixed.  `Horizon = 4` days is longer than the week of three, as the
code's 21 is longer than seven, and `MaxTime` lies past the last holiday.  Three callers on two desks, three on
three and two on three have every shape the solver's square padding distinguishes, with
every fit of three levels; `Impossible = -28` is the least that exceeds the 27 which three calls
of fit 3 and urgency 3 can score, so nothing holds for want of a larger one, and `Infinite` is a
model value that `Closer` looks at first, as every distance is less than `inf`; 6 and 4 as ceilings of the two tiers let a caller of either pass it first.

**Fairness** is of `InMenu` only: every wait for a key has a timeout.  **Deadlock** is off:
each part ends.

## 10. Proofs

`OfferHandshakeProofs` proves for every set of callers, agents and ticks, every
skill map, cap and habit, from `ConstantsAssumption` alone:

| theorem | says |
|---|---|
| `TypeCorrect` | `Spec => []TypeOK` |
| `CallerRungOnce` | `Spec => []OneRingPerCaller` |
| `CallerAnsweredOnce` | `Spec => []AnsweredOnce` |
| `PoolCorrect` | `Spec => []PoolIsWhoWaits` |
| `NoDeskRingsForNobody` | `Spec => []NoGhostRing` |
| `PromiseKept` | `Spec => KeepsPromise`: the model implements `CallerService` |

The inductive invariant is `Ring`, the conjunction of typing and the four safety
invariants.  None of the four is inductive alone.  That nobody answers twice
needs that a call being rung has no accepted assignment, which needs that an
open offer means `OFFERED`; that the pool is right needs the same of a timeout;
that no desk rings for nobody needs that the index changes only for the desk
that stops ringing.  Three lemmas carry the argument, one per kind of step: an
open offer is resolved (`OfferResolved`), a call that is not ringing moves on
(`CallMovesOn`), only desks change (`DesksOnly`); `ApplyOffer` and `Declare` are
argued directly.

The refinement also needs `StampsOrdered`: of two after-call stamps one is
earlier, so leaving after-call work closes at most one call, and the step is one
step of the abstract specification.

`HoldIntakeProofs` does the same for the hold, for any number of desks, silences and
utterances and any limits, from `HoldAssumption` alone: `HoldTypeCorrect`,
`ConsentHolds` (`HeardWithConsent`), `OneStory` (`OutcomeTellsIntake`), `NobodyOverheard`,
`FirstEndingStands` (the action property `ResultIsFinal`) and `HoldPromiseKept`.  The
inductive invariant `HInv` adds to the four invariants what they rest on: the hold and the
intake were started by the same key (`Started`), nobody is rung before the first offer was
answered (`OfferedFirst`), an Accept that has begun has closed the transcriber
(`ClosedByAccept`), which is why finishing it cannot leave an open leg behind, and two bounds
(`Counters`).  The refinement needs only typing and `WhoRings`: a desk is named exactly
while the caller is past matching.  Larger handlers are first described field by field, so
that no later step opens a record update.

**The orderly floor.** The same module proves `PresenceNeverLies` (`PresenceMatchesCalls`)
for any number of callers and desks, any skills, caps and intents, with the hypothesis `Orderly`: no habits and one tick at a
time, which section 3 says why the code needs.  A tick decides on the presence of one moment and
is applied later, so `Floor` adds to `Ring` that a decision still to be applied holds
(`DecisionsHold`: the caller is not ringing and has not refused, the desk is free or has left,
and is promised to no other), and one account per desk of presence against calls (`DeskFits`).

**Refusals.** `RefusalsAreHeard` (the action property `RefusalIsHeard`) needs no such hypothesis:
it is for any number of ticks, callers and desks and any habits.  Its invariant, `OneTickHasHeard`,
is that while a desk rings or has refused, some tick is not about to ask it: the one that rang it
has spent that decision (`NewRing`), only a desk that rings can refuse (`NewRefusal`), and a tick
that starts later decides neither for a caller who rings nor for a desk that has refused
(`NewDecisions`).  So N - 1 of N ticks are left that can overlook a refusal, once each.

**Speech to text.** `SpeechToTextProofs`: `RepliesAreTheirs` (`ReplyIsMine`), for any number of
legs, requests and children.  `WorkerFits` is about the two pipes: work is done under the lock,
and what a living child has not read, and what it has written, is the lock holder's own.
`UtterancesAreHeard` (`HeardInFull`), for every order of the constants that `StreamAssumption`
allows: `SpeechFits` says that each sample is at its own place and that each segment was closed
by the time of what has come in.  That no padding is longer than the look back
(`PadAfter < History`) is needed and true of the configuration.

**The agent's screen.** `DeskChannelProofs`: `EveryoneReadsTheirOwn` (`ReadsItsOwn`) without
`left_open`, `ViewStaysCurrent` (`ViewIsCurrent`) likewise and with sends that overtake each other,
and `FinalStays` (`FinalIsNeverReplaced`).  `SocketInv` says of each live tab that every message
it has not shown is on its way to it (`Coming`): unsent, on the wire with nothing newer before it,
or inside a snapshot on the wire; or that it was overtaken.  Writing a late message keeps this because what a send() has
still to write is nowhere else on its way (`WrittenOnce`), so that one which no newer message has
passed arrives above all that the tab knows (`NothingNewer`).
`FeedInv` is that an acceptance on the bus speaks of the one who took the call;
`FinalInv` that there is one final task, and none once its result is there.

**What is kept.** `KeptRecordsProofs`: `RowsTypeCorrect`, `ActedOnIsStored` (`StoredFirst`),
`AttestationsOutliveRestarts` (`AttestationsSurvive`), `RefusalsOutliveRestarts` (the action
property `RestartKeepsRefusals`, for `~EarlyScreens`), `NoAudioIsLost` (`AudioIsKept`) and
`PromisesAreKept` (the action property `KeptAsPromised`), for any number of jobs, offers,
attestations, restarts, calls, days and stops.  `RowsInv` has an account of every copy and job in
flight: what each says of the caller is in the log, and each offer that a job has decided has
that outcome in memory and, from a certain await on, in its row.  `TapeInv` adds the order of
an upload (`ObjectBeforeRow`) and what the script may still delete (`ScriptFits`).

**The agent's tools.** `DeskToolsProofs`, for every size of each module:

| theorem | says | rests on |
|---|---|---|
| `PanelNeverLies` | `PanelIsHonest` | `SwitchFits`: what is reported follows what serves; who was served from the boot is warm or in the list to be warmed |
| `OneScreenAlways`, `ScreenAlwaysWorks` | `OneScreenPerCall`; `ScreenWorks`, if `CallsAtOnce` is at most 1 | `ScreenFits`: an unexpired pairing is the one its call has |
| `DigitsAreKeptOnlyIfWanted` | `OnlyWantedDigitsAreKept` | `CaptureFits`: what each request in flight has read and is about to write, against memory and the row, and after a discard |
| `OneCallAlways` | `OneCallAtATime` | `RecordFits`: all offers but the last are settled, and the desk does what the last is at |
| `OptionsAlwaysHonoured`, `HandOverAlwaysWorks` | `OptionsAreHonoured`; `HandOverWorks`, if `SkillPoints > 0` | `PackFits`, `RosterFits` |
| `TableIsAlwaysFair` | `TableIsFair` | `TableFits`: a table, on the page or pushed, is the one that would be built now |

Two of these rest on arithmetic over sets of any size.  `RanksAre` is that in a finite set with
a strict order every place from 1 to its size is the rank of one member; so a sorted list is
written by rank (`Placed`, `Ranked`), which for keys without ties is what the code's `sort`
gives, and which the prover can see into, where it has no definition of `SortSeq`.  The other is
sums, which the solver needs too and which have a module of their own.

**Sums.** `FiniteSums` is about the library's `SumFunction`, for any finite set: a sum exists and
is a number (`SumExists`, `SumIs`), it is the same in whatever order its terms are taken
(`SumOfSubsets`), it grows with its terms (`SumMonotone`), two of them add (`SumAdd`), zeros may be
left out (`SumOfPart`), its terms may be renamed by a bijection (`SumRenamed`), and equal terms are
a product (`SumOfConstant`).  They are inductions over the size of the set made by hand, from the
least size at which the claim fails, since the induction theorems of the library cannot be used.

**A call on its way.** `PlaceCallProofs`: `AnswersAreAlwaysDated` and `LevelsAreEarned`, together
`CallersAreKnown` (`CallerIsKnown`); `MenusAlwaysWork` (`MenusWork`); `CallersAreToldTheFirst`
(`NextOpenIsFirst`) with `WalkFindsFirst`, that the code's walk over the days of its horizon
finds the first opening in it, for all schedules, calendars and moments; `CeilingIsAlwaysKept`
(`CeilingIsKept`), for any floor and whatever the solver makes of the rest.  The invariants:
`ReadsFit` (a value is no older than the start of its read), `CallersFit` (a number still
being looked up has earned nothing), `AppFits`, `WalkFits` (the path is keys that were read
out, and the walk is where they lead), `AnsweredByHours`, `TickFits` (who was rescued comes before
who was not, and a rescued call keeps its desk in the decisions).

`SolverIsAlwaysBest` (`SolverIsBest`) is about the assignment solver, for any numbers of calls and
desks and any fits.  `SolverFits` says what its arrays mean at each of its steps.  Between rows
(`Matched`), every row so far has a column of its own; no pair costs less than the prices of its
row and its column, `u[i] + v[j]` (`Feasible`); and the pairs that `p` makes cost no more
(`Tight`).  While a path grows (`Growing`), `p[0]` stands for the new row; `minv` is what a column
costs beyond its prices, to the nearest of the rows reached, and `way` is where that row sits
(`Distances`); from every column reached `way` leads to 0 over pairs that cost no more than
their prices, and a rank that falls along it shows that it gets there (`Tree`).  The first column
differs, as the new row's own price may still be too high: one step puts it right, since
prices move by the least excess, so `Closer` has no finite stand-in for infinity.  A path always finds
a free column, as there are more columns, with 0, than rows (`ColumnIsLeft`).  While it is walked
back (`WayBack`), one column has no row of its own, and the columns with a lower rank still lead
to 0.  TLC checked `SolverFits` on the run before it was proved.

Then the matching is read.  Every matching costs at least the sum of the prices, and the last one
exactly that (`PricesAreLeast`); any pairing of calls and desks can be completed to a matching
(`ChoiceCompleted`), which costs what the pairing is worth less than a constant, or still less
(`PairingIsPaid`), and the pairing read off the last matching exactly so (`SolutionIs`).  So no
pairing is worth more (`SolutionIsWorthMost`); and as a call served is worth more than all the
scores together, first the number served and then the total are the greatest.

**Assumptions.** Each theorem has the named `ASSUME`s of the modules it is about, and the
hypotheses given above; no others.  The bounds that TLC needs (offers, captures, restarts, requests, days)
are in them as natural numbers only.  What is assumed of data is what the loaders demand
(`ValidMenus`, `ValidWindows`, `IsFloor`, `ValidWeights`, that lists in the configuration are
finite), that `IMPOSSIBLE` is what its comment says, "large enough to never be chosen"
(`solver.py:24`): greater than all the calls of a tick can score together, which for -1e9 and
multipliers of 3 they would need hundreds of millions of calls to do; or that a mark of the
model is no name (`Nobody` is no stream, `FromPolicy` no insurer).

Theorems without a property of a run are types, `NobodyOverheard`, `OneScreenAlways`,
`OptionsAlwaysHonoured`, `WalkFindsFirst` and the two parts of `CallersAreKnown`: what they say is part of a property
or of the invariants the others need.

**Only model-checked** is what is out of the prover's reach: the liveness properties
`EveryRingEnds`, `FreeDeskIsRung`, `GoesRoundAgain`, `EveryIntakeEnds`, `SpeechEnds`,
`TurnsReachTheDesk`, `PollingEnds` and `WalkEnds`.  Every invariant and every action property of a
passing run is a theorem.  The three runs of section 11 that end in a counterexample are TLC's too.

## 11. Disagreements between the code and what is said of it

Three are runs that end in a counterexample, quoted under `findings` in
`PROJECT.json`:

* `refused_for_good` (`StoredCall`, `RefusedIsFoundAgain`): with Postgres the pool keeps
  its own copy of a call, which stays `OFFERED` after the offer was refused on another
  copy; no tick offers that caller again before a restart.
* `not_my_call` (`AgentsCalls`, `ActiveCallIsMine`): an agent who refused a caller is shown
  that caller's live call as their own once a colleague has answered it.
* `expired_token` (`KnownCaller`, `SnapshotIsTheirs`): a call with an expired token and
  another customer's number gets the snapshot prefetched for the token's owner.

The rest was met while modelling.  The models do what the code does; where a property
would be violated by it, a constant keeps the case out and is named here.

**Handshake.**
* `release_offer`, `mark_not_responding` and `stop_offering` write AVAILABLE or NOT_RESPONDING
  over a desk that has signed out meanwhile (`presence.py:436`; `agent.py:155-171`).
  Habit `leave_ringing`.
* A desk whose heartbeat lapses in after-call work is signed out and its call never reaches the
  backlog (`presence.py:550` beside `521-522`).
* A second End overwrites `acw_started_at` before it is refused (`assignment.py:354`,
  `349`): after-call work of negative length.  Habit `end_twice`.
* A signed-out colleague counts as capable, so a round that everybody present refused is
  not exhausted (`matching/engine.py:188`; `76`, `docs/DECISIONS.md:3549`).  `GoesRoundAgain` is about
  desks that are there.
* `apply` writes what a tick decided without looking at presence again
  (`dispatch.py:271`; `scoring.py:106-112`): it rings a desk that has gone to lunch, one that has
  just refused, or one for two callers.  One tick in `orderly_floor`; `RefusalIsHeard` bounds the
  second for any number.
* Two ticks that both found a round exhausted start two new ones, and the second forgets a refusal
  given in between (`dispatch.py:312-339`): the round ends early.
* Deferral leaves a free agent idle for a caller it could serve, where the decision says it "never
  leaves an agent idle", and the one it waits for is free now, where the comment says "*about to*
  free up" (`engine.py:372-382`; `docs/DECISIONS.md:251-252`).  `defer_max_hold_s` is read by nothing.
* The hot-spot guard reports a fallback and gives the call to the same desk all the same; the
  explanation says such agents "stop being preferred" (`docs/explanations/P2a_matching.md:124-125`).
* The solver serves as many as it can before it looks at the total, which D49's measure of it
  against the greedy one leaves out.

**Hold.**
* An Accept whose offer ends during its drain has already cut the recording, and nobody comes
  (`agent.py:264`; `hold.py:304-305`).
* At the maximum duration what is still in the transcriber is dropped (`transcription/service.py:174`;
  `intake/service.py:364`, `agent.py:256`).
* The second silence is not reported if the caller stays silent (`service.py:182`;
  `intake/service.py:355`).

**Speech and screen.**
* A claim given up for lagging takes with it others still within the backlog
  (`stream.py:456-457`), and `lost_utterances` may then count one twice.
* The final summary may miss turns that are still queued on the bus (`deps.py:1104-1105`).
* A message sent outside the lock may overtake an earlier one, which the tab then ignores as
  passed (`realtime.py:131`; `ViewIsCurrent` says that this is all it loses); signing in again while a tab is open leaves that tab with
  old numbers.  Habit `left_open`.
* After a call's end a late turn makes the delivery keep its transcript again, for good.

**What is kept.**
* The recorder's sink may append to a list that was sealed while the leg is still open, and it
  hears only while the transcriber is there, though `demo.py` says that neither needs the other.
* An offer is in memory while its row is being saved, so that a desk that polls may answer it
  before it is stored (`agent.py:1620`), though it is meant to be "durable *before* the desk
  rings" (`assignment.py:260-261`); a refusal that comes so early is written over by the save,
  and a restart forgets it.  `EarlyScreens = FALSE`.
* An erasure does not see a recording sealed and not yet uploaded, which is then uploaded
  (`recording/service.py:313`: "Everything for one call, now"); a row that fails to save after its
  object was put leaves an object that no purge finds (`252-273`).
* After a restart a withdrawn proposal is rebuilt from what is stored, so a customer known by
  an app token is proposed without it; a whole-row save by `set_identity` may write an old
  state over a call's.

**Tools.**
* Two tabs: a write begun before a discard may commit after it and bring the digits back; after
  a restart a discard or a label writes a count of 0.
* A birthday that matched keeps its digits, where for "secret-ish challenges the system stores the
  outcome only" (`docs/DECISIONS.md:638-640`).
* A pairing lasts 1800 s and a call may last longer; an app that signs in on an expired
  pairing not yet swept gets an error and one that is pushed to is served.
* With two live calls of a customer the app shows the newest call's screen and answers the
  oldest's.  `CallsAtOnce = 1`.
* Sentences of the old model may be cached after a switch (`deps.py:702-704`), and its task clears
  the flag of the new one's; the same holds of a context summary under way.
* A hand-off stays on record if the end of the call is then refused; a line may have reasons and
  no company; a policy of a company whose name is blank is offered and refused.
* The internal roster's choice is "the list the system would actually choose from"
  (`agent.py:661-663`), but leaves out this caller's refusals.
* "It names what is **worse** as well as what is better" (`comparison/service.py:301`): not of a plan
  whose losses are each under `min_material_improvement`, though they add up in its score.
* A plan that leaves out a figure in which it would lose ranks above one that states it; the table
  a guest sees is still ordered by the policy held.
* After a switch of the preview alone the panel names the final stage's model for it
  (`deps.py:745`); a preview that has no fast model is reported as none though it calls the hosted
  one, `PanelIsHonest` excepts it; a stage switched after a boot without models is never warmed; a
  provider configured without a key cannot be chosen again once left (`deps.py:325`).
* The rule-based provider does write summaries (`deps.py:287-288` says none), and a missing
  Anthropic key stops the boot (`config.py:396-399` says it is "not fatal").
* Two offers of one call may both ask for the context summary ("computed once per call").

**On its way.**
* `served_stale` is one flag for everybody, cleared by any later read, so a snapshot with an old
  field may be unmarked (`caching.py:141`; `docs/ARCHITECTURE.md:1071`).  `AnswersAreDated` is
  therefore about each read, not about the snapshot's mark.
* The breaker lets every call through when it closes, where its comment says one, and dates an
  outage from the start of the call that failed: a bank that hangs longer than the cooldown is
  never left alone.  A bank that is down is recorded as "no match" for the number.
* A wrong key does not end a run of silences, though `menus.yaml` says it "proves somebody is
  there".  A walk that hung up is still queued.
* The loader looks for a reserved key only among the keys as written, so ten options renumbered
  have one "10"; nor does it check that the intents of a reason menu belong to its line, that the
  fallback menu exists, or that skill, queue and required skill agree.
* An expired token still chooses whose snapshot personalises the menu, and starting a call from
  an intent publishes that intent again, so that it is prefetched twice.

## 12. Not modelled

`PROJECT.json` gives the reason for each part.  In short:

* pure renderings and sums over data that is given: the brief, after-call statistics, prompts,
  what a summary says;
* clients of external services: language and speech models, S3, the bank, SQL; they are what the
  modules that call them let them do;
* reading and formatting of configuration.  What validation demands of it is an `ASSUME` or
  an initial predicate of the module that reads it;
* code without a caller in the running build: `on_digit` and `on_hangup` of the hold,
  `answer_reoffer`, verification in the IVR, `live_for`, `forget` of the transfers,
  `offerable_insurers`, `walk_menu` and `validate_roster` outside tests;
* user interfaces except the two clients whose retries and numbers the server relies on
  (`useSocket.ts`, the comparison panel of `App.tsx`); scripts except the purge; fixtures;
* the sweep of presence writing back what it read before an await, and one pass of the sweep
  that raises: both are in the plan.
