# Verification of agui-on-acp

TLA+ models of the bridge in `src/agui_on_acp`, the TLC configurations that
check them on small instances, and proofs, checked by TLAPS, of what holds for
every instance. The models are translated from the code; every module's
definitions and the source lines they stand for are listed in `PROJECT.json`
under `map`.

The bridge is an asyncio program: an HTTP server (AG-UI clients) that spawns
one ACP agent subprocess per session. Everything runs in one event loop, so
the code between two `await`s is atomic and an **action of a model is what
runs between two awaits**. What is hard in this code is not computation, it is
what the tables, the attached queue and the futures look like after an await
in which somebody else ran.

## Inventory

| Component | State | Operations | Hard behaviour | What makes it correct |
|---|---|---|---|---|
| **Run lifecycle** `bridge/acp_to_agui.py`, `sessions/manager.py` (`start_run`, `resume_run`, `_run_prompt`, `cancel_run`) | `_run_id`, `_queue` (the sink), pending permission and elicitation futures, their TTL timers, `_pending_notifications`, `event_queues`, the `_run_prompt` tasks | start, resume, refuse, suspend, finish, fail, turn_end, TTL expiry, disconnect, ext_notification | one shared sink for all runs; a turn spans several runs; four ways to end a run; TTL, resume and disconnect race for one future | one terminal event per stream, never by a later turn; a parked request is answered exactly once; every stream of a well-behaved client ends |
| **Run endpoint** `agui_endpoint.py` | none of its own | fresh run, resume, state snapshot, options | `await`s between `start_run` and the snapshot | client and record agree once the snapshot is out |
| **SSE encoder** `agui/sse.py` | none | drain up to a terminal event, keepalive, cancel | client leaves while the turn goes on | a stream ends at its first terminal event |
| **Text, reasoning and tool-call framing** `bridge/acp_to_agui.py` | open message and reasoning ids, `_open_tool_calls`, `_tool_args_emitted`, `_pending_tool_starts` | one `_process_*` handler per `session/update` kind, `finish_run`, `error_run`, `_suspend_run`, `attach_resume_queue` | frames across suspension, completion followed by late updates, replay through the same code | START/CONTENT/END nest properly in every stream |
| **Replay and snapshot accumulator** `bridge/acp_to_agui.py`, `bridge/snapshot_accumulator.py` | `_replay_mode`, the accumulated messages, open messages, tool-call locations, state | `start_replay`, `end_replay`, `fold`, `add_user_text` | the same handlers serve live and replay; user chunks only the replay | the snapshot equals what a live client would have assembled |
| **Session manager** `sessions/manager.py`, `sessions_endpoint.py` | `_sessions`, capability cache and its lock | create, connect, attach for prompt, delete, list, stop, sweep | each looks at the table, awaits a spawn or a kill, and writes the table | the table names live subprocesses; none is orphaned; a deleted session stays deleted |
| **Session store** `sessions/store.py` | one JSON record per session, written to a temporary file and renamed | put, get, remove | crash between the two steps | acknowledged sessions survive a restart |
| **Session options and baseline** `sessions/manager.py`, `bridge/acp_to_agui.py`, `agui_endpoint.py` | `current_mode_id`, `config_options`; `_plans`, `_usage`, `_session_info` | diff client state, apply, write back, refresh from agent, snapshot, delta, replay | one of several `set_*` fails; the agent changes its mind between runs, during an apply, or while there is no queue | the record is what is in force and the client is told of it; what differs is sent, nothing else is |
| **Agent runner** `agent/runner.py` | the child process | spawn, kill (tree) | kill awaits termination | killed processes are dead |
| **ACP protocol wrapper** `agent/acp_protocol.py` | connection | one method per RPC | none of its own | its calls are the awaits of the other parts |
| **Event types** `agui/events.py` | none | constructors, serialisation | none | layout |
| **Configuration** `config.py` | environment | lookups, `is_cwd_allowed` | none | pure |
| **Application lifespan** `main.py` | reaper task | start, sweep every minute, shutdown | reaper beside requests | idle sessions are reaped, shutdown kills all |
| **CLI** `__main__.py`, **terminal/file-system stubs**, **Windows command shim** | none | | sequential or constant | |

Interactions: an endpoint calls the session manager; the manager owns the
bridge of each `ActiveSession` and calls its run operations; the agent calls
the bridge back (`session_update`, `request_permission`, `create_elicitation`,
`ext_notification`) in the same loop; the bridge puts events on the attached
run's queue, which the SSE encoder of that run's HTTP response drains. The
reaper runs beside all of them. The concrete ways this can go wrong are listed
in `PROJECT.json` under `hazards`, each at its line, with the properties that
would show it.


## Plan

In the order of importance; each module is checked with TLC before anything is
proved about it.

1. **Done.** `RunLifecycle`, its abstract specification `RunStreams`, and
   `RunLifecycleProofs`: the heart of the bridge, where all the concurrency of
   a session meets.
2. **Done.** `SessionManager` and `SessionManagerProofs`: the table of
   sessions under concurrent requests, the reaper, crashes and restarts.
3. **Done.** `Framing` over `Transcript`: the translation of updates, live and
   in a replay, and the agreement of the two; with `FramingLemmas`,
   `FramingProofs`, `SnapshotProofs`, `CallFramingProofs` and
   `ReplayProofs`.
4. **Done.** `SessionState` and `SessionStateProofs`: what agent, bridge and
   client hold of mode, options, plans, usage and session info; the diff of the
   client's `state`, its application one `set_*` at a time with refusals, the
   callbacks, updates dropped without a queue, and the `state` half of the
   accumulator.
5. What is left without a model is pure (JSON-pointer escaping,
   `is_cwd_allowed`, `resolve_command`): a reference definition of each would
   say in TLA+ what one line of Python says, and nothing interleaves in it.

Every state invariant and every safety property of steps that a passing run
checks is a theorem.

## The models

### RunLifecycle

One live session. A run has the name of the HTTP request that made it, and so
has its event queue; `stream[r]` is everything ever put on that queue and an
event is only its kind and whom it is about.

| Model | Code |
|---|---|
| `runId`, `queue`, `buffer` | `_run_id`, `_queue`, `_pending_notifications` |
| `slot`, `future`, `timer` | the `_permission_*` and `_elicitation_*` tables, each request's future and TTL handle |
| `stream`, `http` | `event_queues`; where the POST of the run is (opening, streaming, refused, done, gone) |
| `prompt`, `asker` | the `_run_prompt` task; which turn made a request |
| `turns`, `beside` | history: which turn a run was opened to show, which were under way at that moment |
| `StartRun`, `OpenStream` | `start_run` up to its `return`; what the endpoint does after the awaits of `apply_session_options` |
| `ResumeRun`, `RefuseResume` | `resume_run`: the pending ids looked up, the queue attached, the futures settled; or the error answer |
| `SendPrompt`, `PromptReturns`, `PromptFails`, `TurnEnd` | `_run_prompt` before its await, after it, on an exception; an agent's `turn_end` |
| `Request`, `Expire` | `request_permission` and `create_elicitation` up to the await of the future; the TTL callback |
| `SessionUpdate`, `ExtNotification` | a `session/update`; a vendor notification, shown or buffered |
| `EndStream`, `Disconnect` | the drain meets a terminal event; the client leaves and `cancel_run` runs |

`RunStreams` is what a client may count on: a run is attached at most once,
closed at most once, and only while it is attached. `ImplementsStreams` maps a
run's phase out of `stream`, `runId` and `http` and states the refinement.

Abstracted: the permission and the elicitation tables are one (their ids are
disjoint and they are updated in step); resume entries share one status; the
agent answers a prompt only after its own requests were answered and asks again
under an id only after the first was; `session/cancel` is a hint that changes
nothing of the bridge; keepalives are out; the death of the agent in mid-turn
is `PromptFails`.

What a client can see of all this is its streams. With `Overlap = FALSE` it
posts only when it watches none (`MayPost`); that may be while an earlier
`session/prompt` has not returned, because a `turn_end`, an interrupt or the
client itself ended the stream before.

### SessionManager

A request spawns at most one subprocess for a session, so a subprocess and its
`ActiveSession` have the name of the request. `table` is `_sessions`, `pc[t]`
the await at which request `t` is, `proc[t]` the state of what it spawned,
`file` the store on disk, `caps` and `lock` the capability cache and its lock,
`doomed` and `reaped` the progress of a sweep. Every operation of the manager is
cut at its awaits: `connect` for instance is `ConnectPop` (look, pop), `Killed`,
`AtSpawn`/`Spawn`, `Initialize`, then `Register` or `OpenRefused`, and
`StreamEnds` when the client leaves. The put of a record is `Write` and `Rename`.
`Restart` is a crash or a shutdown at any moment: all memory and all
subprocesses go, the disk and the agent's records stay.

Abstracted: what runs do inside a session (only whether one was prompted and
whether an interrupt is parked); the file system does not fail; every cwd is
allowed; the agent advertises capabilities, which ones is open. With
`Overlap = FALSE` a client has one request at a time for a session - the reaper
still runs beside it.

### Transcript and Framing

`Transcript` is the accumulator: a fold from event records to a list of
messages. `Framing` has the bridge as one record and each handler as a function
on it; `Emit` either appends to the wire, folds into the accumulator or drops,
as `_emit` does. Live, `SessionUpdate` is applied by the action `Update`;
`Replay(history, rank)` is `start_replay`, every update of the history and
`end_replay`. Ids of chunks are their places in the agent's history, so order
and loss are visible. `rank` is the order in which Python enumerates the set of
open calls, which is any order (one for a whole replay). A loop of the code is a
recursive function over the passes it makes: `flushed[n]` is the bridge after
`n` queued calls of `FlushPending`, `ended[n]` after `n` calls of `EndCalls`,
`loaded[n]` after `n` updates of `Replay`. An event that ends or starts a run,
and a record of the history, carry the turn they belong to.

Abstracted: what a call is named and what it returns, the ids of messages once
they are closed (a fresh assistant message made for a call reuses the id of an
earlier message in the code; nothing here looks at those ids), and the two-level
`REASONING_*` bracket is one. Turns of one session follow each other and the
agent keeps to the protocol (a call starts once, is updated only in its own turn
until completed, nothing follows `turn_end`). While an interrupt waits the agent
may go on with other calls: those updates are dropped, and the properties say
`attached` of those that were not.

### SessionState

One item - the mode, a config option (the model is one), a plan, the usage, the
session info - has a value at three places: in force at the `agent`, in the
bridge's record (`known`), and as the client was `told`. News travel from the
agent over `wire` to the bridge and on to the client; the wishes of a request
travel back.

| Model | Code |
|---|---|
| `known` | `ActiveSession.current_mode_id`, `config_options`; the bridge's `_plans`, `_usage`, `_session_info` |
| `told`, `following` | the client's document after the `STATE_SNAPSHOT` and the events since; whether it had one |
| `wire` | messages of the agent in order: answers to `set_*`, and `session/update`s |
| `queue`, `turn` | `bridge._queue` (none, open, ended, replay); the prompt (none, running, parked at an interrupt) |
| `pc`, `kind`, `asked`, `todo`, `call`, `applied` | `_apply_session_options`: where it is, in which request, what is still to be sent, what is awaited, `_AppliedSessionOptions` |
| `acc` | the accumulator's `_state` in a replay |
| `silent`, `missed` | history: recorded without an event to the client; news the bridge did not record |
| `Init` | `create_session` after `session/new`, whose response may leave out modes or options, with the first create-time `set_*` |
| `StartRun`, `ResumeRun` | the endpoint's two paths up to the first await: `_diff_session_options`, the first `set_*`, or at once the snapshot |
| `HearReply`, `WriteBack` | a `set_*` returns or raises and the next is sent; after the last one the record is refreshed and a fresh run emits its snapshot |
| `HearUpdate` | `session_update` for the state kinds and the callbacks of `_attach_state_callbacks` |
| `TurnEnds`, `Suspend`, `Expire` | what `RunLifecycle` does in detail, as far as it concerns `_queue` |
| `StartReplay`, `ReplayFact`, `ReplayOptions`, `EndReplay` | `connect_session`: deltas folded into the accumulator, the response merged over them |
| `Reattach` | `attach_for_prompt`: nothing but what the response reports |
| `AgentAccepts`, `AgentRefuses`, `OwnChange` | the agent |

Abstracted: a client has one request at a time and reads its streams to the end;
the agent announces each change of what it advertises, and lists all advertised
options when it does; `"default"` and empty values are no wish (they make no
`set_*` in the code either); the client learns the mode by a `CUSTOM` event and
the rest by deltas, here they are alike; that the list of options is shared by
reference with events not yet serialised is left out, and so is the name of the
field in which the agent SDK carries the mode.

## What the runs check

`cfg` files name the constants; the definitions quoted are in the module of the
same part, each under a comment saying what it means. Deadlock is not checked
because clients, by the bounds, run out of requests; liveness properties say
what must not get stuck. Symmetry is used only where no liveness is checked.

| Run | Instance | Shows |
|---|---|---|
| `runs_any_client` | 2 runs, 2 requests under different ids, 1 bufferable notification, client unrestricted; 219 thousand states | `TypeOK`, `OneTerminal`, `SinkIsLive`, `ParkedReleasable`, `NoteOnce`; `AnswerIsFinal`, `EndedByTurnUnderWay`, `ImplementsStreams` |
| `runs_serial` | 2 runs, 2 requests under different ids (both can be parked at once), 1 update, client that posts only when it watches no stream, fair; 80 thousand states | `WatchedIsSink`, `SnapshotIsOwn`; every stream ends (`StreamEnds`), every parked request is answered (`ParkedAnswered`) |
| `sessions_any_client` | 3 overlapping requests, 2 sessions, 2 restarts; 74 thousand states | `TypeOK`, `TableIsLive`, `AckedIsRecorded`, `ProbesAreNeeded` |
| `sessions_serial` | 3 requests, 1 session, fair; 28 thousand states | `NoOrphan`, `DeletedIsGone`; `RequestsEnd`, `IdleReaped` |
| `framing` | 2 calls, 2 turns, 4 updates (1 after the first turn), 1 interrupt; 552 thousand states | `TypeOK`, `FramesNest`, `ClientInOrder`, `CallsFramed`, `SnapshotInOrder`, `CallsInSnapshot`, `LiveMatchesReplay` |
| `options` | 1 mode, 1 option, 1 plan, 2 values, 2 requests or reconnects, 1 change by the agent, fair; 506 thousand states | `TypeOK`, `RecordIsCurrent`, `ClientIsTold`; `CallsAreTheDifference`; `EachIsCalled`, `RequestAnswered` |

Why these bounds: the hazards involve two of a kind - two runs (one stale, one
current), two parked requests, two requests for a session and a third that sees
the result, two restarts (one to lose memory, one to lose what the first
recovered), two calls open at once. In `framing` four updates are a call with
its late input and its completion and text around it; the second turn needs one
update to show what the first left behind. In `options` the hazards take one
apply that overlaps one change by the agent, and a second request that meets
what the first left; the safety properties were run once with two changes by the
agent (3.7 million states), and with an option that is not advertised and a
scalar in one request (1.9 million), with the same result.

More instances that take longer were run once with the same result: `runs_serial`
with a third request under the id of the first, so that a late expiry can meet a
later request (334 thousand states), its invariants with three runs - a turn, its
resume and the next turn - and two requests under one id (2.5 million), and
`StreamEnds` with three runs and one request (268 thousand); `sessions_serial`
with two sessions, so that a scan has several ids to kill (92 thousand), and
`sessions_any_client` with four requests (1.3 million).

Each property of a passing run has a mutant in `PROJECT.json`: a definition
replaced by the neighbour that stands before it in the module (a dropped reset,
a skipped check, a swapped order) makes TLC report that property.

### Disagreements with the documentation

Six runs expect a violation: the code does something its documentation says
it does not. `findings` quotes the lines.

| Run | What happens |
|---|---|
| `runs_unsurfaced` | the second of two parallel permission requests is parked but no client is told of it; only its TTL answers it |
| `runs_foreign_end` | the return of an earlier prompt finishes the run of a later one, also for a client that posts only when it watches no stream: a `turn_end`, an expired interrupt or its own leaving ended the stream of a turn that goes on |
| `sessions_orphan` | a subprocess that fell out of the table is never reaped |
| `sessions_sweep` | a sweep that is killing one session destroys another that parked an interrupt meanwhile |
| `framing_unmarked` | without `turn_end` in the replayed history, the agent's text of a turn is appended to its message of the turn before, ahead of the user's prompt |
| `options_stale` | a mode or option the agent changes before the first run, or while an interrupt is pending, never reaches the bridge's record |

Two smaller ones have no run. `finish_run` leaves `_queue` attached, so a vendor
notification between two runs is put behind the terminal event of the ended run
instead of into the buffer. And a `STATE_DELTA` may precede the run's
`STATE_SNAPSHOT`, which then replaces all the client has, so that nothing is
lost by it.

### Fairness

- `RunLifecycle`: weak fairness of the endpoint after its awaits, of the drain,
  of a prompt being sent and of the TTL callback - all of it is scheduled on
  the loop and nothing blocks it - and of the agent's answer to a prompt that
  waits for nothing of ours, an assumption about the agent. Nothing is assumed
  of clients: they need not resume, and may leave.
- `SessionManager`: weak fairness of every request's own steps (each awaits an
  RPC, a kill or a lock that is released) and of the reaper's loop, which
  `main.py` runs for the life of the program.
- `SessionState`: weak fairness of the three steps that are callbacks of the
  loop (an answer is heard, an update is heard, the write-back), of the TTL
  callback, and, about the agent, that a turn which waits for nobody ends and
  that a `set_*` is answered - but only while there is no turn, for an agent may
  be too busy with one to read requests.
- `Framing` has safety properties only.

## What is proved

For every value of the constants: any number of runs, requests, ids, clients,
sessions and restarts. The only assumptions are the `ConstantsAssumption` of
each module (the sorts of the constants and that `Nil` is none of the ids),
which TLC evaluates on every run; the four theorems about clients
that wait also assume `Overlap = FALSE` - for `RunLifecycle` that the client
posts only when it watches no stream, for `SessionManager` that it has one
request at a time for a session - which is what `runs_serial` and
`sessions_serial` check.

`RunLifecycleProofs`:

- `TypeCorrect`: `TypeOK` is inductive on its own.
- `EndsOnce`, `SinkStaysLive`: that a stream ends once is not inductive, for a
  stream that already ended could be the current one. `StreamInv` joins it to
  `SinkIsLive` (the run named by `runId` has no terminal event, its queue is the
  sink, a stream starts with RUN_STARTED) and adds that a run not yet asked for
  has an empty queue and that the sink's queue is not empty.
- `ParkedStaysReleasable`, `AnswersAreFinal`: `ParkInv` ties the tables
  together: `ParkedReleasable` (a pending future is found in its slot, with its
  timer armed) and its converse for timers, that an armed one is for a pending
  future.
- `Refinement`: `Spec => ImplementsStreams`; each step is a step of
  `RunStreams` or leaves every run's phase.
- `NotesShownOnce`: `NoteInv` is `NoteOnce` by places instead of cardinalities
  (no two places of streams and buffer hold one notification), and adds that what
  stands anywhere was sent, so that the one sent now is new.
- `EndedOnlyByTurnsUnderWay`: whose step ends a stream, for any client. That it
  is always the turn the stream was opened to show is false (`runs_foreign_end`),
  and not only for clients that overlap their requests. What does hold is that
  the turn was under way when the stream was opened, so that no later turn ends
  it, and that where no other was under way only its own does. `UnderWayInv` says
  it of the attached run, the only one that can be ended: every turn in flight is
  among its `turns` and `beside`, since no turn starts without taking the sink.
- `SerialClientStaysAttached`: with `Overlap = FALSE` a stream that is watched
  and not ended is the one the bridge is attached to, so that no update goes
  elsewhere or is dropped.
- `SerialClientsSeeOwnSnapshot`: with `Overlap = FALSE` the baseline, which is
  put after some awaits on whatever queue is attached by then, is never on
  another run's stream. `BaselineInv` adds that between a run's request and its
  baseline no other run takes the sink (a suspension may leave none).

`SessionManagerProofs`:

- `TypeCorrect`, through `Typed` and `SidInv` (a request that names a session
  has one).
- `TableStaysLive`: whatever overlaps, the table names only subprocesses that
  run and that nobody is about to kill. The inductive `LiveInv` adds that no two
  sessions share a subprocess, that a registered subprocess and the victim of a
  kill were each spawned by a request past its registration, and that one still
  being initialised is up - so that what is popped for a kill is never
  registered again.
- `AckedStaysRecorded`: between the agent's answer to `session/new` and the
  acknowledgement an id is in the hands of one request, which writes the record
  first, and a record is removed only by a request that was asked to (`AckedInv`).
- `ProbesWhenNeeded`: who probes holds the lock (`ProbeInv`).
- `SerialClientsLeaveNoOrphan`, `SerialClientsKeepDeletedGone`: with
  `Overlap = FALSE`. `ExclInv`: a session has one busy request at most; `ColdInv`:
  a request that found its session not live still finds it so when it registers
  a subprocess, which therefore replaces none; `DeletedInv`: of the requests for
  a deleted session only the delete itself is past reading the record. All hold
  beside the reaper, which is not the client's to hold back.

`SessionStateProofs`:

- `TypeCorrect`: an answer has to be known to be awaited before it can be
  recorded, so `Typed` joins `TypeOK` to `AnswerInv` (at most one answer is on
  the wire, only in `answered`, and it is about no item).
- `RecordStaysCurrent`: `RecordIsCurrent` speaks only of quiet moments and is far
  from inductive. `CurrentInv` says where the current value of an item that is
  not missed is when it is not in the record: in the last update about it on the
  wire (`LastInv`), in the apply, as accepted and still to be written back
  (`AcceptedInv`), or already in the record (`RecordInv`); with `ApplyInv` for
  what an apply can hold at each `pc`, and `ReplayInv` for a replay.
- `DifferencesAreCalled` follows from the same invariant: with nothing about a
  setting under way the diff against the record is the diff against the agent.
- `ClientStaysTold`: `ToldInv` adds what the accumulator has to agree on with the
  record during a replay, which the final snapshot is made of.

`FramingProofs`, `SnapshotProofs`, `CallFramingProofs` and `ReplayProofs`
are about the bridge as one record which handlers map to the next one. They rest
on the lemmas of `FramingLemmas`:

- What a loop needs. The library's induction theorems take an operator as a
  parameter, which the provers cannot instantiate; here a set of numbers stands
  for the predicate. `NatSetInduction` and `IntervalInduction` follow from the
  well-foundedness of `<` on `Nat`, and `Iteration` says that a recursive
  function over `0..n` exists and what its values are.
- The types of the handlers, and what each one does as a relation of the bridge
  before and after, named for it (`ClosesMessage`, `Opens`, `Shows`, ...), so
  that a proof about an invariant looks at events and never at nested records.
  `CallsStayIn` carries a set of bridges through both loops once it is closed
  under their bodies.

The theorems:

- `FramingTypeCorrect`: `TypeInv` types the whole bridge and the history and says
  what stream the bridge has in each phase (`SinkFits`). The rest of `TypeOK` -
  a call waits at most once, and never while it is open - is no type: it comes
  from `HoldsInv`, by which the bridge holds only calls that were started, each
  in one place.
- `FramesAlwaysNest`: `FramesNest` reads the wire between every two events. The
  inductive `FramesInv` adds what the bridge believes (`Framed`): while a run is
  attached, the message or reasoning it takes to be open is the one the last
  frame on the wire went on with, and when nothing is open, or no run is
  attached, the wire has left nothing open.
- `ClientAlwaysInOrder`: `OrderInv` is the property with `TypeInv`: inductive,
  because a chunk is told under the next place of the history exactly when it is
  recorded as attached.
- `CallsAlwaysFramed`: `CallsFramed` counts the events of a call in the
  filtered wire. By `CallsIInv` every call that was followed is in a stage - it
  waits, runs, is done, or was lost with a run that never ended - which says
  what of it is on the wire, what the bridge holds of it and what the history
  has given it, and a call not started is unseen (`CallsInv`); a run that has
  ended on the wire is not attached and left no call behind (`RunsInv`); and
  `HoldsInv`. The lemmas go one handler at a time: the call it is about moves to
  its next stage, all others are untouched. What has been `Shown` of a call is
  read off the wire in a live session and off the accumulator in a replay, so
  these lemmas hold of both and are proved once.
- `SnapshotsTellAll`: `SnapshotInOrder` is about a replay, which is computed
  within one state, so its induction runs over the records of the history
  instead of over steps. `Telling(h, n)` is what holds of the replaying bridge
  after `n` records: the messages of the accumulator tell the chunks among them,
  each once and in order, and after the open message nothing was said.
  `TellingLoaded` carries it to the end of the history and `CoversTells`
  turns it into what the property counts. Besides `TurnsMarked`, all it needs of
  the system is that every record of a history carries what its kind says
  (`HistoryInv`).
- `SnapshotsShowCalls`: `CallsInSnapshot`, for every history, marked or not.
  There are two inductions. One is over the steps: the agent keeps the protocol,
  so in every history a call starts once and is updated only while it `MayGoOn`,
  that is before it is completed or its turn has ended (`ProtocolInv`, with the
  order of turns in the history, which is what makes it inductive). The other is
  over the records of such a history: after each of them every call is in its
  `ReplayStage`, which is the stages above read off the accumulator, and
  `FinishRun` completes those that still wait or run. `ReadsAs` says what the
  accumulator shows of a call: that it stands in one place, which is the one that
  `_tool_call_locations` gives, with which arguments, and whether a result
  follows. It grows by START, ARGS and RESULT (`ReadsGrow`) and is left alone by
  every other event and by what the user says (`Looks`), also when the call's
  message is no longer the last one.

- `LiveMatchesLoaded`: `LiveMatchesReplay` relates two bridges, the live one and
  the one that replays its history. What is `Read` of a bridge is the transcript
  of its wire in a live session and its accumulator in a replay; `Reading` is
  that up to how messages are cut (`Shape`). Both are transcripts, so what a
  handler adds to a `Reading` is one lemma for both; it rests on lemmas about
  `Shape`: it merges only with the last message of the result, so appending a
  message, extending the last one, or attaching a call does to the `Shape` what
  it does to the messages.
  The two bridges match (`Matches`) in one of two ways. While a turn is `Cut`,
  that is begun and not marked as ended, they are `Level`: the same is read of
  both and the same calls wait or are open; each is `Poised`, its open message
  being the last in which something was said; and what is open live is open in
  the replay and was said last (`SpeaksOn`). The converse does not hold, because
  an interrupt closes the live message and the replay knows of no interrupt.
  Between turns the same is read of both and the replay is at rest.
  `MatchInv` says that they match in every state whose history is `Faithful`,
  which is what the property supposes. A history that is faithful was so one
  record ago (`FaithfulBefore`), and the replay of it was one handler shorter
  (`LoadedShrinks`), so the induction is over the steps of the session and each
  adds one record to both sides. `Torn` is where `Unsplit` is needed: to go on
  with a message that is open in the replay but not live would split it on the
  wire. `MatchInv` is inductive together with `CallsIInv`, `OrderInv`,
  `ProtocolInv`, `HistoryInv` and `PhaseInv` (in which phases a turn is cut).

TLC checked `RunsInv`, `CallsInv`, `ProtocolInv` and `ReplayStage` on the
instance of the run `framing` before they were proved, and `Matches` and
`PhaseInv` in each of its 552 thousand states, with the replays computed.

Each theorem named here states a property that a run checks as well. One step
lemma per action keeps the proofs in the order of `Next`.

## What is only model-checked

Liveness (`StreamEnds`, `ParkedAnswered`, `RequestsEnd`, `IdleReaped`,
`EachIsCalled`, `RequestAnswered`) is out of the prover's reach, and so is the
`ENABLED` in it. TLC checks it on the instances of `runs_serial`,
`sessions_serial` and `options`. The same goes for the runs that show a
violation: a counterexample is one behaviour of one instance.

## What is not modelled

- Of the ACP wrapper only the `set_*` calls are of interest (in `SessionState`);
  its other methods are one RPC each. The terminal and file-system stubs
  (constant answers), configuration (environment lookups), the command line
  client (sequential) and the Windows shim have no state of their own, or
  nothing that can interleave. `set_mode`, `set_model`, `set_config_option` and
  `execute_command` of the manager have no caller.
- Two requests for one session that overlap in their applies, and the shared
  list of options: hazards listed without a property. So are some outcomes of
  the code that the properties except and no run shows by itself: a deleted
  session that an overlapping request brings back, a newer connection that the
  end of an older one stops, a change by the agent that the write-back of an
  apply overwrites, and what a resume recorded without telling the client.
- Sizes: `event_queues` keeps every run's queue for the life of a session; it
  grows but no behaviour depends on it.
- The agent's death between two awaits of the manager other than as a failed
  call, unreadable files of the store, and malformed requests.
