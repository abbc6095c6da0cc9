---------------------------- MODULE RunLifecycle ----------------------------
(***************************************************************************)
(* The runs of ONE live session: the bridge's sink (the run it is attached *)
(* to and that run's event queue), the SSE streams that drain the queues,  *)
(* the background prompt tasks, and the permission / elicitation futures   *)
(* that park a prompt between two runs.                                    *)
(*                                                                         *)
(* Everything runs on one asyncio event loop, so an action is the code     *)
(* between two awaits.  A run is identified by the fresh UUID its HTTP     *)
(* request is given; the queue of a run has the name of the run.  What an  *)
(* event says is abstracted to its kind; the framing of messages,          *)
(* reasoning and tool calls inside a run is the subject of Framing.        *)
(***************************************************************************)
EXTENDS Sequences, FiniteSets, Naturals

CONSTANTS
    Runs,           \* run ids: one per POST /ag-ui that reaches the manager
    Requests,       \* request_permission / create_elicitation calls
    Ids,            \* interrupt ids (tool call ids, elicitation ids)
    Key,            \* the interrupt id under which a request is parked
    Notes,          \* vendor extension notifications
    Bufferable,     \* those ext_notification keeps while there is no queue
    MaxDeltas,      \* bound: session/update notifications in a behaviour
    Overlap,        \* may the client post while it watches a stream?
    Nil             \* Python's None

ASSUME ConstantsAssumption ==
    /\ Key \in [Requests -> Ids]
    /\ Bufferable \subseteq Notes
    /\ MaxDeltas \in Nat
    /\ Overlap \in BOOLEAN
    /\ Nil \notin Runs \cup Requests \cup Ids \cup Notes

VARIABLES
    runId,      \* bridge._run_id
    queue,      \* bridge._queue, by the run it was made for
    buffer,     \* bridge._pending_notifications
    slot,       \* bridge._permission_futures and _elicitation_futures, with
                \* the _timers table each is updated in step with: the latest
                \* request parked under an id
    future,     \* the asyncio.Future of each request
    timer,      \* its loop.call_later handle
    stream,     \* active.event_queues: all that was ever put on each queue
    http,       \* the POST /ag-ui that asked for the run
    prompt,     \* the _run_prompt task a fresh run starts
    asker,      \* the turn in which the agent made a request
    turns,      \* history: the turns a run was opened to show
    beside,     \* history: the turns that were under way when it was opened
    noted,      \* notifications the agent has sent
    deltas      \* how many session/updates the agent has sent

bridgeVars == <<runId, queue, buffer>>
parkVars   == <<slot, future, timer, asker>>
turnVars   == <<turns, beside>>
agentVars  == <<noted, deltas>>
vars == <<bridgeVars, parkVars, stream, http, prompt, turnVars, agentVars>>

-----------------------------------------------------------------------------
(* Events, by kind; "of" is the run, request or notification it is about.  *)

TerminalKinds == {"finished", "error", "interrupt"}
Kinds == TerminalKinds \cup {"started", "snapshot", "delta", "custom"}
Events == [kind : Kinds, of : Runs \cup Requests \cup Notes \cup {Nil}]

Ev(kind, of) == [kind |-> kind, of |-> of]

\* The positions of the events that end the SSE stream of a queue.
Terminals(s) == {k \in DOMAIN s : s[k].kind \in TerminalKinds}

\* The statuses of a resume entry; what was resolved to is the agent's affair.
Answers == {"resolved", "cancelled"}

\* The answer a request gets whose TTL ran out.
TtlAnswerExpired == "expired"
TtlAnswer == "cancelled"

-----------------------------------------------------------------------------
(* The bridge.  A definition with a longer name before the one it          *)
(* resembles (AttachSinkKeepsBuffer, CloseRunSilently, ...) is no part of  *)
(* the model: it is a mistake that one of the properties would show.       *)

\* What the queues hold after _emit(e): nothing is emitted without a queue.
Emitted(e) ==
    IF queue = Nil THEN stream ELSE [stream EXCEPT ![queue] = Append(@, e)]

\* What a new stream starts with: RUN_STARTED, then the flushed buffer.
Opening(r) ==
    <<Ev("started", r)>> \o [i \in DOMAIN buffer |-> Ev("custom", buffer[i])]

AttachSinkKeepsBuffer(r) ==
    /\ runId' = r
    /\ queue' = r
    /\ buffer' = buffer
    /\ stream' = [stream EXCEPT ![r] = @ \o Opening(r)]

AttachSinkUnlessLive(r) ==
    /\ runId' = IF runId = Nil THEN r ELSE runId
    /\ queue' = IF runId = Nil THEN r ELSE queue
    /\ buffer' = <<>>
    /\ stream' = [stream EXCEPT ![r] = @ \o Opening(r)]

\* start_run and attach_resume_queue: the sink moves to the new run's queue.
AttachSink(r) ==
    /\ runId' = r
    /\ queue' = r
    /\ buffer' = <<>>
    /\ stream' = [stream EXCEPT ![r] = @ \o Opening(r)]

CloseRunKeepsId(kind) ==
    /\ stream' = IF runId = Nil THEN stream ELSE Emitted(Ev(kind, runId))
    /\ UNCHANGED <<runId, queue, buffer>>

CloseRunSilently(kind) ==
    /\ stream' = stream
    /\ runId' = Nil
    /\ UNCHANGED <<queue, buffer>>

\* finish_run and error_run: the current run, if any, gets its terminal
\* event.  The queue stays attached.
CloseRun(kind) ==
    /\ stream' = IF runId = Nil THEN stream ELSE Emitted(Ev(kind, runId))
    /\ runId' = Nil
    /\ UNCHANGED <<queue, buffer>>

SuspendRunKeepsId(q) ==
    /\ stream' = IF runId = Nil THEN stream ELSE Emitted(Ev("interrupt", q))
    /\ queue' = Nil
    /\ UNCHANGED <<runId, buffer>>

\* _suspend_run: the current run, if any, ends with the interrupt of q.
SuspendRun(q) ==
    /\ stream' = IF runId = Nil THEN stream ELSE Emitted(Ev("interrupt", q))
    /\ runId' = Nil
    /\ queue' = Nil
    /\ UNCHANGED buffer

Pending == {q \in Requests : future[q] = "pending"}

ParkUntimed(q) ==
    /\ future' = [future EXCEPT ![q] = "pending"]
    /\ slot' = [slot EXCEPT ![Key[q]] = q]
    /\ UNCHANGED timer

\* A request gets its future, its place in the tables and its TTL timer.
Park(q) ==
    /\ future' = [future EXCEPT ![q] = "pending"]
    /\ slot' = [slot EXCEPT ![Key[q]] = q]
    /\ timer' = [timer EXCEPT ![q] = "armed"]

\* pending_interrupt_ids(): what the tables still hold.
PendingIds == {i \in Ids : slot[i] # Nil /\ slot[i] \in Pending}

SettleInPlace(ids, answer) ==
    LET hit == {q \in Requests : \E i \in ids : slot[i] = q}
    IN  /\ future' = [q \in Requests |-> IF q \in hit THEN answer ELSE future[q]]
        /\ UNCHANGED <<slot, timer>>

\* resolve_permission / resolve_elicitation for each of ids: the entry is
\* popped, its timer cancelled, its future given the answer unless done.
Settle(ids, answer) ==
    LET hit == {q \in Requests : \E i \in ids : slot[i] = q}
    IN  /\ slot' = [i \in Ids |-> IF i \in ids THEN Nil ELSE slot[i]]
        /\ timer' = [q \in Requests |-> IF q \in hit THEN "off" ELSE timer[q]]
        /\ future' = [q \in Requests |->
                        IF q \in hit \cap Pending THEN answer ELSE future[q]]

-----------------------------------------------------------------------------
(* The client and the endpoints.                                           *)

InFlight == {t \in Runs : prompt[t] \in {"created", "running", "winding"}}
Watched  == {r \in Runs : http[r] \in {"applying", "open"}}

\* A client that waits for its streams posts when it watches none: what else
\* is under way it cannot see.
MayPost == Overlap \/ Watched = {}

\* POST /ag-ui with a message, up to the await of apply_session_options.
StartRun(r) ==
    /\ http[r] = "unused"
    /\ MayPost
    /\ http' = [http EXCEPT ![r] = "applying"]
    /\ prompt' = [prompt EXCEPT ![r] = "created"]
    /\ turns' = [turns EXCEPT ![r] = {r}]
    /\ beside' = [beside EXCEPT ![r] = InFlight]
    /\ AttachSink(r)
    /\ UNCHANGED <<parkVars, agentVars>>

\* ... and after it: the snapshot goes to whatever queue is attached by now.
OpenStream(r) ==
    /\ http[r] = "applying"
    /\ http' = [http EXCEPT ![r] = "open"]
    /\ stream' = IF prompt[r] = "none" THEN stream   \* a resume sends none
                 ELSE Emitted(Ev("snapshot", r))
    /\ UNCHANGED <<bridgeVars, parkVars, prompt, turnVars, agentVars>>

\* POST /ag-ui with resume entries, when a request is parked.
ResumeRun(r, ids, answer) ==
    /\ http[r] = "unused"
    /\ MayPost
    /\ PendingIds # {}
    /\ http' = [http EXCEPT ![r] = "applying"]
    /\ turns' = [turns EXCEPT ![r] = {asker[q] : q \in Pending}]
    /\ beside' = [beside EXCEPT ![r] = InFlight]
    /\ AttachSink(r)
    /\ Settle(ids, answer)
    /\ UNCHANGED <<asker, prompt, agentVars>>

\* ... and when none is: ValueError, 409.  The run's queue stays registered.
RefuseResume(r) ==
    /\ http[r] = "unused"
    /\ MayPost
    /\ PendingIds = {}
    /\ http' = [http EXCEPT ![r] = "refused"]
    /\ UNCHANGED <<bridgeVars, parkVars, stream, prompt, turnVars, agentVars>>

\* event_stream has drained the queue up to its first terminal event.
EndStream(r) ==
    /\ http[r] = "open"
    /\ Terminals(stream[r]) # {}
    /\ http' = [http EXCEPT ![r] = "ended"]
    /\ UNCHANGED <<bridgeVars, parkVars, stream, prompt, turnVars, agentVars>>

\* The client goes away: cancel_run settles all that is parked.  (It also
\* sends session/cancel, which leaves the agent free to do as it did.)
Disconnect(r) ==
    /\ http[r] = "open"
    /\ http' = [http EXCEPT ![r] = "ended"]
    /\ Settle({i \in Ids : slot[i] # Nil}, "cancelled")
    /\ UNCHANGED <<bridgeVars, asker, stream, prompt, turnVars, agentVars>>

-----------------------------------------------------------------------------
(* The prompt tasks and the agent's callbacks.                             *)

\* The created task gets its first turn on the loop and sends session/prompt.
SendPrompt(t) ==
    /\ prompt[t] = "created"
    /\ prompt' = [prompt EXCEPT ![t] = "running"]
    /\ UNCHANGED <<bridgeVars, parkVars, stream, http, turnVars, agentVars>>

\* The agent answers session/prompt only once its own requests are answered.
AgentDone(t) ==
    /\ prompt[t] \in {"running", "winding"}
    /\ \A q \in Pending : asker[q] # t

\* session/prompt returns: the task finishes the run that is current NOW.
PromptReturns(t) ==
    /\ AgentDone(t)
    /\ prompt' = [prompt EXCEPT ![t] = "done"]
    /\ CloseRun("finished")
    /\ UNCHANGED <<parkVars, http, turnVars, agentVars>>

\* session/prompt is answered with an error.
PromptFails(t) ==
    /\ AgentDone(t)
    /\ prompt' = [prompt EXCEPT ![t] = "done"]
    /\ CloseRun("error")
    /\ UNCHANGED <<parkVars, http, turnVars, agentVars>>

\* The turn_end update some agents send before they answer session/prompt.
\* Like every update it is dropped while there is no queue.
TurnEnd(t) ==
    /\ prompt[t] = "running"
    /\ AgentDone(t)
    /\ prompt' = [prompt EXCEPT ![t] = "winding"]
    /\ \/ queue # Nil /\ CloseRun("finished")
       \/ queue = Nil /\ UNCHANGED <<bridgeVars, stream>>
    /\ UNCHANGED <<parkVars, http, turnVars, agentVars>>

\* request_permission / create_elicitation, up to the await of the future.
\* The agent asks again under an id only once it has the answer to the last
\* request it made under it.
Request(q, t) ==
    /\ future[q] = "unused"
    /\ prompt[t] = "running"
    /\ \A p \in Pending : Key[p] # Key[q]
    /\ asker' = [asker EXCEPT ![q] = t]
    /\ Park(q)
    /\ SuspendRun(q)
    /\ UNCHANGED <<http, prompt, turnVars, agentVars>>

\* The TTL callback: pops whatever its id maps to now, and no handle but the
\* one that fired is spent.
Expire(q) ==
    LET found == slot[Key[q]]
    IN  /\ timer[q] = "armed"
        /\ timer' = [timer EXCEPT ![q] = "off"]
        /\ slot' = [slot EXCEPT ![Key[q]] = Nil]
        /\ future' = IF found \in Pending
                     THEN [future EXCEPT ![found] = TtlAnswer] ELSE future
        /\ UNCHANGED <<bridgeVars, asker, stream, http, prompt, turnVars, agentVars>>

\* session/update: the event goes to the attached queue, or nowhere.
SessionUpdate ==
    /\ deltas < MaxDeltas
    /\ deltas' = deltas + 1
    /\ stream' = Emitted(Ev("delta", Nil))
    /\ UNCHANGED <<bridgeVars, parkVars, http, prompt, turnVars, noted>>

\* ext_notification: emitted if there is a queue, else buffered or dropped.
ExtNotification(n) ==
    /\ n \notin noted
    /\ noted' = noted \cup {n}
    /\ stream' = Emitted(Ev("custom", n))
    /\ buffer' = IF queue = Nil /\ n \in Bufferable THEN Append(buffer, n)
                 ELSE buffer
    /\ UNCHANGED <<runId, queue, parkVars, http, prompt, turnVars, deltas>>

-----------------------------------------------------------------------------
(* A session that was just created, resumed or connected: nothing attached *)
(* (end_replay leaves the bridge with neither run nor queue).              *)
Init ==
    /\ runId = Nil /\ queue = Nil /\ buffer = <<>>
    /\ slot = [i \in Ids |-> Nil]
    /\ future = [q \in Requests |-> "unused"]
    /\ timer = [q \in Requests |-> "off"]
    /\ asker = [q \in Requests |-> Nil]
    /\ stream = [r \in Runs |-> <<>>]
    /\ http = [r \in Runs |-> "unused"]
    /\ prompt = [r \in Runs |-> "none"]
    /\ turns = [r \in Runs |-> {}]
    /\ beside = [r \in Runs |-> {}]
    /\ noted = {}
    /\ deltas = 0

Next ==
    \/ \E r \in Runs :
        \/ StartRun(r)
        \/ OpenStream(r)
        \/ \E ids \in SUBSET Ids \ {{}}, a \in Answers : ResumeRun(r, ids, a)
        \/ RefuseResume(r)
        \/ EndStream(r)
        \/ Disconnect(r)
        \/ SendPrompt(r)
        \/ PromptReturns(r)
        \/ PromptFails(r)
        \/ TurnEnd(r)
        \/ \E q \in Requests : Request(q, r)
    \/ \E q \in Requests : Expire(q)
    \/ SessionUpdate
    \/ \E n \in Notes : ExtNotification(n)

Spec == Init /\ [][Next]_vars

\* The loop runs ready callbacks and due timers; set_* calls are answered, and
\* a turn that waits for no answer of ours ends.
Fairness ==
    /\ \A r \in Runs : /\ WF_vars(OpenStream(r))
                       /\ WF_vars(EndStream(r))
                       /\ WF_vars(SendPrompt(r))
                       /\ WF_vars(PromptReturns(r) \/ PromptFails(r))
    /\ \A q \in Requests : WF_vars(Expire(q))

FairSpec == Spec /\ Fairness

-----------------------------------------------------------------------------
(* Properties.                                                             *)

\* Types: every variable of the bridge, the manager and the agent holds a
\* value of the kind the code keeps in it (an interrupt, for one, is only ever
\* answered with an outcome ACP knows).
TypeOK ==
    /\ runId \in Runs \cup {Nil}
    /\ queue \in Runs \cup {Nil}
    /\ buffer \in Seq(Notes)
    /\ slot \in [Ids -> Requests \cup {Nil}]
    /\ future \in [Requests -> {"unused", "pending"} \cup Answers]
    /\ timer \in [Requests -> {"off", "armed"}]
    /\ asker \in [Requests -> Runs \cup {Nil}]
    /\ stream \in [Runs -> Seq(Events)]
    /\ http \in [Runs -> {"unused", "applying", "open", "ended", "refused"}]
    /\ prompt \in [Runs -> {"none", "created", "running", "winding", "done"}]
    /\ turns \in [Runs -> SUBSET (Runs \cup {Nil})]
    /\ beside \in [Runs -> SUBSET Runs]
    /\ noted \subseteq Notes
    /\ deltas \in 0..MaxDeltas

\* Whatever the client does, no stream ever gets a second terminal event: the
\* ends of a run (turn_end, the prompt's return, its failure, a suspension)
\* exclude each other although each is decided from the shared _run_id.
OneTerminal ==
    \A r \in Runs : \A j, k \in Terminals(stream[r]) : j = k

\* A stream opens with its own RUN_STARTED, and a run the bridge is attached
\* to can still be ended: its queue is the sink and has no terminal event.
SinkIsLive ==
    /\ \A r \in Runs : stream[r] # <<>> => stream[r][1] = Ev("started", r)
    /\ runId # Nil => queue = runId /\ stream[runId] # <<>>
                      /\ Terminals(stream[runId]) = {}

\* A parked request can always be released: its id finds it in the tables and
\* its TTL is running; and the tables hold no request that is already done
\* (what resume, disconnect and TTL all pop, in any order).
ParkedReleasable ==
    /\ \A q \in Pending : slot[Key[q]] = q /\ timer[q] = "armed"
    /\ \A i \in Ids : slot[i] # Nil => slot[i] \in Pending /\ Key[slot[i]] = i

\* A vendor notification is surfaced at most once: it is never in two places
\* of the streams, nor both surfaced and still buffered for the next run.
NoteOnce ==
    LET shown(n) == UNION {{<<r, k>> : k \in {j \in DOMAIN stream[r] :
                               stream[r][j] = Ev("custom", n)}} : r \in Runs}
        kept(n) == {k \in DOMAIN buffer : buffer[k] = n}
    IN  \A n \in Notes : Cardinality(shown(n)) + Cardinality(kept(n)) <= 1

\* The clients' view of the runs: see RunStreams, which this refines.
Phase(r) == CASE stream[r] = <<>> -> "unborn"
              [] stream[r] # <<>> /\ Terminals(stream[r]) # {} -> "closed"
              [] stream[r] # <<>> /\ Terminals(stream[r]) = {} -> "live"

Streams == INSTANCE RunStreams WITH attached <- runId,
                                    phase <- [r \in Runs |-> Phase(r)]

\* Every behaviour, whatever the client does, is one of RunStreams: runs are
\* attached once, closed once and only while attached.
ImplementsStreams == Streams!Spec

\* A request that was answered keeps its answer, whichever of resume, TTL and
\* disconnect comes next (Future.set_result is called once).
AnswerIsFinal ==
    [][\A q \in Requests : future[q] \in Answers => future'[q] = future[q]]_vars

\* A parked request is eventually answered even if no client comes back: the
\* TTL keeps the prompt task from hanging on it for ever.
ParkedAnswered ==
    \A q \in Requests : future[q] = "pending" ~> future[q] \in Answers

\* A step of turn t: its prompt is answered, fails or is declared ended, or
\* the agent asks for something in it.
Moves(t) ==
    \/ prompt'[t] # prompt[t]
    \/ \E q \in Requests : asker'[q] = t /\ asker[q] # t

\* Whatever the client does, a stream is ended only by a turn that it was
\* opened to show or by one that was under way when it was opened - an older
\* turn may end it, because each end is decided from the shared _run_id, but
\* no later one ever does; and where no other turn was under way, its own.
EndedByTurnUnderWay ==
    [][\A r \in Runs : Terminals(stream'[r]) # Terminals(stream[r]) =>
            \E t \in turns[r] \cup beside[r] : Moves(t)]_vars

\* The baseline that is emitted after the awaits of the options, on whatever
\* queue is attached by then, is for a client that waits for its streams never
\* put on the stream of another run.
SnapshotIsOwn ==
    \A r \in Runs : \A k \in DOMAIN stream[r] :
        stream[r][k].kind = "snapshot" => stream[r][k].of = r

\* While a client that waits for its streams watches one that has not ended,
\* the bridge is attached to it: updates are neither written elsewhere nor
\* dropped, across suspensions, refused resumes and late expiries.
WatchedIsSink ==
    \A r \in Watched : Terminals(stream[r]) = {} => runId = r

\* A client that waits for its streams never waits for ever: every stream it
\* opened, fresh or resumed, gets an event that ends it.
StreamEnds ==
    \A r \in Runs : http[r] = "open" ~> http[r] = "ended"

-----------------------------------------------------------------------------
(* What comments and documents say, and the code does not do.              *)

\* A run is reported finished or failed only when the turn it was opened to
\* show is over (one turn spans several runs).
FinishedByOwnTurn ==
    \A r \in Runs : \A k \in DOMAIN stream[r] :
        stream[r][k].kind \in {"finished", "error"} =>
            \A t \in turns[r] : prompt[t] \in {"winding", "done"}

\* Every parked request has been surfaced to some client as an interrupt.
ParkedIsSurfaced ==
    \A q \in Pending : \E r \in Runs : \E k \in DOMAIN stream[r] :
        stream[r][k] = Ev("interrupt", q)
=============================================================================
