------------------------------ MODULE Framing ------------------------------
(***************************************************************************)
(* AcpToAguiBridge as a translator: ACP's frameless updates become framed  *)
(* AG-UI events on the stream of the current run, or, when a session is    *)
(* loaded, messages of a snapshot - by the same handlers.                  *)
(*                                                                         *)
(* The handlers are functions from a state of the bridge to the next one.  *)
(* Live, an update is an action.  A replay gives a new bridge the agent's  *)
(* history with nothing in between, so it is an operator on the history.   *)
(* A chunk is named by its place in the history.                           *)
(*                                                                         *)
(* Turns follow each other (RunLifecycle has the overlapping ones), and    *)
(* the agent keeps the protocol: a call starts once, is updated in its own *)
(* turn until it is completed, and nothing follows turn_end.               *)
(***************************************************************************)
EXTENDS Transcript, FiniteSets

CONSTANTS
    Calls,          \* tool calls
    MaxTurns,       \* bound: prompts in a behaviour
    MaxUpdates,     \* bound: updates of the agent, turn_end aside
    MaxLater,       \* bound: those of them after the first turn
    MaxAsks         \* bound: permission requests

ASSUME ConstantsAssumption ==
    /\ IsFiniteSet(Calls)
    /\ {MaxTurns, MaxUpdates, MaxLater, MaxAsks} \subseteq Nat
    /\ Nil \notin Calls \cup Nat \cup {"initial", "later"}

VARIABLES
    bridge,         \* the bridge, with what the client could read of it
    phase,          \* of the turn: idle, working, waiting for an answer, closing
    turn,           \* prompts so far
    history         \* what the agent keeps of the session, in order

vars == <<bridge, phase, turn, history>>

\* raw_input of a tool_call and of its updates.
Inputs == {"initial", "later", Nil}

\* An input given with an update wins over the one given with the call.
Or(input, default) == IF input = Nil THEN default ELSE input

-----------------------------------------------------------------------------
(* Events: of a message, of a tool call, of the run.                       *)

FrameEvent(kind, id) == [kind |-> kind, id |-> id]
ChunkEvent(kind, id, chunk) == [kind |-> kind, id |-> id, chunk |-> chunk]
CallEvent(kind, call) == [kind |-> kind, call |-> call]
ArgsEvent(call, input) == [kind |-> "callArgs", call |-> call, input |-> input]
RunEvent(kind, t) == [kind |-> kind, turn |-> t]

-----------------------------------------------------------------------------
(* The bridge                                                              *)

NewBridge ==
    [sink     |-> "none",   \* "none": no queue, "run": queue and run id,
                            \* "ended": the queue of a run that is over,
                            \* "replay": _replay_mode
     turn     |-> 0,        \* the turn its run belongs to
     message  |-> Nil,      \* the text message that is open
     reasoning|-> Nil,      \* _current_reasoning_id
     pending  |-> <<>>,     \* _pending_tool_starts, in insertion order
     open     |-> {},       \* _open_tool_calls
     argsSent |-> {},       \* _tool_args_emitted
     fresh    |-> 1,        \* the next message id
     wire     |-> <<>>,     \* the events of all streams, as clients read them
     acc      |-> EmptyTranscript]

Emit(b, event) ==
    CASE b.sink = "replay" -> [b EXCEPT !.acc = Fold(@, event)]
      [] b.sink = "run"    -> [b EXCEPT !.wire = Append(@, event)]
      [] OTHER             -> b     \* no queue, or one that nobody reads

CloseReasoning(b) ==
    IF b.reasoning = Nil THEN b
    ELSE [Emit(b, FrameEvent("thoughtEnd", b.reasoning))
             EXCEPT !.reasoning = Nil]

CloseMessage(b) ==
    IF b.message = Nil THEN b
    ELSE [Emit(b, FrameEvent("textEnd", b.message))
             EXCEPT !.message = Nil]

\* The text message that is open, or one opened now.
OpenText(b) ==
    IF b.message # Nil THEN b
    ELSE Emit([b EXCEPT !.message = b.fresh, !.fresh = @ + 1],
              FrameEvent("textStart", b.fresh))

SayText(b, chunk) ==
    Emit(b, ChunkEvent("text", b.message, chunk))

TextDeltaOverThought(b, chunk) == SayText(OpenText(b), chunk)

TextDelta(b, chunk) == SayText(OpenText(CloseReasoning(b)), chunk)

OpenThought(b) ==
    IF b.reasoning # Nil THEN b
    ELSE Emit([CloseMessage(b) EXCEPT !.reasoning = b.fresh, !.fresh = @ + 1],
              FrameEvent("thoughtStart", b.fresh))

SayThought(b, chunk) ==
    Emit(b, ChunkEvent("thought", b.reasoning, chunk))

ThoughtDeltaOpens(b, chunk) ==
    IF b.reasoning = Nil THEN OpenThought(b) ELSE SayThought(b, chunk)

ThoughtDelta(b, chunk) == SayThought(OpenThought(b), chunk)

\* TOOL_CALL_START is deferred until there are arguments to show.
ToolCall(b, call, input) ==
    [CloseMessage(CloseReasoning(b)) EXCEPT
        !.pending = Append(@, [call |-> call, input |-> input])]

IsPending(b, call) == \E i \in DOMAIN b.pending : b.pending[i].call = call

PendingAt(b, call) == CHOOSE i \in DOMAIN b.pending : b.pending[i].call = call

PendingInput(b, call) == b.pending[PendingAt(b, call)].input

OpenCall(b, call) ==
    [Emit(b, CallEvent("callStart", call)) EXCEPT !.open = @ \cup {call}]

ShowCallKeepsPending(b, call) == OpenCall(b, call)

ShowCall(b, call) ==
    [OpenCall(b, call) EXCEPT !.pending = RemoveAt(@, PendingAt(b, call))]

ShowArgsForgets(b, call, input) ==
    IF input = Nil \/ call \in b.argsSent THEN b
    ELSE Emit(b, ArgsEvent(call, input))

ShowArgs(b, call, input) ==
    IF input = Nil \/ call \in b.argsSent THEN b
    ELSE [Emit(b, ArgsEvent(call, input))
             EXCEPT !.argsSent = @ \cup {call}]

EmitEnd(b, call) ==
    Emit(Emit(b, CallEvent("callEnd", call)), CallEvent("callResult", call))

EndCall(b, call) ==
    IF call \in b.open
    THEN [EmitEnd(b, call) EXCEPT !.open = @ \ {call},
                                  !.argsSent = @ \ {call}]
    ELSE b

CompletedWithoutFallback(b, call, input) ==
    EndCall(IF IsPending(b, call)
            THEN ShowArgs(ShowCall(b, call), call, input)
            ELSE b, call)

\* completed or failed: the input of the tool_call is the fallback.
Completed(b, call, input) ==
    EndCall(IF IsPending(b, call)
            THEN ShowArgs(ShowCall(b, call), call,
                          Or(input, PendingInput(b, call)))
            ELSE b, call)

\* Arguments are shown even when the START never was.
Progress(b, call, input) ==
    IF input = Nil \/ call \in b.argsSent THEN b
    ELSE ShowArgs(IF IsPending(b, call) THEN ShowCall(b, call) ELSE b,
                  call, input)

\* START, and arguments if there are any, of the calls that wait for theirs.
FlushPending(b) ==
    LET flushed[n \in 0..Len(b.pending)] ==
            IF n = 0 THEN b
            ELSE ShowArgs(OpenCall(flushed[n - 1], b.pending[n].call),
                          b.pending[n].call, b.pending[n].input)
    IN  [flushed[Len(b.pending)] EXCEPT !.pending = <<>>]

\* rank: the order in which Python happens to enumerate a set of calls.
EndCalls(b, rank) ==
    LET ended[n \in 0..Len(rank)] ==
            IF n = 0 THEN b
            ELSE IF rank[n] \in b.open THEN EmitEnd(ended[n - 1], rank[n])
            ELSE ended[n - 1]
    IN  [ended[Len(rank)] EXCEPT !.open = {}]

CloseCalls(b, rank) == EndCalls(FlushPending(b), rank)

CloseFrames(b, rank) == CloseCalls(CloseMessage(CloseReasoning(b)), rank)

\* The run id survives a replayed turn_end, so that end_replay can use it.
FinishRun(b, rank) ==
    [Emit(CloseFrames(b, rank),
          RunEvent("runFinished", b.turn)) EXCEPT
        !.sink = IF @ = "run" THEN "ended" ELSE @]

ErrorRun(b, rank) ==
    [Emit(CloseFrames(b, rank),
          RunEvent("runError", b.turn)) EXCEPT
        !.sink = IF @ = "run" THEN "ended" ELSE @]

StartRun(b, t) ==
    Emit([b EXCEPT !.sink = "run", !.turn = t, !.message = Nil, !.reasoning = Nil,
                   !.pending = <<>>, !.open = {}, !.argsSent = {}],
         RunEvent("runStarted", t))

ResumeAsStart(b) == StartRun(b, b.turn)

\* Calls that are open or pending go on across an interrupt.
AttachResumeQueue(b) ==
    Emit([b EXCEPT !.sink = "run", !.message = Nil, !.reasoning = Nil],
         RunEvent("runStarted", b.turn))

SuspendRun(b) ==
    [Emit(CloseMessage(CloseReasoning(b)),
          RunEvent("interrupt", b.turn)) EXCEPT !.sink = "none"]

\* A user chunk closes the reasoning, but not a text message that is open.
UserChunk(b, chunk) ==
    IF b.sink # "replay" THEN b
    ELSE [CloseReasoning(b) EXCEPT !.acc = AddUserText(@, chunk)]

TurnEndInReplayIgnored(b, rank) ==
    IF b.sink = "replay" THEN b ELSE FinishRun(b, rank)

TurnEnd(b, rank) == FinishRun(b, rank)

\* Without a queue an update is dropped.
SessionUpdate(b, u, at, rank) ==
    IF b.sink = "none" THEN b
    ELSE CASE u.kind = "user"      -> UserChunk(b, at)
           [] u.kind = "text"      -> TextDelta(b, at)
           [] u.kind = "thought"   -> ThoughtDelta(b, at)
           [] u.kind = "toolCall"  -> ToolCall(b, u.call, u.input)
           [] u.kind = "progress"  -> Progress(b, u.call, u.input)
           [] u.kind = "completed" -> Completed(b, u.call, u.input)
           [] u.kind = "turnEnd"   -> TurnEnd(b, rank)

\* start_replay, the updates of session/load, end_replay: the snapshot.
Replay(updates, rank) ==
    LET loaded[n \in 0..Len(updates)] ==
            IF n = 0 THEN [NewBridge EXCEPT !.sink = "replay"]
            ELSE SessionUpdate(loaded[n - 1], updates[n], n, rank)
    IN  FinishRun(loaded[Len(updates)], rank).acc.messages

-----------------------------------------------------------------------------
(* A live session                                                          *)

Ranks == SetToSeqs(Calls)

Init ==
    /\ bridge = NewBridge
    /\ phase = "idle"
    /\ turn = 0
    /\ history = <<>>

\* turn: when it was sent; attached: was there a stream to show it on?
Recorded(u, t) ==
    Append(history, [kind |-> u.kind, call |-> u.call, input |-> u.input,
                     turn |-> t, attached |-> bridge.sink = "run"])

Plain(kind) == [kind |-> kind, call |-> Nil, input |-> Nil]

\* The prompt of the current turn, and what the agent sent in it.
ThisTurn == {i \in DOMAIN history : history[i].turn = turn}

Sent(kind, call) ==
    \E i \in ThisTurn : history[i].kind = kind /\ history[i].call = call

IsStarted(call) ==
    \E i \in DOMAIN history : history[i].kind = "toolCall" /\ history[i].call = call

Running(call) == Sent("toolCall", call) /\ ~Sent("completed", call)

\* What a compliant agent may send next (progress without an input changes
\* nothing).
NextUpdates ==
    {Plain("text"), Plain("thought")}
    \cup {[kind |-> "toolCall", call |-> c, input |-> i] :
              c \in {d \in Calls : ~IsStarted(d)}, i \in {"initial", Nil}}
    \cup {[kind |-> "progress", call |-> c, input |-> "later"] :
              c \in {d \in Calls : Running(d)}}
    \cup {[kind |-> "completed", call |-> c, input |-> i] :
              c \in {d \in Calls : Running(d)}, i \in {"later", Nil}}

IsUpdate(u) == u.kind \notin {"user", "turnEnd"}

\* The agent stores the prompt as the user's chunk.
Prompt ==
    /\ phase = "idle"
    /\ turn < MaxTurns
    /\ turn' = turn + 1
    /\ phase' = "working"
    /\ bridge' = StartRun(bridge, turn')
    /\ history' = Recorded(Plain("user"), turn')

\* While a permission is awaited, parts of the agent may go on.
Update ==
    /\ phase \in {"working", "waiting"}
    /\ Len(SelectSeq(history, IsUpdate)) < MaxUpdates
    /\ turn > 1 => Cardinality(ThisTurn) <= MaxLater
    /\ \E u \in NextUpdates :
        /\ history' = Recorded(u, turn)
        /\ bridge' = SessionUpdate(bridge, u, Len(history'), <<>>)
    /\ UNCHANGED <<phase, turn>>

\* Some agents send turn_end before the prompt is answered.
SendTurnEnd ==
    /\ phase = "working"
    /\ phase' = "closing"
    /\ history' = Recorded(Plain("turnEnd"), turn)
    /\ \E rank \in Ranks :
        bridge' = SessionUpdate(bridge, Plain("turnEnd"), Len(history'), rank)
    /\ UNCHANGED turn

\* _run_prompt finishes the run if there still is one.
PromptReturns ==
    /\ phase \in {"working", "closing"}
    /\ phase' = "idle"
    /\ \/ bridge.sink # "run" /\ UNCHANGED bridge
       \/ bridge.sink = "run" /\ \E rank \in Ranks : bridge' = FinishRun(bridge, rank)
    /\ UNCHANGED <<turn, history>>

PromptFails ==
    /\ phase # "idle"
    /\ phase' = "idle"
    /\ \E rank \in Ranks : bridge' = ErrorRun(bridge, rank)
    /\ UNCHANGED <<turn, history>>

Asked == Len(SelectSeq(bridge.wire, LAMBDA e : e.kind = "interrupt"))

\* A request without a stream to show it on is RunLifecycle's subject.
RequestPermission ==
    /\ phase = "working"
    /\ bridge.sink = "run"
    /\ Asked < MaxAsks
    /\ phase' = "waiting"
    /\ bridge' = SuspendRun(bridge)
    /\ UNCHANGED <<turn, history>>

Resume ==
    /\ phase = "waiting"
    /\ phase' = "working"
    /\ bridge' = AttachResumeQueue(bridge)
    /\ UNCHANGED <<turn, history>>

\* The time to answer is over: the agent goes on unseen.
Expire ==
    /\ phase = "waiting"
    /\ phase' = "working"
    /\ UNCHANGED <<bridge, turn, history>>

Next ==
    \/ Prompt
    \/ Update
    \/ SendTurnEnd
    \/ PromptReturns
    \/ PromptFails
    \/ RequestPermission
    \/ Resume
    \/ Expire

Spec == Init /\ [][Next]_vars

-----------------------------------------------------------------------------
(* Properties                                                              *)

\* The bridge's state is well formed: a call waits for its START once, or is
\* open, never both, and at most one of text and reasoning is open.
TypeOK ==
    /\ bridge.sink \in {"none", "run", "ended"}
    /\ bridge.message \in Nat \cup {Nil}
    /\ bridge.reasoning \in Nat \cup {Nil}
    /\ \A i \in DOMAIN bridge.pending : bridge.pending[i].input \in {"initial", Nil}
    /\ \A i, j \in DOMAIN bridge.pending :
            bridge.pending[i].call = bridge.pending[j].call => i = j
    /\ bridge.open \subseteq {c \in Calls : ~IsPending(bridge, c)}
    /\ bridge.argsSent \subseteq Calls
    /\ Nil \in {bridge.message, bridge.reasoning}
    /\ phase \in {"idle", "working", "waiting", "closing"}
    /\ turn \in 0..MaxTurns

CallKinds == {"callStart", "callArgs", "callEnd", "callResult"}

\* An event on the wire, and the next one that is not about a tool call.
Adjacent(i, j) ==
    /\ i < j
    /\ {bridge.wire[i].kind, bridge.wire[j].kind} \cap CallKinds = {}
    /\ \A k \in i + 1 .. j - 1 : bridge.wire[k].kind \in CallKinds

\* b goes on with, or ends, the message that a has opened or gone on with.
GoesOn(a, b) ==
    /\ \/ a.kind \in {"textStart", "text"} /\ b.kind \in {"text", "textEnd"}
       \/ a.kind \in {"thoughtStart", "thought"} /\ b.kind \in {"thought", "thoughtEnd"}
    /\ a.id = b.id

\* Across interrupts, failures and turn_end the frames on the wire stay
\* disjoint: no text inside reasoning or the reverse, no content outside its
\* own START and END, nothing left open where a stream begins or ends.
FramesNest ==
    \A j \in DOMAIN bridge.wire :
        IF bridge.wire[j].kind \in {"text", "textEnd", "thought", "thoughtEnd"}
        THEN \E i \in DOMAIN bridge.wire :
                Adjacent(i, j) /\ GoesOn(bridge.wire[i], bridge.wire[j])
        ELSE \A i \in DOMAIN bridge.wire : Adjacent(i, j) =>
                bridge.wire[i].kind \notin {"textStart", "text", "thoughtStart", "thought"}

ChunkKinds == {"text", "thought"}

\* Every chunk that arrived while a run was attached reached the client once,
\* in the order the agent sent them, under its own kind.
ClientInOrder ==
    LET Chunks == {k \in DOMAIN bridge.wire : bridge.wire[k].kind \in ChunkKinds}
    IN  /\ \A j, k \in Chunks :
                j < k => bridge.wire[j].chunk < bridge.wire[k].chunk
        /\ \A k \in Chunks :
                /\ bridge.wire[k].chunk \in DOMAIN history
                /\ history[bridge.wire[k].chunk].kind = bridge.wire[k].kind
                /\ history[bridge.wire[k].chunk].attached
        /\ \A at \in DOMAIN history :
                history[at].kind \in ChunkKinds /\ history[at].attached =>
                    \E k \in Chunks : bridge.wire[k].chunk = at

\* The updates of a call that give an input.
Given(call) ==
    {i \in DOMAIN history : /\ history[i].call = call
                            /\ history[i].kind # "toolCall"
                            /\ history[i].input # Nil}

StartOf(call) ==
    CHOOSE i \in DOMAIN history : history[i].kind = "toolCall" /\ history[i].call = call

\* The input to show for a call: the first one an update gives, or else the
\* one that came with the call.
InputOf(call) ==
    IF Given(call) = {} THEN history[StartOf(call)].input
    ELSE history[CHOOSE i \in Given(call) : \A j \in Given(call) : i <= j].input

\* The run that a call was started in has been finished or has failed.
RunOver(call) ==
    \E i \in DOMAIN bridge.wire, j \in DOMAIN history :
        /\ bridge.wire[i].kind \in {"runFinished", "runError"}
        /\ history[j].call = call
        /\ history[j].turn = bridge.wire[i].turn

IsCompleted(call) ==
    \E i \in DOMAIN history : history[i].kind = "completed" /\ history[i].call = call

\* No update of the call was dropped.
IsFollowed(call) ==
    \A i \in DOMAIN history : history[i].call = call => history[i].attached

\* The order in which a client has to read the events of a call.
Place(kind) == CASE kind = "callStart"  -> 1
                 [] kind = "callArgs"   -> 2
                 [] kind = "callEnd"    -> 3
                 [] kind = "callResult" -> 4

EventsOf(call) ==
    {k \in DOMAIN bridge.wire :
        bridge.wire[k].kind \in CallKinds /\ bridge.wire[k].call = call}

\* What a client should read of a call.
Promised(call) == IF InputOf(call) = Nil THEN CallKinds \ {"callArgs"} ELSE CallKinds

\* A call none of whose updates was dropped is framed as promised, also
\* across an interrupt: START before its arguments, these at most once, END
\* and RESULT last - and all of it once it is completed or its run is over.
CallsFramed ==
    \A call \in {c \in Calls : IsStarted(c) /\ IsFollowed(c)} :
        LET shown == {bridge.wire[k].kind : k \in EventsOf(call)}
        IN  /\ \A j, k \in EventsOf(call) :
                    j < k => Place(bridge.wire[j].kind) < Place(bridge.wire[k].kind)
            /\ \A k \in EventsOf(call) : bridge.wire[k].kind = "callArgs" =>
                    bridge.wire[k].input = InputOf(call)
            /\ shown \subseteq Promised(call)
            /\ \A kind \in shown, before \in Promised(call) :
                    Place(before) < Place(kind) => before \in shown
            /\ RunOver(call) \/ IsCompleted(call) => shown = Promised(call)

-----------------------------------------------------------------------------
(* Replay                                                                  *)

\* Did the agent mark the end of every turn before the next one began?
TurnsMarked ==
    \A i \in DOMAIN history \ {1} :
        history[i].kind = "user" => history[i - 1].kind = "turnEnd"

\* What was said: all chunks but the results of calls, by their place in a
\* list of messages.
SaidIn(messages) ==
    UNION {{m} \X DOMAIN messages[m].content :
              m \in {n \in DOMAIN messages : messages[n].role # "tool"}}

Earlier(p, q) == p[1] < q[1] \/ (p[1] = q[1] /\ p[2] < q[2])

\* The messages are the conversation: every chunk of it once, in the order of
\* the history, in a message of its role, and nothing else.
Tells(messages) ==
    LET Chunk(p) == messages[p[1]].content[p[2]]
        Spoken == {at \in DOMAIN history : history[at].kind \in ChunkKinds \cup {"user"}}
    IN  /\ \A p \in SaidIn(messages) :
                /\ Chunk(p) \in Spoken
                /\ messages[p[1]].role = RoleOf(history[Chunk(p)].kind)
        /\ \A p, q \in SaidIn(messages) : Earlier(p, q) => Chunk(p) < Chunk(q)
        /\ \A at \in Spoken : \E p \in SaidIn(messages) : Chunk(p) = at

\* Whatever the live session went through, a replay of a history whose turns
\* are marked shows the whole conversation in order, chunk by chunk.  (Any
\* turn may fail at any time, so the idle states meet every history.)
SnapshotInOrder ==
    phase = "idle" /\ TurnsMarked
    => \A rank \in Ranks : Tells(Replay(history, rank))

\* The same of every history, for ACP itself has no turn_end.  The code does
\* not keep it: a user chunk does not end the text message that is open.
SnapshotAlwaysInOrder ==
    \A rank \in Ranks : Tells(Replay(history, rank))

\* The places of a call in a list of messages.
CallsIn(messages, call) ==
    {p \in UNION {{m} \X DOMAIN messages[m].calls : m \in DOMAIN messages} :
        messages[p[1]].calls[p[2]].call = call}

ResultsIn(messages, call) ==
    {m \in DOMAIN messages : messages[m].role = "tool"
                              /\ messages[m].content = <<call>>}

\* A snapshot shows every call of the history once, with the input it was
\* given, and after it exactly one result - also for a call that was never
\* completed or whose arguments came late or not at all.
CallsInSnapshot ==
    phase = "idle" => \A rank \in Ranks :
        LET messages == Replay(history, rank)
        IN  \A call \in Calls :
            LET places  == CallsIn(messages, call)
                results == ResultsIn(messages, call)
            IN  /\ Cardinality(places) = (IF IsStarted(call) THEN 1 ELSE 0)
                /\ Cardinality(results) = Cardinality(places)
                /\ \A p \in places, m \in results :
                    /\ messages[p[1]].calls[p[2]].args = InputOf(call)
                    /\ p[1] < m

\* What a client makes of the events that it reads.
Transcribe(events) ==
    LET read[n \in 0..Len(events)] ==
            IF n = 0 THEN EmptyTranscript ELSE Fold(read[n - 1], events[n])
    IN  read[Len(events)]

\* Messages up to what the user says, how many of one role follow each other,
\* and which of several results comes first.
Bare(message) == IF message.role = "tool" THEN Message("tool", <<>>) ELSE message

Merge(merged, message) ==
    IF message.role = "user" THEN merged
    ELSE IF merged # <<>> /\ Last(merged).role = message.role
    THEN [merged EXCEPT ![Len(merged)] =
             [role    |-> @.role,
              content |-> @.content \o Bare(message).content,
              calls   |-> @.calls \o Bare(message).calls]]
    ELSE Append(merged, Bare(message))

Shape(messages) ==
    LET merged[n \in 0..Len(messages)] ==
            IF n = 0 THEN <<>> ELSE Merge(merged[n - 1], messages[n])
    IN  merged[Len(messages)]

\* No interrupt split a message: text that nothing but the progress of calls
\* came between, and thoughts likewise, were shown as one message.
Unsplit ==
    \A i, j \in DOMAIN bridge.wire :
        LET a == bridge.wire[i]
            b == bridge.wire[j]
        IN  (/\ i < j
             /\ a.kind \in ChunkKinds /\ b.kind = a.kind
             /\ \A k \in a.chunk .. b.chunk :
                    history[k].kind \in {a.kind, "progress", "completed"})
            => a.id = b.id

\* Live and replay converge: when every turn is marked, no update was dropped
\* and no interrupt split a message, what a client made of its streams is what
\* it gets when it loads the session again.
LiveMatchesReplay ==
    (/\ phase = "idle"
     /\ TurnsMarked
     /\ history # <<>> => Last(history).kind = "turnEnd"
     /\ \A i \in DOMAIN history : history[i].kind # "user" => history[i].attached
     /\ Unsplit)
    => \A rank \in Ranks :
        Shape(Transcribe(bridge.wire).messages)
            = Shape(Replay(history, rank))
=============================================================================
