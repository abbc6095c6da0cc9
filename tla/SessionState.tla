---------------------------- MODULE SessionState ----------------------------
(***************************************************************************)
(* The state of one session as three parties hold it: the agent (what is   *)
(* in force), the bridge (its record: current_mode_id and config_options   *)
(* of the ActiveSession, _plans, _usage and _session_info of the bridge)   *)
(* and the client (what the state events told it).  News of the agent      *)
(* travel agent -> bridge -> client; the wishes in a request's `state`     *)
(* travel back, one set_* at a time, as far as they differ from the        *)
(* bridge's record.  (The client is told of a mode by a CUSTOM event and   *)
(* of the rest by STATE_DELTAs; here they are alike.)                      *)
(*                                                                         *)
(* An action is what runs between two awaits.  The client has one request  *)
(* at a time and reads its streams to the end, so `told` is what it has    *)
(* read once it has read all that is queued for it.  The agent's messages  *)
(* arrive in the order they were sent.  Runs, interrupts and their streams *)
(* are RunLifecycle's subject: here it is only whether the bridge has a    *)
(* queue, and whether that queue is still read.  A definition with a       *)
(* longer name before the one it resembles (DiffIgnoresRecord, ...) is no  *)
(* part of the model.                                                      *)
(***************************************************************************)
EXTENDS Naturals, Sequences

CONSTANTS
    Mode,           \* the session's mode, set by session/set_mode
    Options,        \* config options a client may set ("model" is one)
    Advertised,     \* those of them the agent lists in configOptions
    Plans,          \* ids of plans, kept under /plans
    Scalars,        \* usage and sessionInfo, kept at the top level
    Values,
    Nil,            \* Python's None, and a path that is not there
    MaxRuns,        \* bound: requests and reconnects in a behaviour
    MaxNews         \* bound: changes the agent makes on its own

Settings == {Mode} \cup Options
Facts    == Plans \cup Scalars
Items    == Settings \cup Facts

\* What the bridge can have a record of.
Tracked  == Facts \cup {Mode} \cup Advertised

ASSUME ConstantsAssumption ==
    /\ Advertised \subseteq Options
    /\ Mode \notin Options
    /\ Settings \cap Facts = {}
    /\ Nil \notin Values \cup Items
    /\ MaxRuns \in Nat /\ MaxNews \in Nat

VARIABLES
    agent,      \* what is in force at the agent
    known,      \* the bridge's record
    told,       \* what the client was told
    wire,       \* messages of the agent the bridge has not handled yet
    queue,      \* bridge._queue: none, open, ended (after RUN_FINISHED), replay
    turn,       \* the prompt: none, running, asking (parked at an interrupt)
    pc,         \* the apply: idle, sent, answered, back (the awaits are over)
    kind,       \* what it is part of: create, run, resume (none when idle)
    asked,      \* the mode, model and options it is to apply
    todo,       \* settings whose set_* is still to be sent
    call,       \* the setting whose set_* is awaited
    applied,    \* _AppliedSessionOptions, with the values in asked
    acc,        \* the replay accumulator's _state
    following,  \* history: had a snapshot, and every event since
    silent,     \* history: settings recorded without an event to the client
    missed,     \* history: items whose news the bridge did not record
    runs, news

apply   == <<pc, kind, asked, todo, call, applied>>
client  == <<told, following, silent>>
counts  == <<runs, news>>
vars == <<agent, known, wire, queue, turn, apply, acc, client, missed, counts>>

Nothing == [i \in Items |-> Nil]
Wishes  == [Settings -> Values \cup {Nil}]

-----------------------------------------------------------------------------
(* Messages of the agent.  An update names the items it is about; a config *)
(* option update lists all that are advertised.                            *)

About(i) == IF i \in Advertised THEN Advertised ELSE {i}

Update(S, v) == [kind |-> "update", about |-> S,
                 vals |-> [i \in Items |-> IF i \in S THEN v[i] ELSE Nil]]

\* The answer to a set_*.
Reply(k) == [kind |-> k, about |-> {}, vals |-> Nothing]

Message == [kind : {"ok", "error", "update"}, about : SUBSET Items,
            vals : [Items -> Values \cup {Nil}]]

\* Settings the agent has accepted that the bridge has still to write back.
Accepted ==
    applied \cup {s \in {call} : pc = "answered" /\
                                 \E n \in DOMAIN wire : wire[n].kind = "ok"}

-----------------------------------------------------------------------------
(* The record as a new ActiveSession has it: the response to session/new,  *)
(* load or resume may leave out the modes or the options.                  *)

Reports == {{}, {Mode}, Advertised, {Mode} \cup Advertised}

FromResponse(report, facts) ==
    [i \in Items |-> IF i \in Facts THEN facts[i]
                     ELSE IF i \in report THEN agent[i] ELSE Nil]

-----------------------------------------------------------------------------
(* Which set_* a request makes.                                            *)

\* create_session applies every wish ...
Wished(w) == {s \in Settings : w[s] # Nil}

\* Not the model: so does a run.
DiffIgnoresRecord(w) == Wished(w)

\* ... a run only those that differ from the record.
Diff(w) == {s \in Wished(w) : w[s] # known[s]}

\* The mode comes first, then the options in the order of the client's dict.
Firsts(S) == {s \in S : Mode \in S => s = Mode}

\* The next set_* is sent, or the awaits are over.
Calls(S, over) ==
    \/ /\ S = {}
       /\ pc' = over /\ call' = Nil /\ todo' = {}
    \/ \E s \in Firsts(S) : pc' = "sent" /\ call' = s /\ todo' = S \ {s}

-----------------------------------------------------------------------------
(* STATE_SNAPSHOT with the record k, and STATE_DELTA with an update m.     *)

\* Not the model: a snapshot of mode and options only.
ShowSettings(k) ==
    /\ told' = [i \in Items |-> IF i \in Facts THEN told[i] ELSE k[i]]
    /\ following' = TRUE
    /\ silent' = {}

Show(k) ==
    /\ told' = k
    /\ following' = TRUE
    /\ silent' = {}

\* The client's document is of no interest until the next snapshot, which
\* replaces all of it.
Unfollow ==
    /\ told' = Nothing
    /\ following' = FALSE
    /\ silent' = {}

Patched(m) == [i \in Items |-> IF i \in m.about THEN m.vals[i] ELSE told[i]]

-----------------------------------------------------------------------------
(* The session has just been created: session/new is answered, and the     *)
(* first of the create-time set_* is sent.                                 *)

Init ==
    /\ agent \in [Items -> Values \cup {Nil}]
    /\ \A i \in Items : agent[i] = Nil <=> i \in Facts
    /\ \E report \in Reports : known = FromResponse(report, Nothing)
    /\ told = Nothing /\ acc = Nothing
    /\ wire = <<>>
    /\ queue = "none" /\ turn = "none"
    /\ asked \in Wishes
    /\ \/ /\ Wished(asked) = {}
          /\ pc = "idle" /\ kind = "none" /\ call = Nil /\ todo = {}
       \/ \E s \in Firsts(Wished(asked)) :
            /\ pc = "sent" /\ kind = "create" /\ call = s
            /\ todo = Wished(asked) \ {s}
    /\ applied = {}
    /\ following = FALSE
    /\ silent = {} /\ missed = {}
    /\ runs = 0 /\ news = 0

-----------------------------------------------------------------------------
(* Requests.                                                               *)

\* A request carrying w begins its apply.
Request(k, w) ==
    /\ runs < MaxRuns /\ pc = "idle"
    /\ runs' = runs + 1
    /\ kind' = IF Diff(w) = {} THEN "none" ELSE k
    /\ asked' = [s \in Settings |-> IF s \in Diff(w) THEN w[s] ELSE Nil]
    /\ applied' = {}
    /\ Calls(Diff(w), "idle")
    /\ UNCHANGED <<agent, known, wire, acc, missed, news>>

\* POST /ag-ui, fresh: the queue is attached, the prompt's task is created,
\* and the apply begins.  With nothing to apply the snapshot follows at once.
StartRun(w) ==
    /\ Request("run", w)
    /\ turn = "none" /\ queue # "replay"
    /\ turn' = "running" /\ queue' = "open"
    /\ IF Diff(w) = {} THEN Show(known)
       ELSE Unfollow

\* POST /ag-ui with a resume: the interrupt is answered first.  A resume has
\* no snapshot.
ResumeRun(w) ==
    /\ Request("resume", w)
    /\ turn = "asking"
    /\ turn' = "running" /\ queue' = "open"
    /\ UNCHANGED client

\* Not the model: one try around all of the calls.
ReplyAborts ==
    /\ wire # <<>> /\ Head(wire).kind \in {"ok", "error"}
    /\ wire' = Tail(wire)
    /\ IF Head(wire).kind = "ok"
       THEN applied' = applied \cup {call} /\ asked' = asked
       ELSE applied' = applied /\ asked' = [asked EXCEPT ![call] = Nil]
    /\ Calls(IF Head(wire).kind = "ok" THEN todo ELSE {}, "back")
    /\ UNCHANGED <<agent, known, queue, turn, kind, acc, client, missed, counts>>

\* Not the model: the answer is left to be taken again.
HearReplyTwice ==
    /\ wire # <<>> /\ Head(wire).kind \in {"ok", "error"}
    /\ wire' = wire
    /\ IF Head(wire).kind = "ok"
       THEN applied' = applied \cup {call} /\ asked' = asked
       ELSE applied' = applied /\ asked' = [asked EXCEPT ![call] = Nil]
    /\ Calls(todo, "back")
    /\ UNCHANGED <<agent, known, queue, turn, kind, acc, client, missed, counts>>

\* Not the model: a refused value is recorded like an accepted one.
ReplyRecordsAll ==
    /\ wire # <<>> /\ Head(wire).kind \in {"ok", "error"}
    /\ wire' = Tail(wire)
    /\ applied' = applied \cup {call} /\ asked' = asked
    /\ Calls(todo, "back")
    /\ UNCHANGED <<agent, known, queue, turn, kind, acc, client, missed, counts>>

\* A set_* returns or raises: each has its own try, so the next one is sent
\* either way.
HearReply ==
    /\ wire # <<>> /\ Head(wire).kind \in {"ok", "error"}
    /\ wire' = Tail(wire)
    /\ IF Head(wire).kind = "ok"
       THEN applied' = applied \cup {call} /\ asked' = asked
       ELSE applied' = applied /\ asked' = [asked EXCEPT ![call] = Nil]
    /\ Calls(todo, "back")
    /\ UNCHANGED <<agent, known, queue, turn, kind, acc, client, missed, counts>>

\* An advertised option is changed in place; one that is not is not added.
Recorded == [i \in Items |-> IF i \in applied /\ (i = Mode \/ known[i] # Nil)
                             THEN asked[i] ELSE known[i]]

\* The awaits are over: the record is refreshed with what was applied, and a
\* fresh run emits its snapshot - on the queue attached by now.
WriteBack ==
    /\ pc = "back"
    /\ pc' = "idle" /\ kind' = "none"
    /\ known' = Recorded
    /\ applied' = {} /\ asked' = [s \in Settings |-> Nil]
    /\ IF kind = "run" /\ queue = "open" THEN Show(Recorded)
       ELSE /\ silent' = IF following THEN silent \cup applied ELSE silent
            /\ UNCHANGED <<told, following>>
    /\ UNCHANGED <<agent, wire, queue, turn, todo, call, acc, missed, counts>>

-----------------------------------------------------------------------------
(* The agent.                                                              *)

\* It accepts a value, and may or may not reflect it in an update of its own.
AgentAccepts ==
    /\ pc = "sent" /\ pc' = "answered"
    /\ agent' = [agent EXCEPT ![call] = asked[call]]
    /\ \/ wire' = Append(wire, Reply("ok"))
       \/ /\ call \in Tracked
          /\ \/ wire' = Append(Append(wire, Reply("ok")), Update(About(call), agent'))
             \/ wire' = Append(Append(wire, Update(About(call), agent')), Reply("ok"))
    /\ missed' = missed \ {call}
    /\ UNCHANGED <<known, queue, turn, kind, asked, todo, call, applied,
                   acc, client, counts>>

AgentRefuses ==
    /\ pc = "sent" /\ pc' = "answered"
    /\ wire' = Append(wire, Reply("error"))
    /\ UNCHANGED <<agent, known, queue, turn, kind, asked, todo, call, applied,
                   acc, client, missed, counts>>

\* It changes something on its own: a mode it leaves, a plan, its usage.  Only
\* a plan can go away.  Of an option it does not advertise it says nothing.
OwnChange(i, v) ==
    /\ news < MaxNews /\ queue # "replay"
    /\ v # agent[i]
    /\ v = Nil => i \in Plans
    /\ news' = news + 1
    /\ agent' = [agent EXCEPT ![i] = v]
    /\ wire' = IF i \in Tracked THEN Append(wire, Update(About(i), agent')) ELSE wire
    /\ missed' = missed \cup ({i} \cap Accepted)
    /\ UNCHANGED <<known, queue, turn, apply, acc, client, runs>>

\* The turn ends.  Its answer comes after all the agent sent before.
TurnEnds ==
    /\ turn = "running" /\ wire = <<>>
    /\ turn' = "none"
    /\ queue' = IF queue = "open" THEN "ended" ELSE queue
    /\ IF queue = "open" THEN Unfollow ELSE UNCHANGED client
    /\ UNCHANGED <<agent, known, wire, apply, acc, missed, counts>>

\* The turn is parked at an interrupt: _suspend_run takes the queue away.
Suspend ==
    /\ turn = "running" /\ queue = "open" /\ wire = <<>>
    /\ turn' = "asking" /\ queue' = "none"
    /\ UNCHANGED <<agent, known, wire, apply, acc, client, missed, counts>>

\* Not the model: the TTL callback looks for a queue to report on.
ExpireAttached ==
    /\ turn = "asking" /\ queue # "none"
    /\ turn' = "running"
    /\ UNCHANGED <<agent, known, wire, queue, apply, acc, client, missed, counts>>

\* Nobody answers in time: the turn goes on without a queue.
Expire ==
    /\ turn = "asking"
    /\ turn' = "running"
    /\ UNCHANGED <<agent, known, wire, queue, apply, acc, client, missed, counts>>

-----------------------------------------------------------------------------
(* session_update.                                                         *)

\* Without a queue the update is dropped; the callbacks that refresh mode and
\* options are attached only once a replay is over.
Heard(m) == IF queue = "none" THEN {}
            ELSE IF queue = "replay" THEN m.about \cap Facts ELSE m.about

\* The accumulator applies the deltas of a replay; the mode's is no delta.
Folded(m) == [i \in Items |-> IF i \in m.about \ {Mode} THEN m.vals[i] ELSE acc[i]]

\* An update is recorded, and passed on to the client or the accumulator.
HearUpdate ==
    /\ wire # <<>> /\ Head(wire).kind = "update"
    /\ wire' = Tail(wire)
    /\ LET m == Head(wire) IN
        /\ known' = [i \in Items |-> IF i \in Heard(m) THEN m.vals[i] ELSE known[i]]
        /\ acc' = IF queue = "replay" THEN Folded(m) ELSE acc
        /\ IF queue = "open" /\ following
           THEN told' = Patched(m) /\ silent' = silent \ m.about
           ELSE UNCHANGED <<told, silent>>
        /\ missed' = IF queue = "none"
                     THEN missed \cup {i \in m.about : m.vals[i] # known[i]}
                     ELSE missed \ (m.about \ Accepted)
    /\ UNCHANGED <<agent, queue, turn, apply, following, counts>>

-----------------------------------------------------------------------------
(* A session that is not live: session/load replays it, session/resume     *)
(* does not.  Either starts a subprocess and a bridge of its own.          *)

\* connect_session: the agent's facts are those of the history it replays.
StartReplay ==
    /\ runs < MaxRuns /\ pc = "idle" /\ turn = "none" /\ queue # "replay"
    /\ runs' = runs + 1
    /\ queue' = "replay"
    /\ agent' = [i \in Items |-> IF i \in Facts THEN Nil ELSE agent[i]]
    /\ known' = Nothing /\ acc' = Nothing
    /\ wire' = <<>>
    /\ Unfollow
    /\ missed' = {}
    /\ UNCHANGED <<turn, apply, news>>

\* Facts are replayed as they came about, options with whatever they once were.
ReplayFact(i, v) ==
    /\ queue = "replay" /\ news < MaxNews
    /\ v = Nil => i \in Plans
    /\ news' = news + 1
    /\ agent' = [agent EXCEPT ![i] = v]
    /\ wire' = Append(wire, Update({i}, agent'))
    /\ UNCHANGED <<known, queue, turn, apply, acc, client, missed, runs>>

ReplayOptions(v) ==
    /\ queue = "replay" /\ news < MaxNews
    /\ news' = news + 1
    /\ wire' = Append(wire, Update(Advertised, [i \in Items |-> v]))
    /\ UNCHANGED <<agent, known, queue, turn, apply, acc, client, missed, runs>>

\* merge_state: what the response reports replaces what was replayed.
Merged(report) == [i \in Items |-> IF i \in report THEN agent[i] ELSE acc[i]]

\* session/load is answered: what the response reports is merged over the
\* accumulated state, and the client is shown that.
EndReplay(report) ==
    /\ queue = "replay" /\ wire = <<>>
    /\ queue' = "none"
    /\ known' = FromResponse(report, known)
    /\ Show(Merged(report))
    /\ acc' = Nothing
    /\ UNCHANGED <<agent, wire, turn, apply, missed, counts>>

\* attach_for_prompt of a session that was reaped or lost in a restart: plans,
\* usage and session info cannot be asked for.
Reattach(report) ==
    /\ pc = "idle" /\ turn = "none" /\ queue # "replay"
    /\ queue' = "none"
    /\ known' = FromResponse(report, Nothing)
    /\ wire' = <<>>
    /\ Unfollow
    /\ missed' = {i \in Facts : agent[i] # Nil}
    /\ UNCHANGED <<agent, turn, apply, acc, counts>>

-----------------------------------------------------------------------------
(* The specification.                                                      *)

Next ==
    \/ \E w \in Wishes : StartRun(w) \/ ResumeRun(w)
    \/ HearReply \/ HearUpdate \/ WriteBack
    \/ AgentAccepts \/ AgentRefuses
    \/ \E i \in Items, v \in Values \cup {Nil} : OwnChange(i, v)
    \/ TurnEnds \/ Suspend \/ Expire
    \/ StartReplay
    \/ \E i \in Facts, v \in Values \cup {Nil} : ReplayFact(i, v)
    \/ \E v \in Values : ReplayOptions(v)
    \/ \E report \in Reports : EndReplay(report) \/ Reattach(report)

Spec == Init /\ [][Next]_vars

\* An agent may be too busy with its turn to answer a set_*, but not without a
\* turn; a turn that waits for nobody ends; the TTL callback runs.
Fairness ==
    /\ WF_vars(HearReply) /\ WF_vars(HearUpdate) /\ WF_vars(WriteBack)
    /\ WF_vars(turn = "none" /\ (AgentAccepts \/ AgentRefuses))
    /\ WF_vars(TurnEnds) /\ WF_vars(Expire)

FairSpec == Spec /\ Fairness

-----------------------------------------------------------------------------
(* Properties.                                                             *)

\* Every variable has its sort.  The wire carries at most the one answer that
\* is awaited.
TypeOK ==
    /\ agent \in [Items -> Values \cup {Nil}]
    /\ known \in [Items -> Values \cup {Nil}]
    /\ told \in [Items -> Values \cup {Nil}]
    /\ acc \in [Items -> Values \cup {Nil}]
    /\ wire \in Seq(Message)
    /\ queue \in {"none", "open", "ended", "replay"}
    /\ turn \in {"none", "running", "asking"}
    /\ pc \in {"idle", "sent", "answered", "back"}
    /\ kind \in {"none", "create", "run", "resume"}
    /\ asked \in Wishes
    /\ todo \subseteq Settings
    /\ call \in Settings \cup {Nil}
    /\ pc \in {"sent", "answered"} => call # Nil
    /\ applied \subseteq Settings
    /\ following \in BOOLEAN
    /\ silent \subseteq Settings /\ missed \subseteq Items
    /\ runs \in 0 .. MaxRuns /\ news \in 0 .. MaxNews

\* When nothing is under way the bridge's record is what is in force at the
\* agent, whatever was refused, applied or changed by the agent meanwhile, but
\* for items it has missed: changed by the agent between its accepting a
\* value and the write-back (which overwrites the newer value), announced while
\* there was no queue, or lost with the previous subprocess - and then until
\* the next update or set_* (_apply_session_options, _attach_state_callbacks).
RecordIsCurrent ==
    pc = "idle" /\ wire = <<>> =>
        \A i \in Tracked \ missed :
            (i \in Facts \/ known[i] # Nil) => known[i] = agent[i]

\* A client that had a snapshot and every event since knows the bridge's record
\* (_emit_state_snapshot, the STATE_DELTAs of session_update, end_replay): the
\* deltas are applicable and complete, across the interrupts of a turn and
\* after a replay.  Only what the apply of a resume recorded is not announced.
ClientIsTold ==
    following =>
        /\ \A i \in Facts : told[i] = known[i]
        /\ \A i \in (Tracked \ Facts) \ silent : known[i] \in {told[i], Nil}

\* At the start of an apply in which nothing about setting s is under way or
\* missed, s is sent to the agent exactly if the agent does not have the value:
\* no redundant set_*, and one that was refused is retried
\* (_diff_session_options).
CallsAreTheDifference ==
    [][ \A w \in Wishes : StartRun(w) \/ ResumeRun(w) =>
        \A s \in (Wished(w) \cap Tracked) \ missed :
            known[s] # Nil /\ (\A n \in DOMAIN wire : s \notin wire[n].about)
            => (s \in todo' \cup {call'} <=> agent[s] # w[s]) ]_vars

\* One set_* that fails does not keep the others from being sent.
EachIsCalled == \A s \in Settings : s \in todo ~> call = s

\* Every request gets its response: an agent that answers a set_* only between
\* turns does not block one for ever, although its turn may be parked at an
\* interrupt the client cannot see before it has the response.
RequestAnswered == pc # "idle" ~> pc = "idle"

\* The callbacks keep "the manager-side diff baseline" so that it "reflects
\* agent-driven changes" (_attach_state_callbacks): RecordIsCurrent without its
\* exception.
RecordReflectsAgent ==
    pc = "idle" /\ wire = <<>> /\ queue # "replay" =>
        \A s \in Tracked \ Facts : known[s] # Nil => known[s] = agent[s]
=============================================================================
