--------------------------- MODULE SessionManager ---------------------------
(***************************************************************************)
(* The SessionManager and its SessionStore under concurrent HTTP requests: *)
(* which subprocess serves which session, who kills it, what is on disk,   *)
(* and the capability probe.  Requests, the idle reaper and the agents     *)
(* interleave at the awaits of the code; an action is what runs between    *)
(* two of them.                                                            *)
(*                                                                         *)
(* A request spawns at most one subprocess for a session, so a subprocess, *)
(* and the ActiveSession made for it, has the name of the request.  What   *)
(* runs do inside a session is RunLifecycle's subject: here it is only     *)
(* whether the session was ever prompted and whether an interrupt is       *)
(* parked.  The file system does not fail, every cwd is allowed, a prompt  *)
(* has a text, and the agent advertises capabilities; which ones is open.  *)
(***************************************************************************)
EXTENDS Naturals, FiniteSets

CONSTANTS
    Tasks,          \* HTTP requests
    Sessions,       \* ids the agent may give to a session
    Overlap,        \* may a session be asked for while it is being served?
    MaxRestarts,    \* bound: restarts of the bridge in a behaviour
    Nil             \* Python's None

\* What a request asks for.
Kinds == {"create", "connect", "prompt", "delete", "list"}

ASSUME ConstantsAssumption ==
    /\ Overlap \in BOOLEAN
    /\ MaxRestarts \in Nat
    /\ Nil \notin Tasks \cup Sessions \cup Kinds

VARIABLES
    table,      \* manager._sessions
    proc,       \* the subprocess a request spawned
    caps,       \* is manager._capabilities known?
    lock,       \* the holder of _capabilities_lock
    file,       \* SessionStore: what is on disk for a session
    kind,       \* what a request asks for
    sid,        \* the session it is about
    pc,         \* the await it is at
    victim,     \* the subprocess it is killing
    failed,     \* requests that ended in an exception nobody handled
    doomed,     \* sweep_idle: the stale ids still to be destroyed
    reaped,     \* sweep_idle: the subprocess being killed
    idle,       \* last_active_at is longer ago than the TTL
    run,        \* was the session prompted, is an interrupt parked?
    agent,      \* the sessions the agent has a record of
    born,       \* the ids the agent has given out
    acked,      \* sessions whose creation was answered with 201
    deleted,    \* sessions whose deletion was answered with 204
    restarts

manager == <<table, caps, lock>>
request == <<kind, sid>>
reaper  == <<doomed, reaped>>
active  == <<idle, run>>
history == <<born, acked, deleted, restarts>>
vars == <<manager, proc, file, request, pc, victim, failed, reaper, active,
          agent, history>>

-----------------------------------------------------------------------------
(* Helpers.  A definition with a longer name before the one it resembles   *)
(* (ConnectPopForgets, WriteAcks, ...) is no part of the model: it is a    *)
(* mistake that one of the properties would show.                          *)

Busy(t) == pc[t] \notin {"unused", "done"}

At(t, where) == pc[t] = where
Goto(t, where) == pc' = [pc EXCEPT ![t] = where]

\* A client that has one request at a time for a session.
MayAsk(s) == Overlap \/ \A t \in Tasks : Busy(t) => sid[t] # s

\* Subprocesses that were taken out of the table in order to be killed.
Dying == {victim[t] : t \in {u \in Tasks : pc[u] \in {"delete", "kill", "abort"}}}
         \cup {reaped}

\* _sessions.pop(s): what was there is killed next, by request t.
PopInto(t, s, where) ==
    /\ victim' = [victim EXCEPT ![t] = table[s]]
    /\ table' = [table EXCEPT ![s] = Nil]
    /\ Goto(t, where)

\* A run starts on the ActiveSession p: touch().
StartRunOn(p) ==
    /\ idle' = [idle EXCEPT ![p] = FALSE]
    /\ run' = [run EXCEPT ![p] = IF @ = "parked" THEN @ ELSE "prompted"]

-----------------------------------------------------------------------------
(* Arrival.  A client uses the ids it was given.                           *)

Ask(t, k, s) ==
    /\ pc[t] = "unused"
    /\ IF k \in {"create", "list"} THEN s = Nil ELSE s \in born /\ MayAsk(s)
    /\ kind' = [kind EXCEPT ![t] = k]
    /\ sid' = [sid EXCEPT ![t] = s]
    /\ Goto(t, "asked")
    /\ UNCHANGED <<manager, proc, file, victim, failed, reaper, active, agent, history>>

\* POST /ag-ui when the session is live: attach_for_prompt returns what is in
\* the table, and the run starts before anything else can happen.
PromptLive(t) ==
    /\ kind[t] = "prompt"
    /\ \/ At(t, "asked")
       \/ At(t, "resolve") /\ file[sid[t]] = "recorded"
    /\ table[sid[t]] # Nil
    /\ StartRunOn(table[sid[t]])
    /\ Goto(t, "done")
    /\ UNCHANGED <<manager, proc, file, request, victim, failed, reaper, agent, history>>

\* resolve_cwd without a live session: the record is read from disk ...
ResolveCwd(t) ==
    /\ kind[t] \in {"connect", "prompt"}
    /\ At(t, "asked")
    /\ table[sid[t]] = Nil
    /\ Goto(t, "resolve")
    /\ UNCHANGED <<manager, proc, file, request, victim, failed, reaper, active, agent, history>>

\* ... and when there is none: CwdRecordNotFoundError, 404.
NoRecord(t) ==
    /\ At(t, "resolve")
    /\ file[sid[t]] # "recorded"
    /\ Goto(t, "done")
    /\ UNCHANGED <<manager, proc, file, request, victim, failed, reaper, active, agent, history>>

-----------------------------------------------------------------------------
(* get_capabilities: a double-checked lock around a throwaway subprocess.  *)

\* The request's handler has got as far as the call of get_capabilities.
WantsCaps(t) ==
    \/ kind[t] \in {"delete", "list"} /\ At(t, "asked")
    \/ kind[t] = "connect" /\ At(t, "asked") /\ table[sid[t]] # Nil
    \/ kind[t] = "connect" /\ At(t, "resolve") /\ file[sid[t]] = "recorded"
    \/ kind[t] = "prompt" /\ At(t, "resolve") /\ file[sid[t]] = "recorded"
                          /\ table[sid[t]] = Nil

\* ... and has its answer: the first check needs no await.
HasCaps(t) == (WantsCaps(t) /\ caps) \/ At(t, "capable")

WaitLock(t) ==
    /\ WantsCaps(t) /\ ~caps /\ lock # Nil
    /\ Goto(t, "lock")
    /\ UNCHANGED <<manager, proc, file, request, victim, failed, reaper, active, agent, history>>

TakeLockUnchecked(t) ==
    /\ (WantsCaps(t) /\ ~caps) \/ At(t, "lock")
    /\ lock = Nil
    /\ lock' = t /\ Goto(t, "probe")
    /\ UNCHANGED <<table, caps, proc, file, request, victim, failed, reaper, active, agent, history>>

\* Under the lock the cache is checked again.
TakeLock(t) ==
    /\ (WantsCaps(t) /\ ~caps) \/ At(t, "lock")
    /\ lock = Nil
    /\ IF caps THEN lock' = lock /\ Goto(t, "capable")
               ELSE lock' = t /\ Goto(t, "probe")
    /\ UNCHANGED <<table, caps, proc, file, request, victim, failed, reaper, active, agent, history>>

\* The probe answers initialize, or fails; either way it is killed next.
ProbeAnswers(t) ==
    /\ At(t, "probe")
    /\ \/ caps' = TRUE /\ Goto(t, "unprobe")
       \/ caps' = caps /\ Goto(t, "probefailed")
    /\ UNCHANGED <<table, lock, proc, file, request, victim, failed, reaper, active, agent, history>>

ProbeKilledKeepsLock(t) ==
    /\ pc[t] \in {"unprobe", "probefailed"}
    /\ Goto(t, IF At(t, "unprobe") THEN "capable" ELSE "done")
    /\ lock' = IF At(t, "unprobe") THEN Nil ELSE lock
    /\ UNCHANGED <<table, caps, proc, file, request, victim, failed, reaper, active, agent, history>>

\* The probe is gone: the lock is released, the caller goes on or fails.
ProbeKilled(t) ==
    /\ pc[t] \in {"unprobe", "probefailed"}
    /\ Goto(t, IF At(t, "unprobe") THEN "capable" ELSE "done")
    /\ lock' = Nil
    /\ UNCHANGED <<table, caps, proc, file, request, victim, failed, reaper, active, agent, history>>

\* The agent does not advertise what the request needs; or it was a list,
\* which asks a live subprocess or another throwaway one and changes nothing.
RefuseOrList(t) ==
    /\ HasCaps(t)
    /\ Goto(t, "done")
    /\ UNCHANGED <<manager, proc, file, request, victim, failed, reaper, active, agent, history>>

-----------------------------------------------------------------------------
(* create_session, connect_session, attach_for_prompt.                     *)

ConnectPopForgets(t) ==
    /\ kind[t] = "connect" /\ HasCaps(t)
    /\ victim' = [victim EXCEPT ![t] = table[sid[t]]]
    /\ Goto(t, IF table[sid[t]] # Nil THEN "kill" ELSE "spawn")
    /\ UNCHANGED <<table, caps, lock, proc, file, request, failed, reaper, active, agent, history>>

\* connect_session takes a live session out of the table and kills it first.
ConnectPop(t) ==
    /\ kind[t] = "connect" /\ HasCaps(t)
    /\ IF table[sid[t]] # Nil THEN PopInto(t, sid[t], "kill")
                              ELSE UNCHANGED <<table, victim>> /\ Goto(t, "spawn")
    /\ UNCHANGED <<caps, lock, proc, file, request, failed, reaper, active, agent, history>>

\* attach_for_prompt does not look at the table again after this.
AttachCold(t) ==
    /\ kind[t] = "prompt" /\ HasCaps(t)
    /\ Goto(t, "spawn")
    /\ UNCHANGED <<manager, proc, file, request, victim, failed, reaper, active, agent, history>>

\* create_session begins with the spawn.
AtSpawn(t) == At(t, "spawn") \/ (At(t, "asked") /\ kind[t] = "create")

\* runner.spawn returns.
Spawn(t) ==
    /\ AtSpawn(t)
    /\ proc' = [proc EXCEPT ![t] = "up"]
    /\ Goto(t, "init")
    /\ UNCHANGED <<manager, file, request, victim, failed, reaper, active, agent, history>>

\* initialize is answered: every real session refreshes the cache.
Initialize(t) ==
    /\ At(t, "init")
    /\ caps' = TRUE
    /\ Goto(t, "open")
    /\ UNCHANGED <<table, lock, proc, file, request, victim, failed, reaper, active, agent, history>>

\* The ActiveSession of t's subprocess goes into the table, whatever was there.
Register(t, s) == table' = [table EXCEPT ![s] = t]

\* session/new gave an id (and the create-time options were tried).
OpenNew(t) ==
    /\ At(t, "open") /\ kind[t] = "create"
    /\ \E s \in Sessions \ born :
        /\ born' = born \cup {s}
        /\ agent' = agent \cup {s}
        /\ sid' = [sid EXCEPT ![t] = s]
        /\ Register(t, s)
    /\ Goto(t, "write")
    /\ UNCHANGED <<caps, lock, proc, file, kind, victim, failed, reaper, active,
                   acked, deleted, restarts>>

\* session/load or session/resume succeeds: the replay is streamed, or the run
\* starts.
OpenKnown(t) ==
    /\ At(t, "open") /\ kind[t] # "create"
    /\ sid[t] \in agent
    /\ Register(t, sid[t])
    /\ IF kind[t] = "connect" THEN Goto(t, "stream") /\ UNCHANGED active
                              ELSE Goto(t, "done") /\ StartRunOn(t)
    /\ UNCHANGED <<caps, lock, proc, file, request, victim, failed, reaper, agent, history>>

OpenRefusedLeaks(t) ==
    /\ At(t, "open") /\ kind[t] # "create"
    /\ Goto(t, "done")
    /\ UNCHANGED <<manager, proc, file, request, victim, failed, reaper, active, agent, history>>

\* ... or the agent answers it with a RequestError: kill, then 404 or 500.
OpenRefused(t) ==
    /\ At(t, "open") /\ kind[t] # "create"
    /\ victim' = [victim EXCEPT ![t] = t]
    /\ Goto(t, "abort")
    /\ UNCHANGED <<manager, proc, file, request, failed, reaper, active, agent, history>>

\* Any other exception at these awaits is nobody's: 500, and nothing is killed.
Unhandled(t) ==
    /\ AtSpawn(t) \/ pc[t] \in {"init", "open"}
    /\ failed' = failed \cup {t}
    /\ Goto(t, "done")
    /\ UNCHANGED <<manager, proc, file, request, victim, reaper, active, agent, history>>

WriteAcks(t) ==
    /\ At(t, "write")
    /\ file' = [file EXCEPT ![sid[t]] = "partial"]
    /\ acked' = acked \cup {sid[t]}
    /\ Goto(t, "rename")
    /\ UNCHANGED <<manager, proc, request, victim, failed, reaper, active, agent, born, deleted, restarts>>

\* store.put: the temporary file ...
Write(t) ==
    /\ At(t, "write")
    /\ file' = [file EXCEPT ![sid[t]] = "partial"]
    /\ Goto(t, "rename")
    /\ UNCHANGED <<manager, proc, request, victim, failed, reaper, active, agent, history>>

\* ... is renamed, and the session is answered for: 201.
Rename(t) ==
    /\ At(t, "rename")
    /\ file' = [file EXCEPT ![sid[t]] = "recorded"]
    /\ acked' = acked \cup {sid[t]}
    /\ Goto(t, "done")
    /\ UNCHANGED <<manager, proc, request, victim, failed, reaper, active, agent, born, deleted, restarts>>

\* The replay stream is drained, or its client leaves and stop() kills
\* whatever serves the session by then.
StreamEnds(t) ==
    /\ At(t, "stream")
    /\ \/ Goto(t, "done") /\ UNCHANGED <<table, victim>>
       \/ table[sid[t]] # Nil /\ PopInto(t, sid[t], "abort")
    /\ UNCHANGED <<caps, lock, proc, file, request, failed, reaper, active, agent, history>>

-----------------------------------------------------------------------------
(* delete_session, and what kills have in common.                          *)

DeletePop(t) ==
    /\ kind[t] = "delete" /\ HasCaps(t)
    /\ IF table[sid[t]] # Nil THEN PopInto(t, sid[t], "delete")
                              ELSE UNCHANGED <<table, victim>> /\ Goto(t, "probedelete")
    /\ UNCHANGED <<caps, lock, proc, file, request, failed, reaper, active, agent, history>>

\* session/delete is answered by the live or a throwaway subprocess.  When it
\* fails the live one is killed all the same, and the record is kept.
AgentDeletes(t) ==
    /\ pc[t] \in {"delete", "probedelete"}
    /\ \/ /\ agent' = agent \ {sid[t]}
          /\ Goto(t, IF At(t, "delete") THEN "kill" ELSE "remove")
       \/ /\ agent' = agent
          /\ Goto(t, IF At(t, "delete") THEN "abort" ELSE "done")
    /\ UNCHANGED <<manager, proc, file, request, victim, failed, reaper, active, history>>

RemoveLeavesMark(t) ==
    /\ At(t, "remove")
    /\ file' = [file EXCEPT ![sid[t]] = IF @ = "recorded" THEN "deleted" ELSE @]
    /\ deleted' = deleted \cup {sid[t]}
    /\ Goto(t, "done")
    /\ UNCHANGED <<manager, proc, request, victim, failed, reaper, active, agent, born, acked, restarts>>

RemoveForgets(t) ==
    /\ At(t, "remove")
    /\ file' = file
    /\ deleted' = deleted \cup {sid[t]}
    /\ Goto(t, "done")
    /\ UNCHANGED <<manager, proc, request, victim, failed, reaper, active, agent, born, acked, restarts>>

\* store.remove, and 204.
Remove(t) ==
    /\ At(t, "remove")
    /\ file' = [file EXCEPT ![sid[t]] = IF @ = "recorded" THEN "absent" ELSE @]
    /\ deleted' = deleted \cup {sid[t]}
    /\ Goto(t, "done")
    /\ UNCHANGED <<manager, proc, request, victim, failed, reaper, active, agent, born, acked, restarts>>

\* runner.kill returns: connect goes on to spawn, delete to the record, and a
\* request that gave up is done.
Killed(t) ==
    /\ pc[t] \in {"kill", "abort"}
    /\ proc' = [proc EXCEPT ![victim[t]] = "dead"]
    /\ Goto(t, IF At(t, "abort") THEN "done"
               ELSE IF kind[t] = "connect" THEN "spawn" ELSE "remove")
    /\ UNCHANGED <<manager, file, request, victim, failed, reaper, active, agent, history>>

-----------------------------------------------------------------------------
(* The idle reaper and the life of a session.                              *)

StaleIfUnused ==
    {s \in Sessions : table[s] # Nil /\ idle[table[s]] /\ run[table[s]] = "fresh"}

\* sweep_idle's scan: untouched for the TTL, and no interrupt is parked.
Stale ==
    {s \in Sessions : table[s] # Nil /\ idle[table[s]] /\ run[table[s]] # "parked"}

\* destroy: popped and killed, without another look at it.
Destroy(s) ==
    /\ reaped' = table[s]
    /\ table' = [table EXCEPT ![s] = Nil]

\* The scan, up to the first kill.
Sweep ==
    /\ doomed = {} /\ reaped = Nil
    /\ \E s \in Stale : Destroy(s) /\ doomed' = Stale \ {s}
    /\ UNCHANGED <<caps, lock, proc, file, request, pc, victim, failed, active, agent, history>>

\* The next of the ids the scan found.
SweepNext ==
    /\ reaped = Nil
    /\ \E s \in doomed : Destroy(s) /\ doomed' = doomed \ {s}
    /\ UNCHANGED <<caps, lock, proc, file, request, pc, victim, failed, active, agent, history>>

Reaped ==
    /\ reaped # Nil
    /\ proc' = [proc EXCEPT ![reaped] = "dead"]
    /\ reaped' = Nil
    /\ UNCHANGED <<manager, file, request, pc, victim, failed, doomed, active, agent, history>>

\* Time passes without a touch(); a run that goes on does not count as one.
GoIdle(p) ==
    /\ \E s \in Sessions : table[s] = p
    /\ ~idle[p]
    /\ idle' = [idle EXCEPT ![p] = TRUE]
    /\ UNCHANGED <<manager, proc, file, request, pc, victim, failed, reaper, run, agent, history>>

\* The agent asks for permission in a run, and the prompt is parked.
ParkInterrupt(p) ==
    /\ \E s \in Sessions : table[s] = p
    /\ run[p] = "prompted"
    /\ run' = [run EXCEPT ![p] = "parked"]
    /\ UNCHANGED <<manager, proc, file, request, pc, victim, failed, reaper, idle, agent, history>>

\* The interrupt is answered: by a resume, which touches, or by its TTL.
AnswerInterrupt(p) ==
    /\ run[p] = "parked"
    /\ run' = [run EXCEPT ![p] = "prompted"]
    /\ idle' \in {idle, IF \E s \in Sessions : table[s] = p
                        THEN [idle EXCEPT ![p] = FALSE] ELSE idle}
    /\ UNCHANGED <<manager, proc, file, request, pc, victim, failed, reaper, agent, history>>

\* The bridge crashes or is shut down, and starts again: requests and tables
\* are lost, the agents' pipes close and they exit; disk and agent records stay.
Restart ==
    /\ restarts < MaxRestarts
    /\ restarts' = restarts + 1
    /\ table' = [s \in Sessions |-> Nil]
    /\ proc' = [t \in Tasks |-> IF proc[t] = "up" THEN "dead" ELSE proc[t]]
    /\ caps' = FALSE /\ lock' = Nil
    /\ pc' = [t \in Tasks |-> IF Busy(t) THEN "done" ELSE pc[t]]
    /\ doomed' = {} /\ reaped' = Nil
    /\ idle' = [t \in Tasks |-> FALSE] /\ run' = [t \in Tasks |-> "fresh"]
    /\ UNCHANGED <<file, request, victim, failed, agent, born, acked, deleted>>

-----------------------------------------------------------------------------
Init ==
    /\ table = [s \in Sessions |-> Nil]
    /\ proc = [t \in Tasks |-> "none"]
    /\ caps = FALSE /\ lock = Nil
    /\ file = [s \in Sessions |-> "absent"]
    /\ kind = [t \in Tasks |-> Nil]
    /\ sid = [t \in Tasks |-> Nil]
    /\ pc = [t \in Tasks |-> "unused"]
    /\ victim = [t \in Tasks |-> Nil]
    /\ failed = {}
    /\ doomed = {} /\ reaped = Nil
    /\ idle = [t \in Tasks |-> FALSE]
    /\ run = [t \in Tasks |-> "fresh"]
    /\ agent = {} /\ born = {} /\ acked = {} /\ deleted = {}
    /\ restarts = 0

\* What a request does once it was asked.
Step(t) ==
    \/ PromptLive(t) \/ ResolveCwd(t) \/ NoRecord(t)
    \/ WaitLock(t) \/ TakeLock(t) \/ ProbeAnswers(t) \/ ProbeKilled(t)
    \/ RefuseOrList(t)
    \/ ConnectPop(t) \/ AttachCold(t) \/ Spawn(t) \/ Initialize(t)
    \/ OpenNew(t) \/ OpenKnown(t) \/ OpenRefused(t) \/ Unhandled(t)
    \/ Write(t) \/ Rename(t) \/ StreamEnds(t)
    \/ DeletePop(t) \/ AgentDeletes(t) \/ Remove(t) \/ Killed(t)

Reaper == Sweep \/ SweepNext \/ Reaped

Next ==
    \/ \E t \in Tasks, k \in Kinds, s \in Sessions \cup {Nil} : Ask(t, k, s)
    \/ \E t \in Tasks : Step(t)
    \/ Reaper
    \/ \E p \in Tasks : GoIdle(p) \/ ParkInterrupt(p) \/ AnswerInterrupt(p)
    \/ Restart

Spec == Init /\ [][Next]_vars

\* Agents, disk and event loop answer, and the reaper comes round every minute.
Fairness == (\A t \in Tasks : WF_vars(Step(t))) /\ WF_vars(Reaper)

FairSpec == Spec /\ Fairness

-----------------------------------------------------------------------------
(* Properties.                                                             *)

\* Types: the tables hold requests' subprocesses, and what is on disk is a
\* whole record, a temporary file or nothing.
TypeOK ==
    /\ table \in [Sessions -> Tasks \cup {Nil}]
    /\ proc \in [Tasks -> {"none", "up", "dead"}]
    /\ caps \in BOOLEAN /\ lock \in Tasks \cup {Nil}
    /\ file \in [Sessions -> {"absent", "partial", "recorded"}]
    /\ kind \in [Tasks -> Kinds \cup {Nil}]
    /\ sid \in [Tasks -> Sessions \cup {Nil}]
    /\ pc \in [Tasks -> {"unused", "asked", "resolve", "lock", "probe", "unprobe",
                         "probefailed", "capable", "spawn", "init", "open",
                         "write", "rename", "stream", "delete", "probedelete",
                         "remove", "kill", "abort", "done"}]
    /\ victim \in [Tasks -> Tasks \cup {Nil}]
    /\ failed \subseteq Tasks
    /\ doomed \subseteq Sessions /\ reaped \in Tasks \cup {Nil}
    /\ idle \in [Tasks -> BOOLEAN]
    /\ run \in [Tasks -> {"fresh", "prompted", "parked"}]
    /\ agent \subseteq Sessions /\ born \subseteq Sessions
    /\ acked \subseteq Sessions /\ deleted \subseteq Sessions
    /\ restarts \in 0..MaxRestarts

\* What the table says serves a session is alive and nobody is about to kill
\* it, whatever connects, deletes, disconnects and sweeps are under way: each
\* takes the entry out before the first await of its kill.
TableIsLive ==
    \A s \in Sessions : table[s] # Nil =>
        proc[table[s]] = "up" /\ table[s] \notin Dying

\* A subprocess that runs is in the table, in the hands of the request that is
\* opening a session on it, or being killed; except one whose request ended in
\* an exception that is not handled.
NoOrphan ==
    \A p \in Tasks : proc[p] = "up" =>
        \/ \E s \in Sessions : table[s] = p
        \/ pc[p] \in {"init", "open"}
        \/ p \in Dying
        \/ p \in failed

\* A session whose creation was acknowledged has its record on disk, across
\* crashes at any await of create_session, until somebody asks to delete it.
AckedIsRecorded ==
    \A s \in acked : \/ file[s] = "recorded"
                     \/ \E t \in Tasks : kind[t] = "delete" /\ sid[t] = s

\* A deleted session is gone: no subprocess serves it, and no record lets a
\* later request bring it back.
DeletedIsGone ==
    \A s \in deleted : table[s] = Nil /\ file[s] # "recorded"

\* Capabilities are probed only while nobody knows them and nobody probes:
\* requests that wait for the lock use what its holder found.
ProbesAreNeeded ==
    [][\A t \in Tasks : pc'[t] = "probe" /\ pc[t] # "probe" =>
        ~caps /\ \A u \in Tasks : pc[u] \notin {"probe", "unprobe", "probefailed"}]_vars

\* Every request is answered, whichever others fail: none waits for ever for
\* the capability lock or for a kill.
RequestsEnd == \A t \in Tasks : Busy(t) ~> At(t, "done")

\* A session that nobody touches does not keep its subprocess: the reaper
\* comes to it, unless an interrupt is parked.
IdleReaped ==
    \A s \in Sessions, p \in Tasks :
        table[s] = p /\ idle[p] ~> table[s] # p \/ ~idle[p] \/ run[p] = "parked"

-----------------------------------------------------------------------------
(* What comments and documents say, and the code does not do.              *)

\* A subprocess that nothing refers to is reaped in the end.
OrphanReaped ==
    \A p \in Tasks : (proc[p] = "up" /\ \A s \in Sessions : table[s] # p)
        ~> (proc[p] = "dead" \/ \E s \in Sessions : table[s] = p)

\* The sweep does not destroy a session with a parked interrupt.
SweepSparesParked == reaped # Nil => run[reaped] # "parked"
=============================================================================
