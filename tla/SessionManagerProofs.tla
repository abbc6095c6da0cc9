------------------------ MODULE SessionManagerProofs ------------------------
(***************************************************************************)
(* What holds of SessionManager for every number of requests, sessions and *)
(* restarts, whether or not clients overlap their requests; the last two   *)
(* theorems are about clients that do not.                                 *)
(***************************************************************************)
EXTENDS SessionManager, TLAPS

-----------------------------------------------------------------------------
(* Types.                                                                  *)

\* A request that is about a session has the id of one, and create has it from
\* the moment the agent answers session/new.
SidInv ==
    \A t \in Tasks :
        \/ kind[t] \in {"connect", "prompt", "delete"}
        \/ pc[t] \in {"write", "rename", "stream", "delete", "probedelete", "remove", "kill"}
        => sid[t] \in Sessions

Typed == TypeOK /\ SidInv

\* Each step of a request keeps the types.
LEMMA TypedStep ==
    ASSUME Typed, NEW t \in Tasks, Step(t)
    PROVE  Typed'
<1> USE DEF Typed, TypeOK, SidInv, At, Goto, manager, request, reaper, active, history, Kinds
<1>1. CASE PromptLive(t)
  BY <1>1 DEF PromptLive, StartRunOn
<1>2. CASE ResolveCwd(t)
  BY <1>2 DEF ResolveCwd
<1>3. CASE NoRecord(t)
  BY <1>3 DEF NoRecord
<1>4. CASE WaitLock(t)
  BY <1>4 DEF WaitLock
<1>5. CASE TakeLock(t)
  BY <1>5 DEF TakeLock
<1>6. CASE ProbeAnswers(t)
  <2>1. CASE caps' = TRUE /\ Goto(t, "unprobe")
    BY <1>6, <2>1 DEF ProbeAnswers
  <2>2. CASE caps' = caps /\ Goto(t, "probefailed")
    BY <1>6, <2>2 DEF ProbeAnswers
  <2>3. QED
    BY <1>6, <2>1, <2>2 DEF ProbeAnswers
<1>7. CASE ProbeKilled(t)
  BY <1>7 DEF ProbeKilled
<1>8. CASE RefuseOrList(t)
  BY <1>8 DEF RefuseOrList
<1>9. CASE ConnectPop(t)
  BY <1>9 DEF ConnectPop, PopInto
<1>10. CASE AttachCold(t)
  BY <1>10 DEF AttachCold
<1>11. CASE Spawn(t)
  BY <1>11 DEF Spawn
<1>12. CASE Initialize(t)
  BY <1>12 DEF Initialize
<1>13. CASE OpenNew(t)
  BY <1>13 DEF OpenNew, Register
<1>14. CASE OpenKnown(t)
  BY <1>14 DEF OpenKnown, Register, StartRunOn
<1>15. CASE OpenRefused(t)
  BY <1>15 DEF OpenRefused
<1>16. CASE Unhandled(t)
  BY <1>16 DEF Unhandled
<1>17. CASE Write(t)
  BY <1>17 DEF Write
<1>18. CASE Rename(t)
  BY <1>18 DEF Rename
<1>19. CASE StreamEnds(t)
  BY <1>19 DEF StreamEnds, PopInto
<1>20. CASE DeletePop(t)
  BY <1>20 DEF DeletePop, PopInto
<1>21. CASE AgentDeletes(t)
  BY <1>21 DEF AgentDeletes
<1>22. CASE Remove(t)
  BY <1>22 DEF Remove
<1>23. CASE Killed(t)
  BY <1>23 DEF Killed
<1>24. QED
  BY <1>1, <1>2, <1>3, <1>4, <1>5, <1>6, <1>7, <1>8, <1>9, <1>10, <1>11, <1>12,
     <1>13, <1>14, <1>15, <1>16, <1>17, <1>18, <1>19, <1>20, <1>21, <1>22, <1>23 DEF Step

\* So do the clients, the reaper, the life of a session and a restart.
LEMMA TypedNext ==
    ASSUME Typed, [Next]_vars
    PROVE  Typed'
<1> USE DEF Typed, TypeOK, SidInv, Goto, manager, request, reaper, active, history, Kinds
<1>1. ASSUME NEW t \in Tasks, NEW k \in Kinds, NEW s \in Sessions \cup {Nil}, Ask(t, k, s)
      PROVE  Typed'
  <2>1. s \in Sessions \/ (s = Nil /\ k \in {"create", "list"})
    BY <1>1 DEF Ask
  <2>2. QED
    BY <1>1, <2>1 DEF Ask
<1>2. ASSUME NEW t \in Tasks, Step(t)
      PROVE  Typed'
  BY <1>2, TypedStep
<1>3. CASE Sweep
  BY <1>3 DEF Sweep, Stale, Destroy
<1>4. CASE SweepNext
  BY <1>4 DEF SweepNext, Destroy
<1>5. CASE Reaped
  BY <1>5 DEF Reaped
<1>6. ASSUME NEW p \in Tasks, GoIdle(p)
      PROVE  Typed'
  BY <1>6 DEF GoIdle
<1>7. ASSUME NEW p \in Tasks, ParkInterrupt(p)
      PROVE  Typed'
  BY <1>7 DEF ParkInterrupt
<1>8. ASSUME NEW p \in Tasks, AnswerInterrupt(p)
      PROVE  Typed'
  BY <1>8 DEF AnswerInterrupt
<1>9. CASE Restart
  <2>1. pc' \in [Tasks -> {"unused", "done"}]
    BY <1>9 DEF Restart, Busy
  <2>2. proc' \in [Tasks -> {"none", "dead"}]
    BY <1>9 DEF Restart
  <2>3. /\ table' \in [Sessions -> Tasks \cup {Nil}]
        /\ run' \in [Tasks -> {"fresh", "prompted", "parked"}]
        /\ lock' \in Tasks \cup {Nil}
        /\ doomed' \subseteq Sessions /\ reaped' \in Tasks \cup {Nil}
    BY <1>9 DEF Restart
  <2>7. idle' \in [Tasks -> BOOLEAN] /\ caps' \in BOOLEAN
    BY <1>9, Zenon DEF Restart
  <2>8. restarts' \in 0..MaxRestarts
    BY <1>9, ConstantsAssumption DEF Restart
  <2>4. TypeOK'
    BY <1>9, <2>1, <2>2, <2>3, <2>7, <2>8 DEF Restart
  <2>5. SidInv'
    BY <1>9, <2>1 DEF Restart
  <2>6. QED
    BY <2>4, <2>5
<1>10. CASE UNCHANGED vars
  BY <1>10 DEF vars
<1>11. QED
  BY <1>1, <1>2, <1>3, <1>4, <1>5, <1>6, <1>7, <1>8, <1>9, <1>10 DEF Next, Reaper

LEMMA TypedAlways == Spec => []Typed
<1>1. ASSUME Init
      PROVE  Typed
  <2>1. /\ restarts \in 0..MaxRestarts
        /\ idle \in [Tasks -> BOOLEAN] /\ caps \in BOOLEAN
    <3>1. restarts \in 0..MaxRestarts
      BY <1>1, ConstantsAssumption DEF Init
    <3>2. idle \in [Tasks -> BOOLEAN] /\ caps \in BOOLEAN
      BY <1>1, Zenon DEF Init
    <3>3. QED
      BY <3>1, <3>2
  <2>2. TypeOK
    BY <1>1, <2>1 DEF Init, TypeOK, Kinds
  <2>3. SidInv
    BY <1>1, ConstantsAssumption DEF Init, SidInv, Kinds
  <2>4. QED
    BY <2>2, <2>3 DEF Typed
<1>2. Typed /\ [Next]_vars => Typed'
  BY TypedNext
<1>3. QED
  BY <1>1, <1>2, PTL DEF Spec

\* Every variable keeps its type, for any number of requests and sessions.
THEOREM TypeCorrect == Spec => []TypeOK
<1>1. Typed => TypeOK
  BY DEF Typed
<1>2. QED
  BY <1>1, TypedAlways, PTL

-----------------------------------------------------------------------------
(* Who serves a session.                                                   *)

\* Where a request can be once its subprocess has been in the table.
Registered == {"write", "rename", "stream", "abort", "done"}
Killing == {"delete", "kill", "abort"}

\* TableIsLive, with what makes it inductive: a subprocess is in the table for
\* one session only, and only after its request has registered it; what is
\* being killed was registered or has just been given up by its own request,
\* so nobody can be about to register it.
LiveInv ==
    /\ TableIsLive
    /\ \A s \in Sessions : table[s] # Nil => pc[table[s]] \in Registered
    /\ \A r, s \in Sessions : table[r] # Nil /\ table[r] = table[s] => r = s
    /\ \A t \in Tasks : pc[t] \in {"init", "open"} => proc[t] = "up"
    /\ \A t \in Tasks : pc[t] \in Killing =>
                            victim[t] \in Tasks /\ pc[victim[t]] \in Registered
    /\ reaped # Nil => pc[reaped] \in Registered

\* A step that only moves a request on to x, neither into a kill nor out of the
\* part of its life in which it is registered.
Quiet(t, x) ==
    /\ UNCHANGED <<table, proc, victim, reaped>>
    /\ pc' = [pc EXCEPT ![t] = x]
    /\ x \notin Killing
    /\ pc[t] \in Registered => x \in Registered
    /\ x \in {"init", "open"} => proc[t] = "up"

LEMMA QuietStep ==
    ASSUME Typed, LiveInv, NEW t \in Tasks, NEW x, Quiet(t, x)
    PROVE  LiveInv'
<1> USE DEF Typed, TypeOK, Quiet
<1>1. pc'[t] = x /\ \A u \in Tasks : u # t => pc'[u] = pc[u]
  OBVIOUS
<1>2. Dying' \subseteq Dying
  BY <1>1 DEF Dying, Killing
<1>3. TableIsLive'
  BY <1>2 DEF LiveInv, TableIsLive
<1>4. \A u \in Tasks : pc[u] \in Registered => pc'[u] \in Registered
  BY <1>1
<1>5. \A s \in Sessions : table'[s] # Nil => pc'[table'[s]] \in Registered
  BY <1>4 DEF LiveInv
<1>6. \A u \in Tasks : pc'[u] \in {"init", "open"} => proc'[u] = "up"
  BY <1>1 DEF LiveInv
<1>7. \A u \in Tasks : pc'[u] \in Killing =>
                          victim'[u] \in Tasks /\ pc'[victim'[u]] \in Registered
  BY <1>1, <1>4 DEF LiveInv
<1>8. reaped' # Nil => pc'[reaped'] \in Registered
  BY <1>4 DEF LiveInv
<1>9. QED
  BY <1>3, <1>5, <1>6, <1>7, <1>8 DEF LiveInv

\* A request that takes a session's subprocess out of the table to kill it.
LEMMA PopStep ==
    ASSUME Typed, LiveInv, NEW t \in Tasks, NEW s \in Sessions, NEW x \in Killing,
           table[s] # Nil, PopInto(t, s, x), UNCHANGED <<proc, reaped>>,
           pc[t] \in Registered => x \in Registered
    PROVE  LiveInv'
<1> USE DEF Typed, TypeOK, PopInto, Goto
<1>1. pc'[t] = x /\ \A u \in Tasks : u # t => pc'[u] = pc[u]
  OBVIOUS
<1>2. victim'[t] = table[s] /\ \A u \in Tasks : u # t => victim'[u] = victim[u]
  OBVIOUS
<1>3. table'[s] = Nil /\ \A r \in Sessions : r # s => table'[r] = table[r]
  OBVIOUS
<1>4. Dying' \subseteq Dying \cup {table[s]}
  BY <1>1, <1>2 DEF Dying
<1>5. \A r \in Sessions : table'[r] # Nil => r # s /\ table'[r] # table[s]
  BY <1>3 DEF LiveInv
<1>6. TableIsLive'
  BY <1>3, <1>4, <1>5 DEF LiveInv, TableIsLive
<1>7. \A u \in Tasks : pc[u] \in Registered => pc'[u] \in Registered
  BY <1>1
<1>8. /\ \A r \in Sessions : table'[r] # Nil => pc'[table'[r]] \in Registered
      /\ \A q, r \in Sessions : table'[q] # Nil /\ table'[q] = table'[r] => q = r
  BY <1>3, <1>7 DEF LiveInv
<1>9. \A u \in Tasks : pc'[u] \in {"init", "open"} => proc'[u] = "up"
  BY <1>1 DEF LiveInv, Killing
<1>10. \A u \in Tasks : pc'[u] \in Killing =>
                           victim'[u] \in Tasks /\ pc'[victim'[u]] \in Registered
  BY <1>1, <1>2, <1>7 DEF LiveInv
<1>11. reaped' # Nil => pc'[reaped'] \in Registered
  BY <1>7 DEF LiveInv
<1>12. QED
  BY <1>6, <1>8, <1>9, <1>10, <1>11 DEF LiveInv

\* A request whose session is open puts its subprocess into the table.
LEMMA RegisterStep ==
    ASSUME Typed, LiveInv, NEW t \in Tasks, NEW s \in Sessions,
           NEW x \in {"write", "stream", "done"},
           pc[t] = "open", Register(t, s), pc' = [pc EXCEPT ![t] = x],
           UNCHANGED <<proc, victim, reaped>>
    PROVE  LiveInv'
<1> USE DEF Typed, TypeOK, Register
<1>1. pc'[t] = x /\ \A u \in Tasks : u # t => pc'[u] = pc[u]
  OBVIOUS
<1>2. table'[s] = t /\ \A r \in Sessions : r # s => table'[r] = table[r]
  OBVIOUS
<1>3. x \in Registered /\ x \notin Killing /\ "open" \notin Registered
      /\ x \notin {"init", "open"}
  BY DEF Registered, Killing
<1>4. Dying' \subseteq Dying /\ t \notin Dying
  <2>1. Dying' \subseteq Dying
    BY <1>1, <1>3 DEF Dying, Killing
  <2>2. t \notin Dying
    BY <1>3, ConstantsAssumption DEF LiveInv, Dying, Killing
  <2>3. QED
    BY <2>1, <2>2
<1>5. \A r \in Sessions : table[r] # t
  BY <1>3, ConstantsAssumption DEF LiveInv
<1>6. TableIsLive'
  BY <1>2, <1>4 DEF LiveInv, TableIsLive
<1>7. \A u \in Tasks : pc[u] \in Registered => pc'[u] \in Registered
  BY <1>1, <1>3
<1>8. \A r \in Sessions : table'[r] # Nil => pc'[table'[r]] \in Registered
  BY <1>1, <1>2, <1>3, <1>7 DEF LiveInv
<1>9. \A q, r \in Sessions : table'[q] # Nil /\ table'[q] = table'[r] => q = r
  BY <1>2, <1>5 DEF LiveInv
<1>10. \A u \in Tasks : pc'[u] \in {"init", "open"} => proc'[u] = "up"
  BY <1>1, <1>3 DEF LiveInv
<1>11. \A u \in Tasks : pc'[u] \in Killing =>
                           victim'[u] \in Tasks /\ pc'[victim'[u]] \in Registered
  BY <1>1, <1>3, <1>7 DEF LiveInv
<1>12. reaped' # Nil => pc'[reaped'] \in Registered
  BY <1>7 DEF LiveInv
<1>13. QED
  BY <1>6, <1>8, <1>9, <1>10, <1>11, <1>12 DEF LiveInv

\* The reaper takes a session's subprocess out of the table.
LEMMA DestroyStep ==
    ASSUME Typed, LiveInv, NEW s \in Sessions, reaped = Nil, Destroy(s),
           UNCHANGED <<proc, pc, victim>>
    PROVE  LiveInv'
<1> USE DEF Typed, TypeOK, Destroy
<1>1. table'[s] = Nil /\ \A r \in Sessions : r # s => table'[r] = table[r]
  OBVIOUS
<1>2. Dying' \subseteq Dying \cup {table[s]}
  BY DEF Dying
<1>3. \A r \in Sessions : table'[r] # Nil => r # s /\ table'[r] # table[s]
  BY <1>1 DEF LiveInv
<1>4. TableIsLive'
  BY <1>1, <1>2, <1>3 DEF LiveInv, TableIsLive
<1>5. QED
  BY <1>1, <1>4 DEF LiveInv

\* A kill returns: the subprocess of v, which is in nobody's hands, is dead.
LEMMA DeadStep ==
    ASSUME Typed, LiveInv, NEW v \in Dying \cap Tasks, proc' = [proc EXCEPT ![v] = "dead"],
           UNCHANGED table
    PROVE  /\ \A s \in Sessions : table[s] # Nil => proc'[table[s]] = "up"
           /\ \A t \in Tasks : pc[t] \in {"init", "open"} => proc'[t] = "up"
<1> USE DEF Typed, TypeOK
<1>1. pc[v] \in Registered
  BY ConstantsAssumption DEF LiveInv, Dying, Killing
<1>2. \A t \in Tasks : t # v => proc'[t] = proc[t]
  OBVIOUS
<1>3. \A s \in Sessions : table[s] # Nil => table[s] # v
  BY DEF LiveInv, TableIsLive
<1>4. pc[v] \notin {"init", "open"}
  BY <1>1 DEF Registered
<1>5. QED
  BY <1>2, <1>3, <1>4 DEF LiveInv, TableIsLive

\* Each step of a request keeps LiveInv.
LEMMA LiveStep ==
    ASSUME Typed, LiveInv, NEW t \in Tasks, Step(t)
    PROVE  LiveInv'
<1> USE DEF At, Goto, manager, request, reaper, active, history, Registered, Killing
<1>1. CASE PromptLive(t)
  <2>1. Quiet(t, "done")
    BY <1>1 DEF PromptLive, Quiet
  <2>2. QED
    BY <2>1, QuietStep
<1>2. CASE ResolveCwd(t)
  <2>1. Quiet(t, "resolve")
    BY <1>2 DEF ResolveCwd, Quiet
  <2>2. QED
    BY <2>1, QuietStep
<1>3. CASE NoRecord(t)
  <2>1. Quiet(t, "done")
    BY <1>3 DEF NoRecord, Quiet
  <2>2. QED
    BY <2>1, QuietStep
<1>4. CASE WaitLock(t)
  <2>1. Quiet(t, "lock")
    BY <1>4 DEF WaitLock, Quiet, WantsCaps, HasCaps
  <2>2. QED
    BY <2>1, QuietStep
<1>5. CASE TakeLock(t)
  <2>1. Quiet(t, "capable") \/ Quiet(t, "probe")
    BY <1>5 DEF TakeLock, Quiet, WantsCaps, HasCaps
  <2>2. QED
    BY <2>1, QuietStep
<1>6. CASE ProbeAnswers(t)
  <2>1. Quiet(t, "unprobe") \/ Quiet(t, "probefailed")
    BY <1>6 DEF ProbeAnswers, Quiet
  <2>2. QED
    BY <2>1, QuietStep
<1>7. CASE ProbeKilled(t)
  <2>1. Quiet(t, "capable") \/ Quiet(t, "done")
    BY <1>7 DEF ProbeKilled, Quiet
  <2>2. QED
    BY <2>1, QuietStep
<1>8. CASE RefuseOrList(t)
  <2>1. Quiet(t, "done")
    BY <1>8 DEF RefuseOrList, Quiet, WantsCaps, HasCaps
  <2>2. QED
    BY <2>1, QuietStep
<1>9. CASE AttachCold(t)
  <2>1. Quiet(t, "spawn")
    BY <1>9 DEF AttachCold, Quiet, WantsCaps, HasCaps
  <2>2. QED
    BY <2>1, QuietStep
<1>10. CASE Initialize(t)
  <2>1. Quiet(t, "open")
    BY <1>10 DEF Initialize, Quiet, LiveInv
  <2>2. QED
    BY <2>1, QuietStep
<1>11. CASE Unhandled(t)
  <2>1. Quiet(t, "done")
    BY <1>11 DEF Unhandled, Quiet, AtSpawn
  <2>2. QED
    BY <2>1, QuietStep
<1>12. CASE Write(t)
  <2>1. Quiet(t, "rename")
    BY <1>12 DEF Write, Quiet
  <2>2. QED
    BY <2>1, QuietStep
<1>13. CASE Rename(t)
  <2>1. Quiet(t, "done")
    BY <1>13 DEF Rename, Quiet
  <2>2. QED
    BY <2>1, QuietStep
<1>14. CASE Remove(t)
  <2>1. Quiet(t, "done")
    BY <1>14 DEF Remove, Quiet
  <2>2. QED
    BY <2>1, QuietStep
<1>15. CASE ConnectPop(t)
  <2>1. sid[t] \in Sessions /\ pc[t] \notin Registered
    BY <1>15 DEF ConnectPop, Typed, SidInv, WantsCaps, HasCaps
  <2>2. CASE table[sid[t]] # Nil
    BY <1>15, <2>1, <2>2, PopStep DEF ConnectPop
  <2>3. CASE table[sid[t]] = Nil
    <3>1. Quiet(t, "spawn")
      BY <1>15, <2>1, <2>3 DEF ConnectPop, Quiet
    <3>2. QED
      BY <3>1, QuietStep
  <2>4. QED
    BY <2>2, <2>3
<1>16. CASE DeletePop(t)
  <2>1. sid[t] \in Sessions /\ pc[t] \notin Registered
    BY <1>16 DEF DeletePop, Typed, SidInv, WantsCaps, HasCaps
  <2>2. CASE table[sid[t]] # Nil
    BY <1>16, <2>1, <2>2, PopStep DEF DeletePop
  <2>3. CASE table[sid[t]] = Nil
    <3>1. Quiet(t, "probedelete")
      BY <1>16, <2>1, <2>3 DEF DeletePop, Quiet
    <3>2. QED
      BY <3>1, QuietStep
  <2>4. QED
    BY <2>2, <2>3
<1>17. CASE StreamEnds(t)
  <2>1. sid[t] \in Sessions
    BY <1>17 DEF StreamEnds, Typed, SidInv
  <2>2. CASE table[sid[t]] # Nil /\ PopInto(t, sid[t], "abort")
    BY <1>17, <2>1, <2>2, PopStep DEF StreamEnds
  <2>3. CASE Goto(t, "done") /\ UNCHANGED <<table, victim>>
    <3>1. Quiet(t, "done")
      BY <1>17, <2>3 DEF StreamEnds, Quiet
    <3>2. QED
      BY <3>1, QuietStep
  <2>4. QED
    BY <1>17, <2>2, <2>3 DEF StreamEnds
<1>18. CASE OpenNew(t)
  <2>1. PICK s \in Sessions : Register(t, s)
    BY <1>18 DEF OpenNew
  <2>2. QED
    BY <1>18, <2>1, RegisterStep DEF OpenNew
<1>19. CASE OpenKnown(t)
  <2>1. sid[t] \in Sessions
    BY <1>19 DEF OpenKnown, Typed, TypeOK
  <2>2. QED
    BY <1>19, <2>1, RegisterStep DEF OpenKnown
<1>20. CASE Spawn(t)
  <2>1. pc[t] \notin Registered /\ pc[t] \notin Killing
    BY <1>20 DEF Spawn, AtSpawn
  <2>2. /\ pc'[t] = "init" /\ \A u \in Tasks : u # t => pc'[u] = pc[u]
        /\ \A u \in Tasks : pc[u] \in Registered => u # t /\ pc'[u] \in Registered
    BY <1>20, <2>1 DEF Spawn, Typed, TypeOK
  <2>3. proc'[t] = "up" /\ \A u \in Tasks : u # t => proc'[u] = proc[u]
    BY <1>20 DEF Spawn, Typed, TypeOK
  <2>4. Dying' \subseteq Dying
    BY <1>20, <2>2 DEF Spawn, Dying
  <2>5. TableIsLive'
    BY <1>20, <2>3, <2>4 DEF Spawn, LiveInv, TableIsLive, Typed, TypeOK
  <2>6. \A s \in Sessions : table'[s] # Nil => pc'[table'[s]] \in Registered
    BY <1>20, <2>2 DEF Spawn, LiveInv, Typed, TypeOK
  <2>7. \A r, s \in Sessions : table'[r] # Nil /\ table'[r] = table'[s] => r = s
    BY <1>20 DEF Spawn, LiveInv
  <2>8. \A u \in Tasks : pc'[u] \in {"init", "open"} => proc'[u] = "up"
    BY <2>2, <2>3 DEF LiveInv
  <2>9. \A u \in Tasks : pc'[u] \in Killing =>
                            victim'[u] \in Tasks /\ pc'[victim'[u]] \in Registered
    BY <1>20, <2>2 DEF Spawn, LiveInv
  <2>10. reaped' # Nil => pc'[reaped'] \in Registered
    BY <1>20, <2>2 DEF Spawn, LiveInv, Typed, TypeOK
  <2>11. QED
    BY <2>5, <2>6, <2>7, <2>8, <2>9, <2>10 DEF LiveInv
<1>21. CASE OpenRefused(t)
  <2>1. /\ pc'[t] = "abort" /\ \A u \in Tasks : u # t => pc'[u] = pc[u]
        /\ victim'[t] = t /\ \A u \in Tasks : u # t => victim'[u] = victim[u]
    BY <1>21 DEF OpenRefused, Typed, TypeOK
  <2>2. Dying' \subseteq Dying \cup {t}
    BY <1>21, <2>1 DEF OpenRefused, Dying
  <2>3. \A s \in Sessions : table[s] # t
    BY <1>21, ConstantsAssumption DEF OpenRefused, LiveInv
  <2>4. TableIsLive'
    BY <1>21, <2>2, <2>3 DEF OpenRefused, LiveInv, TableIsLive
  <2>5. \A u \in Tasks : pc[u] \in Registered => pc'[u] \in Registered
    BY <2>1
  <2>6. /\ \A s \in Sessions : table'[s] # Nil => pc'[table'[s]] \in Registered
        /\ \A r, s \in Sessions : table'[r] # Nil /\ table'[r] = table'[s] => r = s
    BY <1>21, <2>5 DEF OpenRefused, LiveInv, Typed, TypeOK
  <2>7. \A u \in Tasks : pc'[u] \in {"init", "open"} => proc'[u] = "up"
    BY <1>21, <2>1 DEF OpenRefused, LiveInv
  <2>8. \A u \in Tasks : pc'[u] \in Killing =>
                            victim'[u] \in Tasks /\ pc'[victim'[u]] \in Registered
    BY <2>1, <2>5 DEF LiveInv
  <2>9. reaped' # Nil => pc'[reaped'] \in Registered
    BY <1>21, <2>5 DEF OpenRefused, LiveInv, Typed, TypeOK
  <2>10. QED
    BY <2>4, <2>6, <2>7, <2>8, <2>9 DEF LiveInv
<1>22. CASE AgentDeletes(t)
  <2>1. CASE pc[t] = "probedelete"
    <3>1. Quiet(t, "remove") \/ Quiet(t, "done")
      BY <1>22, <2>1 DEF AgentDeletes, Quiet
    <3>2. QED
      BY <3>1, QuietStep
  <2>2. CASE pc[t] = "delete"
    <3>1. /\ pc'[t] \in {"kill", "abort"} /\ \A u \in Tasks : u # t => pc'[u] = pc[u]
          /\ UNCHANGED <<table, proc, victim, reaped>>
      BY <1>22, <2>2 DEF AgentDeletes, Typed, TypeOK
    <3>2. Dying' = Dying
      BY <2>2, <3>1 DEF Dying
    <3>3. TableIsLive'
      BY <3>1, <3>2 DEF LiveInv, TableIsLive
    <3>4. \A u \in Tasks : pc[u] \in Registered => pc'[u] \in Registered
      BY <2>2, <3>1
    <3>5. /\ \A s \in Sessions : table'[s] # Nil => pc'[table'[s]] \in Registered
          /\ \A r, s \in Sessions : table'[r] # Nil /\ table'[r] = table'[s] => r = s
      BY <3>1, <3>4 DEF LiveInv, Typed, TypeOK
    <3>6. \A u \in Tasks : pc'[u] \in {"init", "open"} => proc'[u] = "up"
      BY <3>1 DEF LiveInv
    <3>7. \A u \in Tasks : pc'[u] \in Killing =>
                              victim'[u] \in Tasks /\ pc'[victim'[u]] \in Registered
      BY <2>2, <3>1, <3>4 DEF LiveInv
    <3>8. reaped' # Nil => pc'[reaped'] \in Registered
      BY <3>1, <3>4 DEF LiveInv, Typed, TypeOK
    <3>9. QED
      BY <3>3, <3>5, <3>6, <3>7, <3>8 DEF LiveInv
  <2>3. QED
    BY <1>22, <2>1, <2>2 DEF AgentDeletes
<1>23. CASE Killed(t)
  <2>1. /\ pc'[t] \in {"done", "spawn", "remove"} /\ \A u \in Tasks : u # t => pc'[u] = pc[u]
        /\ pc[t] \in Registered => pc'[t] = "done"
        /\ UNCHANGED <<table, victim, reaped>>
    BY <1>23 DEF Killed, Typed, TypeOK
  <2>2. victim[t] \in Dying \cap Tasks
    BY <1>23 DEF Killed, Dying, LiveInv
  <2>3. /\ \A s \in Sessions : table[s] # Nil => proc'[table[s]] = "up"
        /\ \A u \in Tasks : pc[u] \in {"init", "open"} => proc'[u] = "up"
    BY <1>23, <2>1, <2>2, DeadStep DEF Killed
  <2>4. Dying' \subseteq Dying
    BY <2>1 DEF Dying
  <2>5. TableIsLive'
    BY <2>1, <2>3, <2>4 DEF LiveInv, TableIsLive
  <2>6. \A u \in Tasks : pc[u] \in Registered => pc'[u] \in Registered
    BY <2>1
  <2>7. /\ \A s \in Sessions : table'[s] # Nil => pc'[table'[s]] \in Registered
        /\ \A r, s \in Sessions : table'[r] # Nil /\ table'[r] = table'[s] => r = s
    BY <2>1, <2>6 DEF LiveInv, Typed, TypeOK
  <2>8. \A u \in Tasks : pc'[u] \in {"init", "open"} => proc'[u] = "up"
    BY <2>1, <2>3
  <2>9. \A u \in Tasks : pc'[u] \in Killing =>
                            victim'[u] \in Tasks /\ pc'[victim'[u]] \in Registered
    BY <2>1, <2>6 DEF LiveInv
  <2>10. reaped' # Nil => pc'[reaped'] \in Registered
    BY <2>1, <2>6 DEF LiveInv, Typed, TypeOK
  <2>11. QED
    BY <2>5, <2>7, <2>8, <2>9, <2>10 DEF LiveInv
<1>24. QED
  BY <1>1, <1>2, <1>3, <1>4, <1>5, <1>6, <1>7, <1>8, <1>9, <1>10, <1>11, <1>12, <1>13, <1>14, <1>15, <1>16, <1>17, <1>18, <1>19, <1>20, <1>21, <1>22, <1>23 DEF Step

\* So do the clients, the reaper, the life of a session and a restart.
LEMMA LiveNext ==
    ASSUME Typed, LiveInv, [Next]_vars
    PROVE  LiveInv'
<1> USE DEF manager, request, reaper, active, history
<1>1. ASSUME NEW t \in Tasks, NEW k \in Kinds, NEW s \in Sessions \cup {Nil}, Ask(t, k, s)
      PROVE  LiveInv'
  <2>1. Quiet(t, "asked")
    BY <1>1 DEF Ask, Goto, Quiet, Registered, Killing
  <2>2. QED
    BY <2>1, QuietStep
<1>2. ASSUME NEW t \in Tasks, Step(t)
      PROVE  LiveInv'
  BY <1>2, LiveStep
<1>3. CASE Sweep
  <2>1. PICK s \in Stale : Destroy(s)
    BY <1>3 DEF Sweep
  <2>2. s \in Sessions
    BY DEF Stale
  <2>3. QED
    BY <1>3, <2>1, <2>2, DestroyStep DEF Sweep
<1>4. CASE SweepNext
  <2>1. PICK s \in doomed : Destroy(s)
    BY <1>4 DEF SweepNext
  <2>2. s \in Sessions
    BY DEF Typed, TypeOK
  <2>3. QED
    BY <1>4, <2>1, <2>2, DestroyStep DEF SweepNext
<1>5. CASE Reaped
  <2>1. reaped \in Dying \cap Tasks
    BY <1>5 DEF Reaped, Dying, Typed, TypeOK
  <2>2. UNCHANGED <<table, pc, victim>> /\ reaped' = Nil
    BY <1>5 DEF Reaped
  <2>3. /\ \A s \in Sessions : table[s] # Nil => proc'[table[s]] = "up"
        /\ \A u \in Tasks : pc[u] \in {"init", "open"} => proc'[u] = "up"
    BY <1>5, <2>1, <2>2, DeadStep DEF Reaped
  <2>4. \A p \in Tasks : p \in Dying' => p \in Dying
    BY <2>2, ConstantsAssumption DEF Dying
  <2>5. TableIsLive'
    BY <2>2, <2>3, <2>4 DEF LiveInv, TableIsLive, Typed, TypeOK
  <2>6. QED
    BY <2>2, <2>3, <2>5 DEF LiveInv
<1>6. ASSUME UNCHANGED <<table, proc, pc, victim, reaped>>
      PROVE  LiveInv'
  BY <1>6 DEF LiveInv, TableIsLive, Dying
<1>7. CASE Restart
  <2>1. \A t \in Tasks : pc'[t] \in {"unused", "done"}
    BY <1>7 DEF Restart, Busy
  <2>2. reaped' = Nil /\ \A s \in Sessions : table'[s] = Nil
    BY <1>7 DEF Restart
  <2>3. QED
    BY <2>1, <2>2 DEF LiveInv, TableIsLive, Killing
<1>8. ASSUME NEW p \in Tasks, GoIdle(p) \/ ParkInterrupt(p) \/ AnswerInterrupt(p)
      PROVE  LiveInv'
  BY <1>6, <1>8 DEF GoIdle, ParkInterrupt, AnswerInterrupt
<1>9. CASE UNCHANGED vars
  BY <1>6, <1>9 DEF vars
<1>10. QED
  BY <1>1, <1>2, <1>3, <1>4, <1>5, <1>7, <1>8, <1>9 DEF Next, Reaper

\* What the table says serves a session is alive and nobody is about to kill
\* it, for any number of requests, sessions and restarts.
THEOREM TableStaysLive == Spec => []TableIsLive
<1>1. ASSUME Init
      PROVE  LiveInv
  BY <1>1 DEF Init, LiveInv, TableIsLive, Killing
<1>2. Typed /\ LiveInv /\ [Next]_vars => LiveInv'
  BY LiveNext
<1>3. LiveInv => TableIsLive
  BY DEF LiveInv
<1>4. QED
  BY <1>1, <1>2, <1>3, TypedAlways, PTL DEF Spec

-----------------------------------------------------------------------------
(* What is on disk of an acknowledged session.                             *)

Creating == {"write", "rename"}
Deleting == {"delete", "probedelete", "remove"}

\* AckedIsRecorded, with what makes it inductive: an id is given out before it
\* can be written, to one request, which writes it before it is acknowledged;
\* and who removes a record was asked to.
AckedInv ==
    /\ AckedIsRecorded
    /\ acked \subseteq born
    /\ \A t \in Tasks : pc[t] \in Creating =>
                            sid[t] \in born /\ sid[t] \notin acked
    /\ \A t, u \in Tasks : pc[t] \in Creating /\ pc[u] \in Creating /\ sid[t] = sid[u]
                            => t = u
    /\ \A t \in Tasks : pc[t] \in Deleting => kind[t] = "delete"
    /\ \A t \in Tasks : pc[t] = "kill" => kind[t] \in {"connect", "delete"}
    /\ \A t \in Tasks : pc[t] = "unused" => kind[t] = Nil

\* A step of one request that leaves disk and acknowledgements alone.
Aside(t) ==
    /\ UNCHANGED <<file, acked, born, kind, sid>>
    /\ \E x : pc' = [pc EXCEPT ![t] = x]
    /\ pc[t] # "unused" /\ pc'[t] # "unused"
    /\ pc'[t] \in Creating => pc[t] \in Creating
    /\ pc'[t] \in Deleting => kind[t] = "delete"
    /\ pc'[t] = "kill" => kind[t] \in {"connect", "delete"}

LEMMA AsideStep ==
    ASSUME Typed, AckedInv, NEW t \in Tasks, Aside(t)
    PROVE  AckedInv'
<1>1. \A u \in Tasks : u # t => pc'[u] = pc[u]
  BY DEF Aside, Typed, TypeOK
<1>2. \A u \in Tasks : pc'[u] \in Creating => pc[u] \in Creating
  BY <1>1 DEF Aside
<1>3. AckedIsRecorded'
  BY DEF Aside, AckedInv, AckedIsRecorded
<1>4. /\ \A u \in Tasks : pc'[u] \in Creating => sid'[u] \in born' /\ sid'[u] \notin acked'
      /\ \A u, v \in Tasks : pc'[u] \in Creating /\ pc'[v] \in Creating /\ sid'[u] = sid'[v]
                               => u = v
      /\ acked' \subseteq born'
  BY <1>2 DEF Aside, AckedInv
<1>5. /\ \A u \in Tasks : pc'[u] \in Deleting => kind'[u] = "delete"
      /\ \A u \in Tasks : pc'[u] = "kill" => kind'[u] \in {"connect", "delete"}
      /\ \A u \in Tasks : pc'[u] = "unused" => kind'[u] = Nil
  BY <1>1 DEF Aside, AckedInv
<1>6. QED
  BY <1>3, <1>4, <1>5 DEF AckedInv

LEMMA AckedStep ==
    ASSUME Typed, AckedInv, NEW t \in Tasks, Step(t)
    PROVE  AckedInv'
<1> USE DEF At, Goto, manager, request, reaper, active, history, Creating, Deleting
<1>1. /\ kind[t] \in Kinds \cup {Nil} /\ Nil \notin Kinds
      /\ \A x : LET f == [pc EXCEPT ![t] = x] IN
                f[t] = x /\ \A u \in Tasks : u # t => f[u] = pc[u]
  BY ConstantsAssumption DEF Typed, TypeOK
<1>a. pc[t] = "unused" => kind[t] = Nil
  BY DEF AckedInv
<1>2. CASE PromptLive(t) \/ ResolveCwd(t) \/ NoRecord(t)
  <2>1. Aside(t)
    BY <1>1, <1>2 DEF PromptLive, ResolveCwd, NoRecord, Aside
  <2>2. QED
    BY <2>1, AsideStep
<1>3. CASE WaitLock(t) \/ TakeLock(t) \/ RefuseOrList(t) \/ AttachCold(t)
  <2>1. Aside(t)
    BY <1>1, <1>3 DEF WaitLock, TakeLock, RefuseOrList, AttachCold, WantsCaps, HasCaps, Aside
  <2>2. QED
    BY <2>1, AsideStep
<1>4. CASE ProbeAnswers(t) \/ ProbeKilled(t) \/ Spawn(t) \/ Initialize(t)
  <2>1. Aside(t)
    BY <1>1, <1>4 DEF ProbeAnswers, ProbeKilled, Spawn, AtSpawn, Initialize, Aside
  <2>2. QED
    BY <2>1, AsideStep
<1>5. CASE OpenKnown(t) \/ OpenRefused(t) \/ Unhandled(t)
  <2>1. Aside(t)
    BY <1>1, <1>5 DEF OpenKnown, OpenRefused, Unhandled, AtSpawn, Aside
  <2>2. QED
    BY <2>1, AsideStep
<1>6. CASE ConnectPop(t) \/ DeletePop(t) \/ StreamEnds(t)
  <2>1. Aside(t)
    BY <1>1, <1>6 DEF ConnectPop, DeletePop, StreamEnds, PopInto, WantsCaps, HasCaps, Aside
  <2>2. QED
    BY <2>1, AsideStep
<1>7. CASE AgentDeletes(t) \/ Killed(t)
  <2>1. /\ pc[t] \in {"delete", "probedelete"} => kind[t] = "delete"
        /\ pc[t] = "kill" => kind[t] \in {"connect", "delete"}
    BY DEF AckedInv
  <2>2. Aside(t)
    BY <1>1, <1>7, <2>1 DEF AgentDeletes, Killed, Aside
  <2>3. QED
    BY <2>2, AsideStep
<1>8. CASE Write(t)
  <2>1. /\ sid[t] \notin acked /\ sid[t] \in Sessions
        /\ \A s \in acked : file'[s] = file[s]
    BY <1>8 DEF Write, AckedInv, Typed, TypeOK, SidInv
  <2>2. AckedIsRecorded'
    BY <1>8, <2>1 DEF Write, AckedInv, AckedIsRecorded
  <2>3. /\ pc'[t] = "rename" /\ \A u \in Tasks : u # t => pc'[u] = pc[u]
    BY <1>1, <1>8 DEF Write
  <2>4. \A u \in Tasks : pc'[u] \in Creating => pc[u] \in Creating
    BY <1>8, <2>3 DEF Write
  <2>5. QED
    BY <1>8, <2>2, <2>3, <2>4 DEF Write, AckedInv
<1>9. CASE Rename(t)
  <2>1. /\ pc'[t] = "done" /\ \A u \in Tasks : u # t => pc'[u] = pc[u]
    BY <1>1, <1>9 DEF Rename
  <2>2. /\ sid[t] \in Sessions /\ sid[t] \in born
        /\ file'[sid[t]] = "recorded" /\ \A s \in acked : s # sid[t] => file'[s] = file[s]
    BY <1>9 DEF Rename, AckedInv, Typed, TypeOK, SidInv
  <2>3. AckedIsRecorded'
    BY <1>9, <2>2 DEF Rename, AckedInv, AckedIsRecorded
  <2>4. \A u \in Tasks : pc'[u] \in Creating => pc[u] \in Creating /\ sid[u] # sid[t]
    BY <1>9, <2>1 DEF Rename, AckedInv
  <2>5. QED
    BY <1>9, <2>1, <2>2, <2>3, <2>4 DEF Rename, AckedInv
<1>10. CASE Remove(t)
  <2>1. /\ pc'[t] = "done" /\ \A u \in Tasks : u # t => pc'[u] = pc[u]
    BY <1>1, <1>10 DEF Remove
  <2>2. /\ kind[t] = "delete" /\ sid[t] \in Sessions
        /\ \A s \in acked : s # sid[t] => file'[s] = file[s]
    BY <1>10 DEF Remove, AckedInv, Typed, TypeOK, SidInv
  <2>3. AckedIsRecorded'
    BY <1>10, <2>2 DEF Remove, AckedInv, AckedIsRecorded
  <2>4. \A u \in Tasks : pc'[u] \in Creating => pc[u] \in Creating
    BY <2>1
  <2>5. QED
    BY <1>10, <2>1, <2>3, <2>4 DEF Remove, AckedInv
<1>11. CASE OpenNew(t)
  <2>1. PICK s \in Sessions \ born : born' = born \cup {s} /\ sid' = [sid EXCEPT ![t] = s]
    BY <1>11 DEF OpenNew
  <2>2. /\ pc'[t] = "write" /\ \A u \in Tasks : u # t => pc'[u] = pc[u]
        /\ sid'[t] = s /\ \A u \in Tasks : u # t => sid'[u] = sid[u]
    BY <1>1, <1>11, <2>1 DEF OpenNew, Typed, TypeOK
  <2>3. kind[t] = "create" /\ UNCHANGED <<file, kind, acked>>
    BY <1>11 DEF OpenNew
  <2>4. AckedIsRecorded'
    BY <2>2, <2>3 DEF AckedInv, AckedIsRecorded
  <2>5. s \notin acked /\ acked' \subseteq born'
    BY <2>1, <2>3 DEF AckedInv
  <2>6. /\ \A u \in Tasks : pc'[u] \in Creating => sid'[u] \in born' /\ sid'[u] \notin acked'
        /\ \A u, v \in Tasks : pc'[u] \in Creating /\ pc'[v] \in Creating /\ sid'[u] = sid'[v]
                                 => u = v
    BY <2>1, <2>2, <2>3, <2>5 DEF AckedInv
  <2>7. QED
    BY <2>2, <2>3, <2>4, <2>5, <2>6 DEF AckedInv
<1>12. QED
  BY <1>2, <1>3, <1>4, <1>5, <1>6, <1>7, <1>8, <1>9, <1>10, <1>11 DEF Step

LEMMA AckedNext ==
    ASSUME Typed, AckedInv, [Next]_vars
    PROVE  AckedInv'
<1> USE DEF manager, request, reaper, active, history
<1>1. ASSUME NEW t \in Tasks, NEW k \in Kinds, NEW s \in Sessions \cup {Nil}, Ask(t, k, s)
      PROVE  AckedInv'
  <2>1. /\ pc[t] = "unused" /\ kind[t] = Nil /\ Nil # "delete"
        /\ pc'[t] = "asked" /\ \A u \in Tasks : u # t => pc'[u] = pc[u]
        /\ \A u \in Tasks : u # t => sid'[u] = sid[u] /\ kind'[u] = kind[u]
        /\ UNCHANGED <<file, born, acked>>
    BY <1>1, ConstantsAssumption DEF Ask, Goto, AckedInv, Typed, TypeOK, Kinds
  <2>2. AckedIsRecorded'
    BY <2>1 DEF AckedInv, AckedIsRecorded
  <2>3. QED
    BY <2>1, <2>2 DEF AckedInv, Creating, Deleting
<1>2. ASSUME NEW t \in Tasks, Step(t)
      PROVE  AckedInv'
  BY <1>2, AckedStep
<1>3. ASSUME UNCHANGED <<file, acked, born, kind, sid, pc>>
      PROVE  AckedInv'
  BY <1>3 DEF AckedInv, AckedIsRecorded
<1>4. CASE Reaper
  BY <1>3, <1>4 DEF Reaper, Sweep, SweepNext, Reaped
<1>5. ASSUME NEW p \in Tasks, GoIdle(p) \/ ParkInterrupt(p) \/ AnswerInterrupt(p)
      PROVE  AckedInv'
  BY <1>3, <1>5 DEF GoIdle, ParkInterrupt, AnswerInterrupt
<1>6. CASE Restart
  <2>1. \A t \in Tasks : pc'[t] = "done" \/ (pc'[t] = "unused" /\ pc[t] = "unused")
    BY <1>6 DEF Restart, Busy, Typed, TypeOK
  <2>2. UNCHANGED <<file, acked, born, kind, sid>>
    BY <1>6 DEF Restart
  <2>3. QED
    BY <2>1, <2>2 DEF AckedInv, AckedIsRecorded, Creating, Deleting
<1>7. CASE UNCHANGED vars
  BY <1>3, <1>7 DEF vars
<1>8. QED
  BY <1>1, <1>2, <1>4, <1>5, <1>6, <1>7 DEF Next

\* A session whose creation was acknowledged keeps its record on disk until
\* somebody asks to delete it, across any number of restarts.
THEOREM AckedStaysRecorded == Spec => []AckedIsRecorded
<1>1. Init => AckedInv
  BY DEF Init, AckedInv, AckedIsRecorded, Creating, Deleting
<1>2. Typed /\ AckedInv /\ [Next]_vars => AckedInv'
  BY AckedNext
<1>3. AckedInv => AckedIsRecorded
  BY DEF AckedInv
<1>4. QED
  BY <1>1, <1>2, <1>3, TypedAlways, PTL DEF Spec

-----------------------------------------------------------------------------
(* The capability probe.                                                   *)

Probing == {"probe", "unprobe", "probefailed"}

\* Who probes holds the lock.
ProbeInv == \A t \in Tasks : pc[t] \in Probing => lock = t

\* A step of a request that has nothing to do with the lock.
Lockless(t) ==
    /\ lock' = lock
    /\ \E x : x \notin Probing /\ pc' = [pc EXCEPT ![t] = x]

\* Each step of a request keeps ProbeInv, and begins a probe only when it
\* takes the lock and finds nothing in the cache.
LEMMA ProbeStep ==
    ASSUME Typed, ProbeInv, NEW t \in Tasks, Step(t)
    PROVE  /\ ProbeInv'
           /\ \A u \in Tasks : pc'[u] = "probe" /\ pc[u] # "probe" =>
                ~caps /\ \A v \in Tasks : pc[v] \notin Probing
<1> USE DEF At, Goto, manager, request, reaper, active, history, Probing
<1>1. /\ Nil \notin Tasks
      /\ \A x : LET f == [pc EXCEPT ![t] = x] IN
                f[t] = x /\ \A u \in Tasks : u # t => f[u] = pc[u]
  BY ConstantsAssumption DEF Typed, TypeOK
<1>2. CASE Lockless(t)
  BY <1>1, <1>2 DEF Lockless, ProbeInv
<1>3. CASE PromptLive(t) \/ ResolveCwd(t) \/ NoRecord(t) \/ WaitLock(t) \/ RefuseOrList(t)
           \/ AttachCold(t) \/ Spawn(t) \/ Initialize(t)
  <2>1. Lockless(t)
    BY <1>3 DEF PromptLive, ResolveCwd, NoRecord, WaitLock, RefuseOrList, AttachCold,
                Spawn, Initialize, Lockless
  <2>2. QED
    BY <1>2, <2>1
<1>4. CASE OpenNew(t) \/ OpenKnown(t) \/ OpenRefused(t) \/ Unhandled(t)
           \/ Write(t) \/ Rename(t) \/ Remove(t)
  <2>1. Lockless(t)
    BY <1>4 DEF OpenNew, OpenKnown, OpenRefused, Unhandled, Write, Rename, Remove, Lockless
  <2>2. QED
    BY <1>2, <2>1
<1>5. CASE ConnectPop(t) \/ StreamEnds(t) \/ DeletePop(t) \/ AgentDeletes(t) \/ Killed(t)
  <2>1. Lockless(t)
    BY <1>5 DEF ConnectPop, StreamEnds, DeletePop, AgentDeletes, Killed, PopInto, Lockless
  <2>2. QED
    BY <1>2, <2>1
<1>6. CASE TakeLock(t)
  <2>1. \A v \in Tasks : pc[v] \notin Probing
    BY <1>1, <1>6 DEF TakeLock, ProbeInv
  <2>2. CASE caps /\ lock' = lock /\ pc' = [pc EXCEPT ![t] = "capable"]
    BY <1>1, <2>1, <2>2 DEF ProbeInv
  <2>3. CASE ~caps /\ lock' = t /\ pc' = [pc EXCEPT ![t] = "probe"]
    BY <1>1, <2>1, <2>3 DEF ProbeInv
  <2>4. QED
    BY <1>6, <2>2, <2>3 DEF TakeLock
<1>7. CASE ProbeAnswers(t)
  <2>1. /\ lock' = lock /\ pc[t] = "probe" /\ pc'[t] \in {"unprobe", "probefailed"}
        /\ \A u \in Tasks : u # t => pc'[u] = pc[u]
    BY <1>1, <1>7 DEF ProbeAnswers
  <2>2. QED
    BY <2>1 DEF ProbeInv
<1>8. CASE ProbeKilled(t)
  <2>1. /\ pc[t] \in Probing /\ pc'[t] \in {"capable", "done"}
        /\ \A u \in Tasks : u # t => pc'[u] = pc[u]
    BY <1>1, <1>8 DEF ProbeKilled
  <2>2. QED
    BY <2>1 DEF ProbeInv
<1>9. QED
  BY <1>3, <1>4, <1>5, <1>6, <1>7, <1>8 DEF Step

LEMMA ProbeNext ==
    ASSUME Typed, ProbeInv, [Next]_vars
    PROVE  /\ ProbeInv'
           /\ \A u \in Tasks : pc'[u] = "probe" /\ pc[u] # "probe" =>
                ~caps /\ \A v \in Tasks : pc[v] \notin Probing
<1> DEFINE Goal ==
             /\ ProbeInv'
             /\ \A u \in Tasks : pc'[u] = "probe" /\ pc[u] # "probe" =>
                  ~caps /\ \A v \in Tasks : pc[v] \notin Probing
<1> USE DEF manager, request, reaper, active, history
<1>1. ASSUME NEW t \in Tasks, NEW k \in Kinds, NEW s \in Sessions \cup {Nil}, Ask(t, k, s)
      PROVE  Goal
  <2>1. lock' = lock /\ pc' = [pc EXCEPT ![t] = "asked"]
    BY <1>1 DEF Ask, Goto
  <2>2. QED
    BY <2>1 DEF ProbeInv, Probing, Typed, TypeOK
<1>2. ASSUME NEW t \in Tasks, Step(t)
      PROVE  Goal
  BY <1>2, ProbeStep
<1>3. ASSUME UNCHANGED <<lock, pc>>
      PROVE  Goal
  BY <1>3 DEF ProbeInv
<1>4. CASE Reaper
  BY <1>3, <1>4 DEF Reaper, Sweep, SweepNext, Reaped
<1>5. ASSUME NEW p \in Tasks, GoIdle(p) \/ ParkInterrupt(p) \/ AnswerInterrupt(p)
      PROVE  Goal
  BY <1>3, <1>5 DEF GoIdle, ParkInterrupt, AnswerInterrupt
<1>6. CASE Restart
  <2>1. \A t \in Tasks : pc'[t] \in {"unused", "done"}
    BY <1>6 DEF Restart, Busy
  <2>2. QED
    BY <2>1 DEF ProbeInv, Probing
<1>7. CASE UNCHANGED vars
  BY <1>3, <1>7 DEF vars
<1>8. QED
  BY <1>1, <1>2, <1>4, <1>5, <1>6, <1>7 DEF Next

\* One probe at a time, and only while nobody knows the capabilities.
THEOREM ProbesWhenNeeded == Spec => ProbesAreNeeded
<1> DEFINE Needed == \A t \in Tasks : pc'[t] = "probe" /\ pc[t] # "probe" =>
                        ~caps /\ \A u \in Tasks : pc[u] \notin {"probe", "unprobe", "probefailed"}
<1>1. Init => ProbeInv
  BY DEF Init, ProbeInv, Probing
<1>2. Typed /\ ProbeInv /\ [Next]_vars => ProbeInv' /\ Needed
  BY ProbeNext DEF Probing
<1>3. Typed /\ ProbeInv /\ [Next]_vars => ProbeInv' /\ [Needed]_vars
  BY <1>2
<1>4. QED
  BY <1>1, <1>3, TypedAlways, PTL DEF Spec, ProbesAreNeeded

-----------------------------------------------------------------------------
(* Clients that have one request at a time for a session.                  *)

Opening == {"spawn", "init", "open"}

\* Every step of a request moves that request only, and gives at most a new
\* session its id.
LEMMA StepFacts ==
    ASSUME Typed, NEW t \in Tasks, Step(t)
    PROVE  /\ Busy(t) /\ pc'[t] # "unused"
           /\ \A u \in Tasks : u # t => pc'[u] = pc[u]
           /\ kind' = kind /\ reaped' = reaped /\ doomed' = doomed
           /\ OpenNew(t) \/ UNCHANGED <<sid, born>>
<1> DEFINE Facts ==
             /\ Busy(t)
             /\ \E x : x # "unused" /\ pc' = [pc EXCEPT ![t] = x]
             /\ kind' = kind /\ reaped' = reaped /\ doomed' = doomed
             /\ OpenNew(t) \/ UNCHANGED <<sid, born>>
<1>1. ASSUME Facts
      PROVE  pc'[t] # "unused" /\ \A u \in Tasks : u # t => pc'[u] = pc[u]
  BY <1>1 DEF Typed, TypeOK
<1> USE DEF At, Goto, manager, request, reaper, active, history, Busy
<1>2. CASE PromptLive(t) \/ ResolveCwd(t) \/ NoRecord(t)
  <2>1. Facts
    BY <1>2 DEF PromptLive, ResolveCwd, NoRecord
  <2>2. QED
    BY <1>1, <2>1
<1>3. CASE WaitLock(t) \/ TakeLock(t) \/ RefuseOrList(t) \/ AttachCold(t)
  <2>1. Facts
    BY <1>3 DEF WaitLock, TakeLock, RefuseOrList, AttachCold, WantsCaps, HasCaps
  <2>2. QED
    BY <1>1, <2>1
<1>4. CASE ProbeAnswers(t) \/ ProbeKilled(t) \/ Spawn(t) \/ Initialize(t)
  <2>1. Facts
    BY <1>4 DEF ProbeAnswers, ProbeKilled, Spawn, Initialize, AtSpawn
  <2>2. QED
    BY <1>1, <2>1
<1>5. CASE OpenKnown(t) \/ OpenRefused(t) \/ Unhandled(t)
  <2>1. Facts
    BY <1>5 DEF OpenKnown, OpenRefused, Unhandled, AtSpawn
  <2>2. QED
    BY <1>1, <2>1
<1>6. CASE ConnectPop(t) \/ DeletePop(t) \/ StreamEnds(t)
  <2>1. Facts
    BY <1>6 DEF ConnectPop, DeletePop, StreamEnds, PopInto, WantsCaps, HasCaps
  <2>2. QED
    BY <1>1, <2>1
<1>7. CASE AgentDeletes(t) \/ Killed(t)
  <2>1. Facts
    BY <1>7 DEF AgentDeletes, Killed
  <2>2. QED
    BY <1>1, <2>1
<1>8. CASE Write(t) \/ Rename(t) \/ Remove(t) \/ OpenNew(t)
  <2>1. Facts
    BY <1>8 DEF Write, Rename, Remove, OpenNew
  <2>2. QED
    BY <1>1, <2>1
<1>9. QED
  BY <1>2, <1>3, <1>4, <1>5, <1>6, <1>7, <1>8 DEF Step

\* No two requests that are under way are about the same session; and which
\* requests have none.
ExclInv ==
    /\ \A t \in Tasks : Busy(t) => sid[t] \in born \cup {Nil}
    /\ \A t, u \in Tasks : Busy(t) /\ Busy(u) /\ sid[t] = sid[u] /\ sid[t] # Nil => t = u
    /\ \A t \in Tasks : kind[t] = "list" => sid[t] = Nil
    /\ \A t \in Tasks : kind[t] = "create" /\ pc[t] \notin Creating \cup {"done"}
                            => sid[t] = Nil
    /\ \A t \in Tasks : pc[t] \in Creating => kind[t] = "create"
    /\ \A t \in Tasks : pc[t] \in Opening => kind[t] \in {"create", "connect", "prompt"}

\* Where the steps of a request that is not about to get its session lead.
LEMMA StepWhere ==
    ASSUME Typed, AckedInv, ExclInv, NEW t \in Tasks, Step(t), ~OpenNew(t)
    PROVE  /\ pc'[t] \in Creating => pc[t] \in Creating
           /\ pc[t] \in Creating => pc'[t] \in Creating \cup {"done"}
           /\ pc'[t] \in Opening => kind[t] \in {"create", "connect", "prompt"}
<1> USE DEF At, Goto, Creating, Opening
<1>1. \A x : LET f == [pc EXCEPT ![t] = x] IN f[t] = x
  BY DEF Typed, TypeOK
<1>2. CASE PromptLive(t) \/ ResolveCwd(t) \/ NoRecord(t)
  BY <1>1, <1>2 DEF PromptLive, ResolveCwd, NoRecord
<1>3. CASE WaitLock(t) \/ TakeLock(t) \/ RefuseOrList(t) \/ AttachCold(t)
  BY <1>1, <1>3 DEF WaitLock, TakeLock, RefuseOrList, AttachCold, WantsCaps, HasCaps
<1>4. CASE ProbeAnswers(t) \/ ProbeKilled(t) \/ Spawn(t) \/ Initialize(t)
  <2>1. pc[t] \in Opening => kind[t] \in {"create", "connect", "prompt"}
    BY DEF ExclInv
  <2>2. QED
    BY <1>1, <1>4, <2>1 DEF ProbeAnswers, ProbeKilled, Spawn, AtSpawn, Initialize
<1>5. CASE OpenKnown(t) \/ OpenRefused(t) \/ Unhandled(t)
  BY <1>1, <1>5 DEF OpenKnown, OpenRefused, Unhandled, AtSpawn
<1>6. CASE ConnectPop(t) \/ DeletePop(t) \/ StreamEnds(t)
  BY <1>1, <1>6 DEF ConnectPop, DeletePop, StreamEnds, PopInto, WantsCaps, HasCaps
<1>7. CASE AgentDeletes(t) \/ Killed(t)
  BY <1>1, <1>7 DEF AgentDeletes, Killed
<1>8. CASE Write(t) \/ Rename(t) \/ Remove(t)
  BY <1>1, <1>8 DEF Write, Rename, Remove
<1>9. QED
  BY <1>2, <1>3, <1>4, <1>5, <1>6, <1>7, <1>8 DEF Step

LEMMA ExclNext ==
    ASSUME Overlap = FALSE, Typed, AckedInv, ExclInv, [Next]_vars
    PROVE  ExclInv'
<1>1. ASSUME NEW t \in Tasks, NEW k \in Kinds, NEW s \in Sessions \cup {Nil}, Ask(t, k, s)
      PROVE  ExclInv'
  <2>1. /\ pc'[t] = "asked" /\ \A u \in Tasks : u # t => pc'[u] = pc[u]
        /\ sid'[t] = s /\ \A u \in Tasks : u # t => sid'[u] = sid[u]
        /\ kind'[t] = k /\ \A u \in Tasks : u # t => kind'[u] = kind[u]
        /\ born' = born
    BY <1>1 DEF Ask, Goto, history, Typed, TypeOK
  <2>2. \A u \in Tasks : Busy(u) => s = Nil \/ sid[u] # s
    BY <1>1, Overlap = FALSE DEF Ask, MayAsk
  <2>3. s \in born \cup {Nil} /\ (k \in {"create", "list"} => s = Nil)
    BY <1>1 DEF Ask
  <2>4. QED
    BY <2>1, <2>2, <2>3 DEF ExclInv, Busy, Creating, Opening
<1>2. ASSUME NEW t \in Tasks, Step(t)
      PROVE  ExclInv'
  <2>1. /\ Busy(t) /\ \A u \in Tasks : u # t => pc'[u] = pc[u]
        /\ kind' = kind
        /\ OpenNew(t) \/ UNCHANGED <<sid, born>>
    BY <1>2, StepFacts
  <2>2. CASE OpenNew(t)
    <3>1. PICK s \in Sessions \ born : born' = born \cup {s} /\ sid' = [sid EXCEPT ![t] = s]
      BY <2>2 DEF OpenNew
    <3>2. /\ sid'[t] = s /\ \A u \in Tasks : u # t => sid'[u] = sid[u]
          /\ kind[t] = "create" /\ pc'[t] = "write" /\ s # Nil
      BY <2>2, <3>1, ConstantsAssumption DEF OpenNew, Goto, Typed, TypeOK
    <3>3. QED
      BY <2>1, <3>1, <3>2 DEF ExclInv, Busy, Creating, Opening
  <2>3. CASE ~OpenNew(t)
    <3>1. /\ pc'[t] \in Creating => pc[t] \in Creating
          /\ pc[t] \in Creating => pc'[t] \in Creating \cup {"done"}
          /\ pc'[t] \in Opening => kind[t] \in {"create", "connect", "prompt"}
      BY <1>2, <2>3, StepWhere
    <3>2. pc[t] # "done"
      BY <2>1 DEF Busy
    <3>3. QED
      BY <2>1, <2>3, <3>1, <3>2 DEF ExclInv, Busy
  <2>4. QED
    BY <2>2, <2>3
<1>3. ASSUME UNCHANGED <<born, kind, sid, pc>>
      PROVE  ExclInv'
  BY <1>3 DEF ExclInv, Busy
<1>4. CASE Reaper
  BY <1>3, <1>4 DEF Reaper, Sweep, SweepNext, Reaped, request, history
<1>5. ASSUME NEW p \in Tasks, GoIdle(p) \/ ParkInterrupt(p) \/ AnswerInterrupt(p)
      PROVE  ExclInv'
  BY <1>3, <1>5 DEF GoIdle, ParkInterrupt, AnswerInterrupt, request, history
<1>6. CASE Restart
  <2>1. \A t \in Tasks : pc'[t] = "done" \/ (pc'[t] = "unused" /\ pc[t] = "unused")
    BY <1>6 DEF Restart, Busy, Typed, TypeOK
  <2>2. UNCHANGED <<born, kind, sid>>
    BY <1>6 DEF Restart, request
  <2>3. QED
    BY <2>1, <2>2 DEF ExclInv, Busy, Creating, Opening
<1>7. CASE UNCHANGED vars
  BY <1>3, <1>7 DEF vars, request, history
<1>8. QED
  BY <1>1, <1>2, <1>4, <1>5, <1>6, <1>7 DEF Next

\* A request that has found, or made, the session not to be live, and counts on
\* that.
Cold(t) ==
    \/ kind[t] = "prompt" /\ pc[t] \in Probing \cup Opening \cup {"lock", "capable"}
    \/ kind[t] = "connect" /\ pc[t] \in Opening \cup {"kill"}
    \/ kind[t] = "delete" /\ pc[t] \in Deleting \cup {"kill"}

ColdInv ==
    /\ \A s \in Sessions : table[s] # Nil => s \in born
    /\ \A t \in Tasks : Cold(t) => table[sid[t]] = Nil

LEMMA StepCold ==
    ASSUME Typed, AckedInv, ColdInv, NEW t \in Tasks, Step(t), ~OpenNew(t), ~OpenKnown(t)
    PROVE  /\ \A s \in Sessions : table'[s] \in {table[s], Nil}
           /\ Cold(t)' => table'[sid[t]] = Nil
<1> USE DEF At, Goto, manager, request, Cold, Probing, Opening, Deleting
<1>1. /\ \A x : LET f == [pc EXCEPT ![t] = x] IN f[t] = x
      /\ Cold(t) => table[sid[t]] = Nil
      /\ pc[t] \in Deleting => kind[t] = "delete"
      /\ pc[t] = "kill" => kind[t] \in {"connect", "delete"}
  BY DEF Typed, TypeOK, ColdInv, AckedInv
<1>2. CASE PromptLive(t) \/ ResolveCwd(t) \/ NoRecord(t)
  BY <1>1, <1>2 DEF PromptLive, ResolveCwd, NoRecord
<1>3. CASE WaitLock(t)
  BY <1>1, <1>3 DEF WaitLock, WantsCaps
<1>4. CASE TakeLock(t)
  <2>1. pc'[t] \in {"capable", "probe"} /\ UNCHANGED <<table, sid, kind>>
    BY <1>1, <1>4 DEF TakeLock
  <2>2. kind[t] = "prompt" => table[sid[t]] = Nil
    BY <1>1, <1>4 DEF TakeLock, WantsCaps
  <2>3. QED
    BY <2>1, <2>2
<1>5. CASE RefuseOrList(t) \/ AttachCold(t)
  BY <1>1, <1>5 DEF RefuseOrList, AttachCold, WantsCaps, HasCaps
<1>6. CASE ProbeAnswers(t) \/ ProbeKilled(t) \/ Spawn(t) \/ Initialize(t)
  BY <1>1, <1>6 DEF ProbeAnswers, ProbeKilled, Spawn, AtSpawn, Initialize
<1>7. CASE OpenRefused(t) \/ Unhandled(t)
  BY <1>1, <1>7 DEF OpenRefused, Unhandled, AtSpawn
<1>8. CASE ConnectPop(t) \/ DeletePop(t) \/ StreamEnds(t)
  <2>1. /\ sid' = sid
        /\ \/ table' = table /\ (table[sid[t]] = Nil \/ pc'[t] = "done")
           \/ table' = [table EXCEPT ![sid[t]] = Nil]
    BY <1>1, <1>8 DEF ConnectPop, DeletePop, StreamEnds, PopInto
  <2>2. pc'[t] # "done" => sid[t] \in Sessions
    BY <1>1, <1>8 DEF ConnectPop, DeletePop, StreamEnds, Typed, SidInv
  <2>3. QED
    BY <2>1, <2>2 DEF Typed, TypeOK
<1>9. CASE AgentDeletes(t) \/ Killed(t)
  BY <1>1, <1>9 DEF AgentDeletes, Killed
<1>10. CASE Write(t) \/ Rename(t) \/ Remove(t)
  BY <1>1, <1>10 DEF Write, Rename, Remove
<1>11. QED
  BY <1>2, <1>3, <1>4, <1>5, <1>6, <1>7, <1>8, <1>9, <1>10 DEF Step

LEMMA ColdNext ==
    ASSUME Typed, AckedInv, ExclInv, ColdInv, [Next]_vars
    PROVE  ColdInv'
<1> USE DEF request, history
<1>1. ASSUME NEW t \in Tasks, Cold(t)
      PROVE  Busy(t) /\ sid[t] \in Sessions /\ sid[t] # Nil
  BY <1>1, ConstantsAssumption DEF Cold, Busy, Probing, Opening, Deleting, Typed, SidInv
<1>2. ASSUME NEW t \in Tasks, Step(t)
      PROVE  ColdInv'
  <2>1. /\ Busy(t) /\ \A u \in Tasks : u # t => pc'[u] = pc[u]
        /\ kind' = kind
        /\ OpenNew(t) \/ UNCHANGED <<sid, born>>
    BY <1>2, StepFacts
  <2>2. CASE OpenNew(t)
    <3>1. PICK s \in Sessions \ born : /\ born' = born \cup {s}
                                       /\ sid' = [sid EXCEPT ![t] = s]
                                       /\ table' = [table EXCEPT ![s] = t]
      BY <2>2 DEF OpenNew, Register
    <3>2. /\ \A u \in Tasks : u # t => sid'[u] = sid[u]
          /\ \A r \in Sessions : r # s => table'[r] = table[r]
      BY <3>1 DEF Typed, TypeOK
    <3>3. ~Cold(t)'
      BY <2>1, <2>2 DEF OpenNew, Cold, At
    <3>4. ASSUME NEW u \in Tasks, Cold(u)'
          PROVE  table'[sid'[u]] = Nil
      <4>1. u # t /\ Cold(u)
        BY <2>1, <3>3, <3>4 DEF Cold
      <4>2. sid[u] # s
        BY <1>1, <3>1, <4>1 DEF ExclInv
      <4>3. QED
        BY <1>1, <3>2, <4>1, <4>2 DEF ColdInv
    <3>5. QED
      BY <3>1, <3>2, <3>4 DEF ColdInv
  <2>3. CASE OpenKnown(t)
    <3>1. /\ table' = [table EXCEPT ![sid[t]] = t] /\ sid' = sid /\ born' = born
          /\ pc'[t] \in {"stream", "done"}
      BY <2>3 DEF OpenKnown, Register, Goto, Typed, TypeOK
    <3>2. sid[t] \in Sessions /\ sid[t] \in born /\ sid[t] # Nil
      BY <2>1, <2>3, ConstantsAssumption DEF OpenKnown, ExclInv, Typed, TypeOK
    <3>3. \A r \in Sessions : r # sid[t] => table'[r] = table[r]
      BY <3>1 DEF Typed, TypeOK
    <3>4. ASSUME NEW u \in Tasks, Cold(u)'
          PROVE  table'[sid'[u]] = Nil
      <4>1. u # t /\ Cold(u)
        BY <2>1, <3>1, <3>4 DEF Cold, Probing, Opening, Deleting
      <4>2. sid[u] # sid[t]
        BY <1>1, <2>1, <3>2, <4>1 DEF ExclInv
      <4>3. QED
        BY <1>1, <3>1, <3>3, <4>1, <4>2 DEF ColdInv
    <3>5. QED
      BY <3>1, <3>2, <3>3, <3>4 DEF ColdInv
  <2>4. CASE ~OpenNew(t) /\ ~OpenKnown(t)
    <3>1. /\ \A s \in Sessions : table'[s] \in {table[s], Nil}
          /\ Cold(t)' => table'[sid[t]] = Nil
      BY <1>2, <2>4, StepCold
    <3>2. \A u \in Tasks : u # t /\ Cold(u)' => Cold(u)
      BY <2>1 DEF Cold
    <3>3. QED
      BY <1>1, <2>1, <2>4, <3>1, <3>2 DEF ColdInv
  <2>5. QED
    BY <2>2, <2>3, <2>4
<1>3. ASSUME NEW t \in Tasks, NEW k \in Kinds, NEW s \in Sessions \cup {Nil}, Ask(t, k, s)
      PROVE  ColdInv'
  <2>1. /\ pc'[t] = "asked" /\ \A u \in Tasks : u # t => pc'[u] = pc[u]
        /\ \A u \in Tasks : u # t => sid'[u] = sid[u] /\ kind'[u] = kind[u]
        /\ born' = born /\ table' = table
    BY <1>3 DEF Ask, Goto, manager, Typed, TypeOK
  <2>2. QED
    BY <2>1 DEF ColdInv, Cold, Probing, Opening, Deleting
<1>4. ASSUME UNCHANGED <<born, kind, sid, pc>>,
             \A s \in Sessions : table'[s] \in {table[s], Nil}
      PROVE  ColdInv'
  BY <1>1, <1>4 DEF ColdInv, Cold
<1>5. CASE Reaper
  <2>1. ASSUME NEW s, Destroy(s)
        PROVE  \A r \in Sessions : table'[r] \in {table[r], Nil}
    BY <2>1 DEF Destroy, Typed, TypeOK
  <2>2. \A r \in Sessions : table'[r] \in {table[r], Nil}
    BY <1>5, <2>1 DEF Reaper, Sweep, SweepNext, Reaped, manager
  <2>3. QED
    BY <1>4, <1>5, <2>2 DEF Reaper, Sweep, SweepNext, Reaped
<1>6. ASSUME NEW p \in Tasks, GoIdle(p) \/ ParkInterrupt(p) \/ AnswerInterrupt(p)
      PROVE  ColdInv'
  BY <1>4, <1>6 DEF GoIdle, ParkInterrupt, AnswerInterrupt, manager
<1>7. CASE Restart
  <2>1. \A t \in Tasks : pc'[t] \in {"unused", "done"}
    BY <1>7 DEF Restart, Busy
  <2>2. \A s \in Sessions : table'[s] = Nil
    BY <1>7 DEF Restart
  <2>3. QED
    BY <2>1, <2>2 DEF ColdInv, Cold, Probing, Opening, Deleting
<1>8. CASE UNCHANGED vars
  BY <1>4, <1>8 DEF vars, manager
<1>9. QED
  BY <1>2, <1>3, <1>5, <1>6, <1>7, <1>8 DEF Next

\* What NoOrphan says of one subprocess.
Held(p) ==
    \/ \E s \in Sessions : table[s] = p
    \/ pc[p] \in {"init", "open"}
    \/ p \in Dying
    \/ p \in failed

\* Each step of a request leaves every subprocess that runs in somebody's hands.
LEMMA OrphanStep ==
    ASSUME Typed, ExclInv, ColdInv, NoOrphan, NEW t \in Tasks, Step(t)
    PROVE  NoOrphan'
<1> USE DEF At, Goto, manager, request, reaper, active, history
<1> DEFINE Lives(p) == proc'[p] = "up" => Held(p)'
<1>1. \A p \in Tasks : proc[p] = "up" => Held(p)
  BY DEF NoOrphan, Held
<1>2. ASSUME \A p \in Tasks : Lives(p)
      PROVE  NoOrphan'
  BY <1>2 DEF NoOrphan, Held
<1>3. \A u \in Tasks : u # t => pc'[u] = pc[u]
  BY StepFacts
<1>4. reaped' = reaped
  BY StepFacts
<1>5. ASSUME UNCHANGED <<table, proc, victim, failed>>,
             pc[t] \in {"init", "open"} => pc'[t] \in {"init", "open"},
             pc[t] \in Killing => pc'[t] \in Killing
      PROVE  NoOrphan'
  <2>1. Dying \subseteq Dying'
    BY <1>3, <1>4, <1>5 DEF Dying, Killing
  <2>2. QED
    BY <1>1, <1>2, <1>3, <1>5, <2>1 DEF Held
<1>6. ASSUME NEW s \in Sessions, NEW x \in Killing, PopInto(t, s, x),
             UNCHANGED <<proc, failed>>, pc[t] \notin Killing \cup {"init", "open"}
      PROVE  NoOrphan'
  <2>1. /\ pc'[t] = x /\ victim'[t] = table[s]
        /\ \A u \in Tasks : u # t => victim'[u] = victim[u]
        /\ \A r \in Sessions : r # s => table'[r] = table[r]
    BY <1>6 DEF PopInto, Typed, TypeOK
  <2>2. Dying \cup {table[s]} \subseteq Dying'
    BY <1>3, <1>4, <1>6, <2>1 DEF Dying, Killing
  <2>3. ASSUME NEW p \in Tasks, Held(p) PROVE Held(p)'
    BY <1>3, <1>6, <2>1, <2>2, <2>3 DEF Held
  <2>4. QED
    BY <1>1, <1>2, <1>6, <2>3
<1>7. ASSUME NEW s \in Sessions, Register(t, s), table[s] = Nil, pc[t] = "open",
             UNCHANGED <<proc, victim, failed>>
      PROVE  NoOrphan'
  <2>1. table'[s] = t /\ \A r \in Sessions : r # s => table'[r] = table[r]
    BY <1>7 DEF Register, Typed, TypeOK
  <2>2. Dying \subseteq Dying'
    BY <1>3, <1>4, <1>7 DEF Dying
  <2>3. ASSUME NEW p \in Tasks, Held(p) PROVE Held(p)'
    <3>1. \A r \in Sessions : table[r] = p => table'[r] = p
      BY <1>7, <2>1, <2>3, ConstantsAssumption
    <3>2. QED
      BY <1>3, <1>7, <2>1, <2>2, <2>3, <3>1 DEF Held
  <2>4. QED
    BY <1>1, <1>2, <1>7, <2>3
<1>8. CASE PromptLive(t) \/ ResolveCwd(t) \/ NoRecord(t)
  BY <1>5, <1>8 DEF PromptLive, ResolveCwd, NoRecord, Killing
<1>9. CASE WaitLock(t) \/ TakeLock(t) \/ RefuseOrList(t) \/ AttachCold(t)
  BY <1>5, <1>9 DEF WaitLock, TakeLock, RefuseOrList, AttachCold, WantsCaps, HasCaps, Killing
<1>10. CASE ProbeAnswers(t) \/ ProbeKilled(t)
  BY <1>5, <1>10 DEF ProbeAnswers, ProbeKilled, Killing
<1>11. CASE Initialize(t) \/ AgentDeletes(t)
  <2>1. \A x : LET f == [pc EXCEPT ![t] = x] IN f[t] = x
    BY DEF Typed, TypeOK
  <2>2. QED
    BY <1>5, <1>11, <2>1 DEF Initialize, AgentDeletes, Killing
<1>12. CASE Write(t) \/ Rename(t) \/ Remove(t)
  BY <1>5, <1>12 DEF Write, Rename, Remove, Killing
<1>13. CASE ConnectPop(t) \/ DeletePop(t) \/ StreamEnds(t)
  <2>1. /\ pc[t] \notin Killing \cup {"init", "open"} /\ UNCHANGED <<proc, failed>>
        /\ sid[t] \in Sessions
    BY <1>13 DEF ConnectPop, DeletePop, StreamEnds, WantsCaps, HasCaps, Killing, Typed, SidInv
  <2>2. \/ UNCHANGED <<table, victim>>
        \/ \E x \in Killing : PopInto(t, sid[t], x)
    BY <1>13 DEF ConnectPop, DeletePop, StreamEnds, Killing
  <2>3. QED
    BY <1>5, <1>6, <2>1, <2>2
<1>14. CASE Spawn(t)
  <2>1. /\ pc'[t] = "init" /\ pc[t] \notin Killing \cup {"init", "open"}
        /\ \A p \in Tasks : p # t => proc'[p] = proc[p]
        /\ UNCHANGED <<table, victim, failed>>
    BY <1>14 DEF Spawn, AtSpawn, Killing, Typed, TypeOK
  <2>2. Dying \subseteq Dying'
    BY <1>3, <1>4, <2>1 DEF Dying, Killing
  <2>3. QED
    BY <1>1, <1>2, <1>3, <2>1, <2>2 DEF Held
<1>15. CASE OpenNew(t)
  <2>1. PICK s \in Sessions \ born : Register(t, s)
    BY <1>15 DEF OpenNew
  <2>2. table[s] = Nil
    BY DEF ColdInv
  <2>3. QED
    BY <1>7, <1>15, <2>1, <2>2 DEF OpenNew
<1>16. CASE OpenKnown(t)
  <2>1. sid[t] \in Sessions /\ table[sid[t]] = Nil
    BY <1>16 DEF OpenKnown, Typed, TypeOK, ExclInv, ColdInv, Cold, Opening
  <2>2. QED
    BY <1>7, <1>16, <2>1 DEF OpenKnown
<1>17. CASE OpenRefused(t)
  <2>1. /\ pc'[t] = "abort" /\ pc[t] = "open" /\ victim'[t] = t
        /\ \A u \in Tasks : u # t => victim'[u] = victim[u]
        /\ UNCHANGED <<table, proc, failed>>
    BY <1>17 DEF OpenRefused, Typed, TypeOK
  <2>2. Dying \cup {t} \subseteq Dying'
    BY <1>3, <1>4, <2>1 DEF Dying
  <2>3. QED
    BY <1>1, <1>2, <1>3, <2>1, <2>2 DEF Held
<1>18. CASE Unhandled(t)
  <2>1. /\ pc[t] \notin Killing /\ failed' = failed \cup {t}
        /\ UNCHANGED <<table, proc, victim>>
    BY <1>18 DEF Unhandled, AtSpawn, Killing
  <2>2. Dying \subseteq Dying'
    BY <1>3, <1>4, <2>1 DEF Dying, Killing
  <2>3. QED
    BY <1>1, <1>2, <1>3, <2>1, <2>2 DEF Held
<1>19. CASE Killed(t)
  <2>1. /\ pc[t] \in {"kill", "abort"} /\ UNCHANGED <<table, victim, failed>>
        /\ \A p \in Tasks : p # victim[t] => proc'[p] = proc[p]
        /\ proc'[victim[t]] = "dead" \/ victim[t] \notin Tasks
    BY <1>19 DEF Killed, Typed, TypeOK
  <2>2. Dying \subseteq Dying' \cup {victim[t]}
    BY <1>3, <1>4, <2>1 DEF Dying
  <2>3. ASSUME NEW p \in Tasks, proc'[p] = "up" PROVE Held(p)'
    <3>1. p # victim[t] /\ Held(p)
      BY <1>1, <2>1, <2>3
    <3>2. QED
      BY <1>3, <2>1, <2>2, <3>1 DEF Held
  <2>4. QED
    BY <1>2, <2>3
<1>20. QED
  BY <1>8, <1>9, <1>10, <1>11, <1>12, <1>13, <1>14, <1>15, <1>16, <1>17, <1>18, <1>19 DEF Step

LEMMA OrphanNext ==
    ASSUME Typed, ExclInv, ColdInv, NoOrphan, [Next]_vars
    PROVE  NoOrphan'
<1>1. \A p \in Tasks : proc[p] = "up" => Held(p)
  BY DEF NoOrphan, Held
<1>2. ASSUME \A p \in Tasks : proc'[p] = "up" => Held(p)'
      PROVE  NoOrphan'
  BY <1>2 DEF NoOrphan, Held
<1>3. ASSUME NEW t \in Tasks, NEW k \in Kinds, NEW s \in Sessions \cup {Nil}, Ask(t, k, s)
      PROVE  NoOrphan'
  <2>1. /\ pc[t] = "unused" /\ \A u \in Tasks : u # t => pc'[u] = pc[u]
        /\ UNCHANGED <<table, proc, victim, reaped, failed>>
    BY <1>3 DEF Ask, Goto, manager, reaper, Typed, TypeOK
  <2>2. Dying \subseteq Dying'
    BY <2>1 DEF Dying
  <2>3. QED
    BY <1>1, <1>2, <2>1, <2>2 DEF Held
<1>4. ASSUME NEW t \in Tasks, Step(t)
      PROVE  NoOrphan'
  BY <1>4, OrphanStep
<1>5. ASSUME NEW s \in Sessions, Destroy(s), reaped = Nil, UNCHANGED <<proc, pc, victim, failed>>
      PROVE  NoOrphan'
  <2>1. /\ reaped' = table[s]
        /\ \A r \in Sessions : r # s => table'[r] = table[r]
    BY <1>5 DEF Destroy, Typed, TypeOK
  <2>2. \A p \in Tasks : p \in Dying \cup {table[s]} => p \in Dying'
    BY <1>5, <2>1, ConstantsAssumption DEF Dying
  <2>3. QED
    BY <1>1, <1>2, <1>5, <2>1, <2>2 DEF Held
<1>6. CASE Sweep \/ SweepNext
  <2>1. \E s \in Sessions : Destroy(s)
    BY <1>6 DEF Sweep, SweepNext, Stale, Typed, TypeOK
  <2>2. QED
    BY <1>5, <1>6, <2>1 DEF Sweep, SweepNext
<1>7. CASE Reaped
  <2>1. /\ UNCHANGED <<table, pc, victim, failed>>
        /\ \A p \in Tasks : p # reaped => proc'[p] = proc[p]
        /\ proc'[reaped] = "dead" \/ reaped \notin Tasks
    BY <1>7 DEF Reaped, manager, Typed, TypeOK
  <2>2. Dying \subseteq Dying' \cup {reaped}
    BY <2>1 DEF Dying
  <2>3. ASSUME NEW p \in Tasks, proc'[p] = "up" PROVE Held(p)'
    <3>1. p # reaped /\ Held(p)
      BY <1>1, <2>1, <2>3
    <3>2. QED
      BY <2>1, <2>2, <3>1 DEF Held
  <2>4. QED
    BY <1>2, <2>3
<1>8. ASSUME UNCHANGED <<table, proc, pc, victim, reaped, failed>>
      PROVE  NoOrphan'
  BY <1>8 DEF NoOrphan, Dying
<1>9. ASSUME NEW p \in Tasks, GoIdle(p) \/ ParkInterrupt(p) \/ AnswerInterrupt(p)
      PROVE  NoOrphan'
  BY <1>8, <1>9 DEF GoIdle, ParkInterrupt, AnswerInterrupt, manager, reaper
<1>10. CASE Restart
  <2>1. \A p \in Tasks : proc'[p] # "up"
    BY <1>10 DEF Restart
  <2>2. QED
    BY <2>1 DEF NoOrphan
<1>11. CASE UNCHANGED vars
  BY <1>8, <1>11 DEF vars, manager, reaper
<1>12. QED
  BY <1>3, <1>4, <1>6, <1>7, <1>9, <1>10, <1>11 DEF Next, Reaper

-----------------------------------------------------------------------------
(* Deleted sessions.                                                       *)

\* DeletedIsGone, with what makes it inductive: who is busy with a deleted
\* session has not got beyond the look for its record, or deletes it again.
DeletedInv ==
    /\ DeletedIsGone
    /\ deleted \subseteq born
    /\ \A t \in Tasks : Busy(t) /\ sid[t] \in deleted =>
                            kind[t] = "delete" \/ pc[t] \in {"asked", "resolve"}

LEMMA StepOnDeleted ==
    ASSUME Typed, ExclInv, DeletedInv, NEW t \in Tasks, Step(t),
           sid[t] \in deleted, kind[t] # "delete"
    PROVE  pc'[t] \in {"resolve", "done"} /\ UNCHANGED <<table, file, sid, born, deleted>>
<1> USE DEF At, Goto, manager, request, history
<1>1. /\ pc[t] \in {"asked", "resolve"} /\ kind[t] \notin {"create", "list"}
      /\ table[sid[t]] = Nil /\ file[sid[t]] # "recorded"
  <2>1. Busy(t) /\ sid[t] # Nil
    BY StepFacts, ConstantsAssumption DEF Typed, TypeOK
  <2>2. pc[t] \in {"asked", "resolve"}
    BY <2>1 DEF DeletedInv
  <2>3. QED
    BY <2>1, <2>2 DEF DeletedInv, DeletedIsGone, ExclInv, Creating
<1>2. ~WantsCaps(t) /\ ~HasCaps(t) /\ ~AtSpawn(t)
  BY <1>1 DEF WantsCaps, HasCaps, AtSpawn
<1>3. PromptLive(t) \/ ResolveCwd(t) \/ NoRecord(t)
  BY <1>1, <1>2 DEF Step, WaitLock, TakeLock, ProbeAnswers, ProbeKilled, RefuseOrList,
     ConnectPop, AttachCold, Spawn, Initialize, OpenNew, OpenKnown, OpenRefused, Unhandled,
     Write, Rename, StreamEnds, DeletePop, AgentDeletes, Remove, Killed
<1>4. QED
  BY <1>3 DEF PromptLive, ResolveCwd, NoRecord, Typed, TypeOK

LEMMA DeletedNext ==
    ASSUME Typed, AckedInv, ExclInv, ColdInv, DeletedInv, [Next]_vars
    PROVE  DeletedInv'
<1> USE DEF request, history
<1>1. ASSUME NEW t \in Tasks, Step(t)
      PROVE  DeletedInv'
  <2>1. /\ Busy(t) /\ \A u \in Tasks : u # t => pc'[u] = pc[u]
        /\ kind' = kind
        /\ OpenNew(t) \/ UNCHANGED <<sid, born>>
    BY <1>1, StepFacts
  <2>2. CASE sid[t] \in deleted /\ kind[t] # "delete"
    BY <1>1, <2>1, <2>2, StepOnDeleted DEF DeletedInv, DeletedIsGone, Busy
  <2>3. CASE ~(sid[t] \in deleted /\ kind[t] # "delete")
    <3>1. CASE OpenNew(t)
      <4>1. PICK s \in Sessions \ born : /\ born' = born \cup {s}
                                         /\ sid' = [sid EXCEPT ![t] = s]
                                         /\ table' = [table EXCEPT ![s] = t]
        BY <3>1 DEF OpenNew, Register
      <4>2. /\ sid'[t] = s /\ \A u \in Tasks : u # t => sid'[u] = sid[u]
            /\ \A r \in Sessions : r # s => table'[r] = table[r]
            /\ s \notin deleted /\ UNCHANGED <<file, deleted>>
        BY <3>1, <4>1 DEF OpenNew, DeletedInv, Typed, TypeOK
      <4>3. QED
        BY <2>1, <4>1, <4>2 DEF DeletedInv, DeletedIsGone, Busy, Typed, TypeOK
    <3>2. CASE OpenKnown(t)
      <4>1. sid[t] \notin deleted /\ sid[t] \in Sessions
        BY <2>3, <3>2 DEF OpenKnown, ExclInv, Opening, At, Typed, TypeOK
      <4>2. /\ \A r \in Sessions : r # sid[t] => table'[r] = table[r]
            /\ UNCHANGED <<file, sid, born, deleted>>
        BY <3>2 DEF OpenKnown, Register, Typed, TypeOK
      <4>3. QED
        BY <2>1, <4>1, <4>2 DEF DeletedInv, DeletedIsGone, Busy, Typed, TypeOK
    <3>3. CASE Remove(t)
      <4>1. /\ kind[t] = "delete" /\ sid[t] \in Sessions /\ sid[t] \in born /\ sid[t] # Nil
            /\ table[sid[t]] = Nil /\ pc'[t] = "done"
        BY <2>1, <3>3, ConstantsAssumption DEF Remove, AckedInv, ColdInv, ExclInv, Cold,
           Deleting, At, Goto, Typed, TypeOK, SidInv
      <4>2. /\ deleted' = deleted \cup {sid[t]} /\ UNCHANGED <<table, sid, born>>
            /\ file'[sid[t]] # "recorded"
            /\ \A r \in Sessions : r # sid[t] => file'[r] = file[r]
        BY <3>3, <4>1 DEF Remove, manager, Typed, TypeOK
      <4>3. \A u \in Tasks : u # t /\ Busy(u) => sid[u] # sid[t]
        BY <2>1, <4>1 DEF ExclInv
      <4>4. QED
        BY <2>1, <4>1, <4>2, <4>3 DEF DeletedInv, DeletedIsGone, Busy, Typed, TypeOK
    <3>4. CASE ~OpenNew(t) /\ ~OpenKnown(t) /\ ~Remove(t)
      <4>1. \A s \in Sessions : table'[s] \in {table[s], Nil}
        BY <1>1, <3>4, StepCold
      <4>2. deleted' = deleted /\ \A s \in deleted : file'[s] # "recorded"
        <5>1. CASE Write(t)
          BY <5>1 DEF Write, DeletedInv, DeletedIsGone, Typed, TypeOK
        <5>2. CASE Rename(t)
          <6>1. sid[t] \notin deleted
            BY <2>3, <5>2 DEF Rename, ExclInv, Creating, At
          <6>2. QED
            BY <5>2, <6>1 DEF Rename, DeletedInv, DeletedIsGone, Typed, TypeOK
        <5>3. CASE ~Write(t) /\ ~Rename(t)
          <6>1. file' = file /\ deleted' = deleted
            BY <1>1, <3>4, <5>3 DEF Step, PromptLive, ResolveCwd, NoRecord, WaitLock, TakeLock,
               ProbeAnswers, ProbeKilled, RefuseOrList, ConnectPop, AttachCold, Spawn,
               Initialize, OpenRefused, Unhandled, StreamEnds, DeletePop, AgentDeletes, Killed
          <6>2. QED
            BY <6>1 DEF DeletedInv, DeletedIsGone
        <5>4. QED
          BY <5>1, <5>2, <5>3
      <4>3. QED
        BY <2>1, <2>3, <3>4, <4>1, <4>2 DEF DeletedInv, DeletedIsGone, Busy, Typed, TypeOK
    <3>5. QED
      BY <3>1, <3>2, <3>3, <3>4
  <2>4. QED
    BY <2>2, <2>3
<1>2. ASSUME NEW t \in Tasks, NEW k \in Kinds, NEW s \in Sessions \cup {Nil}, Ask(t, k, s)
      PROVE  DeletedInv'
  <2>1. /\ pc'[t] = "asked" /\ \A u \in Tasks : u # t => pc'[u] = pc[u]
        /\ \A u \in Tasks : u # t => sid'[u] = sid[u] /\ kind'[u] = kind[u]
        /\ UNCHANGED <<table, file, born, deleted>>
    BY <1>2 DEF Ask, Goto, manager, Typed, TypeOK
  <2>2. QED
    BY <2>1 DEF DeletedInv, DeletedIsGone, Busy
<1>3. ASSUME UNCHANGED <<file, born, kind, sid, pc, deleted>>,
             \A s \in Sessions : table'[s] \in {table[s], Nil}
      PROVE  DeletedInv'
  BY <1>3 DEF DeletedInv, DeletedIsGone, Busy, Typed, TypeOK
<1>4. CASE Reaper
  <2>1. ASSUME NEW s, Destroy(s)
        PROVE  \A r \in Sessions : table'[r] \in {table[r], Nil}
    BY <2>1 DEF Destroy, Typed, TypeOK
  <2>2. \A r \in Sessions : table'[r] \in {table[r], Nil}
    BY <1>4, <2>1 DEF Reaper, Sweep, SweepNext, Reaped, manager
  <2>3. QED
    BY <1>3, <1>4, <2>2 DEF Reaper, Sweep, SweepNext, Reaped
<1>5. ASSUME NEW p \in Tasks, GoIdle(p) \/ ParkInterrupt(p) \/ AnswerInterrupt(p)
      PROVE  DeletedInv'
  BY <1>3, <1>5 DEF GoIdle, ParkInterrupt, AnswerInterrupt, manager
<1>6. CASE Restart
  <2>1. \A t \in Tasks : ~Busy(t)'
    BY <1>6 DEF Restart, Busy
  <2>2. (\A s \in Sessions : table'[s] = Nil) /\ UNCHANGED <<file, born, deleted>>
    BY <1>6 DEF Restart
  <2>3. QED
    BY <2>1, <2>2 DEF DeletedInv, DeletedIsGone, Typed, TypeOK
<1>7. CASE UNCHANGED vars
  BY <1>3, <1>7 DEF vars, manager
<1>8. QED
  BY <1>1, <1>2, <1>4, <1>5, <1>6, <1>7 DEF Next

\* Clients with one request at a time keep all of the invariants.
SerialInv == AckedInv /\ ExclInv /\ ColdInv /\ NoOrphan /\ DeletedInv

LEMMA SerialAlways ==
    ASSUME Overlap = FALSE
    PROVE  Spec => []SerialInv
<1>1. ASSUME Init
      PROVE  SerialInv
  <2>1. \A t \in Tasks : pc[t] = "unused" /\ kind[t] = Nil /\ sid[t] = Nil /\ proc[t] = "none"
    BY <1>1 DEF Init
  <2>2. Nil \notin Kinds
    BY ConstantsAssumption
  <2>3. AckedInv
    BY <1>1, <2>1 DEF Init, AckedInv, AckedIsRecorded, Creating, Deleting
  <2>4. ExclInv /\ ColdInv
    BY <1>1, <2>1 DEF Init, ExclInv, ColdInv, Cold, Busy, Creating, Opening, Probing, Deleting
  <2>5. NoOrphan /\ DeletedInv
    BY <1>1, <2>1 DEF Init, NoOrphan, DeletedInv, DeletedIsGone
  <2>6. QED
    BY <2>3, <2>4, <2>5 DEF SerialInv
<1>2. Typed /\ SerialInv /\ [Next]_vars => SerialInv'
  BY AckedNext, ExclNext, ColdNext, OrphanNext, DeletedNext, Overlap = FALSE DEF SerialInv
<1>3. QED
  BY <1>1, <1>2, TypedAlways, PTL DEF Spec

\* For clients with one request at a time for a session - the reaper beside
\* them - no subprocess that runs falls out of everybody's hands.
THEOREM SerialClientsLeaveNoOrphan ==
    ASSUME Overlap = FALSE
    PROVE  Spec => []NoOrphan
<1>1. SerialInv => NoOrphan
  BY DEF SerialInv
<1>2. QED
  BY <1>1, SerialAlways, Overlap = FALSE, PTL

\* For such clients a deleted session is served by nothing and has no record.
THEOREM SerialClientsKeepDeletedGone ==
    ASSUME Overlap = FALSE
    PROVE  Spec => []DeletedIsGone
<1>1. SerialInv => DeletedIsGone
  BY DEF SerialInv, DeletedInv
<1>2. QED
  BY <1>1, SerialAlways, Overlap = FALSE, PTL
=============================================================================
