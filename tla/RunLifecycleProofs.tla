------------------------- MODULE RunLifecycleProofs -------------------------
(***************************************************************************)
(* What holds of RunLifecycle for every set of runs, requests and          *)
(* notifications, every client and every number of updates; the last two   *)
(* theorems are about clients that wait.                                   *)
(***************************************************************************)
EXTENDS RunLifecycle, FiniteSetTheorems, TLAPS

(* Facts about streams. *)

\* The first events of a stream: RUN_STARTED and then only custom events, so
\* that nothing start_run puts on a queue ends it.
LEMMA OpeningFacts ==
    ASSUME TypeOK, NEW r \in Runs
    PROVE  /\ Opening(r) \in Seq(Events)
           /\ Len(Opening(r)) = 1 + Len(buffer)
           /\ Opening(r)[1] = Ev("started", r)
           /\ \A k \in DOMAIN Opening(r) : Opening(r)[k].kind \in {"started", "custom"}
<1> DEFINE B == [i \in DOMAIN buffer |-> Ev("custom", buffer[i])]
           A == <<Ev("started", r)>>
<1>1. A \in Seq(Events) /\ Len(A) = 1 /\ A[1] = Ev("started", r)
  BY DEF Events, Ev, Kinds, TerminalKinds
<1>2. buffer \in Seq(Notes) /\ DOMAIN buffer = 1..Len(buffer) /\ Len(buffer) \in Nat
  BY DEF TypeOK
<1>3. \A i \in DOMAIN buffer : Ev("custom", buffer[i]) \in Events
  BY <1>2 DEF Events, Ev, Kinds, TerminalKinds
<1>4. B \in Seq(Events) /\ Len(B) = Len(buffer)
      /\ \A i \in 1..Len(buffer) : B[i] = Ev("custom", buffer[i])
  BY <1>2, <1>3
<1>5. Opening(r) = A \o B
  BY DEF Opening
<1>6. A \o B \in Seq(Events) /\ Len(A \o B) = 1 + Len(buffer)
  BY <1>1, <1>2, <1>4
<1>7. \A k \in 1..Len(A \o B) : (A \o B)[k] = IF k <= 1 THEN A[k] ELSE B[k - 1]
  BY <1>1, <1>2, <1>4
<1>8. (A \o B)[1] = Ev("started", r)
  BY <1>1, <1>2, <1>6, <1>7
<1>9. ASSUME NEW k \in DOMAIN (A \o B)
      PROVE  (A \o B)[k].kind \in {"started", "custom"}
  <2>1. k \in 1..Len(A \o B)
    BY <1>6
  <2>2. CASE k <= 1
    BY <2>1, <2>2, <1>1, <1>7 DEF Ev
  <2>3. CASE ~(k <= 1)
    BY <2>1, <2>3, <1>2, <1>4, <1>6, <1>7 DEF Ev
  <2>4. QED
    BY <2>2, <2>3
<1>10. QED
  BY <1>5, <1>6, <1>8, <1>9

\* What appending one event does to the places where a stream ends.
LEMMA AppendFacts ==
    ASSUME NEW s \in Seq(Events), NEW e \in Events
    PROVE  /\ Append(s, e) \in Seq(Events)
           /\ Append(s, e) # <<>>
           /\ s # <<>> => Append(s, e)[1] = s[1]
           /\ s = <<>> => Append(s, e)[1] = e
           /\ e.kind \notin TerminalKinds => Terminals(Append(s, e)) = Terminals(s)
           /\ e.kind \in TerminalKinds =>
                Terminals(Append(s, e)) = Terminals(s) \cup {Len(s) + 1}
<1> DEFINE t == Append(s, e)
<1>1. t \in Seq(Events) /\ Len(t) = Len(s) + 1 /\ Len(s) \in Nat
  OBVIOUS
<1>2. t[Len(s) + 1] = e /\ \A k \in 1..Len(s) : t[k] = s[k]
  OBVIOUS
<1>3. DOMAIN s = 1..Len(s) /\ DOMAIN t = 1..Len(s) + 1
  BY <1>1
<1>4. e.kind \notin TerminalKinds => Terminals(t) = Terminals(s)
  BY <1>1, <1>2, <1>3 DEF Terminals
<1>5. e.kind \in TerminalKinds => Terminals(t) = Terminals(s) \cup {Len(s) + 1}
  BY <1>1, <1>2, <1>3 DEF Terminals
<1>6. ASSUME s # <<>> PROVE t[1] = s[1]
  <2>1. Len(s) > 0
    BY <1>6
  <2>2. QED
    BY <1>1, <1>2, <2>1
<1>7. ASSUME s = <<>> PROVE t[1] = e
  <2>1. Len(s) = 0
    BY <1>7
  <2>2. QED
    BY <1>2, <2>1
<1>8. t # <<>>
  BY <1>1
<1> HIDE DEF t
<1>9. QED
  BY <1>1, <1>4, <1>5, <1>6, <1>7, <1>8 DEF t

LEMMA EmittedType ==
    ASSUME TypeOK, NEW e \in Events
    PROVE  Emitted(e) \in [Runs -> Seq(Events)]
  BY DEF TypeOK, Emitted
-----------------------------------------------------------------------------
(* Types. *)

LEMMA InitType == Init => TypeOK
<1> SUFFICES ASSUME Init PROVE TypeOK
  OBVIOUS
<1>1. buffer \in Seq(Notes) /\ \A r \in Runs : stream[r] \in Seq(Events)
  BY DEF Init
<1>2. QED
  BY <1>1, ConstantsAssumption DEF Init, TypeOK

\* The helpers write values of the right kind, each in the variables it sets.
LEMMA AttachType ==
    ASSUME TypeOK, NEW r \in Runs, AttachSink(r)
    PROVE  /\ runId' \in Runs /\ queue' \in Runs
           /\ buffer' \in Seq(Notes)
           /\ stream' \in [Runs -> Seq(Events)]
<1>1. stream[r] \in Seq(Events) /\ Opening(r) \in Seq(Events)
  BY OpeningFacts DEF TypeOK
<1>2. stream[r] \o Opening(r) \in Seq(Events)
  BY <1>1
<1>3. buffer' \in Seq(Notes)
  BY DEF AttachSink
<1>4. QED
  BY <1>2, <1>3 DEF AttachSink, TypeOK

LEMMA CloseType ==
    ASSUME TypeOK, NEW kind \in {"finished", "error"}, CloseRun(kind)
    PROVE  /\ runId' = Nil /\ queue' = queue /\ buffer' = buffer
           /\ stream' \in [Runs -> Seq(Events)]
<1>1. runId # Nil => Ev(kind, runId) \in Events
  BY DEF TypeOK, Ev, Events, Kinds, TerminalKinds
<1>2. runId # Nil => Emitted(Ev(kind, runId)) \in [Runs -> Seq(Events)]
  BY <1>1, EmittedType
<1>3. QED
  BY <1>2 DEF CloseRun, TypeOK

LEMMA SuspendType ==
    ASSUME TypeOK, NEW q \in Requests, SuspendRun(q)
    PROVE  /\ runId' = Nil /\ queue' = Nil /\ buffer' = buffer
           /\ stream' \in [Runs -> Seq(Events)]
<1>1. Ev("interrupt", q) \in Events
  BY DEF Ev, Events, Kinds, TerminalKinds
<1>2. Emitted(Ev("interrupt", q)) \in [Runs -> Seq(Events)]
  BY <1>1, EmittedType
<1>3. QED
  BY <1>2 DEF SuspendRun, TypeOK

LEMMA SettleType ==
    ASSUME TypeOK, NEW ids \in SUBSET Ids, NEW a \in Answers, Settle(ids, a)
    PROVE  /\ slot' \in [Ids -> Requests \cup {Nil}]
           /\ future' \in [Requests -> {"unused", "pending"} \cup Answers]
           /\ timer' \in [Requests -> {"off", "armed"}]
  BY DEF Settle, TypeOK

LEMMA StepType == TypeOK /\ [Next]_vars => TypeOK'
<1> SUFFICES ASSUME TypeOK, [Next]_vars PROVE TypeOK'
  OBVIOUS
<1> USE DEF bridgeVars, parkVars, agentVars, turnVars
<1>1. ASSUME NEW r \in Runs, StartRun(r) PROVE TypeOK'
  <2>1. InFlight \subseteq Runs
    BY DEF InFlight
  <2>2. QED
    BY <1>1, <2>1, AttachType DEF StartRun, TypeOK
<1>2. ASSUME NEW r \in Runs, OpenStream(r) PROVE TypeOK'
  <2>1. Ev("snapshot", r) \in Events
    BY DEF Ev, Events, Kinds
  <2>2. Emitted(Ev("snapshot", r)) \in [Runs -> Seq(Events)]
    BY <2>1, EmittedType
  <2>3. QED
    BY <1>2, <2>2 DEF OpenStream, TypeOK
<1>3. ASSUME NEW r \in Runs, NEW ids \in SUBSET Ids \ {{}}, NEW a \in Answers,
             ResumeRun(r, ids, a)
      PROVE  TypeOK'
  <2>1. AttachSink(r) /\ Settle(ids, a)
    BY <1>3 DEF ResumeRun
  <2>2. {asker[q] : q \in Pending} \subseteq Runs \cup {Nil}
    BY DEF TypeOK, Pending
  <2>3. InFlight \subseteq Runs
    BY DEF InFlight
  <2>4. QED
    BY <1>3, <2>1, <2>2, <2>3, AttachType, SettleType DEF ResumeRun, TypeOK
<1>4. ASSUME NEW r \in Runs, RefuseResume(r) PROVE TypeOK'
  BY <1>4 DEF RefuseResume, TypeOK
<1>5. ASSUME NEW r \in Runs, EndStream(r) PROVE TypeOK'
  BY <1>5 DEF EndStream, TypeOK
<1>6. ASSUME NEW r \in Runs, Disconnect(r) PROVE TypeOK'
  <2>1. Settle({i \in Ids : slot[i] # Nil}, "cancelled")
    BY <1>6 DEF Disconnect
  <2>2. "cancelled" \in Answers
    BY DEF Answers
  <2>3. QED
    BY <1>6, <2>1, <2>2, SettleType DEF Disconnect, TypeOK
<1>7. ASSUME NEW t \in Runs, SendPrompt(t) PROVE TypeOK'
  BY <1>7 DEF SendPrompt, TypeOK
<1>8. ASSUME NEW t \in Runs, PromptReturns(t) PROVE TypeOK'
  BY <1>8, CloseType DEF PromptReturns, TypeOK
<1>9. ASSUME NEW t \in Runs, PromptFails(t) PROVE TypeOK'
  BY <1>9, CloseType DEF PromptFails, TypeOK
<1>10. ASSUME NEW t \in Runs, TurnEnd(t) PROVE TypeOK'
  BY <1>10, CloseType DEF TurnEnd, TypeOK
<1>11. ASSUME NEW t \in Runs, NEW q \in Requests, Request(q, t) PROVE TypeOK'
  <2>1. Key[q] \in Ids
    BY ConstantsAssumption
  <2>2. /\ slot' \in [Ids -> Requests \cup {Nil}]
        /\ future' \in [Requests -> {"unused", "pending"} \cup Answers]
        /\ timer' \in [Requests -> {"off", "armed"}]
        /\ asker' \in [Requests -> Runs \cup {Nil}]
    BY <1>11, <2>1 DEF Request, Park, TypeOK
  <2>3. QED
    BY <1>11, <2>2, SuspendType DEF Request, TypeOK
<1>12. ASSUME NEW q \in Requests, Expire(q) PROVE TypeOK'
  <2>1. Key[q] \in Ids
    BY ConstantsAssumption
  <2>2. /\ slot' \in [Ids -> Requests \cup {Nil}]
        /\ future' \in [Requests -> {"unused", "pending"} \cup Answers]
        /\ timer' \in [Requests -> {"off", "armed"}]
    BY <1>12, <2>1 DEF Expire, TypeOK, TtlAnswer, Answers, Pending
  <2>3. QED
    BY <1>12, <2>2 DEF Expire, TypeOK
<1>13. ASSUME SessionUpdate PROVE TypeOK'
  <2>1. Ev("delta", Nil) \in Events
    BY DEF Ev, Events, Kinds
  <2>2. Emitted(Ev("delta", Nil)) \in [Runs -> Seq(Events)]
    BY <2>1, EmittedType
  <2>3. deltas' \in 0..MaxDeltas
    BY <1>13, ConstantsAssumption DEF SessionUpdate, TypeOK
  <2>4. QED
    BY <1>13, <2>2, <2>3 DEF SessionUpdate, TypeOK
<1>14. ASSUME NEW n \in Notes, ExtNotification(n) PROVE TypeOK'
  <2>1. Ev("custom", n) \in Events
    BY DEF Ev, Events, Kinds
  <2>2. Emitted(Ev("custom", n)) \in [Runs -> Seq(Events)]
    BY <2>1, EmittedType
  <2>3. buffer' \in Seq(Notes)
    BY <1>14 DEF ExtNotification, TypeOK
  <2>4. QED
    BY <1>14, <2>2, <2>3 DEF ExtNotification, TypeOK
<1>15. CASE UNCHANGED vars
  BY <1>15 DEF vars, TypeOK
<1>16. QED
  BY <1>1, <1>2, <1>3, <1>4, <1>5, <1>6, <1>7, <1>8, <1>9, <1>10, <1>11,
     <1>12, <1>13, <1>14, <1>15 DEF Next

\* Type correctness, for every client and agent: in particular the bridge only
\* ever answers an agent with an outcome ACP defines.
THEOREM TypeCorrect == Spec => []TypeOK
<1>1. Init => TypeOK
  BY InitType
<1>2. TypeOK /\ [Next]_vars => TypeOK'
  BY StepType
<1>3. QED
  BY <1>1, <1>2, PTL DEF Spec
-----------------------------------------------------------------------------
(* Streams: their terminal events and the sink. *)

\* The invariant.  OneTerminal alone is not inductive: that a run's second end
\* is impossible rests on the bridge forgetting the run id with the first
\* (SinkIsLive), and that on a run's queue being empty until its one request.
StreamInv ==
    /\ OneTerminal
    /\ SinkIsLive
    /\ \A r \in Runs : http[r] = "unused" => stream[r] = <<>>
    /\ queue # Nil => stream[queue] # <<>>

\* No stream is born or ended by the step.
StreamsStay ==
    \A r \in Runs : /\ (stream'[r] = <<>>) <=> (stream[r] = <<>>)
                    /\ stream[r] # <<>> => stream'[r][1] = stream[r][1]
                    /\ Terminals(stream'[r]) = Terminals(stream[r])

\* No step makes an HTTP request of the past one that was never made.
HttpStays == \A r \in Runs : http'[r] = "unused" => http[r] = "unused"

LEMMA StayKeeps ==
    ASSUME TypeOK, StreamInv, StreamsStay, HttpStays,
           runId' = runId, queue' = queue
    PROVE  StreamInv'
<1>1. OneTerminal'
  BY DEF StreamInv, OneTerminal, StreamsStay
<1>2. SinkIsLive'
  BY DEF StreamInv, SinkIsLive, StreamsStay, TypeOK
<1>3. \A r \in Runs : http'[r] = "unused" => stream'[r] = <<>>
  BY DEF StreamInv, StreamsStay, HttpStays
<1>4. queue' # Nil => stream'[queue'] # <<>>
  BY DEF StreamInv, StreamsStay, TypeOK
<1>5. QED
  BY <1>1, <1>2, <1>3, <1>4 DEF StreamInv

LEMMA UnchangedStays ==
    ASSUME UNCHANGED stream
    PROVE  StreamsStay
  BY DEF StreamsStay

\* Emitting anything but a terminal event leaves the streams as they are.
LEMMA EmitStays ==
    ASSUME TypeOK, StreamInv, NEW e \in Events, e.kind \notin TerminalKinds,
           stream' = Emitted(e)
    PROVE  StreamsStay
<1>1. CASE queue = Nil
  BY <1>1 DEF Emitted, StreamsStay
<1>2. CASE queue # Nil
  <2>1. queue \in Runs /\ stream[queue] \in Seq(Events) /\ stream[queue] # <<>>
    BY <1>2 DEF TypeOK, StreamInv
  <2>2. /\ stream'[queue] = Append(stream[queue], e)
        /\ \A r \in Runs \ {queue} : stream'[r] = stream[r]
    BY <1>2, <2>1 DEF Emitted, TypeOK
  <2>3. QED
    <3>1. /\ stream'[queue] # <<>> /\ stream'[queue][1] = stream[queue][1]
          /\ Terminals(stream'[queue]) = Terminals(stream[queue])
      BY <2>1, <2>2, AppendFacts
    <3>2. QED
      BY <2>1, <2>2, <3>1 DEF StreamsStay
<1>3. QED
  BY <1>1, <1>2

\* The effect of ending the attached run with a terminal event.
LEMMA EndFacts ==
    ASSUME TypeOK, StreamInv, NEW e \in Events, e.kind \in TerminalKinds,
           runId # Nil, stream' = Emitted(e)
    PROVE  /\ runId \in Runs /\ queue = runId
           /\ stream'[runId] # <<>> /\ stream'[runId][1] = stream[runId][1]
           /\ Terminals(stream'[runId]) = {Len(stream[runId]) + 1}
           /\ \A r \in Runs \ {runId} : stream'[r] = stream[r]
<1>1. /\ runId \in Runs /\ queue = runId /\ stream[runId] \in Seq(Events)
      /\ stream[runId] # <<>> /\ Terminals(stream[runId]) = {}
  BY DEF StreamInv, SinkIsLive, TypeOK
<1>2. /\ stream'[runId] = Append(stream[runId], e)
      /\ \A r \in Runs \ {runId} : stream'[r] = stream[r]
  BY <1>1, ConstantsAssumption DEF Emitted, TypeOK
<1>3. /\ Append(stream[runId], e) # <<>>
      /\ Append(stream[runId], e)[1] = stream[runId][1]
      /\ Terminals(Append(stream[runId], e)) = {Len(stream[runId]) + 1}
  BY <1>1, AppendFacts
<1>4. QED
  BY <1>1, <1>2, <1>3

\* finish_run, error_run and _suspend_run: at most the attached run ends.
LEMMA EndKeeps ==
    ASSUME TypeOK, StreamInv, NEW e \in Events, e.kind \in TerminalKinds,
           stream' = (IF runId = Nil THEN stream ELSE Emitted(e)),
           runId' = Nil, queue' \in {queue, Nil}, HttpStays
    PROVE  StreamInv'
<1>1. CASE runId = Nil
  BY <1>1, UnchangedStays DEF StreamInv, OneTerminal, SinkIsLive, HttpStays
<1>2. CASE runId # Nil
  <2>1. stream' = Emitted(e)
    BY <1>2
  <2>2. /\ runId \in Runs /\ queue = runId
        /\ stream'[runId] # <<>> /\ stream'[runId][1] = stream[runId][1]
        /\ Terminals(stream'[runId]) = {Len(stream[runId]) + 1}
        /\ \A r \in Runs \ {runId} : stream'[r] = stream[r]
    BY <1>2, <2>1, EndFacts
  <2>3. OneTerminal'
    <3>1. ASSUME NEW r \in Runs, NEW j \in Terminals(stream'[r]),
                 NEW k \in Terminals(stream'[r])
          PROVE  j = k
      <4>1. CASE r = runId
        BY <2>2, <4>1
      <4>2. CASE r # runId
        BY <2>2, <4>2 DEF StreamInv, OneTerminal
      <4>3. QED
        BY <4>1, <4>2
    <3>2. QED
      BY <3>1 DEF OneTerminal
  <2>4. SinkIsLive'
    BY <1>2, <2>2 DEF StreamInv, SinkIsLive
  <2>5. \A r \in Runs : http'[r] = "unused" => stream'[r] = <<>>
    BY <1>2, <2>2 DEF StreamInv, HttpStays, SinkIsLive
  <2>6. queue' # Nil => stream'[queue'] # <<>>
    BY <2>2
  <2>7. QED
    BY <2>3, <2>4, <2>5, <2>6 DEF StreamInv
<1>3. QED
  BY <1>1, <1>2

LEMMA CloseKeeps ==
    ASSUME TypeOK, StreamInv, NEW kind \in {"finished", "error"},
           CloseRun(kind), HttpStays
    PROVE  StreamInv'
<1>1. CASE runId = Nil
  BY <1>1, StayKeeps, UnchangedStays DEF CloseRun
<1>2. CASE runId # Nil
  <2>1. Ev(kind, runId) \in Events /\ Ev(kind, runId).kind \in TerminalKinds
    BY <1>2 DEF TypeOK, Ev, Events, Kinds, TerminalKinds
  <2>2. QED
    BY <2>1, EndKeeps DEF CloseRun
<1>3. QED
  BY <1>1, <1>2

\* A new run's stream is born with events that do not end it.
LEMMA AttachFacts ==
    ASSUME TypeOK, StreamInv, NEW r \in Runs, http[r] = "unused", AttachSink(r)
    PROVE  /\ stream[r] = <<>> /\ stream'[r] = Opening(r)
           /\ stream'[r] # <<>> /\ stream'[r][1] = Ev("started", r)
           /\ Terminals(stream'[r]) = {}
           /\ \A s \in Runs \ {r} : stream'[s] = stream[s]
<1>1. stream[r] = <<>>
  BY DEF StreamInv
<1>2. /\ stream'[r] = <<>> \o Opening(r)
      /\ \A s \in Runs \ {r} : stream'[s] = stream[s]
  BY <1>1 DEF AttachSink, TypeOK
<1>3. Opening(r) \in Seq(Events) /\ Len(Opening(r)) = 1 + Len(buffer) /\ Len(buffer) \in Nat
  BY OpeningFacts DEF TypeOK
<1>4. <<>> \o Opening(r) = Opening(r) /\ Opening(r) # <<>>
  BY <1>3
<1>5. Terminals(Opening(r)) = {}
  BY OpeningFacts DEF Terminals, TerminalKinds
<1>6. QED
  BY <1>1, <1>2, <1>4, <1>5, OpeningFacts

LEMMA AttachKeeps ==
    ASSUME TypeOK, StreamInv, NEW r \in Runs, http[r] = "unused", AttachSink(r),
           http' = [http EXCEPT ![r] = "applying"]
    PROVE  StreamInv'
<1>1. /\ stream'[r] # <<>> /\ stream'[r][1] = Ev("started", r)
      /\ Terminals(stream'[r]) = {}
      /\ \A s \in Runs \ {r} : stream'[s] = stream[s]
  BY AttachFacts
<1>2. runId' = r /\ queue' = r
  BY DEF AttachSink
<1>3. OneTerminal'
  BY <1>1 DEF StreamInv, OneTerminal
<1>4. SinkIsLive'
  BY <1>1, <1>2 DEF StreamInv, SinkIsLive
<1>5. \A s \in Runs : http'[s] = "unused" => s # r /\ http[s] = "unused"
  BY DEF TypeOK
<1>6. QED
  BY <1>1, <1>2, <1>3, <1>4, <1>5 DEF StreamInv
-----------------------------------------------------------------------------
(* One step per action: each is one of the four effects above. *)

LEMMA InitStream == Init => StreamInv
  BY DEF Init, StreamInv, OneTerminal, SinkIsLive, Terminals

LEMMA StepStream == TypeOK /\ StreamInv /\ [Next]_vars => StreamInv'
<1> SUFFICES ASSUME TypeOK, StreamInv, [Next]_vars PROVE StreamInv'
  OBVIOUS
<1> USE DEF bridgeVars, parkVars, agentVars
<1>1. ASSUME NEW r \in Runs, StartRun(r) PROVE StreamInv'
  BY <1>1, AttachKeeps DEF StartRun
<1>2. ASSUME NEW r \in Runs, OpenStream(r) PROVE StreamInv'
  <2>1. Ev("snapshot", r) \in Events /\ Ev("snapshot", r).kind \notin TerminalKinds
    BY DEF Ev, Events, Kinds, TerminalKinds
  <2>2. HttpStays
    BY <1>2 DEF OpenStream, HttpStays, TypeOK
  <2>3. StreamsStay
    BY <1>2, <2>1, EmitStays, UnchangedStays DEF OpenStream
  <2>4. QED
    BY <1>2, <2>2, <2>3, StayKeeps DEF OpenStream
<1>3. ASSUME NEW r \in Runs, NEW ids \in SUBSET Ids \ {{}}, NEW a \in Answers,
             ResumeRun(r, ids, a)
      PROVE  StreamInv'
  BY <1>3, AttachKeeps DEF ResumeRun
<1>4. ASSUME NEW r \in Runs, RefuseResume(r) PROVE StreamInv'
  <2>1. HttpStays
    BY <1>4 DEF RefuseResume, HttpStays, TypeOK
  <2>2. QED
    BY <1>4, <2>1, StayKeeps, UnchangedStays DEF RefuseResume
<1>5. ASSUME NEW r \in Runs, EndStream(r) PROVE StreamInv'
  <2>1. HttpStays
    BY <1>5 DEF EndStream, HttpStays, TypeOK
  <2>2. QED
    BY <1>5, <2>1, StayKeeps, UnchangedStays DEF EndStream
<1>6. ASSUME NEW r \in Runs, Disconnect(r) PROVE StreamInv'
  <2>1. HttpStays
    BY <1>6 DEF Disconnect, HttpStays, TypeOK
  <2>2. QED
    BY <1>6, <2>1, StayKeeps, UnchangedStays DEF Disconnect
<1>7. ASSUME NEW t \in Runs, SendPrompt(t) PROVE StreamInv'
  BY <1>7, StayKeeps, UnchangedStays DEF SendPrompt, HttpStays
<1>8. ASSUME NEW t \in Runs, PromptReturns(t) PROVE StreamInv'
  BY <1>8, CloseKeeps DEF PromptReturns, HttpStays
<1>9. ASSUME NEW t \in Runs, PromptFails(t) PROVE StreamInv'
  BY <1>9, CloseKeeps DEF PromptFails, HttpStays
<1>10. ASSUME NEW t \in Runs, TurnEnd(t) PROVE StreamInv'
  <2>1. HttpStays
    BY <1>10 DEF TurnEnd, HttpStays
  <2>2. CASE CloseRun("finished")
    BY <2>1, <2>2, CloseKeeps
  <2>3. CASE UNCHANGED <<bridgeVars, stream>>
    BY <2>1, <2>3, StayKeeps, UnchangedStays
  <2>4. QED
    BY <1>10, <2>2, <2>3 DEF TurnEnd
<1>11. ASSUME NEW t \in Runs, NEW q \in Requests, Request(q, t) PROVE StreamInv'
  <2>1. Ev("interrupt", q) \in Events /\ Ev("interrupt", q).kind \in TerminalKinds
    BY DEF Ev, Events, Kinds, TerminalKinds
  <2>2. SuspendRun(q) /\ HttpStays
    BY <1>11 DEF Request, HttpStays
  <2>3. QED
    BY <2>1, <2>2, EndKeeps DEF SuspendRun
<1>12. ASSUME NEW q \in Requests, Expire(q) PROVE StreamInv'
  BY <1>12, StayKeeps, UnchangedStays DEF Expire, HttpStays
<1>13. ASSUME SessionUpdate PROVE StreamInv'
  <2>1. Ev("delta", Nil) \in Events /\ Ev("delta", Nil).kind \notin TerminalKinds
    BY DEF Ev, Events, Kinds, TerminalKinds
  <2>2. StreamsStay
    BY <1>13, <2>1, EmitStays DEF SessionUpdate
  <2>3. QED
    BY <1>13, <2>2, StayKeeps DEF SessionUpdate, HttpStays
<1>14. ASSUME NEW n \in Notes, ExtNotification(n) PROVE StreamInv'
  <2>1. Ev("custom", n) \in Events /\ Ev("custom", n).kind \notin TerminalKinds
    BY DEF Ev, Events, Kinds, TerminalKinds
  <2>2. StreamsStay
    BY <1>14, <2>1, EmitStays DEF ExtNotification
  <2>3. QED
    BY <1>14, <2>2, StayKeeps DEF ExtNotification, HttpStays
<1>15. CASE UNCHANGED vars
  BY <1>15, StayKeeps, UnchangedStays DEF vars, HttpStays
<1>16. QED
  BY <1>1, <1>2, <1>3, <1>4, <1>5, <1>6, <1>7, <1>8, <1>9, <1>10, <1>11,
     <1>12, <1>13, <1>14, <1>15 DEF Next

LEMMA StreamInvariant == Spec => [](TypeOK /\ StreamInv)
<1>1. Init => TypeOK /\ StreamInv
  BY InitType, InitStream
<1>2. TypeOK /\ StreamInv /\ [Next]_vars => TypeOK' /\ StreamInv'
  BY StepType, StepStream
<1>3. QED
  BY <1>1, <1>2, PTL DEF Spec

\* No stream ever gets a second terminal event, whatever clients and agent do.
THEOREM EndsOnce == Spec => []OneTerminal
<1>1. StreamInv => OneTerminal
  BY DEF StreamInv
<1>2. QED
  BY <1>1, StreamInvariant, PTL

\* The run the bridge is attached to can still be ended, on its own queue.
THEOREM SinkStaysLive == Spec => []SinkIsLive
<1>1. StreamInv => SinkIsLive
  BY DEF StreamInv
<1>2. QED
  BY <1>1, StreamInvariant, PTL
-----------------------------------------------------------------------------
(* Parked requests. *)

\* The strengthening: an armed timer belongs to a request that still waits.
\* Without it an old timer could fire and pop the entry of a later request
\* parked under the same id.
ParkInv ==
    /\ ParkedReleasable
    /\ \A q \in Requests : timer[q] = "armed" => future[q] = "pending"

LEMMA InitPark == Init => ParkInv
  BY ConstantsAssumption DEF Init, ParkInv, ParkedReleasable, Pending

LEMMA UnchangedPark ==
    ASSUME ParkInv, UNCHANGED <<slot, future, timer>>
    PROVE  ParkInv'
  BY DEF ParkInv, ParkedReleasable, Pending

\* A resume or a disconnect takes answered requests out of both tables.
LEMMA SettleKeeps ==
    ASSUME TypeOK, ParkInv, NEW ids \in SUBSET Ids, NEW a \in Answers, Settle(ids, a)
    PROVE  ParkInv'
<1> DEFINE hit == {q \in Requests : \E i \in ids : slot[i] = q}
<1>1. a # "pending" /\ a # "unused"
  BY DEF Answers
<1>2. \A q \in Requests : q \in hit => q \in Pending /\ Key[q] \in ids
  BY ConstantsAssumption DEF ParkInv, ParkedReleasable
<1>3. \A q \in Pending : q \notin hit => Key[q] \notin ids
  BY DEF ParkInv, ParkedReleasable, Pending
<1>4. /\ \A i \in Ids : slot'[i] = IF i \in ids THEN Nil ELSE slot[i]
      /\ \A q \in Requests : timer'[q] = IF q \in hit THEN "off" ELSE timer[q]
      /\ \A q \in Requests : future'[q] = IF q \in hit THEN a ELSE future[q]
  BY <1>2 DEF Settle
<1>5. \A q \in Requests : q \in Pending' <=> q \in Pending /\ q \notin hit
  BY <1>1, <1>4 DEF Pending
<1>6. \A q \in Pending' : slot'[Key[q]] = q /\ timer'[q] = "armed"
  <2>1. \A q \in Pending' : q \in Requests /\ q \in Pending /\ q \notin hit /\ Key[q] \in Ids
    BY <1>5, ConstantsAssumption DEF Pending
  <2>2. QED
    BY <2>1, <1>3, <1>4 DEF ParkInv, ParkedReleasable
<1>7. ASSUME NEW i \in Ids, slot'[i] # Nil
      PROVE  slot'[i] \in Pending' /\ Key[slot'[i]] = i
  <2>1. i \notin ids /\ slot'[i] = slot[i]
    BY <1>4, <1>7
  <2>2. slot[i] \in Pending /\ Key[slot[i]] = i /\ slot[i] \in Requests
    BY <1>7, <2>1 DEF ParkInv, ParkedReleasable, Pending
  <2>3. slot[i] \notin hit
    BY <1>2, <2>1, <2>2
  <2>4. QED
    BY <1>5, <2>1, <2>2, <2>3
<1>8. \A q \in Requests : timer'[q] = "armed" => future'[q] = "pending"
  BY <1>4 DEF ParkInv
<1>9. QED
  BY <1>6, <1>7, <1>8 DEF ParkInv, ParkedReleasable

\* A request that is parked finds its id free, and fills it.
LEMMA RequestKeeps ==
    ASSUME TypeOK, ParkInv, NEW q \in Requests, NEW t \in Runs, Request(q, t)
    PROVE  ParkInv'
<1>1. /\ Key[q] \in Ids /\ future[q] = "unused"
      /\ \A p \in Pending : p \in Requests /\ p # q /\ Key[p] # Key[q] /\ Key[p] \in Ids
  BY ConstantsAssumption DEF Request, Pending
<1>2. /\ slot' = [slot EXCEPT ![Key[q]] = q]
      /\ timer' = [timer EXCEPT ![q] = "armed"]
      /\ future' = [future EXCEPT ![q] = "pending"]
  BY DEF Request, Park
<1>3. Pending' = Pending \cup {q}
  BY <1>2 DEF Pending, TypeOK
<1>4. \A p \in Pending' : slot'[Key[p]] = p /\ timer'[p] = "armed"
  BY <1>1, <1>2, <1>3 DEF ParkInv, ParkedReleasable, TypeOK
<1>5. \A i \in Ids : slot'[i] # Nil => slot'[i] \in Pending' /\ Key[slot'[i]] = i
  BY <1>1, <1>2, <1>3 DEF ParkInv, ParkedReleasable, TypeOK
<1>6. \A p \in Requests : timer'[p] = "armed" => future'[p] = "pending"
  BY <1>2 DEF ParkInv, TypeOK
<1>7. QED
  BY <1>4, <1>5, <1>6 DEF ParkInv, ParkedReleasable

\* A timer that fires finds the request it was armed for.
LEMMA ExpireKeeps ==
    ASSUME TypeOK, ParkInv, NEW q \in Requests, Expire(q)
    PROVE  ParkInv'
<1>1. Key[q] \in Ids /\ q \in Pending /\ slot[Key[q]] = q
  BY ConstantsAssumption DEF Expire, ParkInv, ParkedReleasable, Pending
<1>2. /\ timer' = [timer EXCEPT ![q] = "off"]
      /\ slot' = [slot EXCEPT ![Key[q]] = Nil]
      /\ future' = [future EXCEPT ![q] = "cancelled"]
  BY <1>1 DEF Expire, TtlAnswer
<1>3. Pending' = Pending \ {q}
  BY <1>2 DEF Pending, TypeOK
<1>4. \A p \in Pending' : p \in Requests /\ p # q /\ Key[p] \in Ids /\ Key[p] # Key[q]
  BY <1>1, <1>3, ConstantsAssumption DEF ParkInv, ParkedReleasable, Pending
<1>5. \A p \in Pending' : slot'[Key[p]] = p /\ timer'[p] = "armed"
  BY <1>2, <1>3, <1>4 DEF ParkInv, ParkedReleasable, TypeOK
<1>6. \A i \in Ids : slot'[i] # Nil => slot'[i] \in Pending' /\ Key[slot'[i]] = i
  BY <1>1, <1>2, <1>3 DEF ParkInv, ParkedReleasable, TypeOK
<1>7. \A p \in Requests : timer'[p] = "armed" => future'[p] = "pending"
  BY <1>2 DEF ParkInv, TypeOK
<1>8. QED
  BY <1>5, <1>6, <1>7 DEF ParkInv, ParkedReleasable

LEMMA StepPark == TypeOK /\ ParkInv /\ [Next]_vars => ParkInv'
<1> SUFFICES ASSUME TypeOK, ParkInv, [Next]_vars PROVE ParkInv'
  OBVIOUS
<1> USE DEF bridgeVars, parkVars, agentVars
<1>1. ASSUME NEW r \in Runs, NEW ids \in SUBSET Ids \ {{}}, NEW a \in Answers,
             ResumeRun(r, ids, a)
      PROVE  ParkInv'
  BY <1>1, SettleKeeps DEF ResumeRun
<1>2. ASSUME NEW r \in Runs, Disconnect(r) PROVE ParkInv'
  <2>1. "cancelled" \in Answers
    BY DEF Answers
  <2>2. QED
    BY <1>2, <2>1, SettleKeeps DEF Disconnect
<1>3. ASSUME NEW r \in Runs,
             \/ StartRun(r) \/ OpenStream(r) \/ RefuseResume(r) \/ EndStream(r)
             \/ SendPrompt(r) \/ PromptReturns(r) \/ PromptFails(r) \/ TurnEnd(r)
      PROVE  ParkInv'
  BY <1>3, UnchangedPark DEF StartRun, OpenStream, RefuseResume, EndStream,
     SendPrompt, PromptReturns, PromptFails, TurnEnd
<1>4. ASSUME NEW t \in Runs, NEW q \in Requests, Request(q, t) PROVE ParkInv'
  BY <1>4, RequestKeeps
<1>5. ASSUME NEW q \in Requests, Expire(q) PROVE ParkInv'
  BY <1>5, ExpireKeeps
<1>6. CASE SessionUpdate \/ \E n \in Notes : ExtNotification(n)
  BY <1>6, UnchangedPark DEF SessionUpdate, ExtNotification
<1>7. CASE UNCHANGED vars
  BY <1>7, UnchangedPark DEF vars
<1>8. QED
  BY <1>1, <1>2, <1>3, <1>4, <1>5, <1>6, <1>7 DEF Next

\* A parked request can always be found by its id and always has its TTL: no
\* order of resumes, expiries, disconnects and new requests loses one.
THEOREM ParkedStaysReleasable == Spec => []ParkedReleasable
<1>1. Init => TypeOK /\ ParkInv
  BY InitType, InitPark
<1>2. TypeOK /\ ParkInv /\ [Next]_vars => TypeOK' /\ ParkInv'
  BY StepType, StepPark
<1>3. ParkInv => ParkedReleasable
  BY DEF ParkInv
<1>4. QED
  BY <1>1, <1>2, <1>3, PTL DEF Spec

\* An answer is final: no step sets the result of a future that is done.
THEOREM AnswersAreFinal == Spec => AnswerIsFinal
<1> DEFINE Final == \A q \in Requests : future[q] \in Answers => future'[q] = future[q]
<1>1. ASSUME TypeOK, [Next]_vars PROVE Final
  <2> USE DEF bridgeVars, parkVars, agentVars
  <2>1. \A q \in Pending : future[q] = "pending" /\ q \in Requests
    BY DEF Pending
  <2>2. ASSUME NEW ids \in SUBSET Ids, NEW a \in Answers, Settle(ids, a) PROVE Final
    BY <2>1, <2>2 DEF Settle, Answers
  <2>3. ASSUME NEW r \in Runs, NEW ids \in SUBSET Ids \ {{}}, NEW a \in Answers,
               ResumeRun(r, ids, a)
        PROVE  Final
    BY <2>2, <2>3 DEF ResumeRun
  <2>4. ASSUME NEW r \in Runs, Disconnect(r) PROVE Final
    BY <2>2, <2>4 DEF Disconnect, Answers
  <2>5. ASSUME NEW t \in Runs, NEW q \in Requests, Request(q, t) PROVE Final
    BY <1>1, <2>5 DEF Request, Park, Answers, TypeOK
  <2>6. ASSUME NEW q \in Requests, Expire(q) PROVE Final
    BY <1>1, <2>1, <2>6 DEF Expire, Answers, TypeOK
  <2>7. ASSUME NEW r \in Runs,
               \/ StartRun(r) \/ OpenStream(r) \/ RefuseResume(r) \/ EndStream(r)
               \/ SendPrompt(r) \/ PromptReturns(r) \/ PromptFails(r) \/ TurnEnd(r)
        PROVE  Final
    BY <2>7 DEF StartRun, OpenStream, RefuseResume, EndStream, SendPrompt,
       PromptReturns, PromptFails, TurnEnd
  <2>8. CASE SessionUpdate \/ \E n \in Notes : ExtNotification(n)
    BY <2>8 DEF SessionUpdate, ExtNotification
  <2>9. CASE UNCHANGED vars
    BY <2>9 DEF vars
  <2>10. QED
    BY <1>1, <2>3, <2>4, <2>5, <2>6, <2>7, <2>8, <2>9 DEF Next
<1>2. TypeOK /\ [Next]_vars => [Final]_vars
  BY <1>1
<1>3. QED
  BY <1>2, TypeCorrect, PTL DEF Spec, AnswerIsFinal
-----------------------------------------------------------------------------
(* The clients' view: RunLifecycle implements RunStreams. *)

\* Whether a step is one of RunStreams', or changes nothing its clients see.
SeenStep == [Streams!Next]_<<[r \in Runs |-> Phase(r)], runId>>

LEMMA PhaseFacts ==
    ASSUME NEW r \in Runs
    PROVE  /\ stream[r] = <<>> => Phase(r) = "unborn"
           /\ stream[r] # <<>> /\ Terminals(stream[r]) # {} => Phase(r) = "closed"
           /\ stream[r] # <<>> /\ Terminals(stream[r]) = {} => Phase(r) = "live"
  BY DEF Phase

LEMMA StaySeen ==
    ASSUME StreamsStay, runId' = runId
    PROVE  SeenStep
<1>1. \A r \in Runs : Phase(r)' = Phase(r)
  BY DEF Phase, StreamsStay
<1>2. QED
  BY <1>1 DEF SeenStep

LEMMA AttachSeen ==
    ASSUME TypeOK, StreamInv, NEW r \in Runs, http[r] = "unused", AttachSink(r)
    PROVE  SeenStep
<1>1. /\ stream[r] = <<>> /\ stream'[r] # <<>> /\ Terminals(stream'[r]) = {}
      /\ \A s \in Runs \ {r} : stream'[s] = stream[s]
  BY AttachFacts
<1>2. Phase(r) = "unborn" /\ Phase(r)' = "live"
  BY <1>1 DEF Phase
<1>3. \A s \in Runs \ {r} : Phase(s)' = Phase(s)
  BY <1>1 DEF Phase
<1>4. runId' = r
  BY DEF AttachSink
<1>5. Streams!Attach(r)
  BY <1>2, <1>3, <1>4 DEF Streams!Attach
<1>6. QED
  BY <1>5 DEF SeenStep, Streams!Next

LEMMA EndSeen ==
    ASSUME TypeOK, StreamInv, NEW e \in Events, e.kind \in TerminalKinds,
           stream' = (IF runId = Nil THEN stream ELSE Emitted(e)), runId' = Nil
    PROVE  SeenStep
<1>1. CASE runId = Nil
  BY <1>1, UnchangedStays, StaySeen
<1>2. CASE runId # Nil
  <2>1. stream' = Emitted(e)
    BY <1>2
  <2>2. /\ runId \in Runs /\ stream'[runId] # <<>>
        /\ Terminals(stream'[runId]) = {Len(stream[runId]) + 1}
        /\ \A r \in Runs \ {runId} : stream'[r] = stream[r]
    BY <1>2, <2>1, EndFacts
  <2>3. Phase(runId) = "live"
    BY <1>2, <2>2, PhaseFacts DEF StreamInv, SinkIsLive
  <2>4. \A r \in Runs : Phase(r)' = IF r = runId THEN "closed" ELSE Phase(r)
    BY <2>2 DEF Phase
  <2>5. Streams!Close
    BY <1>2, <2>2, <2>3, <2>4 DEF Streams!Close
  <2>6. QED
    BY <2>5 DEF SeenStep, Streams!Next
<1>3. QED
  BY <1>1, <1>2

LEMMA CloseSeen ==
    ASSUME TypeOK, StreamInv, NEW kind \in {"finished", "error"}, CloseRun(kind)
    PROVE  SeenStep
<1>1. CASE runId = Nil
  BY <1>1, UnchangedStays, StaySeen DEF CloseRun
<1>2. CASE runId # Nil
  <2>1. Ev(kind, runId) \in Events /\ Ev(kind, runId).kind \in TerminalKinds
    BY <1>2 DEF TypeOK, Ev, Events, Kinds, TerminalKinds
  <2>2. QED
    BY <2>1, EndSeen DEF CloseRun
<1>3. QED
  BY <1>1, <1>2

LEMMA StepSeen == TypeOK /\ StreamInv /\ [Next]_vars => SeenStep
<1> SUFFICES ASSUME TypeOK, StreamInv, [Next]_vars PROVE SeenStep
  OBVIOUS
<1> USE DEF bridgeVars, parkVars, agentVars
<1>1. ASSUME NEW r \in Runs,
             \/ StartRun(r)
             \/ \E ids \in SUBSET Ids \ {{}}, a \in Answers : ResumeRun(r, ids, a)
      PROVE  SeenStep
  BY <1>1, AttachSeen DEF StartRun, ResumeRun
<1>2. ASSUME NEW r \in Runs, OpenStream(r) PROVE SeenStep
  <2>1. Ev("snapshot", r) \in Events /\ Ev("snapshot", r).kind \notin TerminalKinds
    BY DEF Ev, Events, Kinds, TerminalKinds
  <2>2. QED
    BY <1>2, <2>1, EmitStays, UnchangedStays, StaySeen DEF OpenStream
<1>3. ASSUME NEW r \in Runs,
             RefuseResume(r) \/ EndStream(r) \/ Disconnect(r) \/ SendPrompt(r)
      PROVE  SeenStep
  BY <1>3, UnchangedStays, StaySeen DEF RefuseResume, EndStream, Disconnect, SendPrompt
<1>4. ASSUME NEW t \in Runs, PromptReturns(t) \/ PromptFails(t) PROVE SeenStep
  BY <1>4, CloseSeen DEF PromptReturns, PromptFails
<1>5. ASSUME NEW t \in Runs, TurnEnd(t) PROVE SeenStep
  BY <1>5, CloseSeen, UnchangedStays, StaySeen DEF TurnEnd
<1>6. ASSUME NEW t \in Runs, NEW q \in Requests, Request(q, t) PROVE SeenStep
  <2>1. Ev("interrupt", q) \in Events /\ Ev("interrupt", q).kind \in TerminalKinds
    BY DEF Ev, Events, Kinds, TerminalKinds
  <2>2. QED
    BY <1>6, <2>1, EndSeen DEF Request, SuspendRun
<1>7. ASSUME NEW q \in Requests, Expire(q) PROVE SeenStep
  BY <1>7, UnchangedStays, StaySeen DEF Expire
<1>8. CASE SessionUpdate
  <2>1. Ev("delta", Nil) \in Events /\ Ev("delta", Nil).kind \notin TerminalKinds
    BY DEF Ev, Events, Kinds, TerminalKinds
  <2>2. QED
    BY <1>8, <2>1, EmitStays, StaySeen DEF SessionUpdate
<1>9. ASSUME NEW n \in Notes, ExtNotification(n) PROVE SeenStep
  <2>1. Ev("custom", n) \in Events /\ Ev("custom", n).kind \notin TerminalKinds
    BY DEF Ev, Events, Kinds, TerminalKinds
  <2>2. QED
    BY <1>9, <2>1, EmitStays, StaySeen DEF ExtNotification
<1>10. CASE UNCHANGED vars
  BY <1>10, UnchangedStays, StaySeen DEF vars
<1>11. QED
  BY <1>1, <1>2, <1>3, <1>4, <1>5, <1>6, <1>7, <1>8, <1>9, <1>10 DEF Next

\* The detailed specification implements the abstract one: runs are attached
\* once, and closed once and only while attached.
THEOREM Refinement == Spec => ImplementsStreams
<1>1. Init => Streams!Init
  BY DEF Init, Streams!Init, Phase
<1>2. TypeOK /\ StreamInv /\ [Next]_vars => [Streams!Next]_(Streams!streamVars)
  BY StepSeen DEF SeenStep, Streams!streamVars
<1>3. QED
  BY <1>1, <1>2, StreamInvariant, PTL DEF Spec, ImplementsStreams, Streams!Spec
-----------------------------------------------------------------------------
(* Vendor notifications. *)

ShownAt(r, k, n) == k \in DOMAIN stream[r] /\ stream[r][k] = Ev("custom", n)

\* The invariant: NoteOnce without its cardinalities, and that what is shown or
\* kept has been sent - so a notification that is sent now is in neither place.
NoteInv ==
    /\ \A r \in Runs, k \in Nat, n \in Notes : ShownAt(r, k, n) => n \in noted
    /\ \A r, s \in Runs, j, k \in Nat, n \in Notes :
            ShownAt(r, j, n) /\ ShownAt(s, k, n) => r = s /\ j = k
    /\ \A k \in DOMAIN buffer : buffer[k] \in noted
    /\ \A j, k \in DOMAIN buffer : buffer[j] = buffer[k] => j = k
    /\ \A k \in DOMAIN buffer, r \in Runs, j \in Nat : ~ShownAt(r, j, buffer[k])

\* What places of the streams show a notification after e is emitted.
LEMMA EmitShows ==
    ASSUME TypeOK, NEW e \in Events, stream' = Emitted(e),
           NEW r \in Runs, NEW k \in Nat, NEW n \in Notes, ShownAt(r, k, n)'
    PROVE  \/ ShownAt(r, k, n)
           \/ r = queue /\ k = Len(stream[r]) + 1 /\ e = Ev("custom", n)
<1>1. stream[r] \in Seq(Events)
  BY DEF TypeOK
<1>2. k \in DOMAIN stream'[r] /\ stream'[r][k] = Ev("custom", n)
  BY DEF ShownAt
<1>3. CASE stream'[r] = stream[r]
  BY <1>2, <1>3 DEF ShownAt
<1>4. CASE r = queue /\ stream'[r] = Append(stream[r], e)
  <2>1. /\ DOMAIN stream'[r] = 1..Len(stream[r]) + 1
        /\ \A i \in 1..Len(stream[r]) : stream'[r][i] = stream[r][i]
        /\ stream'[r][Len(stream[r]) + 1] = e
        /\ DOMAIN stream[r] = 1..Len(stream[r]) /\ Len(stream[r]) \in Nat
    BY <1>1, <1>4
  <2>2. QED
    BY <1>2, <1>4, <2>1 DEF ShownAt
<1>5. QED
  BY <1>3, <1>4 DEF TypeOK, Emitted

LEMMA StayNotes ==
    ASSUME TypeOK, NoteInv, NEW e \in Events, e.kind # "custom",
           stream' = stream \/ stream' = Emitted(e), UNCHANGED <<buffer, noted>>
    PROVE  NoteInv'
<1>1. ASSUME NEW r \in Runs, NEW k \in Nat, NEW n \in Notes, ShownAt(r, k, n)'
      PROVE  ShownAt(r, k, n)
  BY <1>1, EmitShows DEF ShownAt, Ev
<1>2. \A k \in DOMAIN buffer : buffer[k] \in Notes
  BY DEF TypeOK
<1>3. QED
  BY <1>1, <1>2 DEF NoteInv

\* The buffer that a new run flushes goes to its stream, in its order.
LEMMA AttachNotes ==
    ASSUME TypeOK, StreamInv, NoteInv, NEW r \in Runs, http[r] = "unused",
           AttachSink(r), noted' = noted
    PROVE  NoteInv'
<1>1. /\ stream'[r] = Opening(r) /\ stream[r] = <<>> /\ buffer' = <<>>
      /\ \A s \in Runs \ {r} : stream'[s] = stream[s]
  BY AttachFacts DEF AttachSink
<1>2. ASSUME NEW s \in Runs, NEW k \in Nat, NEW n \in Notes, ShownAt(s, k, n)'
      PROVE  \/ s # r /\ ShownAt(s, k, n)
             \/ s = r /\ k - 1 \in DOMAIN buffer /\ n = buffer[k - 1]
  <2>1. CASE s # r
    BY <1>1, <1>2, <2>1 DEF ShownAt
  <2>2. CASE s = r
    <3> DEFINE B == [i \in DOMAIN buffer |-> Ev("custom", buffer[i])]
    <3>1. /\ Opening(r) \in Seq(Events) /\ Len(Opening(r)) = 1 + Len(buffer)
          /\ Opening(r)[1] = Ev("started", r)
          /\ k \in DOMAIN Opening(r) /\ Opening(r)[k] = Ev("custom", n)
      <4>1. k \in DOMAIN stream'[r] /\ stream'[r][k] = Ev("custom", n)
        BY <1>2, <2>2 DEF ShownAt
      <4>2. QED
        BY <1>1, <4>1, OpeningFacts
    <3>2. buffer \in Seq(Notes) /\ DOMAIN buffer = 1..Len(buffer) /\ Len(buffer) \in Nat
      BY DEF TypeOK
    <3>3. k # 1
      BY <3>1 DEF Ev
    <3>4. k - 1 \in DOMAIN buffer
      BY <3>1, <3>2, <3>3
    <3>5. \A i \in DOMAIN buffer : Ev("custom", buffer[i]) \in Events
      BY <3>2 DEF Events, Ev, Kinds, TerminalKinds
    <3>6. B \in Seq(Events) /\ Len(B) = Len(buffer)
      BY <3>2, <3>5
    <3>7. Opening(r)[k] = B[k - 1]
      <4>1. Ev("started", r) \in Events
        BY DEF Events, Ev, Kinds, TerminalKinds
      <4>2. Opening(r) = <<Ev("started", r)>> \o B
        BY DEF Opening
      <4> HIDE DEF B
      <4>3. QED
        BY <4>1, <4>2, <3>2, <3>4, <3>6
    <3>8. n = buffer[k - 1]
      BY <3>1, <3>4, <3>7 DEF Ev
    <3>9. QED
      BY <2>2, <3>4, <3>8
  <2>3. QED
    BY <2>1, <2>2
<1>3. \A i \in DOMAIN buffer : buffer[i] \in Notes
  BY DEF TypeOK
<1>4. \A s \in Runs, k \in Nat, n \in Notes : ShownAt(s, k, n)' => n \in noted'
  BY <1>2 DEF NoteInv
<1>5. ASSUME NEW s \in Runs, NEW t \in Runs, NEW j \in Nat, NEW k \in Nat,
             NEW n \in Notes, ShownAt(s, j, n)', ShownAt(t, k, n)'
      PROVE  s = t /\ j = k
  <2>1. \/ s # r /\ ShownAt(s, j, n)
        \/ s = r /\ j - 1 \in DOMAIN buffer /\ n = buffer[j - 1]
    BY <1>2, <1>5
  <2>2. \/ t # r /\ ShownAt(t, k, n)
        \/ t = r /\ k - 1 \in DOMAIN buffer /\ n = buffer[k - 1]
    BY <1>2, <1>5
  <2>3. CASE s # r /\ t # r
    BY <2>1, <2>2, <2>3 DEF NoteInv
  <2>4. CASE s = r /\ t = r
    <3>1. j - 1 = k - 1
      BY <2>1, <2>2, <2>4 DEF NoteInv
    <3>2. QED
      BY <2>4, <3>1
  <2>5. QED
    BY <2>1, <2>2, <2>3, <2>4 DEF NoteInv
<1>6. DOMAIN buffer' = {}
  BY <1>1
<1>7. QED
  BY <1>4, <1>5, <1>6 DEF NoteInv

\* A notification that is sent now was neither shown nor kept before.
LEMMA SentNotes ==
    ASSUME TypeOK, NoteInv, NEW n \in Notes, ExtNotification(n)
    PROVE  NoteInv'
<1>1. /\ n \notin noted /\ noted' = noted \cup {n}
      /\ stream' = Emitted(Ev("custom", n))
      /\ Ev("custom", n) \in Events
  BY DEF ExtNotification, Ev, Events, Kinds
<1>2. ASSUME NEW r \in Runs, NEW k \in Nat, NEW m \in Notes, ShownAt(r, k, m)'
      PROVE  \/ ShownAt(r, k, m)
             \/ queue # Nil /\ r = queue /\ k = Len(stream[r]) + 1 /\ m = n
  BY <1>1, <1>2, EmitShows, ConstantsAssumption DEF Ev
<1>3. CASE buffer' = buffer
  <2>1. \A k \in DOMAIN buffer : buffer[k] \in Notes /\ buffer[k] \in noted
    BY DEF TypeOK, NoteInv
  <2>2. QED
    BY <1>1, <1>2, <1>3, <2>1 DEF NoteInv
<1>4. CASE queue = Nil /\ buffer' = Append(buffer, n)
  <2>1. buffer \in Seq(Notes) /\ Len(buffer) \in Nat /\ DOMAIN buffer = 1..Len(buffer)
    BY DEF TypeOK
  <2>2. /\ DOMAIN buffer' = 1..Len(buffer) + 1
        /\ \A k \in DOMAIN buffer' :
                \/ k \in DOMAIN buffer /\ buffer'[k] = buffer[k]
                \/ k = Len(buffer) + 1 /\ buffer'[k] = n
    BY <1>4, <2>1
  <2>3. \A k \in DOMAIN buffer : buffer[k] \in Notes /\ buffer[k] \in noted /\ buffer[k] # n
    BY <1>1, <2>1 DEF NoteInv
  <2>4. \A r \in Runs, k \in Nat, m \in Notes : ShownAt(r, k, m)' => ShownAt(r, k, m)
    BY <1>2, <1>4
  <2>5. \A j, k \in DOMAIN buffer' : buffer'[j] = buffer'[k] => j = k
    BY <2>1, <2>2, <2>3 DEF NoteInv
  <2>6. \A k \in DOMAIN buffer' : buffer'[k] \in noted'
    BY <1>1, <2>2, <2>3
  <2>7. \A k \in DOMAIN buffer', r \in Runs, j \in Nat : ~ShownAt(r, j, buffer[k])'
    BY <1>1, <2>2, <2>3, <2>4 DEF NoteInv
  <2>8. QED
    BY <1>1, <2>4, <2>5, <2>6, <2>7 DEF NoteInv
<1>5. QED
  BY <1>3, <1>4 DEF ExtNotification

LEMMA StepNotes == TypeOK /\ StreamInv /\ NoteInv /\ [Next]_vars => NoteInv'
<1> SUFFICES ASSUME TypeOK, StreamInv, NoteInv, [Next]_vars PROVE NoteInv'
  OBVIOUS
<1> USE DEF bridgeVars, parkVars, agentVars
<1>1. ASSUME NEW r \in Runs,
             \/ StartRun(r)
             \/ \E ids \in SUBSET Ids \ {{}}, a \in Answers : ResumeRun(r, ids, a)
      PROVE  NoteInv'
  BY <1>1, AttachNotes DEF StartRun, ResumeRun
<1>2. ASSUME NEW r \in Runs, OpenStream(r) PROVE NoteInv'
  <2>1. Ev("snapshot", r) \in Events /\ Ev("snapshot", r).kind # "custom"
    BY DEF Ev, Events, Kinds
  <2>2. QED
    BY <1>2, <2>1, StayNotes DEF OpenStream
<1>3. Ev("delta", Nil) \in Events /\ Ev("delta", Nil).kind # "custom"
  BY DEF Ev, Events, Kinds
<1>4. ASSUME UNCHANGED <<stream, buffer, noted>> PROVE NoteInv'
  BY <1>3, <1>4, StayNotes
<1>5. ASSUME NEW kind \in {"finished", "error"}, CloseRun(kind), noted' = noted
      PROVE  NoteInv'
  <2>1. runId = Nil \/ (Ev(kind, runId) \in Events /\ Ev(kind, runId).kind # "custom")
    BY DEF Ev, Events, Kinds, TerminalKinds, TypeOK
  <2>2. CASE runId = Nil
    BY <1>4, <1>5, <2>2 DEF CloseRun
  <2>3. CASE runId # Nil
    BY <1>5, <2>1, <2>3, StayNotes DEF CloseRun
  <2>4. QED
    BY <2>2, <2>3
<1>6. ASSUME NEW t \in Runs, PromptReturns(t) \/ PromptFails(t) \/ TurnEnd(t)
      PROVE  NoteInv'
  BY <1>4, <1>5, <1>6 DEF PromptReturns, PromptFails, TurnEnd
<1>7. ASSUME NEW t \in Runs, NEW q \in Requests, Request(q, t) PROVE NoteInv'
  <2>1. Ev("interrupt", q) \in Events /\ Ev("interrupt", q).kind # "custom"
    BY DEF Ev, Events, Kinds, TerminalKinds
  <2>2. QED
    BY <1>7, <2>1, StayNotes DEF Request, SuspendRun
<1>8. ASSUME NEW r \in Runs,
             RefuseResume(r) \/ EndStream(r) \/ Disconnect(r) \/ SendPrompt(r)
      PROVE  NoteInv'
  BY <1>4, <1>8 DEF RefuseResume, EndStream, Disconnect, SendPrompt
<1>9. ASSUME NEW q \in Requests, Expire(q) PROVE NoteInv'
  BY <1>4, <1>9 DEF Expire
<1>10. CASE SessionUpdate
  BY <1>3, <1>10, StayNotes DEF SessionUpdate
<1>11. ASSUME NEW n \in Notes, ExtNotification(n) PROVE NoteInv'
  BY <1>11, SentNotes
<1>12. CASE UNCHANGED vars
  BY <1>4, <1>12 DEF vars
<1>13. QED
  BY <1>1, <1>2, <1>6, <1>7, <1>8, <1>9, <1>10, <1>11, <1>12 DEF Next

\* A set no two elements of which differ has one element at most.
LEMMA AtMostOne ==
    ASSUME NEW S, \A x, y \in S : x = y
    PROVE  Cardinality(S) \in {0, 1} /\ (S = {} => Cardinality(S) = 0)
<1>1. S = {} \/ \E x : S = {x}
  OBVIOUS
<1>2. QED
  BY <1>1, FS_EmptySet, FS_Singleton

LEMMA NotesCounted ==
    ASSUME TypeOK, NoteInv
    PROVE  NoteOnce
<1> SUFFICES ASSUME NEW n \in Notes
             PROVE  Cardinality(UNION {{<<r, k>> : k \in {j \in DOMAIN stream[r] :
                            stream[r][j] = Ev("custom", n)}} : r \in Runs})
                    + Cardinality({k \in DOMAIN buffer : buffer[k] = n}) <= 1
  BY DEF NoteOnce
<1> DEFINE P(r) == {<<r, k>> : k \in {j \in DOMAIN stream[r] :
                            stream[r][j] = Ev("custom", n)}}
           S == UNION {P(r) : r \in Runs}
           K == {k \in DOMAIN buffer : buffer[k] = n}
<1>1. \A r \in Runs : DOMAIN stream[r] \subseteq Nat
  BY DEF TypeOK
<1>2. \A x \in S : \E r \in Runs, k \in Nat : x = <<r, k>> /\ ShownAt(r, k, n)
  BY <1>1 DEF ShownAt
<1>3. \A x, y \in K : x = y
  BY DEF NoteInv
<1>4. K = {} \/ S = {}
  BY <1>2 DEF NoteInv
<1> HIDE DEF S, K
<1>5. \A x, y \in S : x = y
  BY <1>2 DEF NoteInv
<1>6. Cardinality(S) + Cardinality(K) <= 1
  BY <1>3, <1>4, <1>5, AtMostOne
<1>7. QED
  BY <1>6 DEF S, K

\* A vendor notification is never surfaced twice, nor surfaced while it still
\* waits in the buffer, whatever client and agent do.
THEOREM NotesShownOnce == Spec => []NoteOnce
<1>1. Init => NoteInv
  BY DEF Init, NoteInv, ShownAt
<1>2. TypeOK /\ StreamInv /\ NoteInv /\ [Next]_vars => NoteInv'
  BY StepNotes
<1>3. TypeOK /\ NoteInv => NoteOnce
  BY NotesCounted
<1>4. QED
  BY <1>1, <1>2, <1>3, StreamInvariant, PTL DEF Spec
-----------------------------------------------------------------------------
(* Whose turn ends a stream. *)

\* The invariant: while the bridge is attached to a run, every turn in flight
\* is one the run shows or one that was there when it was opened (no turn
\* starts without taking the sink away); and a new request is of no turn yet.
UnderWayInv ==
    /\ runId # Nil => InFlight \subseteq turns[runId] \cup beside[runId]
    /\ \A q \in Requests : future[q] = "unused" => asker[q] = Nil

\* The step ends no stream, or is one of a turn under way at its opening.
EndedUnderWay ==
    \A r \in Runs : Terminals(stream'[r]) # Terminals(stream[r]) =>
        \E t \in turns[r] \cup beside[r] : Moves(t)

LEMMA InitUnderWay == Init => UnderWayInv
  BY DEF Init, UnderWayInv

\* A turn in flight may end the attached run, and does end no other.
LEMMA MoverEnds ==
    ASSUME TypeOK, StreamInv, UnderWayInv, NEW t \in InFlight, Moves(t),
           NEW e \in Events, e.kind \in TerminalKinds,
           stream' = (IF runId = Nil THEN stream ELSE Emitted(e))
    PROVE  EndedUnderWay
<1>1. CASE runId = Nil
  BY <1>1 DEF EndedUnderWay
<1>2. CASE runId # Nil
  <2>1. \A r \in Runs \ {runId} : stream'[r] = stream[r]
    BY <1>2, EndFacts
  <2>2. t \in turns[runId] \cup beside[runId]
    BY <1>2 DEF UnderWayInv
  <2>3. QED
    BY <2>1, <2>2 DEF EndedUnderWay
<1>3. QED
  BY <1>1, <1>2

LEMMA MoverCloses ==
    ASSUME TypeOK, StreamInv, UnderWayInv, NEW t \in InFlight, Moves(t),
           NEW kind \in {"finished", "error"}, CloseRun(kind)
    PROVE  EndedUnderWay
<1>1. CASE runId = Nil
  BY <1>1 DEF CloseRun, EndedUnderWay
<1>2. CASE runId # Nil
  <2>1. Ev(kind, runId) \in Events /\ Ev(kind, runId).kind \in TerminalKinds
    BY <1>2 DEF TypeOK, Ev, Events, Kinds, TerminalKinds
  <2>2. QED
    BY <2>1, MoverEnds DEF CloseRun
<1>3. QED
  BY <1>1, <1>2

\* A step that starts no turn and takes no sink keeps the invariant.
LEMMA UnderWayStays ==
    ASSUME UnderWayInv, runId' \in {runId, Nil}, InFlight' \subseteq InFlight,
           UNCHANGED turnVars,
           \A q \in Requests : future'[q] = "unused" =>
                                 future[q] = "unused" /\ asker'[q] = asker[q]
    PROVE  UnderWayInv'
  BY DEF UnderWayInv, turnVars

\* Nothing that settles a request makes a new one of it.
LEMMA SettleAnswers ==
    ASSUME NEW ids \in SUBSET Ids, NEW a \in Answers, Settle(ids, a)
    PROVE  \A q \in Requests : future'[q] = "unused" => future[q] = "unused"
  BY DEF Settle, Answers

LEMMA StepUnderWay ==
    ASSUME TypeOK, StreamInv, UnderWayInv, [Next]_vars
    PROVE  UnderWayInv' /\ EndedUnderWay
<1> USE DEF bridgeVars, parkVars, agentVars
<1>1. ASSUME StreamsStay PROVE EndedUnderWay
  BY <1>1 DEF StreamsStay, EndedUnderWay
<1>2. ASSUME NEW r \in Runs, http[r] = "unused", AttachSink(r) PROVE EndedUnderWay
  <2>1. /\ Terminals(stream'[r]) = {} /\ stream[r] = <<>>
        /\ \A s \in Runs \ {r} : stream'[s] = stream[s]
    BY <1>2, AttachFacts
  <2>2. Terminals(stream[r]) = {}
    BY <2>1 DEF Terminals
  <2>3. QED
    BY <2>1, <2>2 DEF EndedUnderWay
<1>3. ASSUME NEW r \in Runs, StartRun(r) PROVE UnderWayInv' /\ EndedUnderWay
  <2>1. /\ runId' = r /\ UNCHANGED <<future, asker>>
        /\ turns'[r] = {r} /\ beside'[r] = InFlight
        /\ prompt' = [prompt EXCEPT ![r] = "created"]
    BY <1>3 DEF StartRun, AttachSink, TypeOK
  <2>2. InFlight' \subseteq InFlight \cup {r}
    BY <2>1 DEF InFlight, TypeOK
  <2>3. UnderWayInv'
    BY <2>1, <2>2 DEF UnderWayInv
  <2>4. QED
    BY <1>2, <1>3, <2>3 DEF StartRun
<1>4. ASSUME NEW r \in Runs, NEW ids \in SUBSET Ids \ {{}}, NEW a \in Answers,
             ResumeRun(r, ids, a)
      PROVE  UnderWayInv' /\ EndedUnderWay
  <2>1. /\ runId' = r /\ beside'[r] = InFlight /\ UNCHANGED <<prompt, asker>>
    BY <1>4 DEF ResumeRun, AttachSink, TypeOK
  <2>2. InFlight' = InFlight
    BY <2>1 DEF InFlight
  <2>3. \A q \in Requests : future'[q] = "unused" => future[q] = "unused"
    BY <1>4, SettleAnswers DEF ResumeRun
  <2>4. UnderWayInv'
    BY <2>1, <2>2, <2>3 DEF UnderWayInv
  <2>5. QED
    BY <1>2, <1>4, <2>4 DEF ResumeRun
<1>5. ASSUME NEW r \in Runs, OpenStream(r) PROVE UnderWayInv' /\ EndedUnderWay
  <2>1. Ev("snapshot", r) \in Events /\ Ev("snapshot", r).kind \notin TerminalKinds
    BY DEF Ev, Events, Kinds, TerminalKinds
  <2>2. StreamsStay
    BY <1>5, <2>1, EmitStays, UnchangedStays DEF OpenStream
  <2>3. QED
    BY <1>1, <1>5, <2>2, UnderWayStays DEF OpenStream, InFlight
<1>6. ASSUME NEW r \in Runs, RefuseResume(r) \/ EndStream(r) \/ Disconnect(r)
      PROVE  UnderWayInv' /\ EndedUnderWay
  <2>1. \A q \in Requests : future'[q] = "unused" => future[q] = "unused"
    <3>1. "cancelled" \in Answers
      BY DEF Answers
    <3>2. QED
      BY <1>6, <3>1, SettleAnswers DEF RefuseResume, EndStream, Disconnect
  <2>2. UNCHANGED <<runId, stream, asker, prompt, turnVars>>
    BY <1>6 DEF RefuseResume, EndStream, Disconnect
  <2>3. InFlight' = InFlight
    BY <2>2 DEF InFlight
  <2>4. QED
    BY <1>1, <2>1, <2>2, <2>3, UnchangedStays, UnderWayStays
<1>7. ASSUME NEW t \in Runs, SendPrompt(t) PROVE UnderWayInv' /\ EndedUnderWay
  <2>1. InFlight' \subseteq InFlight
    BY <1>7 DEF SendPrompt, InFlight, TypeOK
  <2>2. QED
    BY <1>1, <1>7, <2>1, UnchangedStays, UnderWayStays DEF SendPrompt
<1>8. ASSUME NEW t \in Runs, PromptReturns(t) \/ PromptFails(t) \/ TurnEnd(t)
      PROVE  UnderWayInv' /\ EndedUnderWay
  <2>1. /\ runId' \in {runId, Nil} /\ UNCHANGED <<future, asker, turnVars>>
        /\ t \in InFlight
    BY <1>8 DEF PromptReturns, PromptFails, TurnEnd, CloseRun, AgentDone, InFlight
  <2>2. PICK x \in {"winding", "done"} :
            x # prompt[t] /\ prompt' = [prompt EXCEPT ![t] = x]
    BY <1>8 DEF PromptReturns, PromptFails, TurnEnd, AgentDone
  <2>3. InFlight' \subseteq InFlight /\ Moves(t)
    BY <2>1, <2>2 DEF InFlight, Moves, TypeOK
  <2>4. UnderWayInv'
    BY <2>1, <2>3, UnderWayStays
  <2>5. EndedUnderWay
    <3>1. CASE stream' = stream
      BY <1>1, <3>1, UnchangedStays
    <3>2. CASE \E kind \in {"finished", "error"} : CloseRun(kind)
      BY <2>1, <2>3, <3>2, MoverCloses
    <3>3. QED
      BY <1>8, <3>1, <3>2 DEF PromptReturns, PromptFails, TurnEnd
  <2>6. QED
    BY <2>4, <2>5
<1>9. ASSUME NEW t \in Runs, NEW q \in Requests, Request(q, t)
      PROVE  UnderWayInv' /\ EndedUnderWay
  <2>1. /\ runId' = Nil /\ prompt[t] = "running" /\ future[q] = "unused"
        /\ asker' = [asker EXCEPT ![q] = t]
        /\ future' = [future EXCEPT ![q] = "pending"]
        /\ UNCHANGED <<prompt, turnVars>>
    BY <1>9 DEF Request, Park, SuspendRun
  <2>2. t \in InFlight /\ InFlight' = InFlight
    BY <2>1 DEF InFlight
  <2>3. asker'[q] = t /\ asker[q] # t
    BY <2>1, ConstantsAssumption DEF UnderWayInv, TypeOK
  <2>4. Moves(t)
    BY <2>3 DEF Moves
  <2>5. Ev("interrupt", q) \in Events /\ Ev("interrupt", q).kind \in TerminalKinds
    BY DEF Ev, Events, Kinds, TerminalKinds
  <2>6. EndedUnderWay
    BY <1>9, <2>2, <2>4, <2>5, MoverEnds DEF Request, SuspendRun
  <2>7. \A p \in Requests : future'[p] = "unused" =>
                              future[p] = "unused" /\ asker'[p] = asker[p]
    BY <2>1 DEF TypeOK
  <2>8. QED
    BY <2>1, <2>2, <2>6, <2>7, UnderWayStays
<1>10. ASSUME NEW q \in Requests, Expire(q) PROVE UnderWayInv' /\ EndedUnderWay
  <2>1. \A p \in Requests : future'[p] = "unused" => future[p] = "unused"
    BY <1>10 DEF Expire, TtlAnswer, Pending, TypeOK
  <2>2. QED
    BY <1>1, <1>10, <2>1, UnchangedStays, UnderWayStays DEF Expire, InFlight
<1>11. CASE SessionUpdate
  <2>1. Ev("delta", Nil) \in Events /\ Ev("delta", Nil).kind \notin TerminalKinds
    BY DEF Ev, Events, Kinds, TerminalKinds
  <2>2. StreamsStay
    BY <1>11, <2>1, EmitStays DEF SessionUpdate
  <2>3. QED
    BY <1>1, <1>11, <2>2, UnderWayStays DEF SessionUpdate, InFlight
<1>12. ASSUME NEW n \in Notes, ExtNotification(n) PROVE UnderWayInv' /\ EndedUnderWay
  <2>1. Ev("custom", n) \in Events /\ Ev("custom", n).kind \notin TerminalKinds
    BY DEF Ev, Events, Kinds, TerminalKinds
  <2>2. StreamsStay
    BY <1>12, <2>1, EmitStays DEF ExtNotification
  <2>3. QED
    BY <1>1, <1>12, <2>2, UnderWayStays DEF ExtNotification, InFlight
<1>13. CASE UNCHANGED vars
  BY <1>1, <1>13, UnchangedStays, UnderWayStays DEF vars, InFlight
<1>14. QED
  BY <1>3, <1>4, <1>5, <1>6, <1>7, <1>8, <1>9, <1>10, <1>11, <1>12, <1>13 DEF Next

\* Whatever clients and agent do, a stream is ended only by a turn it was
\* opened to show or one under way when it was opened: never by a later one.
THEOREM EndedOnlyByTurnsUnderWay == Spec => EndedByTurnUnderWay
<1>1. Init => UnderWayInv
  BY InitUnderWay
<1>2. TypeOK /\ StreamInv /\ UnderWayInv /\ [Next]_vars =>
        UnderWayInv' /\ EndedUnderWay
  BY StepUnderWay
<1>3. QED
  <2>1. Spec => []UnderWayInv
    BY <1>1, <1>2, StreamInvariant, PTL DEF Spec
  <2>2. TypeOK /\ StreamInv /\ UnderWayInv /\ [Next]_vars =>
          [\A r \in Runs : Terminals(stream'[r]) # Terminals(stream[r]) =>
              \E t \in turns[r] \cup beside[r] : Moves(t)]_vars
    BY <1>2 DEF EndedUnderWay
  <2>3. QED
    BY <2>1, <2>2, StreamInvariant, PTL DEF Spec, EndedByTurnUnderWay
-----------------------------------------------------------------------------
(* A client that waits for its streams. *)

LEMMA StepWatched ==
    ASSUME Overlap = FALSE, TypeOK, StreamInv, WatchedIsSink, [Next]_vars
    PROVE  WatchedIsSink'
<1> USE DEF bridgeVars, parkVars, agentVars
<1>1. ASSUME StreamsStay, runId' = runId, Watched' \subseteq Watched
      PROVE  WatchedIsSink'
  BY <1>1 DEF WatchedIsSink, StreamsStay, Watched
<1>2. ASSUME NEW r \in Runs, AttachSink(r), Watched = {},
             http' = [http EXCEPT ![r] = "applying"]
      PROVE  WatchedIsSink'
  <2>1. Watched' \subseteq {r}
    BY <1>2 DEF Watched, TypeOK
  <2>2. QED
    BY <1>2, <2>1 DEF WatchedIsSink, AttachSink
<1>3. ASSUME NEW e \in Events, e.kind \in TerminalKinds, runId' = Nil,
             stream' = (IF runId = Nil THEN stream ELSE Emitted(e)), http' = http
      PROVE  WatchedIsSink'
  <2>1. Watched' = Watched /\ Watched \subseteq Runs
    BY <1>3 DEF Watched
  <2>2. CASE runId = Nil
    BY <1>3, <2>1, <2>2 DEF WatchedIsSink
  <2>3. CASE runId # Nil
    <3>1. stream' = Emitted(e)
      BY <1>3, <2>3
    <3>2. /\ Terminals(stream'[runId]) = {Len(stream[runId]) + 1}
          /\ \A r \in Runs \ {runId} : stream'[r] = stream[r]
      BY <1>3, <2>3, <3>1, EndFacts
    <3>3. QED
      BY <2>1, <3>2 DEF WatchedIsSink
  <2>4. QED
    BY <2>2, <2>3
<1>4. ASSUME NEW kind \in {"finished", "error"}, CloseRun(kind), http' = http
      PROVE  WatchedIsSink'
  <2>1. CASE runId = Nil
    BY <1>1, <1>4, <2>1, UnchangedStays DEF CloseRun, Watched
  <2>2. CASE runId # Nil
    <3>1. Ev(kind, runId) \in Events /\ Ev(kind, runId).kind \in TerminalKinds
      BY <2>2 DEF TypeOK, Ev, Events, Kinds, TerminalKinds
    <3>2. QED
      BY <1>3, <1>4, <3>1 DEF CloseRun
  <2>3. QED
    BY <2>1, <2>2
<1>5. ASSUME NEW r \in Runs,
             \/ StartRun(r)
             \/ \E ids \in SUBSET Ids \ {{}}, a \in Answers : ResumeRun(r, ids, a)
      PROVE  WatchedIsSink'
  BY <1>2, <1>5 DEF StartRun, ResumeRun, MayPost
<1>6. ASSUME NEW r \in Runs, OpenStream(r) PROVE WatchedIsSink'
  <2>1. Ev("snapshot", r) \in Events /\ Ev("snapshot", r).kind \notin TerminalKinds
    BY DEF Ev, Events, Kinds, TerminalKinds
  <2>2. Watched' \subseteq Watched
    BY <1>6 DEF OpenStream, Watched, TypeOK
  <2>3. StreamsStay
    BY <1>6, <2>1, EmitStays, UnchangedStays DEF OpenStream
  <2>4. QED
    BY <1>1, <1>6, <2>2, <2>3 DEF OpenStream
<1>7. ASSUME NEW r \in Runs, RefuseResume(r) \/ EndStream(r) \/ Disconnect(r)
      PROVE  WatchedIsSink'
  <2>1. Watched' \subseteq Watched
    BY <1>7 DEF RefuseResume, EndStream, Disconnect, Watched, TypeOK
  <2>2. QED
    BY <1>1, <1>7, <2>1, UnchangedStays DEF RefuseResume, EndStream, Disconnect
<1>8. ASSUME NEW t \in Runs, SendPrompt(t) PROVE WatchedIsSink'
  BY <1>1, <1>8, UnchangedStays DEF SendPrompt, Watched
<1>9. ASSUME NEW t \in Runs, PromptReturns(t) \/ PromptFails(t)
      PROVE  WatchedIsSink'
  BY <1>4, <1>9 DEF PromptReturns, PromptFails
<1>10. ASSUME NEW t \in Runs, TurnEnd(t) PROVE WatchedIsSink'
  BY <1>1, <1>4, <1>10, UnchangedStays DEF TurnEnd, Watched
<1>11. ASSUME NEW t \in Runs, NEW q \in Requests, Request(q, t) PROVE WatchedIsSink'
  <2>1. Ev("interrupt", q) \in Events /\ Ev("interrupt", q).kind \in TerminalKinds
    BY DEF Ev, Events, Kinds, TerminalKinds
  <2>2. QED
    BY <1>3, <1>11, <2>1 DEF Request, SuspendRun
<1>12. ASSUME NEW q \in Requests, Expire(q) PROVE WatchedIsSink'
  BY <1>1, <1>12, UnchangedStays DEF Expire, Watched
<1>13. CASE SessionUpdate
  <2>1. Ev("delta", Nil) \in Events /\ Ev("delta", Nil).kind \notin TerminalKinds
    BY DEF Ev, Events, Kinds, TerminalKinds
  <2>2. QED
    BY <1>1, <1>13, <2>1, EmitStays DEF SessionUpdate, Watched
<1>14. ASSUME NEW n \in Notes, ExtNotification(n) PROVE WatchedIsSink'
  <2>1. Ev("custom", n) \in Events /\ Ev("custom", n).kind \notin TerminalKinds
    BY DEF Ev, Events, Kinds, TerminalKinds
  <2>2. QED
    BY <1>1, <1>14, <2>1, EmitStays DEF ExtNotification, Watched
<1>15. CASE UNCHANGED vars
  BY <1>1, <1>15, UnchangedStays DEF vars, Watched
<1>16. QED
  BY <1>5, <1>6, <1>7, <1>8, <1>9, <1>10, <1>11, <1>12, <1>13, <1>14, <1>15 DEF Next

\* For a client that posts only when it watches no stream, whatever turns are
\* under way, the stream it watches stays the bridge's sink until it has ended.
THEOREM SerialClientStaysAttached ==
    ASSUME Overlap = FALSE
    PROVE  Spec => []WatchedIsSink
<1>1. Init => WatchedIsSink
  BY DEF Init, WatchedIsSink, Watched
<1>2. TypeOK /\ StreamInv /\ WatchedIsSink /\ [Next]_vars => WatchedIsSink'
  BY StepWatched, Overlap = FALSE
<1>3. QED
  BY <1>1, <1>2, StreamInvariant, PTL DEF Spec
-----------------------------------------------------------------------------
(* A client that waits for its streams, and the baselines it is sent. *)

\* The invariant: between a run's request and its baseline no other run takes
\* the sink, for only a client that watches no stream posts.
BaselineInv ==
    /\ \A r \in Runs : http[r] = "applying" => queue \in {r, Nil}
    /\ SnapshotIsOwn

\* An event that is no baseline, or that of the run it is written to, is right.
LEMMA EmitOwn ==
    ASSUME TypeOK, SnapshotIsOwn, NEW e \in Events, stream' = Emitted(e),
           e.kind = "snapshot" => queue \in {e.of, Nil}
    PROVE  SnapshotIsOwn'
<1>1. CASE queue = Nil
  BY <1>1 DEF Emitted, SnapshotIsOwn
<1>2. CASE queue # Nil
  <2>1. /\ queue \in Runs /\ stream[queue] \in Seq(Events)
        /\ stream'[queue] = Append(stream[queue], e)
        /\ \A r \in Runs \ {queue} : stream'[r] = stream[r]
    BY <1>2 DEF TypeOK, Emitted
  <2>2. ASSUME NEW r \in Runs, NEW k \in DOMAIN stream'[r],
               stream'[r][k].kind = "snapshot"
        PROVE  stream'[r][k].of = r
    <3>1. CASE r # queue
      BY <2>1, <2>2, <3>1 DEF SnapshotIsOwn
    <3>2. CASE r = queue /\ k <= Len(stream[r])
      <4>1. k \in DOMAIN stream[r] /\ stream'[r][k] = stream[r][k]
        BY <2>1, <2>2, <3>2
      <4>2. QED
        BY <2>2, <4>1 DEF SnapshotIsOwn
    <3>3. CASE r = queue /\ ~(k <= Len(stream[r]))
      <4>1. stream'[r][k] = e
        BY <2>1, <2>2, <3>3
      <4>2. QED
        BY <1>2, <2>2, <3>3, <4>1
    <3>4. QED
      BY <3>1, <3>2, <3>3
  <2>3. QED
    BY <2>2 DEF SnapshotIsOwn
<1>3. QED
  BY <1>1, <1>2

\* A run takes the sink while no other run waits to send its baseline.
LEMMA AttachOwn ==
    ASSUME TypeOK, StreamInv, BaselineInv, NEW r \in Runs, http[r] = "unused",
           AttachSink(r), Watched = {}, http' = [http EXCEPT ![r] = "applying"]
    PROVE  BaselineInv'
<1>1. stream'[r] = Opening(r) /\ \A s \in Runs \ {r} : stream'[s] = stream[s]
  BY AttachFacts
<1>2. \A k \in DOMAIN stream'[r] : stream'[r][k].kind # "snapshot"
  BY <1>1, OpeningFacts
<1>3. SnapshotIsOwn'
  BY <1>1, <1>2 DEF SnapshotIsOwn, BaselineInv
<1>4. \A s \in Runs : http'[s] = "applying" => s = r
  BY DEF Watched, TypeOK
<1>5. QED
  BY <1>3, <1>4 DEF BaselineInv, AttachSink

LEMMA StepBaseline ==
    ASSUME Overlap = FALSE, TypeOK, StreamInv, BaselineInv, [Next]_vars
    PROVE  BaselineInv'
<1> USE DEF bridgeVars, parkVars, agentVars
<1> DEFINE OnWay == \A s \in Runs : http'[s] = "applying" => http[s] = "applying"
<1>1. ASSUME OnWay, queue' \in {queue, Nil}, NEW e \in Events,
             e.kind = "snapshot" => queue \in {e.of, Nil},
             stream' \in {stream, Emitted(e)}
      PROVE  BaselineInv'
  <2>1. SnapshotIsOwn'
    <3>1. CASE stream' = stream
      BY <3>1 DEF SnapshotIsOwn, BaselineInv
    <3>2. CASE stream' = Emitted(e)
      BY <1>1, <3>2, EmitOwn DEF BaselineInv
    <3>3. QED
      BY <1>1, <3>1, <3>2
  <2>2. QED
    BY <1>1, <2>1 DEF BaselineInv
<1>2. /\ Ev("delta", Nil) \in Events /\ Ev("delta", Nil).kind # "snapshot"
      /\ \A n \in Notes : Ev("custom", n) \in Events /\ Ev("custom", n).kind # "snapshot"
      /\ \A q \in Requests : /\ Ev("interrupt", q) \in Events
                             /\ Ev("interrupt", q).kind # "snapshot"
      /\ \A r \in Runs : /\ Ev("snapshot", r) \in Events
                         /\ Ev("snapshot", r).of = r
  BY DEF Ev, Events, Kinds, TerminalKinds
<1>3. ASSUME OnWay, UNCHANGED <<queue, stream>> PROVE BaselineInv'
  BY <1>1, <1>2, <1>3
<1>4. ASSUME NEW r \in Runs,
             \/ StartRun(r)
             \/ \E ids \in SUBSET Ids \ {{}}, a \in Answers : ResumeRun(r, ids, a)
      PROVE  BaselineInv'
  BY <1>4, AttachOwn, Overlap = FALSE DEF StartRun, ResumeRun, MayPost
<1>5. ASSUME NEW r \in Runs, OpenStream(r) PROVE BaselineInv'
  <2>1. OnWay /\ queue' = queue /\ queue \in {r, Nil}
    BY <1>5 DEF OpenStream, TypeOK, BaselineInv
  <2>2. stream' \in {stream, Emitted(Ev("snapshot", r))}
    BY <1>5 DEF OpenStream
  <2>3. QED
    BY <1>1, <1>2, <2>1, <2>2
<1>6. ASSUME NEW r \in Runs,
             RefuseResume(r) \/ EndStream(r) \/ Disconnect(r) \/ SendPrompt(r)
      PROVE  BaselineInv'
  <2>1. OnWay
    BY <1>6 DEF RefuseResume, EndStream, Disconnect, SendPrompt, TypeOK
  <2>2. QED
    BY <1>3, <1>6, <2>1 DEF RefuseResume, EndStream, Disconnect, SendPrompt
<1>7. ASSUME NEW t \in Runs, PromptReturns(t) \/ PromptFails(t) \/ TurnEnd(t)
      PROVE  BaselineInv'
  <2>1. OnWay /\ queue' = queue
    BY <1>7 DEF PromptReturns, PromptFails, TurnEnd, CloseRun
  <2>2. CASE stream' = stream
    BY <1>3, <2>1, <2>2
  <2>3. CASE stream' # stream
    <3>1. PICK kind \in {"finished", "error"} : CloseRun(kind)
      BY <1>7, <2>3 DEF PromptReturns, PromptFails, TurnEnd
    <3>2. runId # Nil /\ stream' = Emitted(Ev(kind, runId))
      BY <2>3, <3>1 DEF CloseRun
    <3>3. Ev(kind, runId) \in Events /\ Ev(kind, runId).kind # "snapshot"
      BY <3>2 DEF Ev, Events, Kinds, TerminalKinds, TypeOK
    <3>4. QED
      BY <1>1, <2>1, <3>2, <3>3
  <2>4. QED
    BY <2>2, <2>3
<1>8. ASSUME NEW t \in Runs, NEW q \in Requests, Request(q, t) PROVE BaselineInv'
  BY <1>1, <1>2, <1>8 DEF Request, SuspendRun
<1>9. ASSUME NEW q \in Requests, Expire(q) PROVE BaselineInv'
  BY <1>3, <1>9 DEF Expire
<1>10. CASE SessionUpdate
  BY <1>1, <1>2, <1>10 DEF SessionUpdate
<1>11. ASSUME NEW n \in Notes, ExtNotification(n) PROVE BaselineInv'
  BY <1>1, <1>2, <1>11 DEF ExtNotification
<1>12. CASE UNCHANGED vars
  BY <1>3, <1>12 DEF vars
<1>13. QED
  BY <1>4, <1>5, <1>6, <1>7, <1>8, <1>9, <1>10, <1>11, <1>12 DEF Next

\* For a client that posts only when it watches no stream, the baseline it is
\* sent after the awaits of apply_session_options is that of the run whose
\* stream it is on, although it is put on whatever queue is attached by then.
THEOREM SerialClientsSeeOwnSnapshot ==
    ASSUME Overlap = FALSE
    PROVE  Spec => []SnapshotIsOwn
<1>1. Init => BaselineInv
  BY DEF Init, BaselineInv, SnapshotIsOwn
<1>2. TypeOK /\ StreamInv /\ BaselineInv /\ [Next]_vars => BaselineInv'
  BY StepBaseline, Overlap = FALSE
<1>3. BaselineInv => SnapshotIsOwn
  BY DEF BaselineInv
<1>4. QED
  BY <1>1, <1>2, <1>3, StreamInvariant, PTL DEF Spec
=============================================================================
