------------------------ MODULE SessionStateProofs ------------------------
(***************************************************************************)
(* What holds of SessionState for any settings, plans and values, however  *)
(* many requests are made and however often the agent changes its mind.    *)
(***************************************************************************)
EXTENDS SessionState, TLAPS

-----------------------------------------------------------------------------
(* The wire.                                                               *)

IsReply(m) == m.kind \in {"ok", "error"}

\* What the wire holds once a message is put at its end ...
LEMMA WirePut ==
    ASSUME wire \in Seq(Message), NEW m \in Message, wire' = Append(wire, m)
    PROVE  /\ wire' \in Seq(Message)
           /\ DOMAIN wire = 1 .. Len(wire) /\ DOMAIN wire' = 1 .. Len(wire) + 1
           /\ Len(wire) \in Nat
           /\ wire'[Len(wire) + 1] = m
           /\ \A n \in 1 .. Len(wire) : wire'[n] = wire[n] /\ wire[n] \in Message
  OBVIOUS

\* ... or two are, the second upon the first ...
LEMMA WirePutTwo ==
    ASSUME wire \in Seq(Message), NEW a \in Message, NEW b \in Message,
           wire' = Append(Append(wire, a), b)
    PROVE  /\ wire' \in Seq(Message)
           /\ DOMAIN wire = 1 .. Len(wire) /\ DOMAIN wire' = 1 .. Len(wire) + 2
           /\ Len(wire) \in Nat
           /\ wire'[Len(wire) + 1] = a /\ wire'[Len(wire) + 2] = b
           /\ \A n \in 1 .. Len(wire) : wire'[n] = wire[n] /\ wire[n] \in Message
<1> DEFINE mid == Append(wire, a)
<1>1. /\ mid \in Seq(Message) /\ Len(mid) = Len(wire) + 1 /\ Len(wire) \in Nat
      /\ mid[Len(wire) + 1] = a
      /\ \A n \in 1 .. Len(wire) : mid[n] = wire[n] /\ wire[n] \in Message
  OBVIOUS
<1>2. wire' = Append(mid, b)
  OBVIOUS
<1> HIDE DEF mid
<1>3. /\ wire' \in Seq(Message) /\ Len(wire') = Len(mid) + 1
      /\ wire'[Len(mid) + 1] = b
      /\ \A n \in 1 .. Len(mid) : wire'[n] = mid[n]
  BY <1>1, <1>2
<1>4. QED
  BY <1>1, <1>3

\* ... and once the first is taken.
LEMMA WireTaken ==
    ASSUME wire \in Seq(Message), wire # <<>>, wire' = Tail(wire)
    PROVE  /\ wire' \in Seq(Message)
           /\ DOMAIN wire = 1 .. Len(wire) /\ DOMAIN wire' = 1 .. Len(wire) - 1
           /\ Len(wire) \in Nat \ {0} /\ Head(wire) = wire[1]
           /\ \A n \in 1 .. Len(wire) : wire[n] \in Message
           /\ \A n \in 1 .. Len(wire) - 1 : wire'[n] = wire[n + 1]
  OBVIOUS

\* The messages the agent sends are messages.
LEMMA UpdateIsMessage ==
    ASSUME NEW S \in SUBSET Items, NEW v, \A i \in S : v[i] \in Values \cup {Nil}
    PROVE  /\ Update(S, v) \in Message
           /\ Update(S, v).kind = "update" /\ Update(S, v).about = S
           /\ \A i \in S : Update(S, v).vals[i] = v[i]
<1>1. [i \in Items |-> IF i \in S THEN v[i] ELSE Nil] \in [Items -> Values \cup {Nil}]
  OBVIOUS
<1>2. QED
  BY <1>1 DEF Update, Message

LEMMA ReplyIsMessage ==
    ASSUME NEW k \in {"ok", "error"}
    PROVE  /\ Reply(k) \in Message
           /\ Reply(k).kind = k /\ Reply(k).about = {}
  BY DEF Reply, Message, Nothing

-----------------------------------------------------------------------------
(* Types.                                                                  *)

\* An answer is on the wire only while it is awaited, and then only one; it is
\* about no item.
AnswerInv ==
    /\ \A n \in DOMAIN wire : IsReply(wire[n]) =>
            pc = "answered" /\ wire[n].about = {}
    /\ \A m, n \in DOMAIN wire : IsReply(wire[m]) /\ IsReply(wire[n]) => m = n

Typed == TypeOK /\ AnswerInv

\* The update about an item, and whatever goes with it.
LEMMA AboutIsItems ==
    ASSUME NEW i \in Items
    PROVE  /\ About(i) \subseteq Items /\ i \in About(i)
           /\ i \in Facts => About(i) = {i}
  BY ConstantsAssumption DEF About, Items, Settings, Facts

\* Putting one update at the end of the wire keeps the wire's types.
LEMMA UpdateTyped ==
    ASSUME Typed, pc' = pc, NEW m \in Message, m.kind = "update",
           wire' = Append(wire, m)
    PROVE  wire' \in Seq(Message) /\ AnswerInv'
<1> USE DEF Typed, TypeOK, AnswerInv, IsReply
<1>1. QED
  BY WirePut

\* Taking an update does, too.
LEMMA TakenTyped ==
    ASSUME Typed, wire # <<>>, wire' = Tail(wire),
           \/ pc' = pc
           \/ IsReply(Head(wire))
    PROVE  wire' \in Seq(Message) /\ AnswerInv'
<1>1. wire \in Seq(Message)
  BY DEF Typed, TypeOK
<1>2. /\ wire' \in Seq(Message)
      /\ \A n \in DOMAIN wire' : n \in DOMAIN wire /\ n + 1 \in DOMAIN wire
                                 /\ wire'[n] = wire[n + 1] /\ n + 1 # 1 /\ n \in Nat
      /\ Head(wire) = wire[1] /\ 1 \in DOMAIN wire
  BY <1>1, WireTaken
<1>3. CASE pc' = pc
  BY <1>2, <1>3 DEF Typed, AnswerInv
<1>4. CASE IsReply(Head(wire))
  BY <1>2, <1>4 DEF Typed, AnswerInv
<1>5. QED
  BY <1>2, <1>3, <1>4

\* The settings of the next call are settings.
LEMMA CallsTyped ==
    ASSUME NEW S \in SUBSET Settings, NEW over \in {"idle", "back"}, Calls(S, over)
    PROVE  /\ pc' \in {"sent", over} /\ todo' \subseteq S
           /\ call' \in S \cup {Nil} /\ call' \notin todo'
           /\ pc' = "sent" <=> S # {}
           /\ pc' = "sent" => call' \in S /\ S = todo' \cup {call'}
           /\ pc' # "sent" => call' = Nil /\ todo' = {}
  BY DEF Calls, Firsts

\* What is known of agent when the step leaves the items' values in range.
LEMMA ResponseTyped ==
    ASSUME TypeOK, NEW report \in Reports, NEW facts \in [Items -> Values \cup {Nil}]
    PROVE  FromResponse(report, facts) \in [Items -> Values \cup {Nil}]
  BY DEF TypeOK, FromResponse

LEMMA RequestTyped ==
    ASSUME Typed, NEW k \in {"run", "resume"}, NEW w \in Wishes, Request(k, w)
    PROVE  /\ UNCHANGED <<agent, known, wire, acc, missed, news>>
           /\ pc \in {"idle"} /\ pc' \in {"sent", "idle"} /\ applied' = {}
           /\ kind' \in {"none", "run", "resume"} /\ asked' \in Wishes
           /\ todo' \subseteq Settings /\ call' \in Settings \cup {Nil}
           /\ pc' = "sent" => call' # Nil
           /\ runs' \in 0 .. MaxRuns
           /\ AnswerInv'
<1>1. Diff(w) \in SUBSET Settings
  BY DEF Diff, Wished
<1>2. Calls(Diff(w), "idle")
  BY DEF Request
<1>3. /\ pc' \in {"sent", "idle"} /\ todo' \subseteq Settings
      /\ call' \in Settings \cup {Nil}
      /\ pc' = "sent" => call' \in Settings
  BY <1>1, <1>2, CallsTyped
<1>4. asked' \in Wishes
  BY DEF Request, Wishes
<1>5. runs' \in 0 .. MaxRuns
  BY ConstantsAssumption DEF Request, Typed, TypeOK
<1>6. AnswerInv'
  BY DEF Request, Typed, AnswerInv
<1>7. Nil \notin Settings
  BY ConstantsAssumption DEF Items
<1>8. QED
  BY <1>3, <1>4, <1>5, <1>6, <1>7 DEF Request

\* Showing the client the record, or not, keeps the client's variables typed.
LEMMA ShowTyped ==
    ASSUME NEW k \in [Items -> Values \cup {Nil}], Show(k)
    PROVE  told' \in [Items -> Values \cup {Nil}] /\ following' \in BOOLEAN
           /\ silent' \subseteq Settings
  BY DEF Show

LEMMA UnfollowTyped ==
    ASSUME Unfollow
    PROVE  told' \in [Items -> Values \cup {Nil}] /\ following' \in BOOLEAN
           /\ silent' \subseteq Settings
  BY DEF Unfollow, Nothing

\* Every step keeps the types.
LEMMA TypedNext ==
    ASSUME Typed, [Next]_vars
    PROVE  Typed'
<1> USE DEF TypeOK, apply, client, counts
<1>1. ASSUME NEW w \in Wishes, StartRun(w)
      PROVE  Typed'
  <2>1. Request("run", w)
    BY <1>1 DEF StartRun
  <2>2. told' \in [Items -> Values \cup {Nil}] /\ following' \in BOOLEAN
        /\ silent' \subseteq Settings
    BY <1>1, ShowTyped, UnfollowTyped DEF StartRun, Typed
  <2>3. QED
    BY <1>1, <2>1, <2>2, RequestTyped DEF StartRun, Typed
<1>2. ASSUME NEW w \in Wishes, ResumeRun(w)
      PROVE  Typed'
  BY <1>2, RequestTyped DEF ResumeRun, Typed
<1>3. CASE HearReply
  <2>1. wire' \in Seq(Message) /\ AnswerInv'
    BY <1>3, TakenTyped DEF HearReply, IsReply
  <2>2. pc = "answered"
    <3>1. Head(wire) = wire[1] /\ 1 \in DOMAIN wire
      BY <1>3, WireTaken DEF HearReply, Typed
    <3>2. QED
      BY <1>3, <3>1 DEF HearReply, Typed, AnswerInv, IsReply
  <2>3. call \in Settings
    BY <2>2 DEF Typed
  <2>4. /\ pc' \in {"sent", "back"} /\ todo' \subseteq Settings
        /\ call' \in Settings \cup {Nil}
        /\ pc' = "sent" => call' # Nil
    <3>1. Calls(todo, "back") /\ todo \in SUBSET Settings
      BY <1>3 DEF HearReply, Typed
    <3>2. Nil \notin Settings
      BY ConstantsAssumption DEF Items
    <3>3. QED
      BY <3>1, <3>2, CallsTyped
  <2>5. applied' \subseteq Settings /\ asked' \in Wishes
    BY <1>3, <2>3 DEF HearReply, Typed, Wishes
  <2>6. QED
    BY <1>3, <2>1, <2>4, <2>5 DEF HearReply, Typed
<1>4. CASE HearUpdate
  <2>1. /\ wire' \in Seq(Message) /\ AnswerInv'
        /\ Head(wire) \in Message
    BY <1>4, TakenTyped, WireTaken DEF HearUpdate, Typed
  <2>2. PICK m \in Message : m = Head(wire)
    BY <2>1
  <2>3. m.vals \in [Items -> Values \cup {Nil}] /\ m.about \subseteq Items
    BY DEF Message
  <2>4. /\ known' \in [Items -> Values \cup {Nil}]
        /\ acc' \in [Items -> Values \cup {Nil}]
        /\ told' \in [Items -> Values \cup {Nil}]
        /\ silent' \subseteq Settings /\ missed' \subseteq Items
    BY <1>4, <2>2, <2>3 DEF HearUpdate, Typed, Folded, Patched
  <2>5. QED
    BY <1>4, <2>1, <2>4 DEF HearUpdate, Typed
<1>5. CASE WriteBack
  <2>1. Recorded \in [Items -> Values \cup {Nil}]
    BY DEF Recorded, Typed, Wishes
  <2>2. told' \in [Items -> Values \cup {Nil}] /\ following' \in BOOLEAN
        /\ silent' \subseteq Settings
    BY <1>5, <2>1, ShowTyped DEF WriteBack, Typed
  <2>3. AnswerInv'
    BY <1>5 DEF WriteBack, Typed, AnswerInv
  <2>4. asked' \in Wishes
    BY <1>5 DEF WriteBack, Wishes
  <2>5. QED
    BY <1>5, <2>1, <2>2, <2>3, <2>4 DEF WriteBack, Typed
<1>6. CASE AgentAccepts
  <2>1. call \in Settings /\ call \in Items /\ pc = "sent" /\ pc' = "answered"
    BY <1>6 DEF AgentAccepts, Typed, Items
  <2>2. agent' \in [Items -> Values \cup {Nil}]
    BY <1>6, <2>1 DEF AgentAccepts, Typed, Wishes
  <2>3. /\ Reply("ok") \in Message /\ Reply("ok").kind = "ok" /\ Reply("ok").about = {}
    BY ReplyIsMessage
  <2>4. PICK u \in Message : u = Update(About(call), agent') /\ u.kind = "update"
    BY <2>1, <2>2, UpdateIsMessage, AboutIsItems
  <2>5. \A n \in DOMAIN wire : ~ IsReply(wire[n])
    BY <2>1 DEF Typed, AnswerInv
  <2>6. wire' \in Seq(Message) /\ AnswerInv'
    <3>1. CASE wire' = Append(wire, Reply("ok"))
      BY <2>1, <2>3, <2>5, <3>1, WirePut DEF AnswerInv, IsReply, Typed
    <3>2. CASE wire' = Append(Append(wire, Reply("ok")), u)
      BY <2>1, <2>3, <2>4, <2>5, <3>2, WirePutTwo DEF AnswerInv, IsReply, Typed
    <3>3. CASE wire' = Append(Append(wire, u), Reply("ok"))
      BY <2>1, <2>3, <2>4, <2>5, <3>3, WirePutTwo DEF AnswerInv, IsReply, Typed
    <3>4. QED
      BY <1>6, <2>4, <3>1, <3>2, <3>3 DEF AgentAccepts
  <2>7. QED
    BY <1>6, <2>1, <2>2, <2>6 DEF AgentAccepts, Typed
<1>7. CASE AgentRefuses
  <2>1. \A n \in DOMAIN wire : ~ IsReply(wire[n])
    BY <1>7 DEF AgentRefuses, Typed, AnswerInv
  <2>2. /\ Reply("error") \in Message /\ Reply("error").kind = "error"
        /\ Reply("error").about = {}
    BY ReplyIsMessage
  <2>3. wire' \in Seq(Message) /\ AnswerInv'
    BY <1>7, <2>1, <2>2, WirePut DEF AgentRefuses, AnswerInv, IsReply, Typed
  <2>4. QED
    BY <1>7, <2>3 DEF AgentRefuses, Typed
<1>8. ASSUME NEW i \in Items, NEW v \in Values \cup {Nil}, OwnChange(i, v)
      PROVE  Typed'
  <2>1. agent' \in [Items -> Values \cup {Nil}]
    BY <1>8 DEF OwnChange, Typed
  <2>2. PICK u \in Message : u = Update(About(i), agent') /\ u.kind = "update"
    <3>1. About(i) \in SUBSET Items
      BY AboutIsItems
    <3>2. \A j \in About(i) : agent'[j] \in Values \cup {Nil}
      BY <2>1, <3>1
    <3>3. QED
      BY <3>1, <3>2, UpdateIsMessage
  <2>3. wire' \in Seq(Message) /\ AnswerInv'
    <3>1. CASE wire' = wire
      BY <1>8, <3>1 DEF OwnChange, Typed, AnswerInv
    <3>2. CASE wire' = Append(wire, u)
      BY <1>8, <2>2, <3>2, UpdateTyped DEF OwnChange
    <3>3. QED
      BY <1>8, <2>2, <3>1, <3>2 DEF OwnChange
  <2>4. news' \in 0 .. MaxNews
    BY <1>8, ConstantsAssumption DEF OwnChange, Typed
  <2>5. QED
    BY <1>8, <2>1, <2>3, <2>4 DEF OwnChange, Typed
<1>9. CASE TurnEnds
  BY <1>9, UnfollowTyped DEF TurnEnds, Typed, AnswerInv
<1>10. CASE Suspend
  BY <1>10 DEF Suspend, Typed, AnswerInv
<1>11. CASE Expire
  BY <1>11 DEF Expire, Typed, AnswerInv
<1>12. CASE StartReplay
  <2>1. agent' \in [Items -> Values \cup {Nil}] /\ known' \in [Items -> Values \cup {Nil}]
        /\ acc' \in [Items -> Values \cup {Nil}]
    BY <1>12 DEF StartReplay, Typed, Nothing
  <2>2. wire' \in Seq(Message) /\ AnswerInv'
    BY <1>12 DEF StartReplay, AnswerInv
  <2>3. runs' \in 0 .. MaxRuns
    BY <1>12, ConstantsAssumption DEF StartReplay, Typed
  <2>4. QED
    BY <1>12, <2>1, <2>2, <2>3, UnfollowTyped DEF StartReplay, Typed
<1>13. ASSUME NEW i \in Facts, NEW v \in Values \cup {Nil}, ReplayFact(i, v)
       PROVE  Typed'
  <2>1. agent' \in [Items -> Values \cup {Nil}] /\ {i} \subseteq Items
    BY <1>13 DEF ReplayFact, Typed, Items
  <2>2. PICK u \in Message : u = Update({i}, agent') /\ u.kind = "update"
    BY <2>1, UpdateIsMessage
  <2>3. wire' \in Seq(Message) /\ AnswerInv'
    BY <1>13, <2>2, UpdateTyped DEF ReplayFact
  <2>4. news' \in 0 .. MaxNews
    BY <1>13, ConstantsAssumption DEF ReplayFact, Typed
  <2>5. QED
    BY <1>13, <2>1, <2>3, <2>4 DEF ReplayFact, Typed
<1>14. ASSUME NEW v \in Values, ReplayOptions(v)
       PROVE  Typed'
  <2>1. Advertised \subseteq Items
    BY ConstantsAssumption DEF Items, Settings
  <2>2. PICK u \in Message : u = Update(Advertised, [i \in Items |-> v]) /\ u.kind = "update"
    BY <2>1, UpdateIsMessage
  <2>3. wire' \in Seq(Message) /\ AnswerInv'
    BY <1>14, <2>2, UpdateTyped DEF ReplayOptions
  <2>4. news' \in 0 .. MaxNews
    BY <1>14, ConstantsAssumption DEF ReplayOptions, Typed
  <2>5. QED
    BY <1>14, <2>3, <2>4 DEF ReplayOptions, Typed
<1>15. ASSUME NEW report \in Reports, EndReplay(report)
       PROVE  Typed'
  <2>1. /\ known' \in [Items -> Values \cup {Nil}]
        /\ Merged(report) \in [Items -> Values \cup {Nil}]
        /\ acc' \in [Items -> Values \cup {Nil}]
    BY <1>15, ResponseTyped DEF EndReplay, Typed, Merged, Nothing
  <2>2. AnswerInv'
    BY <1>15 DEF EndReplay, Typed, AnswerInv
  <2>3. QED
    BY <1>15, <2>1, <2>2, ShowTyped DEF EndReplay, Typed
<1>16. ASSUME NEW report \in Reports, Reattach(report)
       PROVE  Typed'
  <2>1. Nothing \in [Items -> Values \cup {Nil}]
    BY DEF Nothing
  <2>2. known' \in [Items -> Values \cup {Nil}]
    BY <1>16, <2>1, ResponseTyped DEF Reattach, Typed
  <2>3. wire' \in Seq(Message) /\ AnswerInv' /\ missed' \subseteq Items
    BY <1>16 DEF Reattach, AnswerInv, Items
  <2>4. QED
    BY <1>16, <2>2, <2>3, UnfollowTyped DEF Reattach, Typed
<1>17. CASE UNCHANGED vars
  BY <1>17 DEF vars, Typed, AnswerInv
<1>18. QED
  BY <1>1, <1>2, <1>3, <1>4, <1>5, <1>6, <1>7, <1>8, <1>9, <1>10, <1>11, <1>12,
     <1>13, <1>14, <1>15, <1>16, <1>17 DEF Next

LEMMA TypedAlways == Spec => []Typed
<1>1. ASSUME Init
      PROVE  Typed
  <2>1. known \in [Items -> Values \cup {Nil}]
    BY <1>1 DEF Init, FromResponse, Nothing
  <2>2. Nil \notin Settings /\ 0 \in 0 .. MaxRuns /\ 0 \in 0 .. MaxNews
    BY ConstantsAssumption DEF Items
  <2>3. /\ pc \in {"idle", "sent"} /\ kind \in {"none", "create"}
        /\ todo \subseteq Settings /\ call \in Settings \cup {Nil}
        /\ pc = "sent" => call # Nil
    BY <1>1, <2>2 DEF Init, Firsts, Wished
  <2>4. TypeOK
    <3>1. Nothing \in [Items -> Values \cup {Nil}]
      BY DEF Nothing
    <3>2. wire \in Seq(Message)
      BY <1>1 DEF Init
    <3>3. runs \in 0 .. MaxRuns /\ news \in 0 .. MaxNews
      BY <1>1, <2>2 DEF Init
    <3>4. QED
      BY <1>1, <2>1, <2>3, <3>1, <3>2, <3>3 DEF Init, TypeOK
  <2>5. AnswerInv
    BY <1>1 DEF Init, AnswerInv
  <2>6. QED
    BY <2>4, <2>5 DEF Typed
<1>2. QED
  BY <1>1, TypedNext, PTL DEF Spec

\* Every variable keeps its sort, for any settings, plans and values.
THEOREM TypeCorrect == Spec => []TypeOK
<1>1. Typed => TypeOK
  BY DEF Typed
<1>2. QED
  BY <1>1, TypedAlways, PTL

-----------------------------------------------------------------------------
(* The record.  That it is current when nothing is under way follows from  *)
(* where the current value of an item is at any moment: at the end of what *)
(* the wire says about it, in the apply, or in the record.                 *)

\* The apply calls each setting once, and is idle during a replay.
ApplyInv ==
    /\ pc = "idle" => applied = {}
    /\ applied \cap todo = {}
    /\ pc \in {"sent", "answered"} => call \notin applied \cup todo

\* The record of a replay is of facts only.
ReplayInv ==
    queue = "replay" =>
        /\ pc = "idle" /\ turn = "none"
        /\ \A s \in Settings : known[s] = Nil

\* What is accepted and not missed is in force.
AcceptedInv == \A s \in Accepted \ missed : asked[s] = agent[s]

OkBehind(n) == \E m \in DOMAIN wire : m > n /\ wire[m].kind = "ok"

LastAbout(n, i) ==
    /\ i \in wire[n].about
    /\ \A m \in DOMAIN wire : m > n => i \notin wire[m].about

\* The last that is said about an item is so, or the agent's consent to another
\* value follows; a replay is unreliable about settings.
LastInv ==
    \A i \in Tracked : \A n \in DOMAIN wire :
        LastAbout(n, i) /\ (queue = "replay" => i \in Facts)
        => \/ wire[n].vals[i] = agent[i]
           \/ i = call /\ pc = "answered" /\ OkBehind(n)

Quiet(i) == \A n \in DOMAIN wire : i \notin wire[n].about

\* What is neither accepted nor said nor missed is recorded.
RecordInv ==
    \A i \in Tracked \ (missed \cup Accepted) :
        Quiet(i) /\ (i \in Facts \/ known[i] # Nil) => known[i] = agent[i]

CurrentInv == ApplyInv /\ ReplayInv /\ AcceptedInv /\ LastInv /\ RecordInv

\* CurrentInv survives a step that says, changes and records nothing.
LEMMA CurrentIdle ==
    ASSUME CurrentInv,
           UNCHANGED <<agent, known, wire, missed, pc, asked, todo, call, applied>>,
           queue' = "replay" <=> queue = "replay",
           queue' = "replay" => turn' = turn
    PROVE  CurrentInv'
<1>1. Accepted' = Accepted
  BY DEF Accepted
<1>2. ApplyInv' /\ ReplayInv' /\ AcceptedInv' /\ RecordInv'
  BY <1>1 DEF CurrentInv, ApplyInv, ReplayInv, AcceptedInv, RecordInv, Quiet
<1>3. LastInv'
  BY DEF CurrentInv, LastInv, LastAbout, OkBehind
<1>4. QED
  BY <1>2, <1>3 DEF CurrentInv

\* So it does when the agent says how things are from now on.
LEMMA CurrentSaid ==
    ASSUME Typed, CurrentInv, NEW u \in Message, u.kind = "update",
           wire' = Append(wire, u),
           UNCHANGED <<known, pc, asked, todo, call, applied, queue, turn>>,
           missed \subseteq missed',
           \A i \in Items \ u.about : agent'[i] = agent[i],
           \A s \in Accepted \ missed' : agent'[s] = agent[s],
           \A i \in u.about \cap Tracked :
                (queue = "replay" => i \in Facts) => u.vals[i] = agent'[i]
    PROVE  CurrentInv'
<1>1. /\ DOMAIN wire = 1 .. Len(wire) /\ DOMAIN wire' = 1 .. Len(wire) + 1
      /\ Len(wire) \in Nat /\ wire'[Len(wire) + 1] = u
      /\ \A n \in 1 .. Len(wire) : wire'[n] = wire[n]
  BY WirePut DEF Typed, TypeOK
<1>2. Accepted' = Accepted
  BY <1>1 DEF Accepted
<1>3. ApplyInv' /\ ReplayInv'
  BY DEF CurrentInv, ApplyInv, ReplayInv
<1>4. AcceptedInv'
  BY <1>2 DEF CurrentInv, AcceptedInv
<1>5. Tracked \subseteq Items
  BY ConstantsAssumption DEF Tracked, Items, Settings
<1>6. LastInv'
  <2> SUFFICES ASSUME NEW i \in Tracked, NEW n \in DOMAIN wire', LastAbout(n, i)',
                      queue = "replay" => i \in Facts
               PROVE  \/ wire'[n].vals[i] = agent'[i]
                      \/ i = call /\ pc = "answered" /\ OkBehind(n)'
    BY DEF LastInv
  <2>1. CASE n = Len(wire) + 1
    BY <1>1, <2>1 DEF LastAbout
  <2>2. CASE n \in DOMAIN wire
    <3>1. i \notin u.about /\ LastAbout(n, i)
      BY <1>1, <2>2 DEF LastAbout
    <3>2. \/ wire[n].vals[i] = agent[i]
          \/ i = call /\ pc = "answered" /\ OkBehind(n)
      BY <2>2, <3>1 DEF CurrentInv, LastInv
    <3>3. OkBehind(n) => OkBehind(n)'
      BY <1>1, <2>2 DEF OkBehind
    <3>4. agent'[i] = agent[i] /\ wire'[n] = wire[n]
      BY <1>1, <1>5, <2>2, <3>1
    <3>5. QED
      BY <3>2, <3>3, <3>4
  <2>3. QED
    BY <1>1, <2>1, <2>2
<1>7. RecordInv'
  <2> SUFFICES ASSUME NEW i \in Tracked \ (missed' \cup Accepted'), Quiet(i)',
                      i \in Facts \/ known'[i] # Nil
               PROVE  known'[i] = agent'[i]
    BY DEF RecordInv
  <2>1. Quiet(i) /\ i \notin u.about
    BY <1>1 DEF Quiet
  <2>2. QED
    BY <1>2, <1>5, <2>1 DEF CurrentInv, RecordInv
<1>8. QED
  BY <1>3, <1>4, <1>6, <1>7 DEF CurrentInv

LEMMA CurrentRequest ==
    ASSUME Typed, CurrentInv, NEW k, NEW w \in Wishes, Request(k, w),
           queue # "replay", queue' # "replay"
    PROVE  CurrentInv'
<1>1. Diff(w) \in SUBSET Settings /\ Calls(Diff(w), "idle")
  BY DEF Diff, Wished, Request
<1>2. ApplyInv'
  BY <1>1, CallsTyped DEF ApplyInv, Request
<1>3. pc' \in {"sent", "idle"}
  BY <1>1, CallsTyped
<1>4. Accepted = {} /\ Accepted' = {}
  BY <1>3 DEF Request, CurrentInv, ApplyInv, Accepted
<1>5. ReplayInv' /\ AcceptedInv' /\ RecordInv'
  BY <1>4 DEF Request, CurrentInv, ReplayInv, AcceptedInv, RecordInv, Quiet
<1>6. LastInv'
  BY DEF Request, CurrentInv, LastInv, LastAbout
<1>7. QED
  BY <1>2, <1>5, <1>6 DEF CurrentInv

LEMMA CurrentHearReply ==
    ASSUME Typed, CurrentInv, HearReply
    PROVE  CurrentInv'
<1>1. wire \in Seq(Message) /\ wire # <<>> /\ wire' = Tail(wire)
  BY DEF HearReply, Typed, TypeOK
<1>2. /\ DOMAIN wire = 1 .. Len(wire) /\ DOMAIN wire' = 1 .. Len(wire) - 1
      /\ Len(wire) \in Nat \ {0} /\ Head(wire) = wire[1]
      /\ \A n \in 1 .. Len(wire) - 1 : wire'[n] = wire[n + 1]
  BY <1>1, WireTaken
<1>3. /\ pc = "answered" /\ wire[1].about = {} /\ IsReply(wire[1])
      /\ \A n \in DOMAIN wire : IsReply(wire[n]) => n = 1
  BY <1>2 DEF HearReply, Typed, AnswerInv, IsReply
<1>4. call \in Settings /\ todo \in SUBSET Settings
  BY <1>3 DEF Typed, TypeOK
<1>5. /\ pc' \in {"sent", "back"} /\ todo' \subseteq todo
      /\ call' \in todo \cup {Nil} /\ call' \notin todo'
      /\ pc' = "sent" => call' \in todo
  BY <1>4, CallsTyped DEF HearReply
<1>6. applied' \subseteq applied \cup {call}
  BY DEF HearReply
<1>7. ApplyInv'
  BY <1>3, <1>5, <1>6 DEF CurrentInv, ApplyInv
<1>8. Accepted' = applied'
  BY <1>5 DEF Accepted
<1>9. /\ wire[1].kind = "ok" => Accepted = applied \cup {call}
      /\ wire[1].kind # "ok" => Accepted = applied
  BY <1>2, <1>3 DEF Accepted, IsReply
<1>10. Accepted' = Accepted /\ \A s \in Accepted : asked'[s] = asked[s]
  BY <1>2, <1>3, <1>4, <1>8, <1>9
     DEF HearReply, CurrentInv, ApplyInv, Typed, TypeOK, Wishes
<1>11. ReplayInv' /\ AcceptedInv'
  BY <1>3, <1>10 DEF HearReply, client, counts, CurrentInv, ReplayInv, AcceptedInv
<1>12. LastInv'
  <2> SUFFICES ASSUME NEW i \in Tracked, NEW n \in DOMAIN wire', LastAbout(n, i)',
                      queue = "replay" => i \in Facts
               PROVE  wire'[n].vals[i] = agent'[i]
    BY DEF LastInv, HearReply
  <2>1. n + 1 \in DOMAIN wire /\ n \in Nat /\ n >= 1 /\ wire'[n] = wire[n + 1]
    BY <1>2
  <2>2. LastAbout(n + 1, i)
    <3> SUFFICES ASSUME NEW m \in DOMAIN wire, m > n + 1
                 PROVE  i \notin wire[m].about
      BY <2>1 DEF LastAbout
    <3>1. m - 1 \in DOMAIN wire' /\ m - 1 > n /\ wire'[m - 1] = wire[m]
      BY <1>2, <2>1
    <3>2. QED
      BY <3>1 DEF LastAbout
  <2>3. ~ OkBehind(n + 1)
    BY <1>2, <1>3, <2>1 DEF OkBehind, IsReply
  <2>4. QED
    BY <2>1, <2>2, <2>3 DEF CurrentInv, LastInv, HearReply
<1>13. RecordInv'
  <2>1. \A i \in Tracked : Quiet(i)' => Quiet(i)
    <3> SUFFICES ASSUME NEW i \in Tracked, Quiet(i)', NEW n \in DOMAIN wire
                 PROVE  i \notin wire[n].about
      BY DEF Quiet
    <3>1. CASE n = 1
      BY <1>3, <3>1
    <3>2. CASE n # 1
      <4>1. n - 1 \in DOMAIN wire' /\ wire'[n - 1] = wire[n]
        BY <1>2, <3>2
      <4>2. QED
        BY <4>1 DEF Quiet
    <3>3. QED
      BY <3>1, <3>2
  <2>2. QED
    BY <1>10, <2>1 DEF CurrentInv, RecordInv, HearReply
<1>14. QED
  BY <1>7, <1>11, <1>12, <1>13 DEF CurrentInv

LEMMA CurrentHearUpdate ==
    ASSUME Typed, CurrentInv, HearUpdate
    PROVE  CurrentInv'
<1>1. wire \in Seq(Message) /\ wire # <<>> /\ wire' = Tail(wire)
  BY DEF HearUpdate, Typed, TypeOK
<1>2. /\ DOMAIN wire = 1 .. Len(wire) /\ DOMAIN wire' = 1 .. Len(wire) - 1
      /\ Len(wire) \in Nat \ {0} /\ Head(wire) = wire[1]
      /\ \A n \in 1 .. Len(wire) - 1 : wire'[n] = wire[n + 1]
      /\ wire[1] \in Message
  BY <1>1, WireTaken
<1>3. /\ wire[1].kind = "update" /\ wire[1].about \subseteq Items
      /\ UNCHANGED <<agent, queue, turn, pc, asked, todo, call, applied>>
  BY <1>2 DEF HearUpdate, Message, apply
<1>4. \A n \in DOMAIN wire : n # 1 => n - 1 \in DOMAIN wire' /\ wire'[n - 1] = wire[n]
  BY <1>2
<1>5. (\E n \in DOMAIN wire : wire[n].kind = "ok")
      <=> (\E n \in DOMAIN wire' : wire'[n].kind = "ok")
  <2>1. ASSUME NEW n \in DOMAIN wire, wire[n].kind = "ok"
        PROVE  \E k \in DOMAIN wire' : wire'[k].kind = "ok"
    <3>1. n # 1
      BY <1>3, <2>1
    <3>2. QED
      BY <1>4, <2>1, <3>1
  <2>2. ASSUME NEW n \in DOMAIN wire', wire'[n].kind = "ok"
        PROVE  \E k \in DOMAIN wire : wire[k].kind = "ok"
    <3>1. n + 1 \in DOMAIN wire /\ wire'[n] = wire[n + 1]
      BY <1>2
    <3>2. QED
      BY <2>2, <3>1
  <2>3. QED
    BY <2>1, <2>2
<1>6. Accepted' = Accepted
  BY <1>3, <1>5 DEF Accepted
<1>7. ApplyInv'
  BY <1>3 DEF CurrentInv, ApplyInv
<1>8. known' = [i \in Items |-> IF i \in Heard(wire[1]) THEN wire[1].vals[i] ELSE known[i]]
  BY <1>2 DEF HearUpdate
<1>9. missed' = IF queue = "none"
                THEN missed \cup {i \in wire[1].about : wire[1].vals[i] # known[i]}
                ELSE missed \ (wire[1].about \ Accepted)
  BY <1>2 DEF HearUpdate
<1>10. ReplayInv'
  <2>1. queue = "replay" => Heard(wire[1]) \subseteq Facts
    BY DEF Heard
  <2>2. \A s \in Settings : s \in Items /\ s \notin Facts
    BY ConstantsAssumption DEF Items
  <2>3. queue = "replay" => \A s \in Settings : known'[s] = known[s]
    BY <1>8, <2>1, <2>2
  <2>4. QED
    BY <1>3, <2>3 DEF CurrentInv, ReplayInv
<1>11. AcceptedInv'
  <2>1. Accepted \ missed' \subseteq Accepted \ missed
    BY <1>9
  <2>2. QED
    BY <1>3, <1>6, <2>1 DEF CurrentInv, AcceptedInv
<1>12. LastInv'
  <2> SUFFICES ASSUME NEW i \in Tracked, NEW n \in DOMAIN wire', LastAbout(n, i)',
                      queue = "replay" => i \in Facts
               PROVE  \/ wire'[n].vals[i] = agent[i]
                      \/ i = call /\ pc = "answered" /\ OkBehind(n)'
    BY <1>3 DEF LastInv
  <2>1. n + 1 \in DOMAIN wire /\ n \in Nat /\ n >= 1 /\ wire'[n] = wire[n + 1]
    BY <1>2
  <2>2. LastAbout(n + 1, i)
    <3> SUFFICES ASSUME NEW m \in DOMAIN wire, m > n + 1
                 PROVE  i \notin wire[m].about
      BY <2>1 DEF LastAbout
    <3>1. m - 1 \in DOMAIN wire' /\ m - 1 > n /\ wire'[m - 1] = wire[m]
      BY <1>2, <2>1
    <3>2. QED
      BY <3>1 DEF LastAbout
  <2>3. OkBehind(n + 1) => OkBehind(n)'
    <3> SUFFICES ASSUME NEW m \in DOMAIN wire, m > n + 1, wire[m].kind = "ok"
                 PROVE  OkBehind(n)'
      BY DEF OkBehind
    <3>1. m - 1 \in DOMAIN wire' /\ m - 1 > n /\ wire'[m - 1] = wire[m]
      BY <1>2, <2>1
    <3>2. QED
      BY <3>1 DEF OkBehind
  <2>4. QED
    BY <2>1, <2>2, <2>3 DEF CurrentInv, LastInv
<1>13. RecordInv'
  <2> SUFFICES ASSUME NEW i \in Tracked, i \notin missed', i \notin Accepted,
                      Quiet(i)', i \in Facts \/ known'[i] # Nil
               PROVE  known'[i] = agent[i]
    BY <1>3, <1>6 DEF RecordInv
  <2>1. i \in Items
    BY ConstantsAssumption DEF Tracked, Items, Settings
  <2>2. \A n \in DOMAIN wire : n # 1 => i \notin wire[n].about
    BY <1>4 DEF Quiet
  <2>3. CASE i \notin wire[1].about
    <3>1. Quiet(i)
      BY <2>2, <2>3 DEF Quiet
    <3>2. known'[i] = known[i]
      BY <1>8, <2>1, <2>3 DEF Heard
    <3>3. i \notin missed
      BY <1>9, <2>3
    <3>4. QED
      BY <3>1, <3>2, <3>3 DEF CurrentInv, RecordInv
  <2>4. CASE i \in wire[1].about
    <3>1. LastAbout(1, i) /\ 1 \in DOMAIN wire
      BY <1>2, <2>2, <2>4 DEF LastAbout
    <3>2. ~ (i = call /\ pc = "answered" /\ OkBehind(1))
      BY DEF Accepted, OkBehind
    <3>3. CASE queue = "none"
      <4>1. known'[i] = known[i] /\ wire[1].vals[i] = known[i]
        BY <1>8, <1>9, <2>1, <2>4, <3>3 DEF Heard
      <4>2. QED
        BY <3>1, <3>2, <3>3, <4>1 DEF CurrentInv, LastInv
    <3>4. CASE queue = "replay"
      <4>1. i \in Facts
        <5>1. i \notin Facts => i \in Settings /\ i \notin Heard(wire[1])
          BY <3>4, ConstantsAssumption DEF Tracked, Settings, Heard
        <5>2. i \notin Facts => known'[i] = Nil
          BY <1>8, <2>1, <3>4, <5>1 DEF CurrentInv, ReplayInv
        <5>3. QED
          BY <5>2
      <4>2. known'[i] = wire[1].vals[i]
        BY <1>8, <2>1, <2>4, <3>4, <4>1 DEF Heard
      <4>3. QED
        BY <3>1, <3>2, <4>1, <4>2 DEF CurrentInv, LastInv
    <3>5. CASE queue \notin {"none", "replay"}
      <4>1. known'[i] = wire[1].vals[i]
        BY <1>8, <2>1, <2>4, <3>5 DEF Heard
      <4>2. QED
        BY <3>1, <3>2, <3>5, <4>1 DEF CurrentInv, LastInv
    <3>6. QED
      BY <3>3, <3>4, <3>5
  <2>5. QED
    BY <2>3, <2>4
<1>14. QED
  BY <1>7, <1>10, <1>11, <1>12, <1>13 DEF CurrentInv

LEMMA CurrentWriteBack ==
    ASSUME Typed, CurrentInv, WriteBack
    PROVE  CurrentInv'
<1>1. /\ UNCHANGED <<agent, wire, queue, turn, todo, call, missed>>
      /\ pc = "back" /\ pc' = "idle" /\ applied' = {} /\ known' = Recorded
  BY DEF WriteBack
<1>2. Accepted = applied /\ Accepted' = {}
  BY <1>1 DEF Accepted
<1>3. ApplyInv' /\ AcceptedInv'
  BY <1>1, <1>2 DEF ApplyInv, AcceptedInv
<1>4. queue # "replay"
  BY <1>1 DEF CurrentInv, ReplayInv
<1>5. ReplayInv'
  BY <1>1, <1>4 DEF ReplayInv
<1>6. LastInv'
  BY <1>1 DEF CurrentInv, LastInv, LastAbout
<1>7. RecordInv'
  <2> SUFFICES ASSUME NEW i \in Tracked, i \notin missed, Quiet(i)',
                      i \in Facts \/ Recorded[i] # Nil
               PROVE  Recorded[i] = agent[i]
    BY <1>1 DEF RecordInv
  <2>1. i \in Items /\ Quiet(i)
    BY <1>1, ConstantsAssumption DEF Tracked, Items, Settings, Quiet
  <2>2. CASE i \in applied
    <3>1. i \in Settings /\ i \notin Facts
      BY <2>2, ConstantsAssumption DEF Typed, TypeOK
    <3>2. Recorded[i] = asked[i]
      BY <2>1, <2>2, <3>1 DEF Recorded
    <3>3. QED
      BY <1>2, <2>2, <3>2 DEF CurrentInv, AcceptedInv
  <2>3. CASE i \notin applied
    BY <1>2, <2>1, <2>3 DEF CurrentInv, RecordInv, Recorded
  <2>4. QED
    BY <2>2, <2>3
<1>8. QED
  BY <1>3, <1>5, <1>6, <1>7 DEF CurrentInv

LEMMA CurrentAgentAccepts ==
    ASSUME Typed, CurrentInv, AgentAccepts
    PROVE  CurrentInv'
<1>1. /\ pc = "sent" /\ pc' = "answered" /\ missed' = missed \ {call}
      /\ UNCHANGED <<known, queue, turn, asked, todo, call, applied>>
  BY DEF AgentAccepts
<1>2. /\ call \in Settings /\ call \in Items /\ wire \in Seq(Message)
      /\ agent' = [agent EXCEPT ![call] = asked[call]]
      /\ agent \in [Items -> Values \cup {Nil}] /\ asked \in Wishes
  BY <1>1 DEF AgentAccepts, Typed, TypeOK, Items
<1>3. /\ agent'[call] = asked[call]
      /\ \A i \in Items \ {call} : agent'[i] = agent[i]
      /\ agent' \in [Items -> Values \cup {Nil}]
  BY <1>2 DEF Wishes
<1>4. /\ Reply("ok") \in Message /\ Reply("ok").kind = "ok" /\ Reply("ok").about = {}
  BY ReplyIsMessage
<1>5. PICK u \in Message :
        /\ u = Update(About(call), agent') /\ u.kind = "update" /\ u.about = About(call)
        /\ \A i \in About(call) : u.vals[i] = agent'[i]
  <2>1. About(call) \in SUBSET Items
    BY <1>2, AboutIsItems
  <2>2. \A i \in About(call) : agent'[i] \in Values \cup {Nil}
    BY <1>3, <2>1
  <2>3. QED
    BY <2>1, <2>2, UpdateIsMessage
<1>6. call \in About(call)
  BY <1>2, AboutIsItems
<1>7. \A n \in DOMAIN wire : wire[n].kind # "ok"
  BY <1>1 DEF Typed, AnswerInv, IsReply
<1>8. ApplyInv' /\ ReplayInv'
  BY <1>1 DEF CurrentInv, ApplyInv, ReplayInv
<1>9. Accepted = applied /\ Accepted' \subseteq applied \cup {call}
  BY <1>1 DEF Accepted
<1>10. AcceptedInv'
  <2>1. \A s \in applied \ missed : s \in Items /\ asked[s] = agent[s]
    BY <1>9 DEF CurrentInv, AcceptedInv, Typed, TypeOK, Items
  <2>2. QED
    BY <1>1, <1>3, <1>9, <2>1 DEF AcceptedInv
<1>11. Tracked \subseteq Items
  BY ConstantsAssumption DEF Tracked, Items, Settings
\* What was last said of an item that no new message is about.
<1>12. ASSUME NEW i \in Tracked, NEW n \in DOMAIN wire, LastAbout(n, i), i # call,
              queue = "replay" => i \in Facts
       PROVE  wire[n].vals[i] = agent'[i]
  BY <1>1, <1>3, <1>11, <1>12 DEF CurrentInv, LastInv
<1>13. ASSUME call \in Accepted', \A i \in Tracked : Quiet(i)' => Quiet(i)
       PROVE  RecordInv'
  <2> SUFFICES ASSUME NEW i \in Tracked, i \notin missed', i \notin Accepted', Quiet(i)',
                      i \in Facts \/ known[i] # Nil
               PROVE  known[i] = agent'[i]
    BY <1>1 DEF RecordInv
  <2>1. i # call /\ i \notin missed /\ Quiet(i) /\ i \in Items
    BY <1>1, <1>11, <1>13
  <2>2. i \notin Accepted
    BY <1>1, <1>9 DEF Accepted
  <2>3. QED
    BY <1>3, <2>1, <2>2 DEF CurrentInv, RecordInv
<1>14. CASE wire' = Append(wire, Reply("ok"))
  <2>1. /\ DOMAIN wire = 1 .. Len(wire) /\ DOMAIN wire' = 1 .. Len(wire) + 1
        /\ Len(wire) \in Nat /\ wire'[Len(wire) + 1] = Reply("ok")
        /\ \A n \in 1 .. Len(wire) : wire'[n] = wire[n]
    BY <1>2, <1>4, <1>14, WirePut
  <2>2. LastInv'
    <3> SUFFICES ASSUME NEW i \in Tracked, NEW n \in DOMAIN wire', LastAbout(n, i)',
                        queue = "replay" => i \in Facts
                 PROVE  \/ wire'[n].vals[i] = agent'[i]
                        \/ i = call /\ OkBehind(n)'
      BY <1>1 DEF LastInv
    <3>1. n \in DOMAIN wire /\ LastAbout(n, i)
      BY <1>4, <2>1 DEF LastAbout
    <3>2. OkBehind(n)'
      BY <1>4, <2>1, <3>1 DEF OkBehind
    <3>3. QED
      BY <1>12, <2>1, <3>1, <3>2
  <2>3. call \in Accepted' /\ \A i \in Tracked : Quiet(i)' => Quiet(i)
    BY <1>1, <1>4, <2>1 DEF Accepted, Quiet
  <2>4. QED
    BY <1>8, <1>10, <1>13, <2>2, <2>3 DEF CurrentInv
<1>15. CASE wire' = Append(Append(wire, Reply("ok")), u)
  <2>1. /\ DOMAIN wire = 1 .. Len(wire) /\ DOMAIN wire' = 1 .. Len(wire) + 2
        /\ Len(wire) \in Nat /\ wire'[Len(wire) + 1] = Reply("ok")
        /\ wire'[Len(wire) + 2] = u
        /\ \A n \in 1 .. Len(wire) : wire'[n] = wire[n]
    BY <1>2, <1>4, <1>15, WirePutTwo
  <2>2. LastInv'
    <3> SUFFICES ASSUME NEW i \in Tracked, NEW n \in DOMAIN wire', LastAbout(n, i)',
                        queue = "replay" => i \in Facts
                 PROVE  wire'[n].vals[i] = agent'[i]
      BY <1>1 DEF LastInv
    <3>1. CASE n = Len(wire) + 2
      BY <1>5, <2>1, <3>1 DEF LastAbout
    <3>2. CASE n # Len(wire) + 2
      <4>1. n \in DOMAIN wire /\ LastAbout(n, i) /\ i # call
        BY <1>4, <1>5, <1>6, <2>1, <3>2 DEF LastAbout
      <4>2. QED
        BY <1>12, <2>1, <4>1
    <3>3. QED
      BY <3>1, <3>2
  <2>3. call \in Accepted' /\ \A i \in Tracked : Quiet(i)' => Quiet(i)
    BY <1>1, <1>4, <2>1 DEF Accepted, Quiet
  <2>4. QED
    BY <1>8, <1>10, <1>13, <2>2, <2>3 DEF CurrentInv
<1>16. CASE wire' = Append(Append(wire, u), Reply("ok"))
  <2>1. /\ DOMAIN wire = 1 .. Len(wire) /\ DOMAIN wire' = 1 .. Len(wire) + 2
        /\ Len(wire) \in Nat /\ wire'[Len(wire) + 1] = u
        /\ wire'[Len(wire) + 2] = Reply("ok")
        /\ \A n \in 1 .. Len(wire) : wire'[n] = wire[n]
    BY <1>2, <1>4, <1>16, WirePutTwo
  <2>2. LastInv'
    <3> SUFFICES ASSUME NEW i \in Tracked, NEW n \in DOMAIN wire', LastAbout(n, i)',
                        queue = "replay" => i \in Facts
                 PROVE  wire'[n].vals[i] = agent'[i]
      BY <1>1 DEF LastInv
    <3>1. CASE n = Len(wire) + 1
      BY <1>5, <2>1, <3>1 DEF LastAbout
    <3>2. CASE n # Len(wire) + 1
      <4>1. n \in DOMAIN wire /\ LastAbout(n, i) /\ i # call
        BY <1>4, <1>5, <1>6, <2>1, <3>2 DEF LastAbout
      <4>2. QED
        BY <1>12, <2>1, <4>1
    <3>3. QED
      BY <3>1, <3>2
  <2>3. call \in Accepted' /\ \A i \in Tracked : Quiet(i)' => Quiet(i)
    BY <1>1, <1>4, <2>1 DEF Accepted, Quiet
  <2>4. QED
    BY <1>8, <1>10, <1>13, <2>2, <2>3 DEF CurrentInv
<1>17. QED
  BY <1>5, <1>14, <1>15, <1>16 DEF AgentAccepts

LEMMA CurrentAgentRefuses ==
    ASSUME Typed, CurrentInv, AgentRefuses
    PROVE  CurrentInv'
<1>1. /\ pc = "sent" /\ pc' = "answered" /\ wire' = Append(wire, Reply("error"))
      /\ UNCHANGED <<agent, known, queue, turn, asked, todo, call, applied, missed>>
  BY DEF AgentRefuses
<1>2. /\ Reply("error") \in Message /\ Reply("error").kind = "error"
      /\ Reply("error").about = {}
  BY ReplyIsMessage
<1>3. /\ DOMAIN wire = 1 .. Len(wire) /\ DOMAIN wire' = 1 .. Len(wire) + 1
      /\ Len(wire) \in Nat /\ wire'[Len(wire) + 1] = Reply("error")
      /\ \A n \in 1 .. Len(wire) : wire'[n] = wire[n]
  BY <1>1, <1>2, WirePut DEF Typed, TypeOK
<1>4. \A n \in DOMAIN wire : wire[n].kind # "ok"
  BY <1>1 DEF Typed, AnswerInv, IsReply
<1>5. Accepted = applied /\ Accepted' = applied
  BY <1>1, <1>2, <1>3, <1>4 DEF Accepted
<1>6. ApplyInv' /\ ReplayInv' /\ AcceptedInv'
  BY <1>1, <1>5 DEF CurrentInv, ApplyInv, ReplayInv, AcceptedInv
<1>7. LastInv'
  <2> SUFFICES ASSUME NEW i \in Tracked, NEW n \in DOMAIN wire', LastAbout(n, i)',
                      queue = "replay" => i \in Facts
               PROVE  wire'[n].vals[i] = agent[i]
    BY <1>1 DEF LastInv
  <2>1. n \in DOMAIN wire /\ LastAbout(n, i)
    BY <1>2, <1>3 DEF LastAbout
  <2>2. QED
    BY <1>1, <1>3, <2>1 DEF CurrentInv, LastInv
<1>8. RecordInv'
  <2>1. \A i \in Tracked : Quiet(i)' => Quiet(i)
    BY <1>3 DEF Quiet
  <2>2. QED
    BY <1>1, <1>5, <2>1 DEF CurrentInv, RecordInv
<1>9. QED
  BY <1>6, <1>7, <1>8 DEF CurrentInv

LEMMA CurrentOwnChange ==
    ASSUME Typed, CurrentInv, NEW i \in Items, NEW v \in Values \cup {Nil}, OwnChange(i, v)
    PROVE  CurrentInv'
<1>1. /\ UNCHANGED <<known, pc, asked, todo, call, applied, queue, turn>>
      /\ missed' = missed \cup ({i} \cap Accepted)
      /\ agent' = [agent EXCEPT ![i] = v] /\ agent \in [Items -> Values \cup {Nil}]
  BY DEF OwnChange, apply, Typed, TypeOK
<1>2. \A j \in Items \ {i} : agent'[j] = agent[j]
  BY <1>1
<1>3. Accepted \subseteq Items
  BY DEF Accepted, Typed, TypeOK, Items
<1>4. \A s \in Accepted \ missed' : agent'[s] = agent[s]
  BY <1>1, <1>2, <1>3
<1>5. CASE i \in Tracked
  <2>1. About(i) \in SUBSET Items /\ i \in About(i)
    BY AboutIsItems
  <2>2. \A j \in About(i) : agent'[j] \in Values \cup {Nil}
    BY <1>1, <2>1
  <2>3. PICK u \in Message :
          /\ u = Update(About(i), agent') /\ u.kind = "update" /\ u.about = About(i)
          /\ \A j \in About(i) : u.vals[j] = agent'[j]
    BY <2>1, <2>2, UpdateIsMessage
  <2>4. wire' = Append(wire, u)
    BY <1>5, <2>3 DEF OwnChange
  <2>5. QED
    BY <1>1, <1>2, <1>4, <2>1, <2>3, <2>4, CurrentSaid
<1>6. CASE i \notin Tracked
  <2>1. wire' = wire
    BY <1>6 DEF OwnChange
  <2>2. Accepted' = Accepted
    BY <1>1, <2>1 DEF Accepted
  <2>3. \A j \in Tracked : agent'[j] = agent[j]
    BY <1>2, <1>6, ConstantsAssumption DEF Tracked, Items, Settings
  <2>4. ApplyInv' /\ ReplayInv' /\ AcceptedInv'
    BY <1>1, <1>4, <2>2 DEF CurrentInv, ApplyInv, ReplayInv, AcceptedInv
  <2>5. LastInv'
    BY <1>1, <2>1, <2>3 DEF CurrentInv, LastInv, LastAbout, OkBehind
  <2>6. RecordInv'
    BY <1>1, <2>1, <2>2, <2>3 DEF CurrentInv, RecordInv, Quiet
  <2>7. QED
    BY <2>4, <2>5, <2>6 DEF CurrentInv
<1>7. QED
  BY <1>5, <1>6

LEMMA CurrentReplayFact ==
    ASSUME Typed, CurrentInv, NEW i \in Facts, NEW v \in Values \cup {Nil}, ReplayFact(i, v)
    PROVE  CurrentInv'
<1>1. /\ UNCHANGED <<known, pc, asked, todo, call, applied, queue, turn, missed>>
      /\ agent' = [agent EXCEPT ![i] = v] /\ agent \in [Items -> Values \cup {Nil}]
      /\ i \in Items
  BY DEF ReplayFact, apply, Typed, TypeOK, Items
<1>2. agent'[i] = v /\ \A j \in Items \ {i} : agent'[j] = agent[j]
  BY <1>1
<1>3. PICK u \in Message :
        /\ u = Update({i}, agent') /\ u.kind = "update" /\ u.about = {i}
        /\ u.vals[i] = agent'[i]
  <2>1. {i} \in SUBSET Items /\ \A j \in {i} : agent'[j] \in Values \cup {Nil}
    BY <1>1, <1>2
  <2>2. QED
    BY <2>1, UpdateIsMessage
<1>4. wire' = Append(wire, u)
  BY <1>3 DEF ReplayFact
<1>5. \A s \in Accepted : s \in Items \ {i}
  BY ConstantsAssumption DEF Accepted, Typed, TypeOK, Items
<1>6. QED
  BY <1>1, <1>2, <1>3, <1>4, <1>5, CurrentSaid

LEMMA CurrentReplayOptions ==
    ASSUME Typed, CurrentInv, NEW v \in Values, ReplayOptions(v)
    PROVE  CurrentInv'
<1>1. /\ UNCHANGED <<agent, known, pc, asked, todo, call, applied, queue, turn, missed>>
      /\ queue = "replay"
  BY DEF ReplayOptions, apply
<1>2. /\ Advertised \in SUBSET Items
      /\ \A i \in Advertised : i \notin Facts /\ [j \in Items |-> v][i] \in Values
  BY ConstantsAssumption DEF Items, Settings
<1>3. PICK u \in Message :
        /\ u = Update(Advertised, [i \in Items |-> v]) /\ u.kind = "update"
        /\ u.about = Advertised
  BY <1>2, UpdateIsMessage
<1>4. wire' = Append(wire, u)
  BY <1>3 DEF ReplayOptions
<1>5. QED
  BY <1>1, <1>2, <1>3, <1>4, CurrentSaid

LEMMA CurrentStartReplay ==
    ASSUME Typed, CurrentInv, StartReplay
    PROVE  CurrentInv'
<1>1. /\ pc = "idle" /\ turn = "none" /\ wire' = <<>> /\ missed' = {}
      /\ UNCHANGED <<pc, asked, todo, call, applied, turn>>
  BY DEF StartReplay, apply
<1>2. /\ \A i \in Items : known'[i] = Nil
      /\ \A f \in Facts : agent'[f] = Nil
  BY DEF StartReplay, Nothing, Items
<1>3. Accepted' = {}
  BY <1>1 DEF Accepted, CurrentInv, ApplyInv
<1>4. ApplyInv' /\ AcceptedInv' /\ LastInv'
  BY <1>1, <1>3 DEF CurrentInv, ApplyInv, AcceptedInv, LastInv
<1>5. ReplayInv'
  BY <1>1, <1>2 DEF ReplayInv, Items
<1>6. RecordInv'
  BY <1>2, ConstantsAssumption DEF RecordInv, Tracked, Items, Settings
<1>7. QED
  BY <1>4, <1>5, <1>6 DEF CurrentInv

\* A new ActiveSession has no apply under way and nothing on its wire.
LEMMA CurrentOpened ==
    ASSUME Typed, CurrentInv, NEW report \in Reports, NEW facts,
           pc = "idle", wire' = <<>>, queue' = "none",
           known' = FromResponse(report, facts),
           UNCHANGED <<agent, pc, asked, todo, call, applied>>,
           \A i \in Facts \ missed' : facts[i] = agent[i]
    PROVE  CurrentInv'
<1>1. Accepted' = {}
  BY DEF Accepted, CurrentInv, ApplyInv
<1>2. ApplyInv' /\ ReplayInv' /\ AcceptedInv' /\ LastInv'
  BY <1>1 DEF CurrentInv, ApplyInv, ReplayInv, AcceptedInv, LastInv
<1>3. RecordInv'
  <2> SUFFICES ASSUME NEW i \in Tracked, i \notin missed', i \in Facts \/ known'[i] # Nil
               PROVE  known'[i] = agent[i]
    BY DEF RecordInv
  <2>1. i \in Items
    BY ConstantsAssumption DEF Tracked, Items, Settings
  <2>2. CASE i \in Facts
    BY <2>1, <2>2 DEF FromResponse
  <2>3. CASE i \notin Facts
    BY <2>1, <2>3 DEF FromResponse
  <2>4. QED
    BY <2>2, <2>3
<1>4. QED
  BY <1>2, <1>3 DEF CurrentInv

LEMMA CurrentEndReplay ==
    ASSUME Typed, CurrentInv, NEW report \in Reports, EndReplay(report)
    PROVE  CurrentInv'
<1>1. pc = "idle" /\ Accepted = {}
  BY DEF EndReplay, CurrentInv, ReplayInv, ApplyInv, Accepted
<1>2. \A i \in Facts \ missed : known[i] = agent[i]
  <2>1. \A i \in Facts : Quiet(i) /\ i \in Tracked
    BY DEF EndReplay, Quiet, Tracked
  <2>2. QED
    BY <1>1, <2>1 DEF CurrentInv, RecordInv
<1>3. /\ wire' = <<>> /\ queue' = "none" /\ missed' = missed
      /\ known' = FromResponse(report, known)
      /\ UNCHANGED <<agent, pc, asked, todo, call, applied>>
  BY DEF EndReplay, apply
<1>4. QED
  BY <1>1, <1>2, <1>3, CurrentOpened

LEMMA CurrentReattach ==
    ASSUME Typed, CurrentInv, NEW report \in Reports, Reattach(report)
    PROVE  CurrentInv'
<1>1. /\ wire' = <<>> /\ queue' = "none" /\ pc = "idle"
      /\ known' = FromResponse(report, Nothing)
      /\ UNCHANGED <<agent, pc, asked, todo, call, applied>>
      /\ missed' = {i \in Facts : agent[i] # Nil}
  BY DEF Reattach, apply
<1>2. \A i \in Facts \ missed' : Nothing[i] = agent[i]
  BY <1>1 DEF Nothing, Items
<1>3. QED
  BY <1>1, <1>2, CurrentOpened

LEMMA CurrentNext ==
    ASSUME Typed, CurrentInv, [Next]_vars
    PROVE  CurrentInv'
<1>1. ASSUME NEW w \in Wishes, StartRun(w)
      PROVE  CurrentInv'
  BY <1>1, CurrentRequest DEF StartRun
<1>2. ASSUME NEW w \in Wishes, ResumeRun(w)
      PROVE  CurrentInv'
  <2>1. queue # "replay"
    BY <1>2 DEF ResumeRun, CurrentInv, ReplayInv
  <2>2. QED
    BY <1>2, <2>1, CurrentRequest DEF ResumeRun
<1>3. CASE TurnEnds
  BY <1>3, CurrentIdle DEF TurnEnds, apply, CurrentInv, ReplayInv
<1>4. CASE Suspend
  BY <1>4, CurrentIdle DEF Suspend, apply
<1>5. CASE Expire
  BY <1>5, CurrentIdle DEF Expire, apply, CurrentInv, ReplayInv
<1>6. CASE UNCHANGED vars
  BY <1>6, CurrentIdle DEF vars, apply
<1>7. QED
  BY <1>1, <1>2, <1>3, <1>4, <1>5, <1>6, CurrentHearReply, CurrentHearUpdate,
     CurrentWriteBack, CurrentAgentAccepts, CurrentAgentRefuses, CurrentOwnChange,
     CurrentReplayFact, CurrentReplayOptions, CurrentStartReplay, CurrentEndReplay,
     CurrentReattach DEF Next

LEMMA CurrentAlways == Spec => [](Typed /\ CurrentInv)
<1>1. ASSUME Init
      PROVE  CurrentInv
  <2>1. wire = <<>> /\ queue = "none" /\ applied = {} /\ pc \in {"idle", "sent"}
    BY <1>1 DEF Init
  <2>2. Accepted = {}
    BY <2>1 DEF Accepted
  <2>3. ApplyInv /\ ReplayInv /\ AcceptedInv /\ LastInv
    <3>1. pc = "sent" => call \notin todo
      BY <1>1 DEF Init
    <3>2. QED
      BY <2>1, <2>2, <3>1 DEF ApplyInv, ReplayInv, AcceptedInv, LastInv
  <2>4. RecordInv
    <3> SUFFICES ASSUME NEW i \in Tracked, i \in Facts \/ known[i] # Nil
                 PROVE  known[i] = agent[i]
      BY DEF RecordInv
    <3>1. i \in Items
      BY ConstantsAssumption DEF Tracked, Items, Settings
    <3>2. PICK report \in Reports : known = FromResponse(report, Nothing)
      BY <1>1 DEF Init
    <3>3. i \in Facts => agent[i] = Nil
      BY <1>1, <3>1 DEF Init
    <3>4. QED
      BY <3>1, <3>2, <3>3 DEF FromResponse, Nothing
  <2>5. QED
    BY <2>3, <2>4 DEF CurrentInv
<1>2. Typed /\ CurrentInv /\ [Next]_vars => CurrentInv'
  BY CurrentNext
<1>3. QED
  BY <1>1, <1>2, TypedAlways, PTL DEF Spec

\* With nothing under way the bridge's record is what is in force at the agent
\* but for what the model names as missed, for any settings, plans and values.
THEOREM RecordStaysCurrent == Spec => []RecordIsCurrent
<1>1. ASSUME Typed, CurrentInv
      PROVE  RecordIsCurrent
  <2> SUFFICES ASSUME pc = "idle", wire = <<>>, NEW i \in Tracked \ missed,
                      i \in Facts \/ known[i] # Nil
               PROVE  known[i] = agent[i]
    BY DEF RecordIsCurrent
  <2>1. Accepted = {} /\ Quiet(i)
    BY <1>1 DEF CurrentInv, ApplyInv, Accepted, Quiet
  <2>2. QED
    BY <1>1, <2>1 DEF CurrentInv, RecordInv
<1>2. QED
  BY <1>1, CurrentAlways, PTL

-----------------------------------------------------------------------------
(* The client.                                                             *)

\* A client that follows has a stream, or waits for the next one at an
\* interrupt or after a replay; what a replay records it also accumulates.
ToldInv ==
    /\ following => queue \in {"open", "none"}
    /\ queue = "replay" => \A f \in Facts : acc[f] = known[f]
    /\ ClientIsTold

LEMMA ToldNext ==
    ASSUME Typed, CurrentInv, ToldInv, [Next]_vars
    PROVE  ToldInv'
<1>1. \A f \in Facts : f \in Items /\ f \notin Settings /\ f # Mode
  BY ConstantsAssumption DEF Items, Settings
<1>2. \A i \in Tracked \ Facts : i \in Items /\ i \in Settings
  BY ConstantsAssumption DEF Tracked, Items, Settings
<1>3. ASSUME Show(known'), queue' # "replay", queue' \in {"open", "none"}
      PROVE  ToldInv'
  BY <1>3 DEF Show, ToldInv, ClientIsTold
<1>4. ASSUME Unfollow, queue' # "replay"
      PROVE  ToldInv'
  BY <1>4 DEF Unfollow, ToldInv, ClientIsTold
<1>5. ASSUME UNCHANGED <<known, acc, told, following, silent>>,
             queue' = queue \/ (queue # "ended" /\ queue' \in {"open", "none"})
      PROVE  ToldInv'
  BY <1>5 DEF ToldInv, ClientIsTold
<1>6. ASSUME NEW w \in Wishes, StartRun(w)
      PROVE  ToldInv'
  BY <1>3, <1>4, <1>6 DEF StartRun, Request
<1>7. ASSUME NEW w \in Wishes, ResumeRun(w)
      PROVE  ToldInv'
  <2>1. queue # "replay" /\ UNCHANGED <<known, acc, told, following, silent>>
        /\ queue' = "open"
    BY <1>7 DEF ResumeRun, Request, client, CurrentInv, ReplayInv
  <2>2. QED
    BY <2>1 DEF ToldInv, ClientIsTold
<1>8. CASE HearReply
  BY <1>5, <1>8 DEF HearReply, client
<1>9. CASE HearUpdate
  <2>1. /\ UNCHANGED <<queue, following>>
        /\ known' = [i \in Items |-> IF i \in Heard(Head(wire)) THEN Head(wire).vals[i]
                                     ELSE known[i]]
        /\ acc' = IF queue = "replay" THEN Folded(Head(wire)) ELSE acc
        /\ IF queue = "open" /\ following
           THEN told' = Patched(Head(wire)) /\ silent' = silent \ Head(wire).about
           ELSE UNCHANGED <<told, silent>>
    BY <1>9 DEF HearUpdate
  <2>2. queue = "replay" => \A f \in Facts : acc'[f] = known'[f]
    <3> SUFFICES ASSUME queue = "replay", NEW f \in Facts
                 PROVE  acc'[f] = known'[f]
      OBVIOUS
    <3>1. acc[f] = known[f]
      BY DEF ToldInv
    <3>2. acc'[f] = IF f \in Head(wire).about THEN Head(wire).vals[f] ELSE acc[f]
      BY <1>1, <2>1 DEF Folded
    <3>3. known'[f] = IF f \in Head(wire).about THEN Head(wire).vals[f] ELSE known[f]
      BY <1>1, <2>1 DEF Heard
    <3>4. QED
      BY <3>1, <3>2, <3>3
  <2>3. CASE ~ following
    BY <2>1, <2>2, <2>3 DEF ToldInv, ClientIsTold
  <2>4. CASE following /\ queue = "none"
    <3>1. \A i \in Items : known'[i] = known[i]
      BY <2>1, <2>4 DEF Heard
    <3>2. UNCHANGED <<told, silent>>
      BY <2>1, <2>4
    <3>3. QED
      BY <1>1, <1>2, <2>1, <2>4, <3>1, <3>2 DEF ToldInv, ClientIsTold
  <2>5. CASE following /\ queue = "open"
    <3>1. \A i \in Items : known'[i] = IF i \in Head(wire).about THEN Head(wire).vals[i]
                                       ELSE known[i]
      BY <2>1, <2>5 DEF Heard
    <3>2. \A i \in Items : told'[i] = IF i \in Head(wire).about THEN Head(wire).vals[i]
                                      ELSE told[i]
      BY <2>1, <2>5 DEF Patched
    <3>3. silent' = silent \ Head(wire).about
      BY <2>1, <2>5
    <3>4. QED
      BY <1>1, <1>2, <2>1, <2>5, <3>1, <3>2, <3>3 DEF ToldInv, ClientIsTold
  <2>6. QED
    BY <2>3, <2>4, <2>5 DEF ToldInv
<1>10. CASE WriteBack
  <2>1. UNCHANGED <<queue, acc>> /\ known' = Recorded /\ queue # "replay"
    BY <1>10 DEF WriteBack, CurrentInv, ReplayInv
  <2>2. CASE kind = "run" /\ queue = "open"
    BY <1>3, <1>10, <2>1, <2>2 DEF WriteBack
  <2>3. CASE ~ (kind = "run" /\ queue = "open")
    <3>1. /\ UNCHANGED <<told, following>>
          /\ silent' = IF following THEN silent \cup applied ELSE silent
      BY <1>10, <2>3 DEF WriteBack
    <3>2. \A i \in Items \ applied : known'[i] = known[i]
      BY <2>1 DEF Recorded
    <3>3. applied \subseteq Settings
      BY DEF Typed, TypeOK
    <3>4. QED
      BY <1>1, <1>2, <2>1, <3>1, <3>2, <3>3 DEF ToldInv, ClientIsTold
  <2>4. QED
    BY <2>2, <2>3
<1>11. CASE AgentAccepts \/ AgentRefuses
  BY <1>5, <1>11 DEF AgentAccepts, AgentRefuses, client
<1>12. ASSUME NEW i \in Items, NEW v \in Values \cup {Nil}, OwnChange(i, v)
       PROVE  ToldInv'
  BY <1>5, <1>12 DEF OwnChange, client
<1>13. CASE TurnEnds
  <2>1. CASE queue = "open"
    BY <1>4, <1>13, <2>1 DEF TurnEnds
  <2>2. CASE queue # "open"
    BY <1>5, <1>13, <2>2 DEF TurnEnds, client
  <2>3. QED
    BY <2>1, <2>2
<1>14. CASE Suspend
  BY <1>5, <1>14 DEF Suspend, client
<1>15. CASE Expire
  BY <1>5, <1>15 DEF Expire, client
<1>16. CASE StartReplay
  <2>1. known' = acc' /\ ~ following'
    BY <1>16 DEF StartReplay, Unfollow
  <2>2. QED
    BY <2>1 DEF ToldInv, ClientIsTold
<1>17. ASSUME NEW i \in Facts, NEW v \in Values \cup {Nil}, ReplayFact(i, v)
       PROVE  ToldInv'
  BY <1>5, <1>17 DEF ReplayFact, client
<1>18. ASSUME NEW v \in Values, ReplayOptions(v)
       PROVE  ToldInv'
  BY <1>5, <1>18 DEF ReplayOptions, client
<1>19. ASSUME NEW report \in Reports, EndReplay(report)
       PROVE  ToldInv'
  <2>1. /\ queue' = "none" /\ told' = Merged(report) /\ silent' = {}
        /\ known' = FromResponse(report, known)
        /\ \A f \in Facts : acc[f] = known[f]
    BY <1>19 DEF EndReplay, Show, ToldInv
  <2>2. report \cap Facts = {}
    BY <1>1, ConstantsAssumption DEF Reports, Settings
  <2>3. \A f \in Facts : told'[f] = known'[f]
    BY <1>1, <2>1, <2>2 DEF Merged, FromResponse
  <2>4. \A i \in Tracked \ Facts : known'[i] \in {told'[i], Nil}
    BY <1>2, <2>1 DEF Merged, FromResponse
  <2>5. QED
    BY <2>1, <2>3, <2>4 DEF ToldInv, ClientIsTold
<1>20. ASSUME NEW report \in Reports, Reattach(report)
       PROVE  ToldInv'
  BY <1>4, <1>20 DEF Reattach
<1>21. CASE UNCHANGED vars
  BY <1>5, <1>21 DEF vars, client
<1>22. QED
  BY <1>6, <1>7, <1>8, <1>9, <1>10, <1>11, <1>12, <1>13, <1>14, <1>15, <1>16, <1>17,
     <1>18, <1>19, <1>20, <1>21 DEF Next

\* A client that had a snapshot and every event since knows the bridge's record,
\* but for settings recorded by the apply of a resume.
THEOREM ClientStaysTold == Spec => []ClientIsTold
<1>1. Init => ToldInv
  BY DEF Init, ToldInv, ClientIsTold
<1>2. Typed /\ CurrentInv /\ ToldInv /\ [Next]_vars => ToldInv'
  BY ToldNext
<1>3. ToldInv => ClientIsTold
  BY DEF ToldInv
<1>4. QED
  BY <1>1, <1>2, <1>3, CurrentAlways, PTL DEF Spec

-----------------------------------------------------------------------------
(* The calls.                                                              *)

\* A request sends a setting of which nothing is under way or missed exactly if
\* the agent has another value: from what the record is at that moment.
LEMMA CallsStep ==
    ASSUME Typed, CurrentInv, NEW w \in Wishes, StartRun(w) \/ ResumeRun(w),
           NEW s \in (Wished(w) \cap Tracked) \ missed, known[s] # Nil, Quiet(s)
    PROVE  s \in todo' \cup {call'} <=> agent[s] # w[s]
<1>1. PICK k \in {"run", "resume"} : Request(k, w)
  BY DEF StartRun, ResumeRun
<1>2. Accepted = {}
  BY <1>1 DEF Request, CurrentInv, ApplyInv, Accepted
<1>3. known[s] = agent[s]
  BY <1>2 DEF CurrentInv, RecordInv
<1>4. s \in Diff(w) <=> agent[s] # w[s]
  BY <1>3 DEF Diff
<1>5. Diff(w) \in SUBSET Settings /\ Calls(Diff(w), "idle")
  BY <1>1 DEF Diff, Wished, Request
<1>6. s \in todo' \cup {call'} <=> s \in Diff(w)
  <2>1. s # Nil
    BY ConstantsAssumption DEF Wished, Items
  <2>2. CASE Diff(w) = {}
    BY <1>5, <2>1, <2>2, CallsTyped
  <2>3. CASE Diff(w) # {}
    BY <1>5, <2>3, CallsTyped
  <2>4. QED
    BY <2>2, <2>3
<1>7. QED
  BY <1>4, <1>6

\* A request sends exactly what differs at the agent, whatever was refused,
\* applied or changed before: nothing is sent again, nothing refused forgotten.
THEOREM DifferencesAreCalled == Spec => CallsAreTheDifference
<1>1. ASSUME Typed, CurrentInv, [Next]_vars
      PROVE  [\A w \in Wishes : StartRun(w) \/ ResumeRun(w) =>
                \A s \in (Wished(w) \cap Tracked) \ missed :
                    known[s] # Nil /\ (\A n \in DOMAIN wire : s \notin wire[n].about)
                    => (s \in todo' \cup {call'} <=> agent[s] # w[s])]_vars
  BY <1>1, CallsStep DEF Quiet
<1>2. QED
  BY <1>1, CurrentAlways, PTL DEF Spec, CallsAreTheDifference
=============================================================================
