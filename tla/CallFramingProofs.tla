------------------------- MODULE CallFramingProofs -------------------------
(***************************************************************************)
(* How tool calls are read: live (CallsFramed) and in a snapshot           *)
(* (CallsInSnapshot).                                                      *)
(*                                                                         *)
(* A call none of whose updates was dropped goes through stages - it waits *)
(* for its START, runs, is done, or was lost with its stream - and in each *)
(* of them the history says what the bridge keeps of it and what has been  *)
(* read of it.  No single handler moves every call: for each step there is *)
(* a lemma that moves one, and one that leaves all others Untouched.       *)
(*                                                                         *)
(* The agent keeps the protocol, so every history is one that a replay can *)
(* follow: a call starts once, and is updated only while it may go on.  By *)
(* induction over the records of such a history every call is in one of    *)
(* these stages, read off the accumulator this time; the end of the replay *)
(* completes those that still go on.                                       *)
(***************************************************************************)
EXTENDS SnapshotProofs

-----------------------------------------------------------------------------
(* The events of one call on a wire.                                       *)

\* Where the events of call c are.
LineOf(w, c) == {k \in DOMAIN w : w[k].kind \in CallKinds /\ w[k].call = c}

\* The client has read these kinds of events of call c, in their order, and x
\* as its arguments.
LineIs(w, c, kinds, x) ==
    /\ \A k \in LineOf(w, c) : w[k].kind \in kinds
    /\ \A kind \in kinds : \E k \in LineOf(w, c) : w[k].kind = kind
    /\ \A j, k \in LineOf(w, c) : j < k => Place(w[j].kind) < Place(w[k].kind)
    /\ \A k \in LineOf(w, c) : w[k].kind = "callArgs" => w[k].input = x

\* Nothing of the call was told between w and v.
SameLine(w, v, c) == \A kinds, x : LineIs(w, c, kinds, x) => LineIs(v, c, kinds, x)

\* The run of turn t has been told to be over.
RunEnds(w, t) ==
    \E i \in DOMAIN w : w[i].kind \in {"runFinished", "runError"} /\ w[i].turn = t

\* No run was ended between w and v.
SameEnds(w, v) == \A t : RunEnds(v, t) <=> RunEnds(w, t)

\* An event that is not about the call.
LEMMA OffLine ==
    ASSUME NEW w \in Seq(Events), NEW e \in Events, NEW c,
           e.kind \in CallKinds => e.call # c
    PROVE  SameLine(w, Append(w, e), c)
<1> DEFINE v == Append(w, e)
           n == Len(w) + 1
<1>1. /\ DOMAIN w = 1..Len(w) /\ DOMAIN v = 1..n /\ v[n] = e
      /\ \A i \in DOMAIN w : v[i] = w[i]
      /\ Len(w) \in Nat
  BY WireFacts
<1> HIDE DEF v
<1>2. LineOf(v, c) = LineOf(w, c) /\ \A k \in LineOf(w, c) : v[k] = w[k]
  BY <1>1 DEF LineOf
<1>3. SameLine(w, v, c)
  BY <1>2 DEF SameLine, LineIs
<1>4. QED
  BY <1>3 DEF v

\* The next event of the call.
LEMMA OnLine ==
    ASSUME NEW w \in Seq(Events), NEW e \in Events, NEW c, NEW kinds, NEW x,
           LineIs(w, c, kinds, x), e.kind \in CallKinds, e.call = c,
           \A kind \in kinds : Place(kind) < Place(e.kind),
           e.kind = "callArgs" => e.input = x
    PROVE  LineIs(Append(w, e), c, kinds \cup {e.kind}, x)
<1> DEFINE v == Append(w, e)
           n == Len(w) + 1
<1>1. /\ DOMAIN w = 1..Len(w) /\ DOMAIN v = 1..n /\ v[n] = e
      /\ \A i \in DOMAIN w : v[i] = w[i]
      /\ Len(w) \in Nat
  BY WireFacts
<1> HIDE DEF v
<1>2. /\ LineOf(v, c) = LineOf(w, c) \cup {n}
      /\ \A k \in LineOf(w, c) : v[k] = w[k] /\ k < n
  BY <1>1 DEF LineOf
<1>3. \A k \in LineOf(v, c) : v[k].kind \in kinds \cup {e.kind}
  BY <1>1, <1>2 DEF LineIs
<1>4. \A kind \in kinds \cup {e.kind} : \E k \in LineOf(v, c) : v[k].kind = kind
  BY <1>1, <1>2 DEF LineIs
<1>5. \A j, k \in LineOf(v, c) : j < k => Place(v[j].kind) < Place(v[k].kind)
  <2>1. SUFFICES ASSUME NEW j \in LineOf(v, c), NEW k \in LineOf(v, c), j < k
                 PROVE  Place(v[j].kind) < Place(v[k].kind)
    OBVIOUS
  <2>2. j \in LineOf(w, c)
    <3>1. j # n
      BY <1>1, <1>2, <2>1 DEF LineOf
    <3>2. QED
      BY <1>2, <3>1
  <2>3. CASE k = n
    BY <1>1, <1>2, <2>2, <2>3 DEF LineIs
  <2>4. CASE k \in LineOf(w, c)
    BY <1>2, <2>1, <2>2, <2>4 DEF LineIs
  <2>5. QED
    BY <1>2, <2>3, <2>4
<1>6. \A k \in LineOf(v, c) : v[k].kind = "callArgs" => v[k].input = x
  BY <1>1, <1>2 DEF LineIs
<1>7. QED
  BY <1>3, <1>4, <1>5, <1>6 DEF LineIs, v

\* Before its arguments are shown they may be any.
LEMMA LineInput ==
    ASSUME NEW w, NEW c, NEW kinds, NEW x, NEW y,
           LineIs(w, c, kinds, x), "callArgs" \notin kinds
    PROVE  LineIs(w, c, kinds, y)
BY DEF LineIs

\* The runs that are over once an event is put on the wire.
LEMMA EndsOnWire ==
    ASSUME NEW w \in Seq(Events), NEW e \in Events
    PROVE  \A t : RunEnds(Append(w, e), t) <=>
                     RunEnds(w, t) \/ (e.kind \in {"runFinished", "runError"} /\ e.turn = t)
<1> DEFINE v == Append(w, e)
           n == Len(w) + 1
<1>1. /\ DOMAIN v = DOMAIN w \cup {n} /\ v[n] = e /\ \A i \in DOMAIN w : v[i] = w[i]
  BY WireFacts
<1> HIDE DEF v
<1>2. \A t : RunEnds(v, t) <=>
               RunEnds(w, t) \/ (e.kind \in {"runFinished", "runError"} /\ e.turn = t)
  BY <1>1 DEF RunEnds
<1>3. QED
  BY <1>2 DEF v

-----------------------------------------------------------------------------
(* What leaves a call as it was.                                           *)

\* Somebody is told what the bridge emits: a client, or the accumulator.
Listens(b) == b.sink \in {"run", "replay"}

\* These kinds of events of call c have been shown, and x as its arguments: by
\* the snapshot of a replay, by the streams of a live session.
Shown(b, c, kinds, x) ==
    IF b.sink = "replay" THEN ReadsAs(b.acc, c, kinds, x) ELSE LineIs(b.wire, c, kinds, x)

\* Nothing of the call was shown between b and r.
SameShown(b, r, c) == \A kinds, x : Shown(b, c, kinds, x) => Shown(r, c, kinds, x)

\* A replay stays one, and so does a live session.
SameReader(b, r) == (r.sink = "replay") <=> (b.sink = "replay")

\* e is all that may have been told between b and r.
Hears(b, r, e) ==
    /\ SameReader(b, r)
    /\ Told(b, r, e) \/ (b.sink # "replay" /\ r.wire = Append(b.wire, e))

\* An event that is not about the call shows nothing of it.
LEMMA OffShown ==
    ASSUME NEW b \in Bridges, NEW r, NEW e \in Events, NEW c,
           e.kind \in CallKinds => e.call # c, Hears(b, r, e)
    PROVE  SameShown(b, r, c)
<1>1. b.wire \in Seq(Events) /\ b.acc \in Transcripts
  BY DEF Bridges
<1>2. CASE b.sink = "replay"
  <2>1. r.acc = Fold(b.acc, e) /\ r.sink = "replay"
    BY <1>2 DEF Hears, SameReader, Told, AccAfter
  <2>2. Kept(b.acc) => Kept(r.acc) /\ Looks(b.acc, r.acc, c)
    BY <1>1, <2>1, FoldKeeps
  <2>3. ASSUME NEW kinds, NEW x, ReadsAs(b.acc, c, kinds, x)
        PROVE  ReadsAs(r.acc, c, kinds, x)
    <3>1. Kept(b.acc)
      BY <2>3 DEF ReadsAs
    <3>2. QED
      BY <2>2, <2>3, <3>1, LooksReads
  <2>4. QED
    BY <1>2, <2>1, <2>3 DEF SameShown, Shown
<1>3. CASE b.sink # "replay"
  <2>1. (r.wire = b.wire \/ r.wire = Append(b.wire, e)) /\ r.sink # "replay"
    BY <1>3 DEF Hears, SameReader, Told, WireAfter
  <2>2. SameLine(b.wire, Append(b.wire, e), c)
    BY <1>1, OffLine
  <2>3. SameLine(b.wire, r.wire, c)
    BY <2>1, <2>2 DEF SameLine
  <2>4. QED
    BY <1>3, <2>1, <2>3 DEF SameShown, Shown, SameLine
<1>4. QED
  BY <1>2, <1>3

\* The bridge and the client know of the call what they knew.
Untouched(b, r, c) ==
    /\ IsPending(r, c) <=> IsPending(b, c)
    /\ IsPending(b, c) => PendingInput(r, c) = PendingInput(b, c)
    /\ c \in r.open <=> c \in b.open
    /\ c \in r.argsSent <=> c \in b.argsSent
    /\ SameShown(b, r, c)
    /\ SameEnds(b.wire, r.wire)

\* Two steps that leave a call as it was leave it so.
LEMMA UntouchedTwice ==
    ASSUME NEW b, NEW m, NEW r, NEW c, Untouched(b, m, c), Untouched(m, r, c)
    PROVE  Untouched(b, r, c)
BY DEF Untouched, SameShown, SameEnds

\* What tells nothing shows nothing.
LEMMA SameOutShown ==
    ASSUME NEW b, NEW r, NEW c, SameOut(b, r), SameReader(b, r)
    PROVE  SameShown(b, r, c) /\ SameEnds(b.wire, r.wire)
BY DEF SameOut, SameReader, SameShown, Shown, SameEnds

\* So does one that neither tells anything nor changes the calls,
LEMMA UntouchedSame ==
    ASSUME NEW b, NEW r, NEW c, SameCalls(b, r), SameOut(b, r), SameReader(b, r)
    PROVE  Untouched(b, r, c)
<1>1. /\ IsPending(r, c) <=> IsPending(b, c)
      /\ PendingInput(r, c) = PendingInput(b, c)
  BY DEF SameCalls, IsPending, PendingInput, PendingAt
<1>2. QED
  BY <1>1, SameOutShown DEF Untouched, SameCalls

\* An event that is neither about the call nor the end of a run.
Elsewhere(e, c) ==
    /\ e \in Events /\ e.kind \notin {"runFinished", "runError"}
    /\ e.kind \in CallKinds => e.call # c

\* Such an event shows nothing of the call, and ends no run,
LEMMA ElsewhereTold ==
    ASSUME NEW b \in Bridges, NEW r, NEW c, NEW e, Elsewhere(e, c), Hears(b, r, e)
    PROVE  SameShown(b, r, c) /\ SameEnds(b.wire, r.wire)
<1>1. b.wire \in Seq(Events) /\ e \in Events
  BY DEF Bridges, Elsewhere
<1>2. SameShown(b, r, c)
  BY <1>1, OffShown DEF Elsewhere
<1>3. SameEnds(b.wire, Append(b.wire, e))
  BY <1>1, EndsOnWire DEF Elsewhere, SameEnds
<1>4. r.wire = b.wire \/ r.wire = Append(b.wire, e)
  BY DEF Hears, Told, WireAfter
<1>5. QED
  BY <1>2, <1>3, <1>4 DEF SameEnds

\* ... and the call with it, if the bridge keeps that.
LEMMA UntouchedTold ==
    ASSUME NEW b \in Bridges, NEW r, NEW c, NEW e, Elsewhere(e, c),
           Hears(b, r, e),
           r.pending = b.pending, c \in r.open <=> c \in b.open,
           c \in r.argsSent <=> c \in b.argsSent
    PROVE  Untouched(b, r, c)
<1>1. /\ IsPending(r, c) <=> IsPending(b, c)
      /\ PendingInput(r, c) = PendingInput(b, c)
  BY DEF IsPending, PendingInput, PendingAt
<1>2. QED
  BY <1>1, ElsewhereTold DEF Untouched

\* The events of messages, and of runs but their ends, are about no call.
LEMMA FrameEventElsewhere ==
    ASSUME NEW c
    PROVE  /\ \A kind \in {"textStart", "textEnd", "thoughtStart", "thoughtEnd"},
                 id \in Nat \cup {Nil} : Elsewhere(FrameEvent(kind, id), c)
           /\ \A kind \in {"text", "thought"}, id \in Nat \cup {Nil}, n \in Nat :
                 Elsewhere(ChunkEvent(kind, id, n), c)
           /\ \A kind \in {"runStarted", "interrupt"}, t \in Nat :
                 Elsewhere(RunEvent(kind, t), c)
<1>1. ASSUME NEW kind \in {"textStart", "textEnd", "thoughtStart", "thoughtEnd"},
             NEW id \in Nat \cup {Nil}
      PROVE  Elsewhere(FrameEvent(kind, id), c)
  BY <1>1, FrameEventFacts DEF Elsewhere
<1>2. ASSUME NEW kind \in {"text", "thought"}, NEW id \in Nat \cup {Nil}, NEW n \in Nat
      PROVE  Elsewhere(ChunkEvent(kind, id, n), c)
  <2>1. kind \notin CallKinds
    BY <1>2 DEF CallKinds
  <2>2. QED
    BY <1>2, <2>1, ChunkEventFacts DEF Elsewhere
<1>3. ASSUME NEW kind \in {"runStarted", "interrupt"}, NEW t \in Nat
      PROVE  Elsewhere(RunEvent(kind, t), c)
  BY <1>3, RunEventFacts DEF Elsewhere
<1>4. QED
  BY <1>1, <1>2, <1>3

\* Opening and closing messages leaves calls as they were,
LEMMA UntouchedFrames ==
    ASSUME NEW b \in Bridges, NEW r, NEW c
    PROVE  /\ ClosesReasoning(b, r) => Untouched(b, r, c)
           /\ ClosesMessage(b, r) => Untouched(b, r, c)
           /\ OpensText(b, r) => Untouched(b, r, c)
           /\ OpensThought(b, r) => Untouched(b, r, c)
           /\ Silences(b, r) => Untouched(b, r, c)
<1>1. \A x \in Bridges : /\ x.message \in Nat \cup {Nil} /\ x.reasoning \in Nat \cup {Nil}
                         /\ x.fresh \in Nat \cup {Nil}
  BY DEF Bridges
<1>2. ASSUME NEW x \in Bridges, NEW y, ClosesReasoning(x, y)
      PROVE  Untouched(x, y, c)
  <2>1. CASE x.reasoning = Nil
    BY <1>2, <2>1, UntouchedSame DEF ClosesReasoning, SameRun, SameReader
  <2>2. CASE x.reasoning # Nil
    <3>1. Elsewhere(FrameEvent("thoughtEnd", x.reasoning), c)
      BY <1>1, FrameEventElsewhere
    <3>2. QED
      BY <1>2, <2>2, <3>1, UntouchedTold DEF ClosesReasoning, SameCalls, SameRun, SameReader, Hears
  <2>3. QED
    BY <2>1, <2>2
<1>3. ASSUME NEW x \in Bridges, NEW y, ClosesMessage(x, y)
      PROVE  Untouched(x, y, c)
  <2>1. CASE x.message = Nil
    BY <1>3, <2>1, UntouchedSame DEF ClosesMessage, SameRun, SameReader
  <2>2. CASE x.message # Nil
    <3>1. Elsewhere(FrameEvent("textEnd", x.message), c)
      BY <1>1, FrameEventElsewhere
    <3>2. QED
      BY <1>3, <2>2, <3>1, UntouchedTold DEF ClosesMessage, SameCalls, SameRun, SameReader, Hears
  <2>3. QED
    BY <2>1, <2>2
<1>4. ASSUME OpensText(b, r)
      PROVE  Untouched(b, r, c)
  <2>1. CASE b.message # Nil
    BY <1>4, <2>1, UntouchedSame DEF OpensText, SameRun, SameReader
  <2>2. CASE b.message = Nil
    <3>1. Elsewhere(FrameEvent("textStart", b.fresh), c)
      BY <1>1, FrameEventElsewhere
    <3>2. QED
      BY <1>4, <2>2, <3>1, UntouchedTold DEF OpensText, SameCalls, SameRun, SameReader, Hears
  <2>3. QED
    BY <2>1, <2>2
<1>5. ASSUME OpensThought(b, r)
      PROVE  Untouched(b, r, c)
  <2>1. CASE b.reasoning # Nil
    BY <1>5, <2>1, UntouchedSame DEF OpensThought, SameCalls, SameOut, SameReader
  <2>2. CASE b.reasoning = Nil
    <3>1. PICK m \in Bridges :
            /\ ClosesMessage(b, m)
            /\ SameRun(m, r) /\ SameCalls(m, r)
            /\ Told(m, r, FrameEvent("thoughtStart", m.fresh))
      BY <1>5, <2>2 DEF OpensThought
    <3>2. Elsewhere(FrameEvent("thoughtStart", m.fresh), c)
      BY <1>1, FrameEventElsewhere
    <3>3. Untouched(m, r, c)
      BY <3>1, <3>2, UntouchedTold DEF SameCalls, SameRun, SameReader, Hears
    <3>4. QED
      BY <1>3, <3>1, <3>3, UntouchedTwice
  <2>3. QED
    BY <2>1, <2>2
<1>6. ASSUME Silences(b, r)
      PROVE  Untouched(b, r, c)
  BY <1>2, <1>3, <1>6, UntouchedTwice DEF Silences
<1>7. QED
  BY <1>2, <1>3, <1>4, <1>5, <1>6

\* ... and so do chunks.
LEMMA UntouchedChunks ==
    ASSUME NEW b \in Bridges, NEW n \in Nat, NEW c
    PROVE  Untouched(b, TextDelta(b, n), c) /\ Untouched(b, ThoughtDelta(b, n), c)
<1>1. ASSUME NEW x \in Bridges, NEW y, NEW kind \in {"text", "thought"},
             NEW id \in Nat \cup {Nil}, Says(x, y, ChunkEvent(kind, id, n))
      PROVE  Untouched(x, y, c)
  <2>1. Elsewhere(ChunkEvent(kind, id, n), c)
    BY <1>1, FrameEventElsewhere
  <2>2. QED
    BY <1>1, <2>1, UntouchedTold DEF Says, SameCalls, SameRun, SameReader, Hears
<1>2. \A x \in Bridges : x.message \in Nat \cup {Nil} /\ x.reasoning \in Nat \cup {Nil}
  BY DEF Bridges
<1>3. Untouched(b, TextDelta(b, n), c)
  <2> DEFINE m == CloseReasoning(b)
             o == OpenText(m)
             r == SayText(o, n)
  <2>1. m \in Bridges /\ Untouched(b, m, c)
    BY CloseReasoningFacts, UntouchedFrames DEF ClosesReasoning
  <2> HIDE DEF m
  <2>2. o \in Bridges /\ Untouched(m, o, c)
    BY <2>1, OpenTextFacts, UntouchedFrames DEF OpensText
  <2> HIDE DEF o
  <2>3. Untouched(o, r, c)
    BY <1>1, <1>2, <2>2, SayFacts
  <2> HIDE DEF r
  <2>4. Untouched(b, r, c)
    BY <2>1, <2>2, <2>3, UntouchedTwice
  <2>5. QED
    BY <2>4 DEF TextDelta, r, o, m
<1>4. Untouched(b, ThoughtDelta(b, n), c)
  <2> DEFINE o == OpenThought(b)
             r == SayThought(o, n)
  <2>1. o \in Bridges /\ Untouched(b, o, c)
    BY OpenThoughtFacts, UntouchedFrames DEF OpensThought
  <2> HIDE DEF o
  <2>2. Untouched(o, r, c)
    BY <1>1, <1>2, <2>1, SayFacts
  <2> HIDE DEF r
  <2>3. QED
    BY <2>1, <2>2, UntouchedTwice DEF ThoughtDelta, r, o
<1>5. QED
  BY <1>3, <1>4

\* What a handler does for another call.
LEMMA CallEventElsewhere ==
    ASSUME NEW d \in Calls, NEW c, d # c
    PROVE  /\ \A kind \in {"callStart", "callEnd", "callResult"} :
                 Elsewhere(CallEvent(kind, d), c)
           /\ \A input \in Inputs : Elsewhere(ArgsEvent(d, input), c)
<1>1. ASSUME NEW kind \in {"callStart", "callEnd", "callResult"}
      PROVE  Elsewhere(CallEvent(kind, d), c)
  <2>1. CallEvent(kind, d) \in Events
    BY <1>1, EventTypes
  <2>2. CallEvent(kind, d).kind = kind /\ CallEvent(kind, d).call = d
    BY DEF CallEvent
  <2>3. QED
    BY <1>1, <2>1, <2>2 DEF Elsewhere
<1>2. ASSUME NEW input \in Inputs
      PROVE  Elsewhere(ArgsEvent(d, input), c)
  <2>1. ArgsEvent(d, input) \in Events
    BY <1>2, EventTypes
  <2>2. ArgsEvent(d, input).kind = "callArgs" /\ ArgsEvent(d, input).call = d
    BY DEF ArgsEvent
  <2>3. QED
    BY <2>1, <2>2 DEF Elsewhere
<1>3. QED
  BY <1>1, <1>2

\* Opening another call leaves a call as it was,
LEMMA UntouchedByOpen ==
    ASSUME NEW b \in Bridges, NEW r, NEW d \in Calls, NEW c, d # c, Opens(b, r, d)
    PROVE  Untouched(b, r, c)
<1>1. Elsewhere(CallEvent("callStart", d), c)
  BY CallEventElsewhere
<1>2. QED
  BY <1>1, UntouchedTold DEF Opens, SameRun, SameReader, Hears

\* ... showing another one,
LEMMA UntouchedByShow ==
    ASSUME NEW b \in Bridges, Distinct(b), NEW r, NEW d \in Calls, IsPending(b, d),
           NEW c, d # c, Shows(b, r, d)
    PROVE  Untouched(b, r, c)
<1>1. Elsewhere(CallEvent("callStart", d), c)
  BY CallEventElsewhere
<1>2. SameShown(b, r, c) /\ SameEnds(b.wire, r.wire)
  BY <1>1, ElsewhereTold DEF Shows, SameRun, SameReader, Hears
<1>3. r \in Bridges /\ r.pending = RemoveAt(b.pending, PendingAt(b, d))
      /\ r.open = b.open \cup {d} /\ r.argsSent = b.argsSent
  BY DEF Shows
<1>4. /\ \A x : IsPending(r, x) <=> IsPending(b, x) /\ x # d
      /\ \A x : IsPending(r, x) => PendingInput(r, x) = PendingInput(b, x)
  BY <1>3, RemovePending
<1>5. QED
  BY <1>2, <1>3, <1>4 DEF Untouched

\* ... or the arguments of another one,
LEMMA UntouchedByArgs ==
    ASSUME NEW b \in Bridges, NEW r, NEW d \in Calls, NEW input \in Inputs, NEW c, d # c,
           ShowsArgs(b, r, d, input)
    PROVE  Untouched(b, r, c)
<1>1. CASE input = Nil \/ d \in b.argsSent
  BY <1>1, UntouchedSame DEF ShowsArgs, SameCalls, SameOut, SameReader
<1>2. CASE ~(input = Nil \/ d \in b.argsSent)
  <2>1. Elsewhere(ArgsEvent(d, input), c)
    BY CallEventElsewhere
  <2>2. QED
    BY <1>2, <2>1, UntouchedTold DEF ShowsArgs, SameRun, SameReader, Hears
<1>3. QED
  BY <1>1, <1>2

\* ... telling the end of another one,
LEMMA UntouchedByEmitEnd ==
    ASSUME NEW b \in Bridges, NEW r, NEW d \in Calls, NEW c, d # c, EmitsEnd(b, r, d)
    PROVE  Untouched(b, r, c)
<1>1. /\ Elsewhere(CallEvent("callEnd", d), c)
      /\ Elsewhere(CallEvent("callResult", d), c)
  BY CallEventElsewhere
<1>2. PICK m \in Bridges : /\ Says(b, m, CallEvent("callEnd", d))
                           /\ Says(m, r, CallEvent("callResult", d))
  BY DEF EmitsEnd
<1>3. Untouched(b, m, c)
  BY <1>1, <1>2, UntouchedTold DEF Says, SameCalls, SameRun, SameReader, Hears
<1>4. Untouched(m, r, c)
  BY <1>1, <1>2, UntouchedTold DEF Says, SameCalls, SameRun, SameReader, Hears
<1>5. QED
  BY <1>3, <1>4, UntouchedTwice

\* ... and ending it.
LEMMA UntouchedByEnd ==
    ASSUME NEW b \in Bridges, NEW r, NEW d \in Calls, NEW c, d # c, EndsCall(b, r, d)
    PROVE  Untouched(b, r, c)
<1>1. CASE d \notin b.open
  BY <1>1, UntouchedSame DEF EndsCall, SameCalls, SameOut, SameReader
<1>2. CASE d \in b.open
  <2>1. PICK m \in Bridges :
            /\ EmitsEnd(b, m, d)
            /\ SameOut(m, r) /\ SameRun(m, r) /\ r.pending = m.pending
            /\ r.open = m.open \ {d} /\ r.argsSent = m.argsSent \ {d}
    BY <1>2 DEF EndsCall
  <2>2. Untouched(b, m, c)
    BY <2>1, UntouchedByEmitEnd
  <2>3. Untouched(m, r, c)
    <3>1. /\ IsPending(r, c) <=> IsPending(m, c)
          /\ PendingInput(r, c) = PendingInput(m, c)
      BY <2>1 DEF IsPending, PendingInput, PendingAt
    <3>2. SameShown(m, r, c) /\ SameEnds(m.wire, r.wire)
      BY <2>1, SameOutShown DEF SameRun, SameReader
    <3>3. QED
      BY <2>1, <3>1, <3>2 DEF Untouched
  <2>4. QED
    BY <2>2, <2>3, UntouchedTwice
<1>3. QED
  BY <1>1, <1>2

\* The updates of another call.
LEMMA UntouchedByOthers ==
    ASSUME NEW b \in Bridges, NEW S, Holds(b, S), NEW d \in Calls, NEW c, d # c
    PROVE  /\ \A input \in {"initial", Nil} :
                 d \notin S => Untouched(b, ToolCall(b, d, input), c)
           /\ \A input \in Inputs : Untouched(b, Progress(b, d, input), c)
           /\ \A input \in Inputs : Untouched(b, Completed(b, d, input), c)
<1>1. ASSUME NEW input \in {"initial", Nil}, d \notin S
      PROVE  Untouched(b, ToolCall(b, d, input), c)
  <2> DEFINE m == CloseMessage(CloseReasoning(b))
             r == ToolCall(b, d, input)
  <2>1. Untouched(b, m, c) /\ m \in Bridges /\ Holds(m, S)
    BY SilenceFacts, UntouchedFrames, HoldsFrames
  <2>2. Queues(m, r, d, input)
    BY <1>1, ToolCallFacts
  <2> HIDE DEF m, r
  <2>3. Distinct(m) /\ ~IsPending(m, d)
    BY <1>1, <2>1 DEF Holds
  <2>4. /\ \A x : IsPending(r, x) <=> IsPending(m, x) \/ x = d
        /\ \A x : IsPending(m, x) => PendingInput(r, x) = PendingInput(m, x)
    BY <1>1, <2>1, <2>2, <2>3, AppendPending
  <2>5. Untouched(m, r, c)
    <3>1. SameShown(m, r, c) /\ SameEnds(m.wire, r.wire)
      BY <2>2, SameOutShown DEF Queues, SameRun, SameReader
    <3>2. QED
      BY <1>1, <2>2, <2>4, <3>1 DEF Untouched, Queues
  <2>6. Untouched(b, r, c)
    BY <2>1, <2>5, UntouchedTwice
  <2>7. QED
    BY <2>6 DEF r
<1>2. ASSUME IsPending(b, d)
      PROVE  Untouched(b, ShowCall(b, d), c) /\ ShowCall(b, d) \in Bridges
  <2>1. Shows(b, ShowCall(b, d), d)
    BY <1>2, ShowCallFacts
  <2>2. QED
    BY <1>2, <2>1, UntouchedByShow DEF Holds, Shows
<1>3. ASSUME NEW x \in Bridges, NEW input \in Inputs
      PROVE  Untouched(x, ShowArgs(x, d, input), c) /\ ShowArgs(x, d, input) \in Bridges
  BY <1>3, ShowArgsFacts, UntouchedByArgs
<1>4. ASSUME NEW x \in Bridges
      PROVE  Untouched(x, EndCall(x, d), c)
  BY <1>4, EndCallFacts, UntouchedByEnd
<1>5. Untouched(b, b, c)
  BY UntouchedSame DEF SameCalls, SameOut, SameReader
<1>6. ASSUME NEW input \in Inputs
      PROVE  Untouched(b, Progress(b, d, input), c)
  <2>1. CASE input = Nil \/ d \in b.argsSent
    BY <1>5, <2>1 DEF Progress
  <2>2. CASE ~(input = Nil \/ d \in b.argsSent)
    <3> DEFINE m == IF IsPending(b, d) THEN ShowCall(b, d) ELSE b
    <3>1. m \in Bridges /\ Untouched(b, m, c)
      BY <1>2, <1>5
    <3>2. Progress(b, d, input) = ShowArgs(m, d, input)
      BY <2>2 DEF Progress
    <3> HIDE DEF m
    <3>3. QED
      BY <1>3, <1>6, <3>1, <3>2, UntouchedTwice
  <2>3. QED
    BY <2>1, <2>2
<1>7. ASSUME NEW input \in Inputs
      PROVE  Untouched(b, Completed(b, d, input), c)
  <2> DEFINE i == Or(input, PendingInput(b, d))
             m == IF IsPending(b, d) THEN ShowArgs(ShowCall(b, d), d, i) ELSE b
  <2>1. IsPending(b, d) => i \in Inputs
    BY <1>7, PendingAtFacts DEF Or, Inputs
  <2>2. Completed(b, d, input) = EndCall(m, d)
    BY DEF Completed
  <2> HIDE DEF i
  <2>3. m \in Bridges /\ Untouched(b, m, c)
    BY <1>2, <1>3, <1>5, <2>1, UntouchedTwice
  <2> HIDE DEF m
  <2>4. QED
    BY <1>4, <2>2, <2>3, UntouchedTwice
<1>8. QED
  BY <1>1, <1>6, <1>7

\* A run that goes on, or is suspended.
LEMMA UntouchedByRuns ==
    ASSUME NEW b \in Bridges, b.sink # "replay", NEW r, NEW c
    PROVE  /\ Suspends(b, r) => Untouched(b, r, c)
           /\ Attaches(b, r) => Untouched(b, r, c)
<1>1. b.turn \in Nat
  BY DEF Bridges
<1>2. Elsewhere(RunEvent("interrupt", b.turn), c) /\ Elsewhere(RunEvent("runStarted", b.turn), c)
  BY <1>1, FrameEventElsewhere
<1>3. ASSUME Suspends(b, r)
      PROVE  Untouched(b, r, c)
  <2>1. PICK m \in Bridges : Silences(b, m) /\ Leaves(m, r, RunEvent("interrupt", b.turn), "none")
    BY <1>3 DEF Suspends
  <2>2. Untouched(b, m, c) /\ m.sink # "replay"
    BY <2>1, UntouchedFrames DEF Silences, ClosesReasoning, ClosesMessage, SameRun
  <2>3. Untouched(m, r, c)
    BY <1>2, <2>1, <2>2, UntouchedTold DEF Leaves, SameCalls, SameReader, Hears
  <2>4. QED
    BY <2>2, <2>3, UntouchedTwice
<1>4. ASSUME Attaches(b, r)
      PROVE  Untouched(b, r, c)
  BY <1>2, <1>4, UntouchedTold DEF Attaches, SameCalls, SameReader, Hears
<1>5. QED
  BY <1>3, <1>4

-----------------------------------------------------------------------------
(* What the bridge and the client know of a call whose arguments are x:    *)
(* it waits for its START, has begun, has been shown as a whole, or was    *)
(* lost with the stream that it was to be shown on.                        *)

\* What is told of a call with arguments x before it ends,
Begins(x) == IF x = Nil THEN {"callStart"} ELSE {"callStart", "callArgs"}

\* ... and in all.
Wanted(x) == Begins(x) \cup {"callEnd", "callResult"}

\* The call waits for its START, and would be shown with x,
Waits(b, c, x) ==
    /\ IsPending(b, c) /\ PendingInput(b, c) = x
    /\ c \notin b.open /\ c \notin b.argsSent
    /\ Shown(b, c, {}, x)

\* ... has been started with x,
Begun(b, c, x) ==
    ~IsPending(b, c) /\ c \in b.open /\ Shown(b, c, Begins(x), x)

\* ... will have no other arguments,
Runs(b, c, x) == Begun(b, c, x) /\ c \in b.argsSent /\ x # Nil

\* ... has been shown as a whole,
Done(b, c, x) ==
    ~IsPending(b, c) /\ c \notin b.open /\ Shown(b, c, Wanted(x), x)

\* ... or never will be.
Lost(b, c, x) ==
    /\ ~IsPending(b, c) /\ c \notin b.open
    /\ Shown(b, c, {}, x) \/ (x # Nil /\ Shown(b, c, Begins(x), x))

\* A call that has not started.
Unseen(b, c) ==
    /\ ~IsPending(b, c) /\ c \notin b.open /\ c \notin b.argsSent
    /\ Shown(b, c, {}, Nil)

\* These views of a call outlast what leaves it as it was.
LEMMA UntouchedViews ==
    ASSUME NEW b, NEW r, NEW c, NEW x, Untouched(b, r, c)
    PROVE  /\ Waits(b, c, x) => Waits(r, c, x)
           /\ Runs(b, c, x) => Runs(r, c, x)
           /\ Done(b, c, x) => Done(r, c, x)
           /\ Lost(b, c, x) => Lost(r, c, x)
           /\ Unseen(b, c) => Unseen(r, c)
<1>1. \A kinds, y : Shown(b, c, kinds, y) => Shown(r, c, kinds, y)
  BY DEF Untouched, SameShown
<1>2. QED
  BY <1>1 DEF Untouched, Waits, Runs, Begun, Done, Lost, Unseen

\* The line of a call grows by START, ARGS, END and RESULT in this order.
LEMMA WireGrows ==
    ASSUME NEW b \in Bridges, b.sink = "run", NEW c \in Calls, NEW r, NEW kinds, NEW x \in Inputs,
           LineIs(b.wire, c, kinds, x)
    PROVE  /\ Told(b, r, CallEvent("callStart", c)) /\ kinds = {} =>
                 LineIs(r.wire, c, {"callStart"}, x)
           /\ Told(b, r, ArgsEvent(c, x)) /\ kinds = {"callStart"} =>
                 LineIs(r.wire, c, {"callStart", "callArgs"}, x)
           /\ Told(b, r, CallEvent("callEnd", c)) /\ kinds = Begins(x) =>
                 LineIs(r.wire, c, Begins(x) \cup {"callEnd"}, x)
           /\ Told(b, r, CallEvent("callResult", c)) /\ kinds = Begins(x) \cup {"callEnd"} =>
                 LineIs(r.wire, c, Wanted(x), x)
<1>1. b.wire \in Seq(Events)
  BY DEF Bridges
<1>2. \A e : Told(b, r, e) => r.wire = Append(b.wire, e)
  BY DEF Told, WireAfter
<1>3. /\ \A kind \in {"callStart", "callEnd", "callResult"} :
            /\ CallEvent(kind, c) \in Events /\ CallEvent(kind, c).kind = kind
            /\ CallEvent(kind, c).call = c
      /\ ArgsEvent(c, x) \in Events /\ ArgsEvent(c, x).kind = "callArgs"
      /\ ArgsEvent(c, x).call = c /\ ArgsEvent(c, x).input = x
  <2>1. /\ \A kind \in {"callStart", "callEnd", "callResult"} : CallEvent(kind, c) \in Events
        /\ ArgsEvent(c, x) \in Events
    BY EventTypes
  <2>2. QED
    BY <2>1 DEF CallEvent, ArgsEvent
<1>4. /\ Place("callStart") = 1 /\ Place("callArgs") = 2
      /\ Place("callEnd") = 3 /\ Place("callResult") = 4
  BY DEF Place
<1>5. ASSUME NEW e \in Events, Told(b, r, e), e.kind \in CallKinds, e.call = c,
             e.kind = "callArgs" => e.input = x,
             \A kind \in kinds : Place(kind) < Place(e.kind)
      PROVE  LineIs(r.wire, c, kinds \cup {e.kind}, x)
  <2> DEFINE w == b.wire
  <2>1. w \in Seq(Events) /\ LineIs(w, c, kinds, x) /\ r.wire = Append(w, e)
    BY <1>1, <1>2, <1>5
  <2> HIDE DEF w
  <2>2. LineIs(Append(w, e), c, kinds \cup {e.kind}, x)
    BY <1>5, <2>1, OnLine
  <2>3. QED
    BY <2>1, <2>2
<1>6. {"callStart", "callArgs", "callEnd", "callResult"} \subseteq CallKinds
  BY DEF CallKinds
<1>7. ASSUME Told(b, r, CallEvent("callStart", c)), kinds = {}
      PROVE  LineIs(r.wire, c, {"callStart"}, x)
  <2>1. LineIs(r.wire, c, kinds \cup {"callStart"}, x)
    BY <1>3, <1>5, <1>6, <1>7
  <2>2. kinds \cup {"callStart"} = {"callStart"}
    BY <1>7
  <2>3. QED
    BY <2>1, <2>2
<1>8. ASSUME Told(b, r, ArgsEvent(c, x)), kinds = {"callStart"}
      PROVE  LineIs(r.wire, c, {"callStart", "callArgs"}, x)
  <2>1. \A kind \in kinds : Place(kind) < Place("callArgs")
    BY <1>4, <1>8
  <2>2. LineIs(r.wire, c, kinds \cup {"callArgs"}, x)
    BY <1>3, <1>5, <1>6, <1>8, <2>1
  <2>3. kinds \cup {"callArgs"} = {"callStart", "callArgs"}
    BY <1>8
  <2>4. QED
    BY <2>2, <2>3
<1>9. ASSUME Told(b, r, CallEvent("callEnd", c)), kinds = Begins(x)
      PROVE  LineIs(r.wire, c, Begins(x) \cup {"callEnd"}, x)
  <2>1. \A kind \in kinds : Place(kind) < Place("callEnd")
    BY <1>4, <1>9 DEF Begins
  <2>2. QED
    BY <1>3, <1>5, <1>6, <1>9, <2>1
<1>10. ASSUME Told(b, r, CallEvent("callResult", c)), kinds = Begins(x) \cup {"callEnd"}
       PROVE  LineIs(r.wire, c, Wanted(x), x)
  <2>1. \A kind \in kinds : Place(kind) < Place("callResult")
    BY <1>4, <1>10 DEF Begins
  <2>2. LineIs(r.wire, c, kinds \cup {"callResult"}, x)
    BY <1>3, <1>5, <1>6, <1>10, <2>1
  <2>3. kinds \cup {"callResult"} = Wanted(x)
    BY <1>10 DEF Wanted
  <2>4. QED
    BY <2>2, <2>3
<1>11. QED
  BY <1>7, <1>8, <1>9, <1>10

\* ... and so does what has been shown of it, wherever that is.
LEMMA ShownGrows ==
    ASSUME NEW b \in Bridges, Listens(b), NEW c \in Calls, NEW r, SameRun(b, r),
           NEW kinds, NEW x \in Inputs, Shown(b, c, kinds, x)
    PROVE  /\ Told(b, r, CallEvent("callStart", c)) /\ kinds = {} =>
                 Shown(r, c, {"callStart"}, x)
           /\ Told(b, r, ArgsEvent(c, x)) /\ kinds = {"callStart"} =>
                 Shown(r, c, {"callStart", "callArgs"}, x)
           /\ Told(b, r, CallEvent("callEnd", c)) /\ kinds = Begins(x) =>
                 Shown(r, c, Begins(x) \cup {"callEnd"}, x)
           /\ Told(b, r, CallEvent("callResult", c)) /\ kinds = Begins(x) \cup {"callEnd"} =>
                 Shown(r, c, Wanted(x), x)
<1>1. CASE b.sink = "run"
  <2>1. r.sink # "replay" /\ LineIs(b.wire, c, kinds, x)
    BY <1>1 DEF SameRun, Shown
  <2>2. /\ Told(b, r, CallEvent("callStart", c)) /\ kinds = {} =>
              LineIs(r.wire, c, {"callStart"}, x)
        /\ Told(b, r, ArgsEvent(c, x)) /\ kinds = {"callStart"} =>
              LineIs(r.wire, c, {"callStart", "callArgs"}, x)
        /\ Told(b, r, CallEvent("callEnd", c)) /\ kinds = Begins(x) =>
              LineIs(r.wire, c, Begins(x) \cup {"callEnd"}, x)
        /\ Told(b, r, CallEvent("callResult", c)) /\ kinds = Begins(x) \cup {"callEnd"} =>
              LineIs(r.wire, c, Wanted(x), x)
    BY <1>1, <2>1, WireGrows
  <2>3. QED
    BY <2>1, <2>2 DEF Shown
<1>2. CASE b.sink = "replay"
  <2> DEFINE acc == b.acc
  <2>1. acc \in Transcripts /\ r.sink = "replay" /\ ReadsAs(acc, c, kinds, x)
    BY <1>2 DEF SameRun, Shown, Bridges
  <2>2. \A e : Told(b, r, e) => r.acc = Fold(acc, e)
    BY <1>2 DEF Told, AccAfter
  <2> HIDE DEF acc
  <2>3. "callResult" \notin kinds =>
          /\ kinds = {} => ReadsAs(Fold(acc, CallEvent("callStart", c)), c, {"callStart"}, x)
          /\ kinds = {"callStart"} =>
                ReadsAs(Fold(acc, ArgsEvent(c, x)), c, {"callStart", "callArgs"}, x)
          /\ ReadsAs(Fold(acc, CallEvent("callEnd", c)), c, kinds \cup {"callEnd"}, x)
          /\ "callStart" \in kinds =>
                ReadsAs(Fold(acc, CallEvent("callResult", c)), c, kinds \cup {"callResult"}, x)
    BY <2>1, ReadsGrow
  <2>4. /\ "callStart" \in Begins(x) /\ "callResult" \notin Begins(x)
        /\ Wanted(x) = (Begins(x) \cup {"callEnd"}) \cup {"callResult"}
    BY DEF Begins, Wanted
  <2>5. Told(b, r, CallEvent("callStart", c)) /\ kinds = {} => Shown(r, c, {"callStart"}, x)
    BY <2>1, <2>2, <2>3 DEF Shown
  <2>6. Told(b, r, ArgsEvent(c, x)) /\ kinds = {"callStart"} =>
          Shown(r, c, {"callStart", "callArgs"}, x)
    BY <2>1, <2>2, <2>3 DEF Shown
  <2>7. Told(b, r, CallEvent("callEnd", c)) /\ kinds = Begins(x) =>
          Shown(r, c, Begins(x) \cup {"callEnd"}, x)
    BY <2>1, <2>2, <2>3, <2>4 DEF Shown
  <2>8. Told(b, r, CallEvent("callResult", c)) /\ kinds = Begins(x) \cup {"callEnd"} =>
          Shown(r, c, Wanted(x), x)
    BY <2>1, <2>2, <2>3, <2>4 DEF Shown
  <2>9. QED
    BY <2>5, <2>6, <2>7, <2>8
<1>3. QED
  BY <1>1, <1>2 DEF Listens

\* Before its arguments are shown they may be any.
LEMMA ShownInput ==
    ASSUME NEW b, NEW c, NEW kinds, NEW x, NEW y,
           Shown(b, c, kinds, x), "callArgs" \notin kinds
    PROVE  Shown(b, c, kinds, y)
BY LineInput, ReadsInput DEF Shown

\* The call is queued.
LEMMA CallQueued ==
    ASSUME NEW b \in Bridges, NEW S, Holds(b, S), NEW c \in Calls, c \notin S, Unseen(b, c),
           NEW input \in {"initial", Nil}
    PROVE  Waits(ToolCall(b, c, input), c, input)
<1> DEFINE m == CloseMessage(CloseReasoning(b))
           r == ToolCall(b, c, input)
<1>1. Untouched(b, m, c) /\ m \in Bridges /\ Holds(m, S)
  BY SilenceFacts, UntouchedFrames, HoldsFrames
<1>2. Queues(m, r, c, input)
  BY ToolCallFacts
<1> HIDE DEF m, r
<1>3. Unseen(m, c)
  BY <1>1, UntouchedViews
<1>4. IsPending(r, c) /\ PendingInput(r, c) = input
  BY <1>1, <1>2, AppendPending DEF Holds
<1>5. Shown(r, c, {}, input)
  <2>1. Shown(r, c, {}, Nil)
    BY <1>2, <1>3, SameOutShown DEF Unseen, Queues, SameRun, SameReader, SameShown
  <2>2. QED
    BY <2>1, ShownInput
<1>6. Waits(r, c, input)
  BY <1>2, <1>3, <1>4, <1>5 DEF Waits, Unseen, Queues
<1>7. QED
  BY <1>6 DEF r

\* It is opened, and its arguments are shown if there are any.
LEMMA CallOpened ==
    ASSUME NEW b \in Bridges, Listens(b), NEW c \in Calls, NEW m, NEW r, NEW x \in Inputs,
           Shown(b, c, {}, x), c \notin b.argsSent,
           m \in Bridges, SameRun(b, m), Told(b, m, CallEvent("callStart", c)),
           m.argsSent = b.argsSent, ShowsArgs(m, r, c, x)
    PROVE  Shown(r, c, Begins(x), x) /\ (x # Nil => c \in r.argsSent)
<1>1. Shown(m, c, {"callStart"}, x)
  BY ShownGrows
<1>2. CASE x = Nil
  <2>1. r = m
    BY <1>2 DEF ShowsArgs
  <2>2. QED
    BY <1>1, <1>2, <2>1 DEF Begins
<1>3. CASE x # Nil
  <2>1. Told(m, r, ArgsEvent(c, x)) /\ r.argsSent = m.argsSent \cup {c}
        /\ SameRun(m, r) /\ Listens(m)
    BY <1>3 DEF ShowsArgs, SameRun, Listens
  <2>2. Shown(r, c, {"callStart", "callArgs"}, x)
    BY <1>1, <2>1, ShownGrows
  <2>3. QED
    BY <1>3, <2>1, <2>2 DEF Begins
<1>4. QED
  BY <1>2, <1>3

\* A call that waits is shown with the arguments that it is given.
LEMMA CallBegins ==
    ASSUME NEW b \in Bridges, Listens(b), Distinct(b), NEW c \in Calls, NEW y,
           Waits(b, c, y), NEW x \in Inputs
    PROVE  LET r == ShowArgs(ShowCall(b, c), c, x)
           IN  /\ r \in Bridges /\ Listens(r)
               /\ Begun(r, c, x) /\ (x # Nil => Runs(r, c, x))
<1> DEFINE m == ShowCall(b, c)
           r == ShowArgs(m, c, x)
<1>1. Shows(b, m, c) /\ IsPending(b, c)
  BY ShowCallFacts DEF Waits
<1> HIDE DEF m
<1>2. m \in Bridges /\ ShowsArgs(m, r, c, x) /\ r \in Bridges
  BY <1>1, ShowArgsFacts DEF Shows
<1> HIDE DEF r
<1>3. ~IsPending(m, c)
  BY <1>1, <1>2, RemovePending DEF Shows
<1>4. r.pending = m.pending /\ r.open = m.open /\ r.sink = m.sink
  BY <1>2 DEF ShowsArgs, SameRun
<1>5. ~IsPending(r, c) /\ c \in r.open /\ Listens(r)
  BY <1>1, <1>3, <1>4 DEF IsPending, Shows, SameRun, Listens
<1>6. Shown(b, c, {}, x)
  BY ShownInput DEF Waits
<1>7. Shown(r, c, Begins(x), x) /\ (x # Nil => c \in r.argsSent)
  BY <1>1, <1>2, <1>6, CallOpened DEF Shows, Waits
<1>8. Begun(r, c, x) /\ (x # Nil => Runs(r, c, x))
  BY <1>5, <1>7 DEF Begun, Runs
<1>9. QED
  BY <1>2, <1>5, <1>8 DEF r, m

\* A call whose line has begun is ended.
LEMMA LineEnds ==
    ASSUME NEW b \in Bridges, Listens(b), NEW c \in Calls, NEW x \in Inputs,
           Shown(b, c, Begins(x), x), NEW r, EmitsEnd(b, r, c)
    PROVE  Shown(r, c, Wanted(x), x) /\ Listens(r) /\ SameRun(b, r) /\ SameCalls(b, r)
<1>1. PICK m \in Bridges : /\ Says(b, m, CallEvent("callEnd", c))
                           /\ Says(m, r, CallEvent("callResult", c))
  BY DEF EmitsEnd
<1>2. Shown(m, c, Begins(x) \cup {"callEnd"}, x) /\ Listens(m)
  BY <1>1, ShownGrows DEF Says, SameRun, Listens
<1>3. Shown(r, c, Wanted(x), x)
  BY <1>1, <1>2, ShownGrows DEF Says
<1>4. QED
  BY <1>1, <1>2, <1>3 DEF Says, SameRun, SameCalls, Listens

\* Ending a call that has begun leaves nothing to be told of it.
LEMMA CallEnds ==
    ASSUME NEW b \in Bridges, Listens(b), NEW c \in Calls, NEW x \in Inputs, Begun(b, c, x)
    PROVE  Done(EndCall(b, c), c, x)
<1> DEFINE r == EndCall(b, c)
<1>1. EndsCall(b, r, c)
  BY EndCallFacts
<1> HIDE DEF r
<1>2. PICK m \in Bridges :
            /\ EmitsEnd(b, m, c)
            /\ SameOut(m, r) /\ SameRun(m, r) /\ r.pending = m.pending
            /\ r.open = m.open \ {c}
  BY <1>1 DEF EndsCall, Begun
<1>3. Shown(m, c, Wanted(x), x) /\ SameCalls(b, m)
  BY <1>2, LineEnds DEF Begun
<1>4. Shown(r, c, Wanted(x), x)
  BY <1>2, <1>3, SameOutShown DEF SameRun, SameReader, SameShown
<1>5. Done(r, c, x)
  BY <1>2, <1>3, <1>4 DEF Done, Begun, SameCalls, IsPending
<1>6. QED
  BY <1>5 DEF r

\* The updates of the call itself.
LEMMA CallGoesOn ==
    ASSUME NEW b \in Bridges, Listens(b), Distinct(b), NEW c \in Calls,
           NEW x \in Inputs, NEW input \in Inputs
    PROVE  /\ Waits(b, c, x) /\ input # Nil => Runs(Progress(b, c, input), c, input)
           /\ Runs(b, c, x) => Progress(b, c, input) = b
           /\ Waits(b, c, x) => Done(Completed(b, c, input), c, Or(input, x))
           /\ Runs(b, c, x) => Done(Completed(b, c, input), c, x)
<1>1. ASSUME Waits(b, c, x), input # Nil
      PROVE  Runs(Progress(b, c, input), c, input)
  <2>1. Progress(b, c, input) = ShowArgs(ShowCall(b, c), c, input)
    BY <1>1 DEF Progress, Waits
  <2>2. QED
    BY <1>1, <2>1, CallBegins
<1>2. ASSUME Runs(b, c, x)
      PROVE  Progress(b, c, input) = b
  BY <1>2 DEF Progress, Runs
<1>3. ASSUME Waits(b, c, x)
      PROVE  Done(Completed(b, c, input), c, Or(input, x))
  <2> DEFINE i == Or(input, x)
             m == ShowArgs(ShowCall(b, c), c, i)
  <2>1. Completed(b, c, input) = EndCall(m, c)
    BY <1>3 DEF Completed, Waits
  <2>2. i \in Inputs
    BY DEF Or
  <2> HIDE DEF i
  <2>3. m \in Bridges /\ Listens(m) /\ Begun(m, c, i)
    BY <1>3, <2>2, CallBegins
  <2> HIDE DEF m
  <2>4. Done(EndCall(m, c), c, i)
    BY <2>2, <2>3, CallEnds
  <2>5. QED
    BY <2>1, <2>4 DEF i
<1>4. ASSUME Runs(b, c, x)
      PROVE  Done(Completed(b, c, input), c, x)
  <2>1. Completed(b, c, input) = EndCall(b, c)
    BY <1>4 DEF Completed, Runs, Begun
  <2>2. QED
    BY <1>4, <2>1, CallEnds DEF Runs
<1>5. QED
  BY <1>1, <1>2, <1>3, <1>4

-----------------------------------------------------------------------------
(* The end of a run: what its loops do for one call.                       *)

\* What waits is a call with an input.
LEMMA PendingTypes ==
    ASSUME NEW b \in Bridges, NEW i \in 1..Len(b.pending)
    PROVE  b.pending[i].call \in Calls /\ b.pending[i].input \in Inputs
<1>1. b.pending \in Seq(PendingCalls)
  BY DEF Bridges
<1>2. b.pending[i] \in PendingCalls
  BY <1>1
<1>3. QED
  BY <1>2 DEF PendingCalls, Inputs

\* A step of the first loop that is about another call.
LEMMA FlushOther ==
    ASSUME NEW y \in Bridges, NEW m \in Bridges, NEW r \in Bridges, NEW d \in Calls,
           NEW input \in Inputs, NEW c, d # c,
           Opens(y, m, d), ShowsArgs(m, r, d, input)
    PROVE  Untouched(y, r, c)
BY UntouchedByOpen, UntouchedByArgs, UntouchedTwice

\* ... and it keeps the run.
LEMMA FlushKeepsRun ==
    ASSUME NEW y, NEW m, NEW r, NEW d, NEW input, Opens(y, m, d), ShowsArgs(m, r, d, input)
    PROVE  SameRun(y, r)
BY DEF Opens, ShowsArgs, SameRun

\* What Clears keeps.
LEMMA ClearKeeps ==
    ASSUME NEW g, NEW r, Clears(g, r)
    PROVE  /\ r \in Bridges /\ r.pending = <<>> /\ r.sink = g.sink
           /\ r.open = g.open /\ r.argsSent = g.argsSent
           /\ \A c : SameShown(g, r, c) /\ SameEnds(g.wire, r.wire)
BY SameOutShown DEF Clears, SameRun, SameReader

\* The first loop shows a call that waits,
LEMMA FlushShows ==
    ASSUME NEW b \in Bridges, Listens(b), Distinct(b), NEW c \in Calls,
           NEW x \in Inputs, Waits(b, c, x)
    PROVE  LET r == FlushPending(b)
           IN  /\ r \in Bridges /\ Listens(r) /\ r.pending = <<>> /\ c \in r.open
               /\ Shown(r, c, Begins(x), x)
<1> DEFINE p == b.pending
           n == Len(p)
           k == PendingAt(b, c)
<1>1. k \in DOMAIN p /\ p[k].call = c /\ p[k].input = x
  BY PendingAtFacts DEF Waits, PendingInput
<1>2. n \in Nat /\ DOMAIN p = 1..n
  BY DEF Bridges
<1>3. \A i \in 1..n : i # k => p[i].call # c
  BY <1>1, <1>2 DEF Distinct
<1>4. PICK g : FlushedBy(b, g) /\ Clears(g[n], FlushPending(b))
  BY FlushPendingFacts
<1>5. /\ g[0] = b /\ \A i \in 0..n : g[i] \in Bridges
      /\ \A i \in 1..n : \E m \in Bridges :
          /\ Opens(g[i - 1], m, p[i].call)
          /\ ShowsArgs(m, g[i], p[i].call, p[i].input)
  BY <1>4 DEF FlushedBy
<1>6. \A i \in 1..n : p[i].call \in Calls /\ p[i].input \in Inputs
  BY PendingTypes
<1> HIDE DEF k
<1> DEFINE Before(i) == c \notin g[i].argsSent /\ Shown(g[i], c, {}, x)
           After(i) == c \in g[i].open /\ Shown(g[i], c, Begins(x), x)
           T == {i \in 0..n : /\ Listens(g[i])
                              /\ i < k => Before(i)
                              /\ i >= k => After(i)}
<1>7. 0 \in T
  <2>1. Before(0) /\ 0 < k
    BY <1>1, <1>2, <1>5 DEF Waits
  <2> HIDE DEF Before, After
  <2>2. QED
    BY <1>1, <1>2, <1>5, <2>1
<1>8. \A i \in 0..n : i \in T /\ i < n => i + 1 \in T
  <2>1. SUFFICES ASSUME NEW i \in 0..n, i \in T, i < n
                 PROVE  i + 1 \in T
    OBVIOUS
  <2>2. i + 1 \in 1..n /\ (i + 1) - 1 = i /\ i + 1 \in 0..n
    BY <1>2, <2>1
  <2> DEFINE j == i + 1
  <2>3. j \in 1..n /\ j \in 0..n /\ g[i] \in Bridges /\ g[j] \in Bridges /\ Listens(g[i])
    BY <1>5, <2>1, <2>2
  <2>4. PICK m \in Bridges : /\ Opens(g[i], m, p[j].call)
                             /\ ShowsArgs(m, g[j], p[j].call, p[j].input)
    BY <1>5, <2>2
  <2> HIDE DEF j
  <2>5. Listens(g[j])
    BY <2>3, <2>4, FlushKeepsRun DEF SameRun, Listens
  <2>6. CASE j # k
    <3>1. Untouched(g[i], g[j], c)
      BY <1>3, <1>6, <2>3, <2>4, <2>6, FlushOther
    <3>2. /\ Before(i) => Before(j)
          /\ After(i) => After(j)
      BY <3>1 DEF Untouched, SameShown
    <3>3. /\ j < k => Before(j)
          /\ j >= k => After(j)
      <4> HIDE DEF Before, After
      <4>1. (j < k => i < k) /\ (j >= k => i >= k)
        BY <1>1, <1>2, <2>1, <2>6 DEF j
      <4>2. QED
        BY <2>1, <3>2, <4>1
    <3>4. QED
      BY <2>3, <2>5, <3>3 DEF j
  <2>7. CASE j = k
    <3>1. p[j].call = c /\ p[j].input = x
      BY <1>1, <2>7
    <3>2. i < k
      BY <1>1, <1>2, <2>1, <2>7 DEF j
    <3>3. c \notin g[i].argsSent /\ Shown(g[i], c, {}, x)
      BY <2>1, <3>2
    <3>4. Shown(g[j], c, Begins(x), x)
      BY <2>3, <2>4, <3>1, <3>3, CallOpened DEF Opens
    <3>5. c \in g[j].open
      BY <2>4, <3>1 DEF Opens, ShowsArgs
    <3>6. ~(j < k)
      BY <1>1, <1>2, <2>7
    <3>7. QED
      BY <2>3, <2>5, <3>4, <3>5, <3>6 DEF j
  <2>8. QED
    BY <2>6, <2>7
<1>9. 0..n \subseteq T
  <2> HIDE DEF T, n
  <2>1. QED
    BY <1>2, <1>7, <1>8, IntervalInduction
<1>10. n \in T /\ n >= k
  BY <1>1, <1>2, <1>9
<1>11. Listens(g[n]) /\ After(n)
  BY <1>10
<1>12. QED
  BY <1>4, <1>11, ClearKeeps DEF SameShown, Listens

\* ... and leaves one that does not as it was.
LEMMA FlushKeeps ==
    ASSUME NEW b \in Bridges, NEW c, ~IsPending(b, c)
    PROVE  LET r == FlushPending(b)
           IN  /\ r \in Bridges /\ r.sink = b.sink /\ r.pending = <<>>
               /\ c \in r.open <=> c \in b.open
               /\ c \in r.argsSent <=> c \in b.argsSent
               /\ SameShown(b, r, c) /\ SameEnds(b.wire, r.wire)
<1> DEFINE p == b.pending
           n == Len(p)
<1>1. n \in Nat /\ DOMAIN p = 1..n
  BY DEF Bridges
<1>2. \A i \in 1..n : p[i].call # c
  BY <1>1 DEF IsPending
<1>3. PICK g : FlushedBy(b, g) /\ Clears(g[n], FlushPending(b))
  BY FlushPendingFacts
<1>4. /\ g[0] = b /\ \A i \in 0..n : g[i] \in Bridges
      /\ \A i \in 1..n : \E m \in Bridges :
          /\ Opens(g[i - 1], m, p[i].call)
          /\ ShowsArgs(m, g[i], p[i].call, p[i].input)
  BY <1>3 DEF FlushedBy
<1>5. \A i \in 1..n : p[i].call \in Calls /\ p[i].input \in Inputs
  BY PendingTypes
<1> DEFINE T == {i \in 0..n : g[i].sink = b.sink /\ Untouched(b, g[i], c)}
<1>6. 0 \in T
  BY <1>1, <1>4, UntouchedSame DEF SameCalls, SameOut, SameReader
<1>7. \A i \in 0..n : i \in T /\ i < n => i + 1 \in T
  <2>1. SUFFICES ASSUME NEW i \in 0..n, g[i].sink = b.sink, Untouched(b, g[i], c), i < n
                 PROVE  g[i + 1].sink = b.sink /\ Untouched(b, g[i + 1], c)
    BY <1>1
  <2>2. i + 1 \in 1..n /\ (i + 1) - 1 = i /\ i + 1 \in 0..n
    BY <1>1, <2>1
  <2> DEFINE j == i + 1
  <2>3. j \in 1..n /\ g[i] \in Bridges /\ g[j] \in Bridges
    BY <1>4, <2>1, <2>2
  <2>4. PICK m \in Bridges : /\ Opens(g[i], m, p[j].call)
                             /\ ShowsArgs(m, g[j], p[j].call, p[j].input)
    BY <1>4, <2>2
  <2> HIDE DEF j
  <2>5. Untouched(g[i], g[j], c)
    BY <1>2, <1>5, <2>3, <2>4, FlushOther
  <2>6. g[j].sink = b.sink
    BY <2>1, <2>4, FlushKeepsRun DEF SameRun
  <2>7. Untouched(b, g[j], c)
    BY <2>1, <2>5, UntouchedTwice
  <2>8. QED
    BY <2>6, <2>7 DEF j
<1>8. 0..n \subseteq T
  <2> HIDE DEF T, n
  <2>1. QED
    BY <1>1, <1>6, <1>7, IntervalInduction
<1>9. g[n].sink = b.sink /\ Untouched(b, g[n], c)
  BY <1>1, <1>8
<1>10. QED
  BY <1>3, <1>9, ClearKeeps DEF Untouched, SameShown, SameEnds

\* What ForgetsOpen keeps.
LEMMA ForgetKeeps ==
    ASSUME NEW g, NEW r, ForgetsOpen(g, r)
    PROVE  /\ r \in Bridges /\ r.open = {} /\ r.sink = g.sink
           /\ r.pending = g.pending /\ r.argsSent = g.argsSent
           /\ \A c : SameShown(g, r, c) /\ SameEnds(g.wire, r.wire)
BY SameOutShown DEF ForgetsOpen, SameRun, SameReader

\* A step of the second loop: whatever its call, the bridge keeps its calls.
LEMMA EndKeepsRun ==
    ASSUME NEW b, NEW y, NEW r, NEW d, EndsStep(b, y, r, d)
    PROVE  SameRun(y, r) /\ SameCalls(y, r)
BY DEF EndsStep, EmitsEnd, Says, SameRun, SameCalls

\* A step of it for another call, or none that is open, leaves a call alone.
LEMMA EndOther ==
    ASSUME NEW b, NEW y \in Bridges, NEW r, NEW d \in Calls, NEW c,
           d # c \/ c \notin b.open, EndsStep(b, y, r, d)
    PROVE  Untouched(y, r, c)
<1>1. CASE d \in b.open
  BY <1>1, UntouchedByEmitEnd DEF EndsStep
<1>2. CASE d \notin b.open
  BY <1>2, UntouchedSame DEF EndsStep, SameCalls, SameOut, SameReader
<1>3. QED
  BY <1>1, <1>2

\* The second loop ends a call that is open,
LEMMA EndsShow ==
    ASSUME NEW b \in Bridges, Listens(b), NEW rank \in Ranks, NEW c \in Calls,
           NEW x \in Inputs, c \in b.open, Shown(b, c, Begins(x), x)
    PROVE  Shown(EndCalls(b, rank), c, Wanted(x), x)
<1> DEFINE n == Len(rank)
<1>1. /\ rank \in Seq(Calls) /\ n \in Nat
      /\ \A i, j \in 1..n : rank[i] = rank[j] => i = j
  BY RankFacts
<1>2. PICK k \in 1..n : rank[k] = c
  BY RankFacts
<1>3. \A i \in 1..n : rank[i] \in Calls /\ (i # k => rank[i] # c)
  BY <1>1, <1>2
<1>4. PICK g : EndedBy(b, rank, g) /\ ForgetsOpen(g[n], EndCalls(b, rank))
  BY <1>1, EndCallsFacts
<1>5. /\ g[0] = b /\ \A i \in 0..n : g[i] \in Bridges
      /\ \A i \in 1..n : EndsStep(b, g[i - 1], g[i], rank[i])
  BY <1>4 DEF EndedBy
<1> DEFINE Before(i) == Shown(g[i], c, Begins(x), x)
           After(i) == Shown(g[i], c, Wanted(x), x)
           T == {i \in 0..n : /\ Listens(g[i])
                              /\ i < k => Before(i)
                              /\ i >= k => After(i)}
<1>6. 0 \in T
  BY <1>1, <1>2, <1>5
<1>7. \A i \in 0..n : i \in T /\ i < n => i + 1 \in T
  <2>1. SUFFICES ASSUME NEW i \in 0..n, i \in T, i < n
                 PROVE  i + 1 \in T
    OBVIOUS
  <2>2. i + 1 \in 1..n /\ (i + 1) - 1 = i /\ i + 1 \in 0..n
    BY <1>1, <2>1
  <2> DEFINE j == i + 1
  <2>3. /\ j \in 1..n /\ j \in 0..n /\ g[i] \in Bridges /\ g[j] \in Bridges /\ Listens(g[i])
        /\ EndsStep(b, g[i], g[j], rank[j])
    BY <1>5, <2>1, <2>2
  <2> HIDE DEF j
  <2>4. Listens(g[j])
    BY <2>3, EndKeepsRun DEF SameRun, Listens
  <2>5. CASE j # k
    <3>1. Untouched(g[i], g[j], c)
      BY <1>3, <2>3, <2>5, EndOther
    <3>2. /\ Before(i) => Before(j)
          /\ After(i) => After(j)
      BY <3>1 DEF Untouched, SameShown
    <3>3. /\ j < k => Before(j)
          /\ j >= k => After(j)
      <4> HIDE DEF Before, After
      <4>1. (j < k => i < k) /\ (j >= k => i >= k)
        BY <1>1, <2>1, <2>5 DEF j
      <4>2. QED
        BY <2>1, <3>2, <4>1
    <3>4. QED
      BY <2>3, <2>4, <3>3 DEF j
  <2>6. CASE j = k
    <3>1. EmitsEnd(g[i], g[j], c)
      BY <1>2, <2>3, <2>6 DEF EndsStep
    <3>2. i < k
      BY <1>1, <1>2, <2>1, <2>6 DEF j
    <3>3. Shown(g[i], c, Begins(x), x)
      BY <2>1, <3>2
    <3>4. Shown(g[j], c, Wanted(x), x)
      BY <2>3, <3>1, <3>3, LineEnds
    <3>5. ~(j < k)
      BY <1>1, <2>6
    <3>6. QED
      BY <2>3, <2>4, <3>4, <3>5 DEF j
  <2>7. QED
    BY <2>5, <2>6
<1>8. 0..n \subseteq T
  <2> HIDE DEF T, n
  <2>1. QED
    BY <1>1, <1>6, <1>7, IntervalInduction
<1>9. n \in T /\ n >= k
  BY <1>1, <1>2, <1>8
<1>10. After(n)
  BY <1>9
<1>11. QED
  BY <1>4, <1>10, ForgetKeeps DEF SameShown

\* ... and leaves one that is not as it was.
LEMMA EndsKeep ==
    ASSUME NEW b \in Bridges, NEW rank \in Ranks, NEW c, c \notin b.open
    PROVE  LET r == EndCalls(b, rank)
           IN  /\ c \in r.argsSent <=> c \in b.argsSent
               /\ SameShown(b, r, c) /\ SameEnds(b.wire, r.wire)
<1> DEFINE n == Len(rank)
<1>1. rank \in Seq(Calls) /\ n \in Nat /\ \A i \in 1..n : rank[i] \in Calls
  BY RankFacts
<1>2. PICK g : EndedBy(b, rank, g) /\ ForgetsOpen(g[n], EndCalls(b, rank))
  BY <1>1, EndCallsFacts
<1>3. /\ g[0] = b /\ \A i \in 0..n : g[i] \in Bridges
      /\ \A i \in 1..n : EndsStep(b, g[i - 1], g[i], rank[i])
  BY <1>2 DEF EndedBy
<1> DEFINE T == {i \in 0..n : Untouched(b, g[i], c)}
<1>4. 0 \in T
  BY <1>1, <1>3, UntouchedSame DEF SameCalls, SameOut, SameReader
<1>5. \A i \in 0..n : i \in T /\ i < n => i + 1 \in T
  <2>1. SUFFICES ASSUME NEW i \in 0..n, Untouched(b, g[i], c), i < n
                 PROVE  Untouched(b, g[i + 1], c)
    BY <1>1
  <2>2. i + 1 \in 1..n /\ (i + 1) - 1 = i
    BY <1>1, <2>1
  <2> DEFINE j == i + 1
  <2>3. j \in 1..n /\ g[i] \in Bridges /\ EndsStep(b, g[i], g[j], rank[j])
    BY <1>3, <2>1, <2>2
  <2> HIDE DEF j
  <2>4. Untouched(g[i], g[j], c)
    BY <1>1, <2>3, EndOther
  <2>5. Untouched(b, g[j], c)
    BY <2>1, <2>4, UntouchedTwice
  <2>6. QED
    BY <2>5 DEF j
<1>6. 0..n \subseteq T
  <2> HIDE DEF T, n
  <2>1. QED
    BY <1>1, <1>4, <1>5, IntervalInduction
<1>7. Untouched(b, g[n], c)
  BY <1>1, <1>6
<1>8. QED
  BY <1>2, <1>7, ForgetKeeps DEF Untouched, SameShown, SameEnds

-----------------------------------------------------------------------------
(* The end of a run, for one call.                                         *)

\* No event of a call ends a run.
LEMMA ClosingEnds ==
    ASSUME NEW b \in Bridges, NEW rank \in Seq(Calls)
    PROVE  SameEnds(b.wire, CloseCalls(b, rank).wire)
<1> DEFINE D == {r \in Bridges : SameEnds(b.wire, r.wire)}
<1>1. b \in D
  BY DEF SameEnds
<1>2. ASSUME NEW m \in D, NEW r \in Bridges, CallStep(m, r)
      PROVE  r \in D
  <2>1. m.wire \in Seq(Events) /\ SameEnds(b.wire, m.wire)
    BY <1>2 DEF Bridges
  <2>2. CASE SameOut(m, r)
    BY <2>1, <2>2 DEF SameOut, SameEnds
  <2>3. ASSUME NEW e \in Events, e.kind \in CallKinds, Told(m, r, e)
        PROVE  r \in D
    <3>1. r.wire = m.wire \/ r.wire = Append(m.wire, e)
      BY <2>3 DEF Told, WireAfter
    <3>2. e.kind \notin {"runFinished", "runError"}
      BY <2>3 DEF CallKinds
    <3>3. SameEnds(m.wire, Append(m.wire, e))
      BY <2>1, <3>2, EndsOnWire DEF SameEnds
    <3>4. QED
      BY <2>1, <3>1, <3>3 DEF SameEnds
  <2>4. QED
    BY <1>2, <2>2, <2>3 DEF CallStep
<1>3. CallsStayIn(D)
  BY <1>2 DEF CallsStayIn
<1> HIDE DEF D
<1>4. CloseCalls(b, rank) \in D
  BY <1>1, <1>3, CallHandlersStay
<1>5. QED
  BY <1>4 DEF D

\* When nobody is told anything nothing is shown.
LEMMA ClosingUnseen ==
    ASSUME NEW b \in Bridges, ~Listens(b), NEW rank \in Seq(Calls)
    PROVE  SameOut(b, CloseCalls(b, rank))
<1> DEFINE D == {r \in Bridges : r.sink = b.sink /\ SameOut(b, r)}
<1>1. b \in D /\ CallsStayIn(D)
  BY DEF CallsStayIn, CallStep, SameRun, SameOut, Told, WireAfter, AccAfter, Listens
<1> HIDE DEF D
<1>2. CloseCalls(b, rank) \in D
  BY <1>1, CallHandlersStay
<1>3. QED
  BY <1>2 DEF D

\* Together they show the whole call, or lose it if there is no stream.
LEMMA ClosedCall ==
    ASSUME NEW b \in Bridges, Distinct(b), NEW rank \in Ranks, NEW c \in Calls, NEW x \in Inputs
    PROVE  LET r == CloseCalls(b, rank)
           IN  /\ Waits(b, c, x) \/ Runs(b, c, x) =>
                     IF Listens(b) THEN Done(r, c, x) ELSE Lost(r, c, x)
               /\ Done(b, c, x) => Done(r, c, x)
               /\ Lost(b, c, x) => Lost(r, c, x)
               /\ Unseen(b, c) => Unseen(r, c)
<1> DEFINE m == FlushPending(b)
           r == CloseCalls(b, rank)
<1>1. rank \in Seq(Calls)
  BY RankFacts
<1>2. r = EndCalls(m, rank)
  BY DEF CloseCalls
<1>3. ~IsPending(r, c) /\ c \notin r.open
  BY <1>1, CloseCallsFacts DEF IsPending
<1>4. ~Listens(b) => SameShown(b, r, c)
  <2>1. SameReader(b, r)
    BY <1>1, CloseCallsFacts DEF SameRun, SameReader
  <2>2. QED
    BY <1>1, <2>1, ClosingUnseen, SameOutShown
<1>5. ASSUME Listens(b), Waits(b, c, x)
      PROVE  Done(r, c, x)
  <2>1. /\ m \in Bridges /\ Listens(m) /\ c \in m.open
        /\ Shown(m, c, Begins(x), x)
    BY <1>5, FlushShows
  <2> HIDE DEF m
  <2>2. Shown(r, c, Wanted(x), x)
    BY <1>2, <2>1, EndsShow
  <2> HIDE DEF r
  <2>3. QED
    BY <1>3, <2>2 DEF Done
<1>6. ~IsPending(b, c) =>
        /\ m \in Bridges /\ m.sink = b.sink
        /\ c \in m.open <=> c \in b.open
        /\ c \in m.argsSent <=> c \in b.argsSent
        /\ SameShown(b, m, c)
  BY FlushKeeps
<1> HIDE DEF m
<1>7. ASSUME Listens(b), Runs(b, c, x)
      PROVE  Done(r, c, x)
  <2>1. /\ m \in Bridges /\ Listens(m) /\ c \in m.open
        /\ Shown(m, c, Begins(x), x)
    BY <1>6, <1>7 DEF Runs, Begun, SameShown, Listens
  <2>2. Shown(r, c, Wanted(x), x)
    BY <1>2, <2>1, EndsShow
  <2> HIDE DEF r
  <2>3. QED
    BY <1>3, <2>2 DEF Done
<1>8. ASSUME ~Listens(b), Waits(b, c, x) \/ Runs(b, c, x)
      PROVE  Lost(r, c, x)
  <2> HIDE DEF r
  <2>1. QED
    BY <1>3, <1>4, <1>8 DEF Waits, Runs, Begun, Lost, SameShown
<1>9. ASSUME ~IsPending(b, c), c \notin b.open
      PROVE  /\ c \in r.argsSent <=> c \in b.argsSent
             /\ SameShown(b, r, c)
  <2>1. m \in Bridges /\ c \notin m.open
    BY <1>6, <1>9
  <2>2. /\ c \in r.argsSent <=> c \in m.argsSent
        /\ SameShown(m, r, c)
    BY <1>2, <2>1, EndsKeep
  <2>3. QED
    BY <1>6, <1>9, <2>2 DEF SameShown
<1> HIDE DEF r
<1>10. /\ Done(b, c, x) => Done(r, c, x)
       /\ Lost(b, c, x) => Lost(r, c, x)
       /\ Unseen(b, c) => Unseen(r, c)
  BY <1>3, <1>9 DEF Done, Lost, Unseen, SameShown
<1>11. QED
  BY <1>5, <1>7, <1>8, <1>10 DEF r

\* An event of the run.
LEMMA RunEventViews ==
    ASSUME NEW b \in Bridges, NEW r, NEW c, NEW x, NEW kind, NEW t \in Nat,
           kind \in {"runStarted", "runFinished", "runError", "interrupt"},
           ~IsPending(r, c), c \notin r.open, c \in r.argsSent => c \in b.argsSent,
           Hears(b, r, RunEvent(kind, t))
    PROVE  /\ Waits(b, c, x) \/ Runs(b, c, x) \/ Lost(b, c, x) => Lost(r, c, x)
           /\ Done(b, c, x) => Done(r, c, x)
           /\ Unseen(b, c) => Unseen(r, c)
<1> DEFINE e == RunEvent(kind, t)
<1>1. e \in Events /\ e.kind \notin CallKinds
  <2>1. e \in Events
    BY EventTypes
  <2>2. e.kind = kind /\ kind \notin CallKinds
    BY DEF RunEvent, CallKinds
  <2>3. QED
    BY <2>1, <2>2
<1> HIDE DEF e
<1>2. SameShown(b, r, c)
  <2>1. Hears(b, r, e)
    BY DEF e
  <2>2. QED
    BY <1>1, <2>1, OffShown
<1>3. QED
  BY <1>2 DEF SameShown, Waits, Runs, Begun, Lost, Done, Unseen

\* So does the end of a run, whose own events are about no call.
LEMMA EndedCall ==
    ASSUME NEW b \in Bridges, NEW S, Holds(b, S), NEW r, NEW rank \in Ranks,
           NEW kind \in {"runFinished", "runError"}, Ends(b, r, rank, kind),
           NEW c \in Calls, NEW x \in Inputs
    PROVE  /\ Waits(b, c, x) \/ Runs(b, c, x) =>
                 IF Listens(b) THEN Done(r, c, x) ELSE Lost(r, c, x)
           /\ Done(b, c, x) => Done(r, c, x)
           /\ Lost(b, c, x) => Lost(r, c, x)
           /\ Unseen(b, c) => Unseen(r, c)
<1>1. rank \in Seq(Calls) /\ b.turn \in Nat
  BY RankFacts DEF Bridges
<1>2. PICK m \in Bridges :
        /\ Silences(b, m)
        /\ Leaves(CloseCalls(m, rank), r, RunEvent(kind, b.turn),
                  IF b.sink = "run" THEN "ended" ELSE b.sink)
  BY DEF Ends
<1>3. Untouched(b, m, c) /\ Distinct(m) /\ m.sink = b.sink /\ (Listens(m) <=> Listens(b))
  <2>1. Holds(m, S) /\ SameRun(b, m)
    <3>1. 0 \in Nat
      OBVIOUS
    <3>2. QED
      BY <1>2, <3>1, HoldsFrames
  <2>2. QED
    BY <1>2, <2>1, UntouchedFrames DEF Holds, SameRun, Listens
<1> DEFINE y == CloseCalls(m, rank)
<1>4. y \in Bridges /\ y.pending = <<>> /\ y.open = {} /\ y.sink = b.sink
  BY <1>1, <1>3, CloseCallsFacts DEF SameRun
<1>5. /\ Waits(m, c, x) \/ Runs(m, c, x) =>
            IF Listens(m) THEN Done(y, c, x) ELSE Lost(y, c, x)
      /\ Done(m, c, x) => Done(y, c, x)
      /\ Lost(m, c, x) => Lost(y, c, x)
      /\ Unseen(m, c) => Unseen(y, c)
  BY <1>3, ClosedCall
<1>6. /\ Hears(y, r, RunEvent(kind, b.turn))
      /\ r.pending = y.pending /\ r.open = y.open /\ r.argsSent = y.argsSent
  <2>1. /\ Told(y, r, RunEvent(kind, b.turn)) /\ SameCalls(y, r)
        /\ r.sink = IF b.sink = "run" THEN "ended" ELSE b.sink
    BY <1>2 DEF Leaves
  <2>2. SameReader(y, r)
    BY <1>4, <2>1 DEF SameReader
  <2>3. QED
    BY <2>1, <2>2 DEF SameCalls, Hears
<1> HIDE DEF y
<1>7. /\ Lost(y, c, x) => Lost(r, c, x)
      /\ Done(y, c, x) => Done(r, c, x)
      /\ Unseen(y, c) => Unseen(r, c)
  <2>1. ~IsPending(r, c) /\ c \notin r.open
    BY <1>4, <1>6 DEF IsPending
  <2>2. QED
    BY <1>1, <1>4, <1>6, <2>1, RunEventViews
<1>8. QED
  BY <1>3, <1>5, <1>7, UntouchedViews

\* The streams whose run is over.
LEMMA EndedRuns ==
    ASSUME NEW b \in Bridges, NEW r, NEW rank \in Ranks,
           NEW kind \in {"runFinished", "runError"}, Ends(b, r, rank, kind)
    PROVE  /\ \A t : RunEnds(r.wire, t) <=>
                        RunEnds(b.wire, t) \/ (b.sink = "run" /\ t = b.turn)
           /\ r.pending = <<>> /\ r.open = {}
<1>1. rank \in Seq(Calls) /\ b.turn \in Nat
  BY RankFacts DEF Bridges
<1>2. PICK m \in Bridges :
        /\ Silences(b, m)
        /\ Leaves(CloseCalls(m, rank), r, RunEvent(kind, b.turn),
                  IF b.sink = "run" THEN "ended" ELSE b.sink)
  BY DEF Ends
<1> DEFINE y == CloseCalls(m, rank)
           e == RunEvent(kind, b.turn)
<1>3. /\ y \in Bridges /\ y.wire \in Seq(Events) /\ y.sink = b.sink
      /\ y.pending = <<>> /\ y.open = {}
  <2>1. SameRun(b, m)
    BY <1>2 DEF Silences, ClosesReasoning, ClosesMessage, SameRun
  <2>2. y \in Bridges /\ SameRun(m, y) /\ y.pending = <<>> /\ y.open = {}
    BY <1>1, CloseCallsFacts
  <2> HIDE DEF y
  <2>3. QED
    BY <2>1, <2>2 DEF SameRun, Bridges
<1>4. SameEnds(b.wire, y.wire)
  <2>1. SameEnds(b.wire, m.wire)
    BY <1>2, UntouchedFrames DEF Untouched
  <2>2. SameEnds(m.wire, y.wire)
    BY <1>1, ClosingEnds
  <2> HIDE DEF y
  <2>3. QED
    BY <2>1, <2>2 DEF SameEnds
<1>5. /\ r.pending = y.pending /\ r.open = y.open
      /\ r.wire = IF b.sink = "run" THEN Append(y.wire, e) ELSE y.wire
  <2>1. Leaves(y, r, e, IF b.sink = "run" THEN "ended" ELSE b.sink)
    BY <1>2
  <2> HIDE DEF y, e
  <2>2. QED
    BY <1>3, <2>1 DEF Leaves, SameCalls, Told, WireAfter
<1>6. e \in Events /\ e.kind \in {"runFinished", "runError"} /\ e.turn = b.turn
  <2>1. e \in Events
    BY <1>1, EventTypes
  <2>2. QED
    BY <2>1 DEF RunEvent
<1> HIDE DEF y, e
<1>7. \A t : RunEnds(Append(y.wire, e), t) <=> RunEnds(y.wire, t) \/ t = b.turn
  BY <1>3, <1>6, EndsOnWire
<1>8. QED
  BY <1>3, <1>4, <1>5, <1>7 DEF SameEnds

-----------------------------------------------------------------------------
(* What the history tells of one call.                                     *)

\* The record of the start of the call.
StartsAt(h, c, k) == k \in DOMAIN h /\ h[k].kind = "toolCall" /\ h[k].call = c

StartedIn(h, c) == \E k : StartsAt(h, c, k)

\* The call has no record,
Untold(h, c) == \A i \in DOMAIN h : h[i].call # c

\* ... has been given these inputs,
GivenIn(h, c) ==
    {i \in DOMAIN h : h[i].call = c /\ h[i].kind # "toolCall" /\ h[i].input # Nil}

IsFirst(i, S) == i \in S /\ \A j \in S : i <= j

\* x is the first input of the updates of the call, or that of its start.
InputIs(h, c, x) ==
    IF GivenIn(h, c) = {} THEN \A k : StartsAt(h, c, k) => h[k].input = x
    ELSE \E i : IsFirst(i, GivenIn(h, c)) /\ h[i].input = x

\* ... had a stream whenever it was updated,
FollowedIn(h, c) == \A i \in DOMAIN h : h[i].call = c => h[i].attached

\* ... has been completed.
CompletedIn(h, c) == \E i \in DOMAIN h : h[i].kind = "completed" /\ h[i].call = c

\* The call belongs to turn t.
TurnIs(h, c, t) == \A i \in DOMAIN h : h[i].call = c => h[i].turn = t

\* h and v tell the same of the call.
SameStory(h, v, c) ==
    /\ StartedIn(v, c) <=> StartedIn(h, c)
    /\ Untold(v, c) <=> Untold(h, c)
    /\ GivenIn(v, c) = GivenIn(h, c)
    /\ \A x : InputIs(v, c, x) <=> InputIs(h, c, x)
    /\ FollowedIn(v, c) <=> FollowedIn(h, c)
    /\ CompletedIn(v, c) <=> CompletedIn(h, c)
    /\ \A t : TurnIs(v, c, t) <=> TurnIs(h, c, t)

\* A history tells the same as itself.
LEMMA SameHistory ==
    ASSUME NEW h, NEW c
    PROVE  SameStory(h, h, c)
BY DEF SameStory

\* The record of another call, or of none.
LEMMA OtherRecord ==
    ASSUME NEW h \in Seq(Records), NEW u \in Records, NEW c, u.call # c
    PROVE  SameStory(h, Append(h, u), c)
<1> DEFINE v == Append(h, u)
           n == Len(h) + 1
<1>1. /\ DOMAIN h = 1..Len(h) /\ DOMAIN v = 1..n /\ v[n] = u /\ n \notin DOMAIN h
      /\ \A i \in DOMAIN h : v[i] = h[i] /\ n \in Nat
  BY HistoryFacts
<1>2. DOMAIN v = DOMAIN h \cup {n}
  <2>1. Len(h) \in Nat
    OBVIOUS
  <2> HIDE DEF v
  <2>2. QED
    BY <1>1, <2>1
<1> HIDE DEF v, n
<1>3. \A k : StartsAt(v, c, k) <=> StartsAt(h, c, k)
  BY <1>1, <1>2 DEF StartsAt
<1>4. GivenIn(v, c) = GivenIn(h, c) /\ \A i \in GivenIn(h, c) : v[i].input = h[i].input
  BY <1>1, <1>2 DEF GivenIn
<1>5. \A x : InputIs(v, c, x) <=> InputIs(h, c, x)
  <2>1. \A k : StartsAt(h, c, k) => v[k].input = h[k].input
    BY <1>1 DEF StartsAt
  <2>2. QED
    BY <1>3, <1>4, <2>1 DEF InputIs, IsFirst
<1>6. /\ StartedIn(v, c) <=> StartedIn(h, c)
      /\ Untold(v, c) <=> Untold(h, c)
      /\ FollowedIn(v, c) <=> FollowedIn(h, c)
      /\ CompletedIn(v, c) <=> CompletedIn(h, c)
      /\ \A t : TurnIs(v, c, t) <=> TurnIs(h, c, t)
  BY <1>1, <1>2, <1>3 DEF StartedIn, Untold, FollowedIn, CompletedIn, TurnIs
<1>7. SameStory(h, v, c)
  BY <1>4, <1>5, <1>6 DEF SameStory
<1>8. QED
  BY <1>7 DEF v

\* The record of its start.
LEMMA StartRecord ==
    ASSUME NEW h \in Seq(Records), NEW u \in Records, NEW c, u.call = c,
           u.kind = "toolCall", Untold(h, c)
    PROVE  LET v == Append(h, u)
           IN  /\ StartedIn(v, c) /\ GivenIn(v, c) = {} /\ InputIs(v, c, u.input)
               /\ ~CompletedIn(v, c) /\ TurnIs(v, c, u.turn)
               /\ FollowedIn(v, c) => u.attached
<1> DEFINE v == Append(h, u)
           n == Len(h) + 1
<1>1. /\ DOMAIN h = 1..Len(h) /\ DOMAIN v = 1..n /\ v[n] = u /\ n \notin DOMAIN h
      /\ \A i \in DOMAIN h : v[i] = h[i] /\ n \in Nat
  BY HistoryFacts
<1>2. DOMAIN v = DOMAIN h \cup {n}
  <2>1. Len(h) \in Nat
    OBVIOUS
  <2> HIDE DEF v
  <2>2. QED
    BY <1>1, <2>1
<1> HIDE DEF v, n
<1>3. \A i \in DOMAIN v : v[i].call = c => i = n
  BY <1>1, <1>2 DEF Untold
<1>4. StartsAt(v, c, n) /\ \A k : StartsAt(v, c, k) => k = n
  BY <1>1, <1>2, <1>3 DEF StartsAt
<1>5. GivenIn(v, c) = {}
  BY <1>1, <1>3 DEF GivenIn
<1>6. InputIs(v, c, u.input)
  BY <1>1, <1>4, <1>5 DEF InputIs
<1>7. ~CompletedIn(v, c) /\ TurnIs(v, c, u.turn) /\ (FollowedIn(v, c) => u.attached)
  BY <1>1, <1>2, <1>3 DEF CompletedIn, TurnIs, FollowedIn
<1>8. QED
  BY <1>4, <1>5, <1>6, <1>7 DEF StartedIn, v

\* The record of an update of it.
LEMMA UpdateRecord ==
    ASSUME NEW h \in Seq(Records), NEW u \in Records, NEW c, u.call = c,
           u.kind \in {"progress", "completed"}, NEW x, InputIs(h, c, x)
    PROVE  LET v == Append(h, u)
           IN  /\ StartedIn(h, c) => StartedIn(v, c)
               /\ GivenIn(v, c) = {} <=> GivenIn(h, c) = {} /\ u.input = Nil
               /\ InputIs(v, c, IF GivenIn(h, c) = {} /\ u.input # Nil THEN u.input ELSE x)
               /\ CompletedIn(v, c) <=> CompletedIn(h, c) \/ u.kind = "completed"
               /\ TurnIs(h, c, u.turn) => TurnIs(v, c, u.turn)
               /\ FollowedIn(v, c) <=> FollowedIn(h, c) /\ u.attached
<1> DEFINE v == Append(h, u)
           n == Len(h) + 1
<1>1. /\ DOMAIN h = 1..Len(h) /\ DOMAIN v = 1..n /\ v[n] = u /\ n \notin DOMAIN h
      /\ \A i \in DOMAIN h : v[i] = h[i] /\ i < n
      /\ n \in Nat
  <2>1. \A i \in 1..Len(h) : i < n
    <3>1. Len(h) \in Nat
      OBVIOUS
    <3>2. QED
      BY <3>1
  <2>2. QED
    BY <2>1, HistoryFacts
<1>2. DOMAIN v = DOMAIN h \cup {n}
  <2>1. Len(h) \in Nat
    OBVIOUS
  <2> HIDE DEF v
  <2>2. QED
    BY <1>1, <2>1
<1> HIDE DEF v, n
<1>3. \A k : StartsAt(v, c, k) <=> StartsAt(h, c, k)
  BY <1>1, <1>2 DEF StartsAt
<1>4. GivenIn(v, c) = IF u.input = Nil THEN GivenIn(h, c) ELSE GivenIn(h, c) \cup {n}
  BY <1>1, <1>2 DEF GivenIn
<1>5. GivenIn(h, c) \subseteq DOMAIN h
  BY DEF GivenIn
<1>6. InputIs(v, c, IF GivenIn(h, c) = {} /\ u.input # Nil THEN u.input ELSE x)
  <2>1. CASE GivenIn(h, c) = {} /\ u.input # Nil
    <3>1. IsFirst(n, GivenIn(v, c)) /\ v[n].input = u.input
      BY <1>1, <1>4, <2>1 DEF IsFirst
    <3>2. GivenIn(v, c) # {}
      BY <3>1 DEF IsFirst
    <3>3. QED
      BY <2>1, <3>1, <3>2 DEF InputIs
  <2>2. CASE GivenIn(h, c) = {} /\ u.input = Nil
    <3>1. \A k : StartsAt(v, c, k) => v[k].input = x
      BY <1>1, <1>3, <2>2 DEF InputIs, StartsAt
    <3>2. QED
      BY <1>4, <2>2, <3>1 DEF InputIs
  <2>3. CASE GivenIn(h, c) # {}
    <3>1. PICK i : IsFirst(i, GivenIn(h, c)) /\ h[i].input = x
      BY <2>3 DEF InputIs
    <3>2. i \in DOMAIN h /\ v[i].input = x /\ i <= n /\ i \in GivenIn(v, c)
      BY <1>1, <1>4, <1>5, <3>1 DEF IsFirst
    <3>3. IsFirst(i, GivenIn(v, c))
      BY <1>4, <3>1, <3>2 DEF IsFirst
    <3>4. QED
      BY <2>3, <3>2, <3>3 DEF InputIs
  <2>4. QED
    BY <2>1, <2>2, <2>3
<1>7. /\ StartedIn(h, c) => StartedIn(v, c)
      /\ CompletedIn(v, c) <=> CompletedIn(h, c) \/ u.kind = "completed"
      /\ TurnIs(h, c, u.turn) => TurnIs(v, c, u.turn)
      /\ FollowedIn(v, c) <=> FollowedIn(h, c) /\ u.attached
  BY <1>1, <1>2, <1>3 DEF StartedIn, CompletedIn, TurnIs, FollowedIn
<1>8. GivenIn(v, c) = {} <=> GivenIn(h, c) = {} /\ u.input = Nil
  BY <1>4
<1>9. QED
  BY <1>6, <1>7, <1>8 DEF v

-----------------------------------------------------------------------------
(* Where a call stands: with the bridge and its client, after history h,   *)
(* in turn t, idle when no prompt is being answered.                       *)

\* The stage of a call started in turn s, to be shown with x.
Stands(b, h, c, x, s, t, idle) ==
    \/ s = t /\ ~CompletedIn(h, c) /\ GivenIn(h, c) = {} /\ Waits(b, c, x)
    \/ s = t /\ ~CompletedIn(h, c) /\ GivenIn(h, c) # {} /\ Runs(b, c, x)
    \/ (CompletedIn(h, c) \/ s < t \/ b.sink = "ended") /\ Done(b, c, x)
    \/ /\ ~CompletedIn(h, c) /\ (s < t \/ (idle /\ b.sink = "none"))
       /\ ~RunEnds(b.wire, s) /\ Lost(b, c, x)

\* x: what it is to be shown with; s: the turn it was started in.
Stage(b, h, c, t, idle) ==
    \E x \in Inputs, s \in Nat :
        /\ s <= t /\ InputIs(h, c, x) /\ TurnIs(h, c, s)
        /\ Stands(b, h, c, x, s, t, idle)

\* A call that is followed is in a stage; one that has not started is unseen.
CallOK(b, h, c, t, idle) ==
    IF StartedIn(h, c) THEN FollowedIn(h, c) => Stage(b, h, c, t, idle)
    ELSE Unseen(b, c) /\ Untold(h, c)

\* The streams that are over, and what the end of one leaves to be done.
RunsOK(b, t) ==
    /\ \A s \in Nat : RunEnds(b.wire, s) => s <= t /\ (s = t => b.sink = "ended")
    /\ b.sink = "ended" => b.pending = <<>> /\ b.open = {}

\* A step that is not about the call.
LEMMA OthersOK ==
    ASSUME NEW b, NEW h, NEW c, NEW t \in Nat, NEW idle, CallOK(b, h, c, t, idle),
           NEW r, NEW v, NEW rests, SameStory(h, v, c), Untouched(b, r, c),
           idle => rests, b.sink = "ended" => r.sink = "ended", idle => r.sink = b.sink
    PROVE  CallOK(r, v, c, t, rests)
<1>1. CASE ~StartedIn(h, c)
  BY <1>1, UntouchedViews DEF CallOK, SameStory
<1>2. CASE StartedIn(h, c) /\ ~FollowedIn(h, c)
  BY <1>2 DEF CallOK, SameStory
<1>3. CASE StartedIn(h, c) /\ FollowedIn(h, c)
  <2>1. PICK x \in Inputs, s \in Nat :
            /\ s <= t /\ InputIs(h, c, x) /\ TurnIs(h, c, s)
            /\ Stands(b, h, c, x, s, t, idle)
    BY <1>3 DEF CallOK, Stage
  <2>2. /\ Waits(b, c, x) => Waits(r, c, x)
        /\ Runs(b, c, x) => Runs(r, c, x)
        /\ Done(b, c, x) => Done(r, c, x)
        /\ Lost(b, c, x) => Lost(r, c, x)
        /\ RunEnds(r.wire, s) <=> RunEnds(b.wire, s)
    BY UntouchedViews DEF Untouched, SameEnds
  <2>3. (CompletedIn(v, c) <=> CompletedIn(h, c)) /\ GivenIn(v, c) = GivenIn(h, c)
    BY DEF SameStory
  <2>4. Stands(r, v, c, x, s, t, rests)
    BY <2>1, <2>2, <2>3 DEF Stands
  <2>5. InputIs(v, c, x) /\ TurnIs(v, c, s) /\ StartedIn(v, c)
    BY <1>3, <2>1 DEF SameStory
  <2>6. QED
    BY <2>1, <2>4, <2>5 DEF CallOK, Stage
<1>4. QED
  BY <1>1, <1>2, <1>3

\* A prompt: what was going on is lost.
LEMMA PromptOK ==
    ASSUME NEW b \in Bridges, b.sink # "replay", NEW h, NEW c, NEW t \in Nat, NEW idle,
           CallOK(b, h, c, t, idle), RunsOK(b, t),
           NEW r, NEW v, SameStory(h, v, c), Starts(b, r, t + 1)
    PROVE  CallOK(r, v, c, t + 1, FALSE)
<1>1. /\ ~IsPending(r, c) /\ c \notin r.open /\ c \notin r.argsSent
      /\ Hears(b, r, RunEvent("runStarted", t + 1)) /\ t + 1 \in Nat
      /\ r.wire = Append(b.wire, RunEvent("runStarted", t + 1))
  BY DEF Starts, IsPending, Hears, SameReader
<1>2. \A x : /\ Waits(b, c, x) \/ Runs(b, c, x) \/ Lost(b, c, x) => Lost(r, c, x)
             /\ Done(b, c, x) => Done(r, c, x)
             /\ Unseen(b, c) => Unseen(r, c)
  BY <1>1, RunEventViews
<1>3. SameEnds(b.wire, r.wire)
  <2>1. b.wire \in Seq(Events) /\ RunEvent("runStarted", t + 1) \in Events
    BY <1>1, EventTypes DEF Bridges
  <2>2. RunEvent("runStarted", t + 1).kind = "runStarted"
    BY DEF RunEvent
  <2>3. QED
    BY <1>1, <2>1, <2>2, EndsOnWire DEF SameEnds
<1>4. CASE ~StartedIn(h, c)
  BY <1>2, <1>4 DEF CallOK, SameStory
<1>5. CASE StartedIn(h, c) /\ ~FollowedIn(h, c)
  BY <1>5 DEF CallOK, SameStory
<1>6. CASE StartedIn(h, c) /\ FollowedIn(h, c)
  <2>1. PICK x \in Inputs, s \in Nat :
            /\ s <= t /\ InputIs(h, c, x) /\ TurnIs(h, c, s)
            /\ Stands(b, h, c, x, s, t, idle)
    BY <1>6 DEF CallOK, Stage
  <2>2. s < t + 1 /\ s <= t + 1
    BY <2>1
  <2>3. (CompletedIn(v, c) <=> CompletedIn(h, c)) /\ InputIs(v, c, x) /\ TurnIs(v, c, s)
    BY <2>1 DEF SameStory
  <2>4. Stands(r, v, c, x, s, t + 1, FALSE)
    <3>1. ASSUME ~CompletedIn(h, c), s = t, Waits(b, c, x) \/ Runs(b, c, x)
          PROVE  ~RunEnds(r.wire, s) /\ Lost(r, c, x)
      <4>1. b.sink # "ended"
        BY <3>1 DEF RunsOK, Waits, Runs, Begun, IsPending
      <4>2. ~RunEnds(b.wire, s)
        BY <3>1, <4>1 DEF RunsOK
      <4>3. QED
        BY <1>2, <1>3, <3>1, <4>2 DEF SameEnds
    <3>2. ~RunEnds(b.wire, s) => ~RunEnds(r.wire, s)
      BY <1>3 DEF SameEnds
    <3>3. QED
      BY <1>2, <2>1, <2>2, <2>3, <3>1, <3>2 DEF Stands
  <2>5. QED
    BY <1>6, <2>2, <2>3, <2>4 DEF CallOK, Stage, SameStory
<1>7. QED
  BY <1>4, <1>5, <1>6

\* The end of a run: what was going on is shown, or lost if nobody reads.
LEMMA EndOK ==
    ASSUME NEW b \in Bridges, NEW S, Holds(b, S), NEW h, NEW c \in Calls,
           CallOK(b, h, c, b.turn, FALSE), RunsOK(b, b.turn),
           b.sink \in {"none", "run", "ended"},
           NEW r, NEW rank \in Ranks, NEW kind \in {"runFinished", "runError"},
           Ends(b, r, rank, kind), NEW v, SameStory(h, v, c),
           NEW rests, rests \/ b.sink = "run"
    PROVE  CallOK(r, v, c, b.turn, rests)
<1> DEFINE t == b.turn
<1>1. t \in Nat
  BY DEF Bridges
<1>2. \A x \in Inputs :
        /\ Waits(b, c, x) \/ Runs(b, c, x) =>
              IF b.sink = "run" THEN Done(r, c, x) ELSE Lost(r, c, x)
        /\ Done(b, c, x) => Done(r, c, x)
        /\ Lost(b, c, x) => Lost(r, c, x)
        /\ Unseen(b, c) => Unseen(r, c)
  <2>1. Listens(b) <=> b.sink = "run"
    BY DEF Listens
  <2>2. QED
    BY <2>1, EndedCall
<1>3. \A s : RunEnds(r.wire, s) <=> RunEnds(b.wire, s) \/ (b.sink = "run" /\ s = t)
  BY EndedRuns
<1>4. r.sink = IF b.sink = "run" THEN "ended" ELSE b.sink
  BY RankFacts, EndedRun
<1>5. Nil \in Inputs
  BY DEF Inputs
<1>6. CASE ~StartedIn(h, c)
  BY <1>2, <1>5, <1>6 DEF CallOK, SameStory
<1>7. CASE StartedIn(h, c) /\ ~FollowedIn(h, c)
  BY <1>7 DEF CallOK, SameStory
<1>8. CASE StartedIn(h, c) /\ FollowedIn(h, c)
  <2>1. PICK x \in Inputs, s \in Nat :
            /\ s <= t /\ InputIs(h, c, x) /\ TurnIs(h, c, s)
            /\ Stands(b, h, c, x, s, t, FALSE)
    BY <1>8 DEF CallOK, Stage
  <2>2. (CompletedIn(v, c) <=> CompletedIn(h, c)) /\ InputIs(v, c, x) /\ TurnIs(v, c, s)
    BY <2>1 DEF SameStory
  <2>3. ASSUME ~CompletedIn(h, c), s = t, Waits(b, c, x) \/ Runs(b, c, x)
        PROVE  Stands(r, v, c, x, s, t, rests)
    <3>1. b.sink # "ended"
      BY <2>3 DEF RunsOK, Waits, Runs, Begun, IsPending
    <3>2. CASE b.sink = "run"
      BY <1>2, <1>4, <2>3, <3>2 DEF Stands
    <3>3. CASE b.sink = "none"
      <4>1. ~RunEnds(r.wire, s)
        BY <1>1, <1>3, <2>3, <3>3 DEF RunsOK
      <4>2. QED
        BY <1>2, <1>4, <2>2, <2>3, <3>3, <4>1 DEF Stands
    <3>4. QED
      BY <3>1, <3>2, <3>3
  <2>4. ASSUME CompletedIn(h, c) \/ s < t \/ b.sink = "ended", Done(b, c, x)
        PROVE  Stands(r, v, c, x, s, t, rests)
    BY <1>2, <1>4, <2>2, <2>4 DEF Stands
  <2>5. ASSUME ~CompletedIn(h, c), s < t, ~RunEnds(b.wire, s), Lost(b, c, x)
        PROVE  Stands(r, v, c, x, s, t, rests)
    <3>1. ~RunEnds(r.wire, s)
      BY <1>1, <1>3, <2>5
    <3>2. QED
      BY <1>2, <2>2, <2>5, <3>1 DEF Stands
  <2>6. Stands(r, v, c, x, s, t, rests)
    BY <2>1, <2>3, <2>4, <2>5 DEF Stands
  <2>7. QED
    BY <1>8, <2>1, <2>2, <2>6 DEF CallOK, Stage, SameStory
<1>9. QED
  BY <1>6, <1>7, <1>8

\* A call that starts.
LEMMA StartOK ==
    ASSUME NEW b \in Bridges, NEW S, Holds(b, S), NEW h \in Seq(Records), NEW c \in Calls,
           c \notin S, Unseen(b, c), Untold(h, c), NEW input \in {"initial", Nil},
           NEW u \in Records, u.call = c, u.kind = "toolCall", u.input = input,
           NEW idle
    PROVE  CallOK(ToolCall(b, c, input), Append(h, u), c, u.turn, idle)
<1> DEFINE r == ToolCall(b, c, input)
           v == Append(h, u)
<1>1. Waits(r, c, input)
  BY CallQueued
<1>2. /\ StartedIn(v, c) /\ GivenIn(v, c) = {} /\ InputIs(v, c, input)
      /\ ~CompletedIn(v, c) /\ TurnIs(v, c, u.turn)
  BY StartRecord
<1>3. input \in Inputs /\ u.turn \in Nat /\ u.turn <= u.turn
  BY DEF Inputs, Records
<1> HIDE DEF r, v
<1>4. Stands(r, v, c, input, u.turn, u.turn, idle)
  BY <1>1, <1>2 DEF Stands
<1>5. Stage(r, v, c, u.turn, idle)
  BY <1>2, <1>3, <1>4 DEF Stage
<1>6. CallOK(r, v, c, u.turn, idle)
  BY <1>2, <1>5 DEF CallOK
<1>7. QED
  BY <1>6 DEF r, v

\* An update of a call that goes on.
LEMMA UpdateOK ==
    ASSUME NEW b \in Bridges, Distinct(b), b.sink = "run", NEW h \in Seq(Records),
           NEW c \in Calls, NEW t \in Nat, CallOK(b, h, c, t, FALSE),
           NEW k, StartsAt(h, c, k), h[k].turn = t,
           FollowedIn(h, c) => ~CompletedIn(h, c),
           NEW u \in Records, u.call = c, u.turn = t, u.attached
    PROVE  /\ u.kind = "progress" /\ u.input = "later" =>
                 CallOK(Progress(b, c, u.input), Append(h, u), c, t, FALSE)
           /\ u.kind = "completed" =>
                 CallOK(Completed(b, c, u.input), Append(h, u), c, t, FALSE)
<1> DEFINE v == Append(h, u)
<1>1. StartedIn(h, c)
  BY DEF StartedIn
<1>2. u.input \in Inputs
  BY DEF Records
<1>3. CASE ~FollowedIn(h, c)
  <2>1. ASSUME u.kind \in {"progress", "completed"}
        PROVE  StartedIn(v, c) /\ ~FollowedIn(v, c)
    <3>1. h \in Seq(Records) /\ DOMAIN h \subseteq DOMAIN v /\ \A i \in DOMAIN h : v[i] = h[i]
      BY HistoryFacts
    <3> HIDE DEF v
    <3>2. QED
      BY <1>1, <1>3, <3>1 DEF StartedIn, StartsAt, FollowedIn
  <2>2. QED
    BY <2>1 DEF CallOK
<1>4. CASE FollowedIn(h, c)
  <2>1. PICK x \in Inputs, s \in Nat :
            /\ s <= t /\ InputIs(h, c, x) /\ TurnIs(h, c, s)
            /\ Stands(b, h, c, x, s, t, FALSE)
    BY <1>1, <1>4 DEF CallOK, Stage
  <2>2. s = t
    BY <1>1, <2>1 DEF TurnIs, StartsAt
  <2>3. \/ GivenIn(h, c) = {} /\ Waits(b, c, x)
        \/ GivenIn(h, c) # {} /\ Runs(b, c, x)
    BY <1>4, <2>1, <2>2 DEF Stands
  <2> DEFINE y == IF GivenIn(h, c) = {} /\ u.input # Nil THEN u.input ELSE x
  <2>4. y \in Inputs
    BY <1>2
  <2>5. ASSUME u.kind \in {"progress", "completed"}
        PROVE  /\ StartedIn(v, c) /\ InputIs(v, c, y) /\ TurnIs(v, c, t)
               /\ GivenIn(v, c) = {} <=> GivenIn(h, c) = {} /\ u.input = Nil
               /\ CompletedIn(v, c) <=> u.kind = "completed"
    BY <1>1, <1>4, <2>1, <2>2, <2>5, UpdateRecord
  <2>6. ASSUME u.kind = "progress", u.input = "later"
        PROVE  CallOK(Progress(b, c, u.input), v, c, t, FALSE)
    <3>1. u.input # Nil
      BY <2>6, ConstantsAssumption
    <3>2. Runs(Progress(b, c, u.input), c, y)
      <4>1. CASE GivenIn(h, c) = {}
        BY <1>2, <2>3, <3>1, <4>1, CallGoesOn DEF Listens
      <4>2. CASE GivenIn(h, c) # {}
        BY <1>2, <2>3, <4>2, CallGoesOn DEF Listens
      <4>3. QED
        BY <4>1, <4>2
    <3> HIDE DEF y, v
    <3>3. Stands(Progress(b, c, u.input), v, c, y, t, t, FALSE)
      BY <2>5, <2>6, <3>1, <3>2 DEF Stands
    <3>4. y \in Inputs /\ t \in Nat /\ t <= t /\ InputIs(v, c, y) /\ TurnIs(v, c, t)
      BY <2>4, <2>5, <2>6
    <3>5. Stage(Progress(b, c, u.input), v, c, t, FALSE)
      BY <3>3, <3>4 DEF Stage
    <3>6. QED
      BY <2>5, <2>6, <3>5 DEF CallOK
  <2>7. ASSUME u.kind = "completed"
        PROVE  CallOK(Completed(b, c, u.input), v, c, t, FALSE)
    <3>1. Done(Completed(b, c, u.input), c, y)
      <4>1. CASE GivenIn(h, c) = {}
        <5>1. y = Or(u.input, x)
          BY <4>1 DEF Or
        <5>2. QED
          BY <1>2, <2>3, <4>1, <5>1, CallGoesOn DEF Listens
      <4>2. CASE GivenIn(h, c) # {}
        BY <1>2, <2>3, <4>2, CallGoesOn DEF Listens
      <4>3. QED
        BY <4>1, <4>2
    <3> HIDE DEF y, v
    <3>2. Stands(Completed(b, c, u.input), v, c, y, t, t, FALSE)
      BY <2>5, <2>7, <3>1 DEF Stands
    <3>3. y \in Inputs /\ t \in Nat /\ t <= t /\ InputIs(v, c, y) /\ TurnIs(v, c, t)
      BY <2>4, <2>5, <2>7
    <3>4. Stage(Completed(b, c, u.input), v, c, t, FALSE)
      BY <3>2, <3>3 DEF Stage
    <3>5. QED
      BY <2>5, <2>7, <3>4 DEF CallOK
  <2>8. QED
    BY <2>6, <2>7
<1>5. QED
  BY <1>3, <1>4

\* An update that was dropped: the call is no longer followed.
LEMMA MissedOK ==
    ASSUME NEW h \in Seq(Records), NEW c, NEW u \in Records, u.call = c, ~u.attached,
           u.kind = "toolCall" \/ StartedIn(h, c), NEW b, NEW t, NEW idle
    PROVE  CallOK(b, Append(h, u), c, t, idle)
<1> DEFINE v == Append(h, u)
           n == Len(h) + 1
<1>1. /\ n \in DOMAIN v /\ v[n] = u
      /\ DOMAIN h \subseteq DOMAIN v /\ \A i \in DOMAIN h : v[i] = h[i]
  BY HistoryFacts
<1> HIDE DEF v, n
<1>2. StartedIn(v, c) /\ ~FollowedIn(v, c)
  BY <1>1 DEF StartedIn, StartsAt, FollowedIn
<1>3. CallOK(b, v, c, t, idle)
  BY <1>2 DEF CallOK
<1>4. QED
  BY <1>3 DEF v

\* The runs that are over stay over when no stream ends.
LEMMA RunsKept ==
    ASSUME NEW b, NEW r, NEW t, RunsOK(b, t), SameEnds(b.wire, r.wire),
           b.sink # "ended", r.sink # "ended"
    PROVE  RunsOK(r, t)
BY DEF RunsOK, SameEnds

-----------------------------------------------------------------------------
(* The inductive invariant.                                                *)

\* Every call is in a stage,
CallsInv == \A c \in Calls : CallOK(bridge, history, c, turn, phase = "idle")

\* ... and the runs that are over are known to be.
RunsInv == RunsOK(bridge, turn)

\* An update of a call follows its start, in the same turn, and nothing
\* follows its completion.
LEMMA UpdatesFollow ==
    ASSUME NEW u \in AgentUpdates, NEW c \in Calls, u.call = c
    PROVE  u.kind = "toolCall" \/ StartedIn(history, c)
<1>1. Nil \notin Calls
  BY ConstantsAssumption
<1>2. u.kind = "toolCall" \/ Running(c)
  BY <1>1 DEF AgentUpdates, NextUpdates, Plain
<1>3. Running(c) => StartedIn(history, c)
  BY DEF Running, Sent, ThisTurn, StartedIn, StartsAt
<1>4. QED
  BY <1>2, <1>3

\* A call that goes on was started in this turn.
LEMMA RunningFacts ==
    ASSUME NEW c \in Calls, Running(c)
    PROVE  \E k : StartsAt(history, c, k) /\ history[k].turn = turn
BY DEF Running, Sent, ThisTurn, StartsAt

\* A call that goes on in this turn was not completed in another one.
LEMMA NotCompleted ==
    ASSUME NEW c \in Calls, Running(c), NEW b, NEW idle,
           CallOK(b, history, c, turn, idle), FollowedIn(history, c)
    PROVE  ~CompletedIn(history, c)
<1>1. PICK k : StartsAt(history, c, k) /\ history[k].turn = turn
  BY RunningFacts
<1>2. PICK s \in Nat : TurnIs(history, c, s)
  BY <1>1 DEF CallOK, Stage, StartedIn
<1>3. s = turn
  BY <1>1, <1>2 DEF TurnIs, StartsAt
<1>4. QED
  BY <1>2, <1>3 DEF Running, Sent, ThisTurn, CompletedIn, TurnIs

\* The record that a step adds to the history.
LEMMA StepRecords ==
    ASSUME TypeInv, NEW u \in AgentUpdates \cup {Plain("user")}, NEW t \in Nat,
           history' = Recorded(u, t)
    PROVE  \E e \in Records :
              /\ history' = Append(history, e)
              /\ e.kind = u.kind /\ e.call = u.call /\ e.input = u.input
              /\ e.turn = t /\ e.attached = (bridge.sink = "run")
              /\ \A c : u.call # c => SameStory(history, history', c)
<1>1. history \in Seq(Records)
  BY DEF TypeInv
<1> DEFINE e == RecordOf(u, t)
<1>2. /\ e \in Records /\ history' = Append(history, e)
      /\ e.kind = u.kind /\ e.call = u.call /\ e.input = u.input
      /\ e.turn = t /\ e.attached = (bridge.sink = "run")
  BY RecordFacts
<1> HIDE DEF e
<1>3. \A c : u.call # c => SameStory(history, history', c)
  BY <1>1, <1>2, OtherRecord
<1>4. QED
  BY <1>2, <1>3

\* Every step keeps what is known of the runs that are over.
LEMMA RunsStep ==
    ASSUME HoldsInv, RunsInv, Stepped
    PROVE  RunsInv'
<1>1. /\ bridge \in Bridges /\ bridge.turn = turn /\ turn \in Nat /\ SinkFits
      /\ Len(history) + 1 \in Nat /\ "later" \in Inputs /\ Nil \in Inputs
      /\ Holds(bridge, Started) /\ Nil \notin Calls
  BY ConstantsAssumption DEF HoldsInv, FramesInv, TypeInv, Inputs
<1>2. CASE Idles
  BY <1>2 DEF Idles, RunsInv, RunsOK
<1>3. CASE Prompted
  <2>1. /\ bridge'.sink = "run" /\ turn' = turn + 1 /\ turn' \in Nat
        /\ bridge'.wire = Append(bridge.wire, RunEvent("runStarted", turn'))
    BY <1>1, <1>3 DEF Prompted, Starts
  <2>2. bridge.wire \in Seq(Events) /\ RunEvent("runStarted", turn') \in Events
    BY <1>1, <2>1, EventTypes DEF Bridges
  <2>3. RunEvent("runStarted", turn').kind = "runStarted"
    BY DEF RunEvent
  <2>4. \A s : RunEnds(bridge'.wire, s) <=> RunEnds(bridge.wire, s)
    BY <2>1, <2>2, <2>3, EndsOnWire
  <2>5. \A s \in Nat : RunEnds(bridge'.wire, s) => s <= turn' /\ s # turn'
    <3>1. \A s \in Nat : s <= turn => s <= turn + 1 /\ s # turn + 1
      BY <1>1
    <3>2. QED
      BY <2>1, <2>4, <3>1 DEF RunsInv, RunsOK
  <2>6. QED
    BY <2>1, <2>5 DEF RunsInv, RunsOK
<1>4. CASE Missed
  BY <1>4 DEF Missed, RunsInv, RunsOK
<1>5. ASSUME NEW u, NEW r, Handled(u, r), SameEnds(bridge.wire, r.wire), SameRun(bridge, r)
      PROVE  RunsInv'
  BY <1>5, RunsKept DEF Handled, SameRun, RunsInv
<1>6. CASE Spoke
  <2>1. ASSUME NEW n \in Nat
        PROVE  /\ SameEnds(bridge.wire, TextDelta(bridge, n).wire)
               /\ SameRun(bridge, TextDelta(bridge, n))
               /\ SameEnds(bridge.wire, ThoughtDelta(bridge, n).wire)
               /\ SameRun(bridge, ThoughtDelta(bridge, n))
    BY <1>1, <2>1, UntouchedChunks, HandlersKeepRun DEF Untouched
  <2>2. QED
    BY <1>1, <1>5, <1>6, <2>1 DEF Spoke
<1>7. ASSUME NEW c \in Calls
      PROVE  /\ \A i \in {"initial", Nil} : Called(c, i) => RunsInv'
             /\ Progressed(c) => RunsInv'
             /\ \A i \in {"later", Nil} : Finished(c, i) => RunsInv'
  <2>1. c # Nil /\ 0 \in Nat
    BY <1>1
  <2>2. /\ \A i \in {"initial", Nil} : c \notin Started =>
              Untouched(bridge, ToolCall(bridge, c, i), Nil)
        /\ \A i \in Inputs : /\ Untouched(bridge, Progress(bridge, c, i), Nil)
                             /\ Untouched(bridge, Completed(bridge, c, i), Nil)
    BY <1>1, <1>7, <2>1, UntouchedByOthers
  <2>3. /\ \A i \in {"initial", Nil} : SameRun(bridge, ToolCall(bridge, c, i))
        /\ \A i \in Inputs : /\ SameRun(bridge, Progress(bridge, c, i))
                             /\ SameRun(bridge, Completed(bridge, c, i))
    BY <1>1, <1>7, <2>1, HandlersKeepRun
  <2>4. ASSUME NEW i \in {"initial", Nil}, Called(c, i)
        PROVE  RunsInv'
    <3>1. c \notin Started
      BY <2>4 DEF Called, Started
    <3>2. QED
      BY <1>5, <2>2, <2>3, <2>4, <3>1 DEF Called, Untouched
  <2>5. ASSUME Progressed(c)
        PROVE  RunsInv'
    BY <1>1, <1>5, <2>2, <2>3, <2>5 DEF Progressed, Untouched
  <2>6. ASSUME NEW i \in {"later", Nil}, Finished(c, i)
        PROVE  RunsInv'
    BY <1>1, <1>5, <2>2, <2>3, <2>6 DEF Finished, Untouched
  <2>7. QED
    BY <2>4, <2>5, <2>6
<1>8. ASSUME NEW rank \in Ranks, NEW kind \in {"runFinished", "runError"},
             Ends(bridge, bridge', rank, kind), turn' = turn
      PROVE  RunsInv'
  <2>1. /\ \A t : RunEnds(bridge'.wire, t) <=>
                     RunEnds(bridge.wire, t) \/ (bridge.sink = "run" /\ t = bridge.turn)
        /\ bridge'.pending = <<>> /\ bridge'.open = {}
    BY <1>1, <1>8, EndedRuns
  <2>2. bridge'.sink = IF bridge.sink = "run" THEN "ended" ELSE bridge.sink
    BY <1>1, <1>8, RankFacts, EndedRun
  <2>3. QED
    BY <1>1, <1>8, <2>1, <2>2 DEF RunsInv, RunsOK
<1>9. ASSUME NEW rank \in Ranks, TurnEnded(rank)
      PROVE  RunsInv'
  BY <1>8, <1>9 DEF TurnEnded
<1>10. ASSUME NEW rank \in Ranks, NEW kind \in {"runFinished", "runError"}, Closed(rank, kind)
       PROVE  RunsInv'
  BY <1>8, <1>10 DEF Closed
<1>11. CASE Suspended
  <2>1. SameEnds(bridge.wire, bridge'.wire) /\ bridge'.sink = "none"
    BY <1>1, <1>11, UntouchedByRuns, SuspendedRun DEF Suspended, Untouched
  <2>2. QED
    BY <1>11, <2>1, RunsKept DEF Suspended, RunsInv
<1>12. CASE Resumed
  <2>1. SameEnds(bridge.wire, bridge'.wire) /\ bridge'.sink = "run"
    BY <1>1, <1>12, UntouchedByRuns DEF Resumed, Attaches, Untouched
  <2>2. QED
    BY <1>12, <2>1, RunsKept DEF Resumed, RunsInv
<1>13. QED
  BY <1>2, <1>3, <1>4, <1>6, <1>7, <1>9, <1>10, <1>11, <1>12 DEF Stepped

\* Every step moves each call from one of its stages to the next.
LEMMA CallsStep ==
    ASSUME HoldsInv, RunsInv, CallsInv, Stepped
    PROVE  CallsInv'
<1>1. /\ TypeInv /\ bridge \in Bridges /\ bridge.turn = turn /\ turn \in Nat /\ SinkFits
      /\ Len(history) + 1 \in Nat /\ "later" \in Inputs /\ Nil \in Inputs
      /\ Holds(bridge, Started) /\ Distinct(bridge) /\ Nil \notin Calls
      /\ phase \in Phases /\ history \in Seq(Records) /\ bridge.sink # "replay"
  BY ConstantsAssumption DEF HoldsInv, FramesInv, TypeInv, Inputs, Holds, Phases, Framed
<1> SUFFICES ASSUME NEW c \in Calls
             PROVE  CallOK(bridge', history', c, turn', (phase = "idle")')
  BY DEF CallsInv
<1>2. CallOK(bridge, history, c, turn, phase = "idle")
  BY DEF CallsInv
<1>3. SameStory(history, history, c) /\ Untouched(bridge, bridge, c)
  BY SameHistory, UntouchedSame DEF SameCalls, SameOut, SameReader
<1>4. \A kind : Plain(kind).call # c
  BY <1>1 DEF Plain
<1>5. CASE Idles
  BY <1>1, <1>2, <1>3, <1>5, OthersOK DEF Idles
<1>6. CASE Prompted
  <2>1. turn' = turn + 1 /\ turn' \in Nat /\ (phase' = "idle") = FALSE
    BY <1>1, <1>6 DEF Prompted
  <2>2. SameStory(history, history', c)
    BY <1>1, <1>4, <1>6, <2>1, StepRecords DEF Prompted
  <2>3. CallOK(bridge', history', c, turn + 1, FALSE)
    BY <1>1, <1>2, <1>6, <2>1, <2>2, PromptOK DEF Prompted, RunsInv
  <2>4. QED
    BY <2>1, <2>3
<1>7. CASE Missed
  <2>1. PICK u \in AgentUpdates : history' = Recorded(u, turn)
    BY <1>7 DEF Missed
  <2>2. PICK e \in Records :
            /\ history' = Append(history, e)
            /\ e.kind = u.kind /\ e.call = u.call /\ e.attached = (bridge.sink = "run")
            /\ u.call # c => SameStory(history, history', c)
    BY <1>1, <2>1, StepRecords
  <2>3. bridge' = bridge /\ turn' = turn /\ phase # "idle" /\ phase' # "idle" /\ bridge.sink # "run"
    BY <1>7 DEF Missed
  <2>4. CASE u.call = c
    <3>1. u.kind = "toolCall" \/ StartedIn(history, c)
      BY <2>4, UpdatesFollow
    <3>2. ~e.attached
      BY <2>2, <2>3
    <3>3. QED
      BY <1>1, <2>2, <2>4, <3>1, <3>2, MissedOK
  <2>5. CASE u.call # c
    BY <1>1, <1>2, <1>3, <2>2, <2>3, <2>5, OthersOK
  <2>6. QED
    BY <2>4, <2>5
<1>8. ASSUME NEW u \in AgentUpdates, u.call # c, NEW r, Handled(u, r),
             Untouched(bridge, r, c)
      PROVE  CallOK(bridge', history', c, turn', (phase = "idle")')
  <2>1. SameStory(history, history', c)
    BY <1>1, <1>8, StepRecords DEF Handled
  <2>2. phase # "idle" /\ phase' # "idle" /\ bridge.sink = "run" /\ turn' = turn /\ bridge' = r
    BY <1>8 DEF Handled
  <2>3. QED
    BY <1>1, <1>2, <1>8, <2>1, <2>2, OthersOK
<1>9. CASE Spoke
  <2>1. ASSUME NEW n \in Nat
        PROVE  /\ Untouched(bridge, TextDelta(bridge, n), c)
               /\ Untouched(bridge, ThoughtDelta(bridge, n), c)
    BY <1>1, <2>1, UntouchedChunks
  <2>2. QED
    BY <1>1, <1>4, <1>8, <1>9, <2>1, HandledUpdates DEF Spoke
<1>10. ASSUME NEW d \in Calls, NEW i \in {"initial", Nil}, Called(d, i)
       PROVE  CallOK(bridge', history', c, turn', (phase = "idle")')
  <2>1. /\ d \notin Started /\ Handled(StartOfCall(d, i), ToolCall(bridge, d, i))
        /\ StartOfCall(d, i) \in AgentUpdates
    BY <1>10, HandledUpdates DEF Called, Started
  <2>2. StartOfCall(d, i).call = d /\ StartOfCall(d, i).kind = "toolCall" /\ StartOfCall(d, i).input = i
    BY DEF StartOfCall
  <2>3. CASE d # c
    <3>1. Untouched(bridge, ToolCall(bridge, d, i), c)
      BY <1>1, <2>1, <2>3, UntouchedByOthers
    <3>2. QED
      BY <1>8, <2>1, <2>2, <2>3, <3>1
  <2>4. CASE d = c
    <3>1. Unseen(bridge, c) /\ Untold(history, c)
      BY <1>2, <2>1, <2>4 DEF CallOK, Started, IsStarted, StartedIn, StartsAt
    <3>2. history' = Recorded(StartOfCall(c, i), turn) /\ turn' = turn
          /\ bridge' = ToolCall(bridge, c, i)
      BY <2>1, <2>4 DEF Handled
    <3>3. PICK e \in Records :
              /\ history' = Append(history, e)
              /\ e.kind = "toolCall" /\ e.call = c /\ e.input = i /\ e.turn = turn
      BY <1>1, <2>1, <2>2, <2>4, <3>2, StepRecords
    <3>4. \A idle : CallOK(ToolCall(bridge, c, i), Append(history, e), c, e.turn, idle)
      BY <1>1, <1>10, <2>1, <2>4, <3>1, <3>3, StartOK
    <3>5. QED
      BY <3>2, <3>3, <3>4
  <2>5. QED
    BY <2>3, <2>4
<1>11. ASSUME Running(c), NEW u \in AgentUpdates, u.call = c, NEW r, Handled(u, r)
       PROVE  /\ u.kind = "progress" /\ u.input = "later" /\ r = Progress(bridge, c, u.input) =>
                    CallOK(bridge', history', c, turn', (phase = "idle")')
              /\ u.kind = "completed" /\ r = Completed(bridge, c, u.input) =>
                    CallOK(bridge', history', c, turn', (phase = "idle")')
  <2>1. /\ (phase' = "idle") = FALSE /\ (phase = "idle") = FALSE /\ turn' = turn /\ bridge' = r
        /\ bridge.sink = "run" /\ history' = Recorded(u, turn)
    BY <1>11 DEF Handled
  <2>2. PICK e \in Records :
            /\ history' = Append(history, e)
            /\ e.kind = u.kind /\ e.call = c /\ e.input = u.input /\ e.turn = turn
            /\ e.attached = (bridge.sink = "run")
    BY <1>1, <1>11, <2>1, StepRecords
  <2>3. PICK k : StartsAt(history, c, k) /\ history[k].turn = turn
    BY <1>11, RunningFacts
  <2>7. FollowedIn(history, c) => ~CompletedIn(history, c)
    BY <1>2, <1>11, NotCompleted
  <2>4. CallOK(bridge, history, c, turn, FALSE) /\ e.attached
    BY <1>2, <2>1, <2>2
  <2>5. /\ e.kind = "progress" /\ e.input = "later" =>
              CallOK(Progress(bridge, c, e.input), Append(history, e), c, turn, FALSE)
        /\ e.kind = "completed" =>
              CallOK(Completed(bridge, c, e.input), Append(history, e), c, turn, FALSE)
    BY <1>1, <2>1, <2>2, <2>3, <2>4, <2>7, UpdateOK
  <2>6. QED
    BY <2>1, <2>2, <2>5
<1>12. ASSUME NEW d \in Calls, Progressed(d)
       PROVE  CallOK(bridge', history', c, turn', (phase = "idle")')
  <2>1. /\ Running(d) /\ Handled(ProgressOfCall(d), Progress(bridge, d, "later"))
        /\ ProgressOfCall(d) \in AgentUpdates
    BY <1>12, HandledUpdates DEF Progressed
  <2>2. /\ ProgressOfCall(d).call = d /\ ProgressOfCall(d).kind = "progress"
        /\ ProgressOfCall(d).input = "later"
    BY DEF ProgressOfCall
  <2>3. CASE d # c
    <3>1. Untouched(bridge, Progress(bridge, d, "later"), c)
      BY <1>1, <2>3, UntouchedByOthers
    <3>2. QED
      BY <1>8, <2>1, <2>2, <2>3, <3>1
  <2>4. CASE d = c
    BY <1>11, <2>1, <2>2, <2>4
  <2>5. QED
    BY <2>3, <2>4
<1>13. ASSUME NEW d \in Calls, NEW i \in {"later", Nil}, Finished(d, i)
       PROVE  CallOK(bridge', history', c, turn', (phase = "idle")')
  <2>1. /\ Running(d) /\ Handled(EndOfCall(d, i), Completed(bridge, d, i))
        /\ EndOfCall(d, i) \in AgentUpdates /\ i \in Inputs
    BY <1>1, <1>13, HandledUpdates DEF Finished
  <2>2. EndOfCall(d, i).call = d /\ EndOfCall(d, i).kind = "completed" /\ EndOfCall(d, i).input = i
    BY DEF EndOfCall
  <2>3. CASE d # c
    <3>1. Untouched(bridge, Completed(bridge, d, i), c)
      BY <1>1, <2>1, <2>3, UntouchedByOthers
    <3>2. QED
      BY <1>8, <2>1, <2>2, <2>3, <3>1
  <2>4. CASE d = c
    BY <1>11, <2>1, <2>2, <2>4
  <2>5. QED
    BY <2>3, <2>4
<1>14. ASSUME NEW rank \in Ranks, TurnEnded(rank)
       PROVE  CallOK(bridge', history', c, turn', (phase = "idle")')
  <2>1. /\ (phase = "idle") = FALSE /\ (phase' = "idle") = FALSE /\ turn' = turn
        /\ bridge.sink = "run" /\ Ends(bridge, bridge', rank, "runFinished")
        /\ history' = Recorded(Plain("turnEnd"), turn)
    BY <1>14 DEF TurnEnded
  <2>2. SameStory(history, history', c)
    BY <1>1, <1>4, <2>1, HandledUpdates, StepRecords
  <2>3. CallOK(bridge, history, c, bridge.turn, FALSE) /\ RunsOK(bridge, bridge.turn)
    BY <1>1, <1>2, <2>1 DEF RunsInv
  <2>4. CallOK(bridge', history', c, bridge.turn, FALSE)
    BY <1>1, <2>1, <2>2, <2>3, EndOK
  <2>5. QED
    BY <1>1, <2>1, <2>4
<1>15. ASSUME NEW rank \in Ranks, NEW kind \in {"runFinished", "runError"}, Closed(rank, kind)
       PROVE  CallOK(bridge', history', c, turn', (phase = "idle")')
  <2>1. /\ (phase = "idle") = FALSE /\ (phase' = "idle") = TRUE /\ turn' = turn
        /\ Ends(bridge, bridge', rank, kind) /\ history' = history
    BY <1>15 DEF Closed
  <2>2. bridge.sink \in {"none", "run", "ended"}
    BY <1>1, <2>1 DEF SinkFits, Phases
  <2>3. CallOK(bridge, history, c, bridge.turn, FALSE) /\ RunsOK(bridge, bridge.turn)
    BY <1>1, <1>2, <2>1 DEF RunsInv
  <2>4. CallOK(bridge', history', c, bridge.turn, TRUE)
    BY <1>1, <1>3, <2>1, <2>2, <2>3, EndOK
  <2>5. QED
    BY <1>1, <2>1, <2>4
<1>16. CASE Suspended
  <2>1. Untouched(bridge, bridge', c)
    BY <1>1, <1>16, UntouchedByRuns DEF Suspended
  <2>2. QED
    BY <1>1, <1>2, <1>3, <1>16, <2>1, OthersOK DEF Suspended
<1>17. CASE Resumed
  <2>1. Untouched(bridge, bridge', c)
    BY <1>1, <1>17, UntouchedByRuns DEF Resumed
  <2>2. QED
    BY <1>1, <1>2, <1>3, <1>17, <2>1, OthersOK DEF Resumed
<1>18. QED
  BY <1>5, <1>6, <1>7, <1>9, <1>10, <1>12, <1>13, <1>14, <1>15, <1>16, <1>17 DEF Stepped

\* All together.
CallsIInv == HoldsInv /\ RunsInv /\ CallsInv

\* The invariant holds always.
LEMMA CallsAlways == Spec => []CallsIInv
<1>1. Init => HoldsInv
  <2>1. Init => FramesInv
    BY TypeAtFirst, FramedAtFirst DEF FramesInv
  <2>2. Init => Holds(bridge, Started)
    BY HoldsNothing DEF Init, NewBridge
  <2>3. QED
    BY <2>1, <2>2 DEF HoldsInv
<1>2. Init => RunsInv
  BY DEF Init, NewBridge, RunsInv, RunsOK, RunEnds
<1>3. Init => CallsInv
  <2>1. SUFFICES ASSUME Init, NEW c \in Calls
                 PROVE  CallOK(bridge, history, c, turn, phase = "idle")
    BY DEF CallsInv
  <2>2. /\ bridge.wire = <<>> /\ bridge.pending = <<>> /\ bridge.open = {}
        /\ bridge.argsSent = {} /\ history = <<>>
    BY <2>1 DEF Init, NewBridge
  <2>3. Unseen(bridge, c)
    BY <2>1, <2>2 DEF Unseen, IsPending, Shown, LineIs, LineOf, Init, NewBridge
  <2>4. ~StartedIn(history, c) /\ Untold(history, c)
    BY <2>2 DEF StartedIn, StartsAt, Untold
  <2>5. QED
    BY <2>3, <2>4 DEF CallOK
<1>4. CallsIInv /\ [Next]_vars => CallsIInv'
  <2>1. SUFFICES ASSUME CallsIInv, [Next]_vars PROVE CallsIInv'
    OBVIOUS
  <2>2. TypeInv /\ bridge \in Framed /\ Holds(bridge, Started) /\ HoldsInv /\ RunsInv /\ CallsInv
    BY <2>1 DEF CallsIInv, HoldsInv, FramesInv
  <2>3. Stepped
    BY <2>1, <2>2, NextCases
  <2>4. HoldsInv'
    BY <2>2, <2>3, TypeStep, FramedStep, HoldsStep DEF HoldsInv, FramesInv
  <2>5. QED
    BY <2>2, <2>3, <2>4, RunsStep, CallsStep DEF CallsIInv
<1>5. QED
  BY <1>1, <1>2, <1>3, <1>4, PTL DEF Spec, CallsIInv

\* What stands for a call is what CallsFramed reads in the history.
LEMMA InputRead ==
    ASSUME NEW c, NEW x, history \in Seq(Records), IsStarted(c), InputIs(history, c, x)
    PROVE  InputOf(c) = x
<1>1. Given(c) = GivenIn(history, c)
  BY DEF Given, GivenIn
<1>2. CASE GivenIn(history, c) = {}
  <2>1. StartsAt(history, c, StartOf(c))
    BY DEF IsStarted, StartOf, StartsAt
  <2>2. QED
    BY <1>1, <1>2, <2>1 DEF InputOf, InputIs
<1>3. CASE GivenIn(history, c) # {}
  <2>1. PICK i : IsFirst(i, Given(c)) /\ history[i].input = x
    BY <1>1, <1>3 DEF InputIs
  <2>2. Given(c) \subseteq Nat
    BY DEF Given
  <2>3. \A j : IsFirst(j, Given(c)) => j = i
    BY <2>1, <2>2 DEF IsFirst
  <2> DEFINE first == CHOOSE j \in Given(c) : \A k \in Given(c) : j <= k
  <2>4. IsFirst(first, Given(c))
    BY <2>1 DEF IsFirst
  <2>5. first = i
    BY <2>3, <2>4
  <2>6. InputOf(c) = history[first].input
    BY <1>1, <1>3 DEF InputOf
  <2>7. QED
    BY <2>1, <2>5, <2>6
<1>4. QED
  BY <1>2, <1>3

\* What the client has read of a call, in the words of CallsFramed.
LEMMA LineRead ==
    ASSUME NEW c, NEW x, InputOf(c) = x
    PROVE  LET shown == {bridge.wire[k].kind : k \in EventsOf(c)}
           IN  /\ Promised(c) = Wanted(x)
               /\ \A kinds : LineIs(bridge.wire, c, kinds, x) =>
                     /\ shown = kinds
                     /\ \A j, k \in EventsOf(c) :
                           j < k => Place(bridge.wire[j].kind) < Place(bridge.wire[k].kind)
                     /\ \A k \in EventsOf(c) : bridge.wire[k].kind = "callArgs" =>
                           bridge.wire[k].input = InputOf(c)
<1>1. EventsOf(c) = LineOf(bridge.wire, c)
  BY DEF EventsOf, LineOf
<1>2. Promised(c) = Wanted(x)
  BY DEF Promised, Wanted, Begins, CallKinds
<1>3. QED
  BY <1>1, <1>2 DEF LineIs

\* A call none of whose updates was dropped is framed as it should be.
LEMMA StandsFramed ==
    ASSUME CallsIInv, NEW c \in Calls, IsStarted(c), IsFollowed(c)
    PROVE  LET shown == {bridge.wire[k].kind : k \in EventsOf(c)}
           IN  /\ \A j, k \in EventsOf(c) :
                     j < k => Place(bridge.wire[j].kind) < Place(bridge.wire[k].kind)
               /\ \A k \in EventsOf(c) : bridge.wire[k].kind = "callArgs" =>
                     bridge.wire[k].input = InputOf(c)
               /\ shown \subseteq Promised(c)
               /\ \A kind \in shown, before \in Promised(c) :
                     Place(before) < Place(kind) => before \in shown
               /\ RunOver(c) \/ IsCompleted(c) => shown = Promised(c)
<1>1. /\ history \in Seq(Records) /\ turn \in Nat /\ bridge.wire \in Seq(Events)
      /\ RunsInv /\ CallOK(bridge, history, c, turn, phase = "idle")
      /\ \A kinds, x : Shown(bridge, c, kinds, x) => LineIs(bridge.wire, c, kinds, x)
  BY ConstantsAssumption
     DEF CallsIInv, CallsInv, HoldsInv, FramesInv, TypeInv, Bridges, Framed, Shown
<1>2. StartedIn(history, c) /\ FollowedIn(history, c)
  BY DEF IsStarted, IsFollowed, StartedIn, StartsAt, FollowedIn
<1>3. PICK x \in Inputs, s \in Nat :
        /\ s <= turn /\ InputIs(history, c, x) /\ TurnIs(history, c, s)
        /\ Stands(bridge, history, c, x, s, turn, phase = "idle")
  BY <1>1, <1>2 DEF CallOK, Stage
<1>4. InputOf(c) = x
  BY <1>1, <1>3, InputRead
<1> DEFINE shown == {bridge.wire[k].kind : k \in EventsOf(c)}
<1>5. /\ Promised(c) = Wanted(x)
      /\ \A kinds : LineIs(bridge.wire, c, kinds, x) =>
            /\ shown = kinds
            /\ \A j, k \in EventsOf(c) :
                  j < k => Place(bridge.wire[j].kind) < Place(bridge.wire[k].kind)
            /\ \A k \in EventsOf(c) : bridge.wire[k].kind = "callArgs" =>
                  bridge.wire[k].input = InputOf(c)
  BY <1>4, LineRead
<1>6. RunOver(c) => RunEnds(bridge.wire, s)
  BY <1>3 DEF RunOver, RunEnds, TurnIs
<1>7. IsCompleted(c) <=> CompletedIn(history, c)
  BY DEF IsCompleted, CompletedIn
<1>8. PICK kinds : LineIs(bridge.wire, c, kinds, x) /\ kinds \in {{}, Begins(x), Wanted(x)}
        /\ (RunOver(c) \/ IsCompleted(c) => kinds = Wanted(x))
  <2>1. CASE Waits(bridge, c, x) \/ Runs(bridge, c, x)
    <3>1. bridge.sink # "ended"
      BY <1>1, <2>1 DEF RunsInv, RunsOK, Waits, Runs, Begun, IsPending
    <3>2. CASE ~CompletedIn(history, c) /\ s = turn
      <4>1. ~RunOver(c) /\ ~IsCompleted(c)
        BY <1>1, <1>3, <1>6, <1>7, <3>1, <3>2 DEF RunsInv, RunsOK
      <4>2. LineIs(bridge.wire, c, {}, x) \/ LineIs(bridge.wire, c, Begins(x), x)
        BY <1>1, <2>1 DEF Waits, Runs, Begun
      <4>3. QED
        BY <4>1, <4>2
    <3>3. CASE ~(~CompletedIn(history, c) /\ s = turn)
      BY <1>3, <1>6, <1>7, <2>1, <3>3 DEF Stands, Waits, Runs, Begun, Done, Lost
    <3>4. QED
      BY <3>2, <3>3
  <2>2. CASE ~(Waits(bridge, c, x) \/ Runs(bridge, c, x))
    <3>1. \/ Done(bridge, c, x)
          \/ /\ ~CompletedIn(history, c) /\ ~RunEnds(bridge.wire, s) /\ Lost(bridge, c, x)
      BY <1>3, <2>2 DEF Stands
    <3>2. CASE Done(bridge, c, x)
      BY <1>1, <3>2 DEF Done
    <3>3. CASE ~CompletedIn(history, c) /\ ~RunEnds(bridge.wire, s) /\ Lost(bridge, c, x)
      <4>1. LineIs(bridge.wire, c, {}, x) \/ LineIs(bridge.wire, c, Begins(x), x)
        BY <1>1, <3>3 DEF Lost
      <4>2. QED
        BY <1>6, <1>7, <3>3, <4>1
    <3>4. QED
      BY <3>1, <3>2, <3>3
  <2>3. QED
    BY <2>1, <2>2
<1>9. shown = kinds
  BY <1>5, <1>8
<1>10. kinds \subseteq Wanted(x)
  BY <1>8 DEF Wanted
<1>11. \A kind \in kinds, before \in Wanted(x) : Place(before) < Place(kind) => before \in kinds
  <2>1. /\ Place("callStart") = 1 /\ Place("callArgs") = 2
        /\ Place("callEnd") = 3 /\ Place("callResult") = 4
    BY DEF Place
  <2>2. CASE kinds = Begins(x)
    BY <2>1, <2>2 DEF Begins, Wanted
  <2>3. QED
    BY <1>8, <2>2
<1> HIDE DEF shown
<1>12. /\ shown \subseteq Promised(c)
       /\ \A kind \in shown, before \in Promised(c) :
             Place(before) < Place(kind) => before \in shown
       /\ RunOver(c) \/ IsCompleted(c) => shown = Promised(c)
  BY <1>5, <1>8, <1>9, <1>10, <1>11
<1>13. QED
  BY <1>5, <1>8, <1>12 DEF shown

\* A call none of whose updates was dropped is framed as promised, whatever
\* the interrupts, failures and ends of turns: START before its arguments,
\* these at most once, END and RESULT last, and all of it when the call is
\* completed or its run is over.
THEOREM CallsAlwaysFramed == Spec => []CallsFramed
<1>1. CallsIInv => CallsFramed
  BY StandsFramed DEF CallsFramed
<1>2. QED
  BY <1>1, CallsAlways, PTL

-----------------------------------------------------------------------------
(* Histories that keep the protocol.                                       *)

\* The first n records.
Upto(h, n) == [i \in 1..n |-> h[i]]

\* The call has started, and neither it nor its turn has ended since.
MayGoOn(h, c) ==
    \E k : /\ StartsAt(h, c, k)
           /\ \A j \in DOMAIN h : j > k =>
                  h[j].kind # "turnEnd" /\ ~(h[j].kind = "completed" /\ h[j].call = c)

\* What the agent may record after h.
Follows(h, u) ==
    /\ u.kind = "toolCall" => ~StartedIn(h, u.call)
    /\ u.kind \in {"progress", "completed"} => MayGoOn(h, u.call)
    /\ u.kind = "progress" => u.input # Nil
    /\ u.kind \notin {"toolCall", "progress", "completed"} => u.call = Nil

KeepsProtocol(h) == \A n \in DOMAIN h : Follows(Upto(h, n - 1), h[n])

\* The records before a place, and all of them.
LEMMA UptoFacts ==
    ASSUME NEW h \in Seq(Records)
    PROVE  /\ Upto(h, 0) = <<>> /\ Upto(h, Len(h)) = h
           /\ \A n \in 0..Len(h) : Upto(h, n) \in Seq(Records)
           /\ \A n \in 1..Len(h) : Upto(h, n) = Append(Upto(h, n - 1), h[n])
<1>1. /\ Len(h) \in Nat /\ DOMAIN h = 1..Len(h) /\ h = [i \in 1..Len(h) |-> h[i]]
      /\ \A i \in 1..Len(h) : h[i] \in Records
  OBVIOUS
<1>2. Upto(h, Len(h)) = h
  BY <1>1 DEF Upto
<1>3. Upto(h, 0) = <<>>
  BY DEF Upto
<1>4. ASSUME NEW n \in 0..Len(h)
      PROVE  Upto(h, n) \in Seq(Records) /\ Len(Upto(h, n)) = n
  <2>1. n \in Nat /\ \A i \in 1..n : i \in 1..Len(h)
    BY <1>1, <1>4
  <2>2. Upto(h, n) \in [1..n -> Records]
    BY <1>1, <2>1 DEF Upto
  <2>3. QED
    BY <2>1, <2>2
<1>5. ASSUME NEW n \in 1..Len(h)
      PROVE  Upto(h, n) = Append(Upto(h, n - 1), h[n])
  <2> DEFINE p == Upto(h, n - 1)
             v == Append(p, h[n])
  <2>1. n \in Nat /\ n - 1 \in 0..Len(h) /\ h[n] \in Records /\ (n - 1) + 1 = n
    BY <1>1, <1>5
  <2>2. p \in Seq(Records) /\ Len(p) = n - 1
    BY <1>4, <2>1
  <2>3. \A i \in 1..(n - 1) : p[i] = h[i]
    BY DEF Upto
  <2> HIDE DEF p
  <2>4. /\ v \in Seq(Records) /\ Len(v) = n /\ DOMAIN v = 1..n /\ v[n] = h[n]
        /\ \A i \in 1..(n - 1) : v[i] = p[i]
    BY <2>1, <2>2, AppendFacts
  <2>5. v = [i \in 1..n |-> v[i]]
    BY <2>4
  <2> HIDE DEF v
  <2>6. \A i \in 1..n : v[i] = h[i]
    BY <2>1, <2>3, <2>4
  <2>7. v = Upto(h, n)
    BY <2>5, <2>6 DEF Upto
  <2>8. QED
    BY <2>7 DEF v, p
<1>6. QED
  BY <1>2, <1>3, <1>4, <1>5

\* A record that follows keeps the protocol.
LEMMA ProtocolGrows ==
    ASSUME NEW h \in Seq(Records), KeepsProtocol(h), NEW u \in Records, Follows(h, u)
    PROVE  KeepsProtocol(Append(h, u))
<1> DEFINE v == Append(h, u)
           m == Len(h) + 1
<1>1. /\ DOMAIN h = 1..Len(h) /\ DOMAIN v = 1..m /\ v[m] = u
      /\ \A i \in DOMAIN h : v[i] = h[i]
      /\ Len(h) \in Nat
  BY HistoryFacts
<1> HIDE DEF v
<1>2. \A n \in 0..Len(h) : Upto(v, n) = Upto(h, n)
  BY <1>1 DEF Upto
<1>3. ASSUME NEW n \in DOMAIN v
      PROVE  Follows(Upto(v, n - 1), v[n])
  <2>1. CASE n = m
    BY <1>1, <1>2, <2>1, UptoFacts
  <2>2. CASE n # m
    <3>1. n \in DOMAIN h /\ n - 1 \in 0..Len(h)
      BY <1>1, <1>3, <2>2
    <3>2. QED
      BY <1>1, <1>2, <3>1 DEF KeepsProtocol
  <2>3. QED
    BY <2>1, <2>2
<1>4. QED
  BY <1>3 DEF KeepsProtocol, v

\* Turns follow each other in the history, and t is the last one.
TurnsAscend(h, t) ==
    \A i \in DOMAIN h :
        h[i].turn <= t /\ \A j \in DOMAIN h : i <= j => h[i].turn <= h[j].turn

\* No turn ends while the agent works on it.
TurnGoesOn(h, t) == \A i \in DOMAIN h : h[i].turn = t => h[i].kind # "turnEnd"

\* The record of a turn that is not before the last one.
LEMMA TurnsGrow ==
    ASSUME NEW h \in Seq(Records), NEW s \in Nat, TurnsAscend(h, s), NEW u \in Records,
           s <= u.turn
    PROVE  /\ TurnsAscend(Append(h, u), u.turn)
           /\ (s < u.turn \/ TurnGoesOn(h, s)) /\ u.kind # "turnEnd" =>
                 TurnGoesOn(Append(h, u), u.turn)
<1> DEFINE v == Append(h, u)
           m == Len(h) + 1
<1>1. /\ DOMAIN h = 1..Len(h) /\ DOMAIN v = 1..m /\ v[m] = u
      /\ \A i \in DOMAIN h : v[i] = h[i]
      /\ Len(h) \in Nat
  BY HistoryFacts
<1>2. u.turn \in Nat /\ \A i \in DOMAIN h : h[i].turn \in Nat
  <2>1. \A i \in DOMAIN h : h[i] \in Records
    OBVIOUS
  <2>2. \A w \in Records : w.turn \in Nat
    BY DEF Records
  <2>3. QED
    BY <2>1, <2>2
<1> HIDE DEF v
<1>3. \A i \in DOMAIN v : i = m \/ (i \in DOMAIN h /\ v[i] = h[i] /\ i < m /\ h[i].turn <= s)
  BY <1>1 DEF TurnsAscend
<1>4. ASSUME NEW i \in DOMAIN v
      PROVE  v[i].turn <= u.turn /\ \A j \in DOMAIN v : i <= j => v[i].turn <= v[j].turn
  <2>1. CASE i = m
    <3>1. \A j \in DOMAIN v : i <= j => j = m
      BY <1>1, <2>1
    <3>2. QED
      BY <1>1, <1>2, <2>1, <3>1
  <2>2. CASE i # m
    <3>1. i \in DOMAIN h /\ v[i] = h[i] /\ h[i].turn <= s /\ h[i].turn \in Nat
      BY <1>2, <1>3, <1>4, <2>2
    <3>2. v[i].turn <= u.turn
      BY <1>2, <3>1
    <3>3. \A j \in DOMAIN h : i <= j => h[i].turn <= h[j].turn
      BY <3>1 DEF TurnsAscend
    <3>4. QED
      BY <1>1, <1>3, <3>1, <3>2, <3>3
  <2>3. QED
    BY <2>1, <2>2
<1>5. ASSUME s < u.turn \/ TurnGoesOn(h, s), u.kind # "turnEnd", NEW i \in DOMAIN v,
             v[i].turn = u.turn
      PROVE  v[i].kind # "turnEnd"
  <2>1. CASE i = m
    BY <1>1, <1>5, <2>1
  <2>2. CASE i # m
    <3>1. i \in DOMAIN h /\ v[i] = h[i] /\ h[i].turn <= s /\ h[i].turn = u.turn
      BY <1>3, <1>5, <2>2
    <3>2. TurnGoesOn(h, s) /\ h[i].turn = s
      BY <1>2, <1>5, <3>1
    <3>3. QED
      BY <3>1, <3>2 DEF TurnGoesOn
  <2>3. QED
    BY <2>1, <2>2
<1>6. QED
  BY <1>4, <1>5 DEF TurnsAscend, TurnGoesOn, v

\* The agent keeps the protocol in every state.
ProtocolInv ==
    /\ KeepsProtocol(history) /\ TurnsAscend(history, turn)
    /\ phase \in {"working", "waiting"} => TurnGoesOn(history, turn)

\* What the agent may send next follows what it has sent.
LEMMA NextFollows ==
    ASSUME history \in Seq(Records), ProtocolInv, phase \in {"working", "waiting"},
           NEW u \in AgentUpdates
    PROVE  Follows(history, u)
<1>1. Nil # "later"
  BY ConstantsAssumption
<1>2. ASSUME NEW c, Running(c)
      PROVE  MayGoOn(history, c)
  <2>1. PICK k : StartsAt(history, c, k) /\ history[k].turn = turn
    BY <1>2 DEF Running, Sent, ThisTurn, StartsAt
  <2>2. ASSUME NEW j \in DOMAIN history, j > k
        PROVE  history[j].kind # "turnEnd"
               /\ ~(history[j].kind = "completed" /\ history[j].call = c)
    <3>1. k \in DOMAIN history /\ k \in Nat /\ j \in Nat
      BY <2>1 DEF StartsAt
    <3>2. history[k].turn <= history[j].turn /\ history[j].turn <= turn
      BY <2>2, <3>1 DEF ProtocolInv, TurnsAscend
    <3>3. history[j].turn \in Nat /\ turn \in Nat
      <4>1. history[j] \in Records /\ history[k] \in Records
        BY <2>2, <3>1
      <4>2. \A w \in Records : w.turn \in Nat
        BY DEF Records
      <4>3. QED
        BY <2>1, <4>1, <4>2
    <3>4. history[j].turn = turn
      BY <2>1, <3>2, <3>3
    <3>5. history[j].kind # "turnEnd"
      BY <3>4 DEF ProtocolInv, TurnGoesOn
    <3>6. QED
      BY <1>2, <3>4, <3>5 DEF Running, Sent, ThisTurn
  <2>3. QED
    BY <2>1, <2>2 DEF MayGoOn
<1>3. \A c : ~IsStarted(c) => ~StartedIn(history, c)
  BY DEF IsStarted, StartedIn, StartsAt
<1>4. QED
  BY <1>1, <1>2, <1>3 DEF AgentUpdates, NextUpdates, Plain, Follows

\* A step that records an update.
LEMMA ProtocolRecord ==
    ASSUME TypeInv, ProtocolInv, NEW u \in AgentUpdates \cup {Plain("user")}, NEW t \in Nat,
           turn <= t, history' = Recorded(u, t), turn' = t, Follows(history, u),
           phase' \in {"working", "waiting"} =>
              u.kind # "turnEnd" /\ (turn < t \/ phase \in {"working", "waiting"})
    PROVE  ProtocolInv'
<1>1. history \in Seq(Records) /\ turn \in Nat
  BY ConstantsAssumption DEF TypeInv
<1>2. PICK e \in Records :
        /\ history' = Append(history, e)
        /\ e.kind = u.kind /\ e.call = u.call /\ e.input = u.input /\ e.turn = t
  BY StepRecords
<1>3. Follows(history, e)
  BY <1>2 DEF Follows
<1>4. KeepsProtocol(history')
  BY <1>1, <1>2, <1>3, ProtocolGrows DEF ProtocolInv
<1>5. /\ TurnsAscend(history', t)
      /\ (turn < t \/ TurnGoesOn(history, turn)) /\ u.kind # "turnEnd" =>
            TurnGoesOn(history', t)
  <2>1. TurnsAscend(history, turn)
    BY DEF ProtocolInv
  <2>2. /\ TurnsAscend(Append(history, e), e.turn)
        /\ (turn < e.turn \/ TurnGoesOn(history, turn)) /\ e.kind # "turnEnd" =>
              TurnGoesOn(Append(history, e), e.turn)
    BY <1>1, <1>2, <2>1, TurnsGrow
  <2>3. QED
    BY <1>2, <2>2
<1>6. phase' \in {"working", "waiting"} => TurnGoesOn(history', t)
  BY <1>5 DEF ProtocolInv
<1>7. QED
  BY <1>4, <1>5, <1>6 DEF ProtocolInv

\* The agent keeps the protocol, and its turns follow each other.
LEMMA ProtocolAlways == Spec => [](HistoryInv /\ ProtocolInv)
<1>1. Init => ProtocolInv
  BY DEF Init, ProtocolInv, KeepsProtocol, TurnsAscend
<1>2. HistoryInv /\ ProtocolInv /\ [Next]_vars => ProtocolInv'
  <2>1. SUFFICES ASSUME TypeInv, ProtocolInv, [Next]_vars
                 PROVE  ProtocolInv'
    BY DEF HistoryInv
  <2>2. turn \in Nat /\ turn + 1 \in Nat /\ turn < turn + 1 /\ turn <= turn + 1 /\ turn <= turn
        /\ history \in Seq(Records)
    BY <2>1, ConstantsAssumption DEF TypeInv
  <2>3. \A kind : kind \notin {"toolCall", "progress", "completed"} => Follows(history, Plain(kind))
    BY DEF Follows, Plain
  <2>4. CASE Prompt
    <3>1. /\ turn' = turn + 1 /\ history' = Recorded(Plain("user"), turn')
          /\ Follows(history, Plain("user")) /\ Plain("user").kind = "user"
      BY <2>3, <2>4 DEF Prompt, Plain
    <3>2. QED
      BY <2>1, <2>2, <3>1, ProtocolRecord
  <2>5. CASE Update
    <3>1. PICK u \in NextUpdates : history' = Recorded(u, turn)
      BY <2>5 DEF Update
    <3>2. u \in AgentUpdates /\ u.kind # "turnEnd"
      BY <3>1 DEF AgentUpdates, NextUpdates, Plain
    <3>3. turn' = turn /\ phase \in {"working", "waiting"}
      BY <2>5 DEF Update
    <3>4. Follows(history, u)
      BY <2>1, <2>2, <3>2, <3>3, NextFollows
    <3>5. QED
      BY <2>1, <2>2, <3>1, <3>2, <3>3, <3>4, ProtocolRecord
  <2>6. CASE SendTurnEnd
    <3>1. /\ turn' = turn /\ history' = Recorded(Plain("turnEnd"), turn) /\ phase' = "closing"
          /\ Follows(history, Plain("turnEnd")) /\ Plain("turnEnd") \in AgentUpdates
      BY <2>3, <2>6, HandledUpdates DEF SendTurnEnd
    <3>2. QED
      BY <2>1, <2>2, <3>1, ProtocolRecord
  <2>7. CASE \/ PromptReturns \/ PromptFails \/ RequestPermission \/ Resume \/ Expire
             \/ UNCHANGED vars
    <3>1. /\ history' = history /\ turn' = turn
          /\ phase' \in {"working", "waiting"} => phase \in {"working", "waiting"}
      BY <2>7 DEF PromptReturns, PromptFails, RequestPermission, Resume, Expire, vars
    <3>2. QED
      BY <2>1, <3>1 DEF ProtocolInv
  <2>8. QED
    BY <2>1, <2>4, <2>5, <2>6, <2>7 DEF Next
<1>3. QED
  BY <1>1, <1>2, HistoryAlways, PTL DEF Spec

-----------------------------------------------------------------------------
(* A call in a replay of such a history.                                   *)

\* A call that may go on has started.
LEMMA GoesOnStarted ==
    ASSUME NEW h, NEW c, MayGoOn(h, c)
    PROVE  StartedIn(h, c)
BY DEF MayGoOn, StartedIn

\* One that may go on after a record that does not start it could before, and
\* the record ends neither the call nor its turn.
LEMMA GoesOnAfter ==
    ASSUME NEW h \in Seq(Records), NEW u \in Records, NEW c,
           u.kind # "toolCall" \/ u.call # c, MayGoOn(Append(h, u), c)
    PROVE  /\ MayGoOn(h, c)
           /\ u.kind # "turnEnd" /\ ~(u.kind = "completed" /\ u.call = c)
<1> DEFINE v == Append(h, u)
           m == Len(h) + 1
<1>1. /\ DOMAIN h = 1..Len(h) /\ DOMAIN v = 1..m /\ v[m] = u
      /\ \A i \in DOMAIN h : v[i] = h[i]
      /\ Len(h) \in Nat
  BY HistoryFacts
<1> HIDE DEF v
<1>2. PICK k : /\ StartsAt(v, c, k)
               /\ \A j \in DOMAIN v : j > k =>
                      v[j].kind # "turnEnd" /\ ~(v[j].kind = "completed" /\ v[j].call = c)
  BY DEF MayGoOn, v
<1>3. k \in 1..m /\ k # m
  BY <1>1, <1>2 DEF StartsAt
<1>4. k \in DOMAIN h /\ m > k /\ m \in DOMAIN v
  BY <1>1, <1>3
<1>5. StartsAt(h, c, k)
  BY <1>1, <1>2, <1>4 DEF StartsAt
<1>6. \A j \in DOMAIN h : j \in DOMAIN v /\ v[j] = h[j]
  BY <1>1
<1>7. \A j \in DOMAIN h : j > k =>
          h[j].kind # "turnEnd" /\ ~(h[j].kind = "completed" /\ h[j].call = c)
  BY <1>2, <1>6
<1>8. MayGoOn(h, c)
  BY <1>5, <1>7 DEF MayGoOn
<1>9. QED
  BY <1>1, <1>2, <1>4, <1>8

\* The stage of a call in a replay of p: it waits until it is given an input,
\* then runs, and is done when it may not go on.
ReplayStage(b, p, c) ==
    IF StartedIn(p, c)
    THEN \E x \in Inputs :
            /\ InputIs(p, c, x)
            /\ \/ GivenIn(p, c) = {} /\ Waits(b, c, x)
               \/ GivenIn(p, c) # {} /\ Runs(b, c, x)
               \/ ~MayGoOn(p, c) /\ Done(b, c, x)
    ELSE Unseen(b, c) /\ Untold(p, c)

StartedCalls(p) == {c \in Calls : StartedIn(p, c)}

\* b is the bridge of a replay of p.
Replays(b, p) ==
    /\ b \in Bridges /\ b.sink = "replay"
    /\ Holds(b, StartedCalls(p))
    /\ \A c \in Calls : ReplayStage(b, p, c)

\* The record of another call, or of none.
LEMMA ReplayOther ==
    ASSUME NEW b, NEW r, NEW h \in Seq(Records), NEW u \in Records, NEW c, u.call # c,
           ReplayStage(b, h, c), Untouched(b, r, c)
    PROVE  ReplayStage(r, Append(h, u), c)
<1> DEFINE v == Append(h, u)
<1>1. SameStory(h, v, c)
  BY OtherRecord
<1>2. MayGoOn(v, c) => MayGoOn(h, c)
  BY GoesOnAfter
<1> HIDE DEF v
<1>3. CASE StartedIn(h, c)
  <2>1. PICK x \in Inputs :
          /\ InputIs(h, c, x)
          /\ \/ GivenIn(h, c) = {} /\ Waits(b, c, x)
             \/ GivenIn(h, c) # {} /\ Runs(b, c, x)
             \/ ~MayGoOn(h, c) /\ Done(b, c, x)
    BY <1>3 DEF ReplayStage
  <2>2. /\ Waits(b, c, x) => Waits(r, c, x)
        /\ Runs(b, c, x) => Runs(r, c, x)
        /\ Done(b, c, x) => Done(r, c, x)
    BY UntouchedViews
  <2>3. StartedIn(v, c) /\ GivenIn(v, c) = GivenIn(h, c) /\ InputIs(v, c, x)
    BY <1>1, <1>3, <2>1 DEF SameStory
  <2>4. \/ GivenIn(v, c) = {} /\ Waits(r, c, x)
        \/ GivenIn(v, c) # {} /\ Runs(r, c, x)
        \/ ~MayGoOn(v, c) /\ Done(r, c, x)
    BY <1>2, <2>1, <2>2, <2>3
  <2>5. QED
    BY <2>3, <2>4 DEF ReplayStage, v
<1>4. CASE ~StartedIn(h, c)
  <2>1. Unseen(b, c) /\ Untold(h, c)
    BY <1>4 DEF ReplayStage
  <2>2. Unseen(r, c)
    BY <2>1, UntouchedViews
  <2>3. ~StartedIn(v, c) /\ Untold(v, c)
    BY <1>1, <1>4, <2>1 DEF SameStory
  <2>4. QED
    BY <2>2, <2>3 DEF ReplayStage, v
<1>5. QED
  BY <1>3, <1>4

\* The start of the call.
LEMMA ReplayStart ==
    ASSUME NEW b \in Bridges, NEW h \in Seq(Records), Holds(b, StartedCalls(h)),
           NEW c \in Calls, ReplayStage(b, h, c), ~StartedIn(h, c),
           NEW u \in Records, u.call = c, u.kind = "toolCall", u.input \in {"initial", Nil}
    PROVE  ReplayStage(ToolCall(b, c, u.input), Append(h, u), c)
<1> DEFINE v == Append(h, u)
           r == ToolCall(b, c, u.input)
<1>1. Unseen(b, c) /\ Untold(h, c) /\ c \notin StartedCalls(h)
  BY DEF ReplayStage, StartedCalls
<1>2. Waits(r, c, u.input)
  BY <1>1, CallQueued
<1>3. StartedIn(v, c) /\ GivenIn(v, c) = {} /\ InputIs(v, c, u.input)
  BY <1>1, StartRecord
<1>4. u.input \in Inputs
  BY DEF Inputs
<1> HIDE DEF v, r
<1>5. ReplayStage(r, v, c)
  BY <1>2, <1>3, <1>4 DEF ReplayStage
<1>6. QED
  BY <1>5 DEF v, r

\* An update of the call.
LEMMA ReplayGoesOn ==
    ASSUME NEW b \in Bridges, b.sink = "replay", Distinct(b), NEW h \in Seq(Records),
           NEW c \in Calls, ReplayStage(b, h, c), MayGoOn(h, c),
           NEW u \in Records, u.call = c
    PROVE  /\ u.kind = "progress" /\ u.input # Nil =>
                 ReplayStage(Progress(b, c, u.input), Append(h, u), c)
           /\ u.kind = "completed" =>
                 ReplayStage(Completed(b, c, u.input), Append(h, u), c)
<1> DEFINE v == Append(h, u)
           input == u.input
           p == Progress(b, c, input)
           d == Completed(b, c, input)
<1>1. StartedIn(h, c) /\ Listens(b) /\ input \in Inputs
  BY GoesOnStarted DEF Listens, Records
<1>2. PICK x \in Inputs :
        /\ InputIs(h, c, x)
        /\ \/ GivenIn(h, c) = {} /\ Waits(b, c, x)
           \/ GivenIn(h, c) # {} /\ Runs(b, c, x)
  BY <1>1 DEF ReplayStage
<1>3. u.kind \in {"progress", "completed"} =>
        /\ StartedIn(v, c)
        /\ GivenIn(v, c) = {} <=> GivenIn(h, c) = {} /\ input = Nil
        /\ InputIs(v, c, IF GivenIn(h, c) = {} /\ input # Nil THEN input ELSE x)
  BY <1>1, <1>2, UpdateRecord
<1>4. u.kind = "completed" => ~MayGoOn(v, c)
  BY GoesOnAfter
<1> HIDE DEF input
<1>5. /\ Waits(b, c, x) /\ input # Nil => Runs(p, c, input)
      /\ Runs(b, c, x) => p = b
      /\ Waits(b, c, x) => Done(d, c, Or(input, x))
      /\ Runs(b, c, x) => Done(d, c, x)
  BY <1>1, CallGoesOn
<1> HIDE DEF v, p, d
<1>6. ASSUME u.kind = "progress", input # Nil
      PROVE  ReplayStage(p, v, c)
  <2>1. CASE GivenIn(h, c) = {} /\ Waits(b, c, x)
    <3>1. StartedIn(v, c) /\ GivenIn(v, c) # {} /\ InputIs(v, c, input) /\ Runs(p, c, input)
      BY <1>3, <1>5, <1>6, <2>1
    <3>2. QED
      BY <1>1, <3>1 DEF ReplayStage
  <2>2. CASE GivenIn(h, c) # {} /\ Runs(b, c, x)
    <3>1. StartedIn(v, c) /\ GivenIn(v, c) # {} /\ InputIs(v, c, x) /\ Runs(p, c, x)
      BY <1>3, <1>5, <1>6, <2>2
    <3>2. QED
      BY <3>1 DEF ReplayStage
  <2>3. QED
    BY <1>2, <2>1, <2>2
<1>7. ASSUME u.kind = "completed"
      PROVE  ReplayStage(d, v, c)
  <2>1. CASE GivenIn(h, c) = {} /\ Waits(b, c, x)
    <3>1. Or(input, x) = IF GivenIn(h, c) = {} /\ input # Nil THEN input ELSE x
      BY <2>1 DEF Or
    <3>2. StartedIn(v, c) /\ InputIs(v, c, Or(input, x)) /\ Done(d, c, Or(input, x))
      BY <1>3, <1>5, <1>7, <2>1, <3>1
    <3>3. Or(input, x) \in Inputs
      BY <1>1 DEF Or
    <3>4. QED
      BY <1>4, <1>7, <3>2, <3>3 DEF ReplayStage
  <2>2. CASE GivenIn(h, c) # {} /\ Runs(b, c, x)
    <3>1. StartedIn(v, c) /\ InputIs(v, c, x) /\ Done(d, c, x)
      BY <1>3, <1>5, <1>7, <2>2
    <3>2. QED
      BY <1>4, <1>7, <3>1 DEF ReplayStage
  <2>3. QED
    BY <1>2, <2>1, <2>2
<1>8. QED
  BY <1>6, <1>7 DEF input, v, p, d

\* What the user says leaves every call as it was.
LEMMA UserUntouched ==
    ASSUME NEW b \in Bridges, b.sink = "replay", NEW n \in Nat
    PROVE  LET r == UserChunk(b, n)
           IN  /\ r \in Bridges /\ r.sink = "replay" /\ SameCalls(b, r)
               /\ \A c : Untouched(b, r, c)
<1> DEFINE m == CloseReasoning(b)
           a == AddUserText(m.acc, n)
           r == UserChunk(b, n)
<1>1. ClosesReasoning(b, m) /\ m \in Bridges /\ SameCalls(b, m) /\ m.sink = "replay"
  BY CloseReasoningFacts DEF ClosesReasoning, SameRun
<1>2. r = [m EXCEPT !.acc = a]
  BY DEF UserChunk
<1> HIDE DEF m
<1>3. m.acc \in Transcripts
  BY <1>1 DEF Bridges
<1>4. a \in Transcripts
  BY <1>3, AddUserTextType
<1>5. Kept(m.acc) => Kept(a) /\ \A c : Looks(m.acc, a, c)
  BY <1>3, UserWidens, WidensLooks DEF Kept
<1> HIDE DEF a, r
<1>6. /\ r \in Bridges /\ r.sink = "replay" /\ r.acc = a /\ r.wire = m.wire
      /\ SameCalls(m, r)
  BY <1>1, <1>2, <1>4 DEF Bridges, SameCalls
<1>7. ASSUME NEW c
      PROVE  Untouched(b, r, c)
  <2>1. SameShown(m, r, c)
    <3>1. SUFFICES ASSUME NEW kinds, NEW x, ReadsAs(m.acc, c, kinds, x)
                   PROVE  ReadsAs(r.acc, c, kinds, x)
      BY <1>1, <1>6 DEF SameShown, Shown
    <3>2. Kept(m.acc)
      BY <3>1 DEF ReadsAs
    <3>3. Kept(a) /\ Looks(m.acc, a, c)
      BY <1>5, <3>2
    <3>4. QED
      BY <1>6, <3>1, <3>3, LooksReads
  <2>2. Untouched(m, r, c)
    BY <1>6, <2>1 DEF Untouched, SameCalls, SameEnds, IsPending, PendingInput, PendingAt
  <2>3. QED
    BY <1>1, <2>2, UntouchedFrames, UntouchedTwice
<1>8. QED
  BY <1>1, <1>6, <1>7 DEF r, SameCalls

\* The end of a turn completes the calls that go on.
LEMMA ReplayTurnEnd ==
    ASSUME NEW b, NEW h \in Seq(Records), Replays(b, h), NEW u \in Records,
           u.kind = "turnEnd", u.call = Nil, NEW rank \in Ranks
    PROVE  Replays(FinishRun(b, rank), Append(h, u))
<1> DEFINE v == Append(h, u)
           r == FinishRun(b, rank)
<1>1. b \in Bridges /\ b.sink = "replay" /\ Holds(b, StartedCalls(h)) /\ Listens(b)
  BY DEF Replays, Listens
<1>2. rank \in Seq(Calls)
  BY RankFacts
<1>3. Ends(b, r, rank, "runFinished")
  BY <1>1, <1>2, EndRunFacts
<1> HIDE DEF r
<1>4. r \in Bridges /\ r.sink = "replay" /\ r.pending = <<>> /\ r.open = {}
  BY <1>1, <1>2, <1>3, EndedRun, HoldsRuns
<1>5. ASSUME NEW c \in Calls
      PROVE  ReplayStage(r, v, c)
  <2>1. c # Nil /\ ReplayStage(b, h, c)
    BY ConstantsAssumption DEF Replays
  <2>2. SameStory(h, v, c) /\ ~MayGoOn(v, c)
    BY <2>1, OtherRecord, GoesOnAfter
  <2>3. \A x \in Inputs : /\ Waits(b, c, x) \/ Runs(b, c, x) => Done(r, c, x)
                          /\ Done(b, c, x) => Done(r, c, x)
                          /\ Unseen(b, c) => Unseen(r, c)
    BY <1>1, <1>3, EndedCall
  <2> HIDE DEF v
  <2>4. CASE StartedIn(h, c)
    <3>1. PICK x \in Inputs : InputIs(h, c, x) /\ Done(r, c, x)
      BY <2>1, <2>3, <2>4 DEF ReplayStage
    <3>2. StartedIn(v, c) /\ InputIs(v, c, x)
      BY <2>2, <2>4, <3>1 DEF SameStory
    <3>3. QED
      BY <2>2, <3>1, <3>2 DEF ReplayStage
  <2>5. CASE ~StartedIn(h, c)
    <3>1. Unseen(r, c) /\ Untold(h, c)
      BY <2>1, <2>3, <2>5 DEF ReplayStage, Inputs
    <3>2. ~StartedIn(v, c) /\ Untold(v, c)
      BY <2>2, <2>5, <3>1 DEF SameStory
    <3>3. QED
      BY <3>1, <3>2 DEF ReplayStage
  <2>6. QED
    BY <2>4, <2>5
<1>6. Holds(r, StartedCalls(v))
  BY <1>4, HoldsNothing
<1>7. QED
  BY <1>4, <1>5, <1>6 DEF Replays, r

\* A call that has started stays started; one that a record starts has.
LEMMA StartedGrows ==
    ASSUME NEW h \in Seq(Records), NEW u \in Records
    PROVE  /\ StartedCalls(h) \subseteq StartedCalls(Append(h, u))
           /\ u.kind = "toolCall" /\ u.call \in Calls =>
                 StartedCalls(h) \cup {u.call} \subseteq StartedCalls(Append(h, u))
<1> DEFINE v == Append(h, u)
           m == Len(h) + 1
<1>1. /\ m \in DOMAIN v /\ v[m] = u
      /\ \A i \in DOMAIN h : i \in DOMAIN v /\ v[i] = h[i]
  BY HistoryFacts
<1> HIDE DEF v, m
<1>2. \A c : StartedIn(h, c) => StartedIn(v, c)
  BY <1>1 DEF StartedIn, StartsAt
<1>3. u.kind = "toolCall" => StartedIn(v, u.call)
  BY <1>1 DEF StartedIn, StartsAt
<1>4. QED
  BY <1>2, <1>3 DEF StartedCalls, v

\* Every record that keeps the protocol moves each call to its next stage.
LEMMA ReplayUpdate ==
    ASSUME NEW b, NEW h \in Seq(Records), Replays(b, h), NEW u \in Records, Carries(u),
           Follows(h, u), NEW n \in Nat, NEW rank \in Ranks
    PROVE  Replays(SessionUpdate(b, u, n, rank), Append(h, u))
<1> DEFINE v == Append(h, u)
           r == SessionUpdate(b, u, n, rank)
<1>1. /\ b \in Bridges /\ b.sink = "replay" /\ Holds(b, StartedCalls(h)) /\ Distinct(b)
      /\ \A c \in Calls : ReplayStage(b, h, c)
  BY DEF Replays, Holds
<1>2. u.kind \in {"user", "text", "thought", "toolCall", "progress", "completed", "turnEnd"}
      /\ u.input \in Inputs
  BY DEF Records
<1>3. r \in Bridges
  BY <1>1, RankFacts, UpdateType
<1>4. StartedCalls(h) \subseteq StartedCalls(v)
  BY StartedGrows
<1>5. ASSUME r.sink = "replay", Holds(r, StartedCalls(h)), u.call \notin Calls,
             \A c \in Calls : Untouched(b, r, c)
      PROVE  Replays(r, v)
  <2>1. \A c \in Calls : ReplayStage(r, v, c)
    <3> HIDE DEF r
    <3>1. QED
      BY <1>1, <1>5, ReplayOther
  <2>2. Holds(r, StartedCalls(v))
    <3> HIDE DEF r, v
    <3>1. QED
      BY <1>4, <1>5, HoldsMore
  <2>3. QED
    BY <1>3, <1>5, <2>1, <2>2 DEF Replays
<1>6. CASE u.kind \in {"user", "text", "thought"}
  <2>1. u.call \notin Calls
    BY <1>6, ConstantsAssumption DEF Follows
  <2>2. CASE u.kind = "user"
    <3>1. r = UserChunk(b, n)
      BY <1>1, <2>2 DEF SessionUpdate
    <3>2. r.sink = "replay" /\ SameCalls(b, r) /\ \A c : Untouched(b, r, c)
      BY <1>1, <3>1, UserUntouched
    <3> HIDE DEF r
    <3>3. Holds(r, StartedCalls(h))
      BY <1>1, <3>2, HoldsSame DEF SameCalls
    <3>4. QED
      BY <1>5, <2>1, <3>2, <3>3 DEF r
  <2>3. CASE u.kind \in {"text", "thought"}
    <3>1. r = TextDelta(b, n) \/ r = ThoughtDelta(b, n)
      BY <1>1, <2>3 DEF SessionUpdate
    <3> HIDE DEF r
    <3>2. r.sink = "replay"
      BY <1>1, <3>1, HandlersKeepRun DEF SameRun
    <3>3. Holds(r, StartedCalls(h))
      BY <1>1, <3>1, HoldsFrames
    <3>4. \A c \in Calls : Untouched(b, r, c)
      BY <1>1, <3>1, UntouchedChunks
    <3>5. QED
      BY <1>5, <2>1, <3>2, <3>3, <3>4 DEF r
  <2>4. QED
    BY <1>6, <2>2, <2>3
<1>7. CASE u.kind = "turnEnd"
  <2>1. r = FinishRun(b, rank)
    BY <1>1, <1>7 DEF SessionUpdate, TurnEnd
  <2>2. u.call = Nil
    BY <1>7 DEF Follows
  <2>3. QED
    BY <1>7, <2>1, <2>2, ReplayTurnEnd
<1>8. CASE u.kind = "toolCall"
  <2>1. /\ u.call \in Calls /\ u.input \in {"initial", Nil} /\ ~StartedIn(h, u.call)
        /\ u.call \notin StartedCalls(h)
    BY <1>8 DEF Carries, Follows, StartedCalls
  <2>2. r = ToolCall(b, u.call, u.input)
    BY <1>1, <1>8 DEF SessionUpdate
  <2>3. r.sink = "replay"
    <3>1. SameRun(b, ToolCall(b, u.call, u.input))
      BY <1>1, <2>1, HandlersKeepRun
    <3>2. QED
      BY <1>1, <2>2, <3>1 DEF SameRun
  <2>4. Holds(r, StartedCalls(h) \cup {u.call})
    BY <1>1, <2>1, <2>2, HoldsCalls
  <2>5. StartedCalls(h) \cup {u.call} \subseteq StartedCalls(v)
    BY <1>8, <2>1, StartedGrows
  <2>6. ReplayStage(r, v, u.call)
    BY <1>1, <1>8, <2>1, <2>2, ReplayStart
  <2> HIDE DEF r
  <2>7. \A c \in Calls : u.call # c => Untouched(b, r, c)
    BY <1>1, <2>1, <2>2, UntouchedByOthers
  <2>8. \A c \in Calls : u.call # c => ReplayStage(r, v, c)
    BY <1>1, <2>7, ReplayOther
  <2> HIDE DEF v
  <2>9. Holds(r, StartedCalls(v))
    BY <2>4, <2>5, HoldsMore
  <2>10. QED
    BY <1>3, <2>3, <2>6, <2>8, <2>9 DEF Replays, r, v
<1>9. CASE u.kind \in {"progress", "completed"}
  <2>1. u.call \in Calls /\ MayGoOn(h, u.call) /\ (u.kind = "progress" => u.input # Nil)
    BY <1>9 DEF Carries, Follows
  <2>2. \/ u.kind = "progress" /\ r = Progress(b, u.call, u.input)
        \/ u.kind = "completed" /\ r = Completed(b, u.call, u.input)
    BY <1>1, <1>9 DEF SessionUpdate
  <2>3. r.sink = "replay"
    <3>1. /\ SameRun(b, Progress(b, u.call, u.input))
          /\ SameRun(b, Completed(b, u.call, u.input))
      BY <1>1, <1>2, <2>1, HandlersKeepRun
    <3>2. QED
      BY <1>1, <2>2, <3>1 DEF SameRun
  <2>4. Holds(r, StartedCalls(h))
    BY <1>1, <1>2, <2>1, <2>2, HoldsCalls
  <2>5. ReplayStage(r, v, u.call)
    BY <1>1, <2>1, <2>2, ReplayGoesOn
  <2> HIDE DEF r
  <2>6. \A c \in Calls : u.call # c => Untouched(b, r, c)
    BY <1>1, <1>2, <2>1, <2>2, UntouchedByOthers
  <2>7. \A c \in Calls : u.call # c => ReplayStage(r, v, c)
    BY <1>1, <2>6, ReplayOther
  <2> HIDE DEF v
  <2>8. Holds(r, StartedCalls(v))
    BY <1>4, <2>4, HoldsMore
  <2>9. QED
    BY <1>3, <2>3, <2>5, <2>7, <2>8 DEF Replays, r, v
<1>10. QED
  BY <1>2, <1>6, <1>7, <1>8, <1>9

\* Before the first record nothing is shown of any call.
LEMMA ReplaysNothing == Replays(NewReplay, <<>>)
<1>1. NewReplay.pending = <<>> /\ NewReplay.open = {} /\ NewReplay.argsSent = {}
  BY DEF NewReplay, NewBridge
<1>2. \A c : Unseen(NewReplay, c)
  BY <1>1, NewReplayType, ReadsNothing DEF Unseen, IsPending, Shown
<1>3. \A c : ~StartedIn(<<>>, c) /\ Untold(<<>>, c)
  BY DEF StartedIn, StartsAt, Untold
<1>4. QED
  BY <1>1, <1>2, <1>3, NewReplayType, HoldsNothing DEF Replays, ReplayStage

\* After each record every call is in its stage.
LEMMA ReplaysLoaded ==
    ASSUME NEW h \in Histories, KeepsProtocol(h), NEW rank \in Ranks,
           NEW g, LoadedBy(h, rank, g)
    PROVE  Replays(g[Len(h)], h)
<1> DEFINE n == Len(h)
           S == {i \in 0..n : Replays(g[i], Upto(h, i))}
<1>1. h \in Seq(Records) /\ n \in Nat /\ DOMAIN h = 1..n
  BY DEF Histories
<1>2. 0 \in S
  BY <1>1, ReplaysNothing, UptoFacts DEF LoadedBy
<1>3. \A i \in 0..n : i \in S /\ i < n => i + 1 \in S
  <2>1. SUFFICES ASSUME NEW i \in 0..n, Replays(g[i], Upto(h, i)), i < n
                 PROVE  Replays(g[i + 1], Upto(h, i + 1))
    BY <1>1
  <2>2. i \in Nat /\ i + 1 \in Nat /\ i + 1 \in 1..n /\ (i + 1) - 1 = i
    BY <1>1, <2>1
  <2>3. g[i + 1] = SessionUpdate(g[i], h[i + 1], i + 1, rank)
    BY <2>2 DEF LoadedBy
  <2>4. Upto(h, i + 1) = Append(Upto(h, i), h[i + 1]) /\ Upto(h, i) \in Seq(Records)
    BY <1>1, <2>1, <2>2, UptoFacts
  <2>5. Follows(Upto(h, i), h[i + 1])
    BY <1>1, <2>2 DEF KeepsProtocol
  <2>6. h[i + 1] \in Records /\ Carries(h[i + 1])
    BY <2>2, RecordIn
  <2>7. QED
    BY <2>1, <2>2, <2>3, <2>4, <2>5, <2>6, ReplayUpdate
<1>4. 0..n \subseteq S
  <2> HIDE DEF S, n
  <2>1. QED
    BY <1>1, <1>2, <1>3, IntervalInduction
<1>5. n \in S
  BY <1>1, <1>4
<1>6. Upto(h, n) = h
  BY <1>1, UptoFacts
<1>7. QED
  BY <1>5, <1>6

-----------------------------------------------------------------------------
(* What the snapshot shows.                                                *)

\* The end of the replay completes every call that goes on.
LEMMA ReplayEnds ==
    ASSUME NEW b, NEW h, Replays(b, h), NEW rank \in Ranks, NEW c \in Calls
    PROVE  LET acc == FinishRun(b, rank).acc
           IN  IF StartedIn(h, c)
               THEN \E x \in Inputs : InputIs(h, c, x) /\ ReadsAs(acc, c, Wanted(x), x)
               ELSE ReadsAs(acc, c, {}, Nil)
<1> DEFINE r == FinishRun(b, rank)
<1>1. /\ b \in Bridges /\ b.sink = "replay" /\ Holds(b, StartedCalls(h)) /\ Listens(b)
      /\ ReplayStage(b, h, c)
  BY DEF Replays, Listens
<1>2. rank \in Seq(Calls)
  BY RankFacts
<1>3. Ends(b, r, rank, "runFinished")
  BY <1>1, <1>2, EndRunFacts
<1> HIDE DEF r
<1>4. r.sink = "replay"
  BY <1>1, <1>2, <1>3, EndedRun
<1>5. \A x \in Inputs : /\ Waits(b, c, x) \/ Runs(b, c, x) => Done(r, c, x)
                        /\ Done(b, c, x) => Done(r, c, x)
                        /\ Unseen(b, c) => Unseen(r, c)
  BY <1>1, <1>3, EndedCall
<1>6. CASE StartedIn(h, c)
  <2>1. PICK x \in Inputs : InputIs(h, c, x) /\ Done(r, c, x)
    BY <1>1, <1>5, <1>6 DEF ReplayStage
  <2>2. ReadsAs(r.acc, c, Wanted(x), x)
    BY <1>4, <2>1 DEF Done, Shown
  <2>3. QED
    BY <1>6, <2>1, <2>2 DEF r
<1>7. CASE ~StartedIn(h, c)
  <2>1. Unseen(r, c)
    BY <1>1, <1>5, <1>7 DEF ReplayStage, Inputs
  <2>2. ReadsAs(r.acc, c, {}, Nil)
    BY <1>4, <2>1 DEF Unseen, Shown
  <2>3. QED
    BY <1>7, <2>2 DEF r
<1>8. QED
  BY <1>6, <1>7

\* The places and results of a call, in the words of CallsInSnapshot.
LEMMA PlacesRead ==
    ASSUME NEW ms, NEW c
    PROVE  /\ \A p \in CallsIn(ms, c) : p = <<p[1], p[2]>> /\ PlaceOf(ms, p[1], p[2], c)
           /\ \A m, j : PlaceOf(ms, m, j, c) => <<m, j>> \in CallsIn(ms, c)
           /\ \A m : m \in ResultsIn(ms, c) <=> ResultAt(ms, m, c)
<1>1. \A p \in CallsIn(ms, c) : p = <<p[1], p[2]>> /\ PlaceOf(ms, p[1], p[2], c)
  BY DEF CallsIn, PlaceOf
<1>2. \A m, j : PlaceOf(ms, m, j, c) => <<m, j>> \in CallsIn(ms, c)
  BY DEF CallsIn, PlaceOf
<1>3. \A m : m \in ResultsIn(ms, c) <=> ResultAt(ms, m, c)
  BY DEF ResultsIn, ResultAt
<1>4. QED
  BY <1>1, <1>2, <1>3

\* A call read as a whole is shown once, with its input and its result after.
LEMMA ReadOnce ==
    ASSUME NEW acc, NEW c, NEW x, ReadsAs(acc, c, Wanted(x), x)
    PROVE  \E m, j, r : /\ CallsIn(acc.messages, c) = {<<m, j>>}
                        /\ ResultsIn(acc.messages, c) = {r}
                        /\ acc.messages[m].calls[j].args = x
                        /\ m < r
<1> DEFINE m == acc.where[c].message
           j == acc.where[c].index
           ms == acc.messages
<1>1. /\ "callStart" \in Wanted(x) /\ "callResult" \in Wanted(x)
      /\ "callArgs" \in Wanted(x) <=> x # Nil
  BY DEF Wanted, Begins
<1>2. StandsAt(acc, c, x) /\ Answered(acc, c) /\ Located(acc)
  BY <1>1 DEF ReadsAs, Kept
<1>3. PlaceOf(ms, m, j, c)
  BY <1>2 DEF StandsAt, Located
<1>4. \A n, k : PlaceOf(ms, n, k, c) => n = m /\ k = j
  BY <1>2 DEF StandsAt
<1>5. ms[m].calls[j].args = x
  BY <1>2, <1>3 DEF StandsAt, ArgsAt
<1>6. PICK r : ResultAt(ms, r, c) /\ m < r /\ \A q : ResultAt(ms, q, c) => q = r
  BY <1>2 DEF Answered
<1> HIDE DEF m, j, ms
<1>7. CallsIn(ms, c) = {<<m, j>>}
  <2>1. <<m, j>> \in CallsIn(ms, c)
    BY <1>3, PlacesRead
  <2>2. ASSUME NEW p \in CallsIn(ms, c)
        PROVE  p = <<m, j>>
    <3>1. p = <<p[1], p[2]>> /\ PlaceOf(ms, p[1], p[2], c)
      BY PlacesRead
    <3>2. p[1] = m /\ p[2] = j
      BY <1>4, <3>1
    <3>3. QED
      BY <3>1, <3>2
  <2>3. QED
    BY <2>1, <2>2
<1>8. ResultsIn(ms, c) = {r}
  BY <1>6, PlacesRead
<1>9. QED
  BY <1>5, <1>6, <1>7, <1>8 DEF ms

\* A call of which nothing is read is not shown.
LEMMA ReadNever ==
    ASSUME NEW acc, NEW c, ReadsAs(acc, c, {}, Nil)
    PROVE  CallsIn(acc.messages, c) = {} /\ ResultsIn(acc.messages, c) = {}
<1>1. Missing(acc, c) /\ Unanswered(acc, c)
  BY DEF ReadsAs
<1>2. QED
  BY <1>1, PlacesRead DEF Missing, Unanswered

\* Whatever a live session went through - interrupts, failures, updates that
\* were dropped, turns that were never marked - the snapshot of its history
\* shows each call that was started once, with its first input, and its one
\* result after it, and no other call.
THEOREM SnapshotsShowCalls == Spec => []CallsInSnapshot
<1>1. HistoryInv /\ ProtocolInv => CallsInSnapshot
  <2> SUFFICES ASSUME HistoryInv, ProtocolInv, NEW rank \in Ranks, NEW c \in Calls
               PROVE  LET ms == Replay(history, rank)
                      IN  /\ Cardinality(CallsIn(ms, c)) = (IF IsStarted(c) THEN 1 ELSE 0)
                          /\ Cardinality(ResultsIn(ms, c)) = Cardinality(CallsIn(ms, c))
                          /\ \A p \in CallsIn(ms, c), m \in ResultsIn(ms, c) :
                                ms[p[1]].calls[p[2]].args = InputOf(c) /\ p[1] < m
    BY DEF CallsInSnapshot
  <2>1. history \in Histories /\ history \in Seq(Records) /\ KeepsProtocol(history)
        /\ rank \in Seq(Calls)
    BY RankFacts DEF HistoryInv, Histories, ProtocolInv
  <2>2. PICK g : /\ LoadedBy(history, rank, g)
                 /\ Replay(history, rank) = FinishRun(g[Len(history)], rank).acc.messages
    BY <2>1, ReplayFacts
  <2>3. Replays(g[Len(history)], history)
    BY <2>1, <2>2, ReplaysLoaded
  <2> DEFINE acc == FinishRun(g[Len(history)], rank).acc
             ms == Replay(history, rank)
  <2>4. IF StartedIn(history, c)
        THEN \E x \in Inputs : InputIs(history, c, x) /\ ReadsAs(acc, c, Wanted(x), x)
        ELSE ReadsAs(acc, c, {}, Nil)
    BY <2>3, ReplayEnds
  <2>5. ms = acc.messages
    BY <2>2
  <2>6. StartedIn(history, c) <=> IsStarted(c)
    BY DEF StartedIn, StartsAt, IsStarted
  <2> HIDE DEF acc, ms
  <2>7. CASE IsStarted(c)
    <3>1. PICK x \in Inputs : InputIs(history, c, x) /\ ReadsAs(acc, c, Wanted(x), x)
      BY <2>4, <2>6, <2>7
    <3>2. InputOf(c) = x
      BY <2>1, <2>7, <3>1, InputRead
    <3>3. PICK m, j, r : /\ CallsIn(ms, c) = {<<m, j>>} /\ ResultsIn(ms, c) = {r}
                         /\ ms[m].calls[j].args = x /\ m < r
      BY <2>5, <3>1, ReadOnce
    <3>4. Cardinality(CallsIn(ms, c)) = 1 /\ Cardinality(ResultsIn(ms, c)) = 1
      BY <3>3, FS_Singleton
    <3>5. \A p \in CallsIn(ms, c), q \in ResultsIn(ms, c) :
              ms[p[1]].calls[p[2]].args = InputOf(c) /\ p[1] < q
      BY <3>2, <3>3
    <3>6. QED
      BY <2>7, <3>4, <3>5 DEF ms
  <2>8. CASE ~IsStarted(c)
    <3>1. CallsIn(ms, c) = {} /\ ResultsIn(ms, c) = {}
      BY <2>4, <2>5, <2>6, <2>8, ReadNever
    <3>2. Cardinality(CallsIn(ms, c)) = 0 /\ Cardinality(ResultsIn(ms, c)) = 0
      BY <3>1, FS_EmptySet
    <3>3. QED
      BY <2>8, <3>1, <3>2 DEF ms
  <2>9. QED
    BY <2>7, <2>8
<1>2. QED
  BY <1>1, ProtocolAlways, PTL
=============================================================================
