--------------------------- MODULE FramingProofs ---------------------------
(***************************************************************************)
(* What holds of Framing for any calls and any number of turns, updates    *)
(* and questions: its types, the nesting of its frames and the order of    *)
(* its chunks.  Each is an invariant of every step (Stepped), and a step   *)
(* is taken by the relations of FramingLemmas.                             *)
(***************************************************************************)
EXTENDS FramingLemmas, FiniteSetTheorems, FunctionTheorems

-----------------------------------------------------------------------------
(* The frames on the wire.                                                 *)

\* A text message or a thought is open after these.
TextOpen == {"textStart", "text"}

ThoughtOpen == {"thoughtStart", "thought"}

\* The last event on the wire that is not about a tool call.
IsLast(w, i) ==
    /\ i \in DOMAIN w
    /\ w[i].kind \notin CallKinds
    /\ \A k \in i + 1 .. Len(w) : w[k].kind \in CallKinds

\* Message id, opened or gone on with by an event of these kinds, is open.
Going(w, kinds, id) == \E i \in DOMAIN w : IsLast(w, i) /\ w[i].kind \in kinds /\ w[i].id = id

\* No message is open.
Quiet(w) == \A i \in DOMAIN w : IsLast(w, i) => w[i].kind \notin TextOpen \cup ThoughtOpen

\* Adjacent and FramesNest, of any wire.
AdjacentIn(w, i, j) ==
    /\ i < j
    /\ {w[i].kind, w[j].kind} \cap CallKinds = {}
    /\ \A k \in i + 1 .. j - 1 : w[k].kind \in CallKinds

Nested(w) ==
    \A j \in DOMAIN w :
        IF w[j].kind \in {"text", "textEnd", "thought", "thoughtEnd"}
        THEN \E i \in DOMAIN w : AdjacentIn(w, i, j) /\ GoesOn(w[i], w[j])
        ELSE \A i \in DOMAIN w : AdjacentIn(w, i, j) =>
                w[i].kind \notin {"textStart", "text", "thoughtStart", "thought"}

\* What the wire is once an event is put at its end.
LEMMA WireFacts ==
    ASSUME NEW w \in Seq(Events), NEW e \in Events
    PROVE  LET v == Append(w, e)
               n == Len(w) + 1
           IN  /\ v \in Seq(Events) /\ DOMAIN w = 1..Len(w) /\ DOMAIN v = 1..n /\ Len(v) = n
               /\ v[n] = e /\ n \notin DOMAIN w /\ \A i \in DOMAIN w : v[i] = w[i]
               /\ n \in Nat
OBVIOUS

\* An event of a call leaves the frames as they are.
LEMMA CallEventOnWire ==
    ASSUME NEW w \in Seq(Events), NEW e \in Events, e.kind \in CallKinds
    PROVE  /\ Nested(w) => Nested(Append(w, e))
           /\ Quiet(w) => Quiet(Append(w, e))
           /\ \A kinds, id : Going(w, kinds, id) => Going(Append(w, e), kinds, id)
<1> DEFINE v == Append(w, e)
           n == Len(w) + 1
<1>1. /\ DOMAIN w = 1..Len(w) /\ DOMAIN v = 1..n /\ Len(v) = n /\ v[n] = e
      /\ n \notin DOMAIN w /\ \A i \in DOMAIN w : v[i] = w[i]
      /\ Len(w) \in Nat
  BY WireFacts
<1> HIDE DEF v
<1>2. \A i : IsLast(v, i) <=> IsLast(w, i)
  <2>1. SUFFICES ASSUME NEW i PROVE IsLast(v, i) <=> IsLast(w, i)
    OBVIOUS
  <2>2. CASE i = n
    BY <1>1, <2>2 DEF IsLast
  <2>3. CASE i \in DOMAIN w
    <3>1. i + 1 .. n = (i + 1 .. Len(w)) \cup {n}
      BY <1>1, <2>3
    <3>2. \A k \in i + 1 .. Len(w) : v[k] = w[k]
      BY <1>1, <2>3
    <3>3. QED
      BY <1>1, <2>3, <3>1, <3>2 DEF IsLast
  <2>4. CASE i \notin DOMAIN v
    BY <1>1, <2>4 DEF IsLast
  <2>5. QED
    BY <1>1, <2>2, <2>3, <2>4
<1>3. \A i, j \in DOMAIN w : AdjacentIn(v, i, j) <=> AdjacentIn(w, i, j)
  <2>1. SUFFICES ASSUME NEW i \in DOMAIN w, NEW j \in DOMAIN w
                 PROVE  AdjacentIn(v, i, j) <=> AdjacentIn(w, i, j)
    OBVIOUS
  <2>2. \A k \in i + 1 .. j - 1 : v[k] = w[k]
    BY <1>1
  <2>3. v[i] = w[i] /\ v[j] = w[j]
    BY <1>1
  <2>4. QED
    BY <2>2, <2>3 DEF AdjacentIn
<1>4. \A i, j : i = n \/ j = n => ~AdjacentIn(v, i, j)
  BY <1>1 DEF AdjacentIn
<1>5. Nested(w) => Nested(v)
  <2>1. SUFFICES ASSUME Nested(w), NEW j \in DOMAIN v
                 PROVE  IF v[j].kind \in {"text", "textEnd", "thought", "thoughtEnd"}
                        THEN \E i \in DOMAIN v : AdjacentIn(v, i, j) /\ GoesOn(v[i], v[j])
                        ELSE \A i \in DOMAIN v : AdjacentIn(v, i, j) =>
                                v[i].kind \notin {"textStart", "text", "thoughtStart", "thought"}
    BY DEF Nested
  <2>2. CASE j = n
    <3>1. v[j].kind \notin {"text", "textEnd", "thought", "thoughtEnd"}
      BY <1>1, <2>2 DEF CallKinds
    <3>2. QED
      BY <1>4, <2>2, <3>1
  <2>3. CASE j \in DOMAIN w
    <3>1. IF w[j].kind \in {"text", "textEnd", "thought", "thoughtEnd"}
          THEN \E i \in DOMAIN w : AdjacentIn(w, i, j) /\ GoesOn(w[i], w[j])
          ELSE \A i \in DOMAIN w : AdjacentIn(w, i, j) =>
                  w[i].kind \notin {"textStart", "text", "thoughtStart", "thought"}
      BY <2>1, <2>3 DEF Nested
    <3>2. v[j] = w[j] /\ DOMAIN w \subseteq DOMAIN v /\ \A i \in DOMAIN v : i # n => i \in DOMAIN w
      BY <1>1, <2>3
    <3>3. QED
      BY <1>1, <1>3, <1>4, <2>3, <3>1, <3>2
  <2>4. QED
    BY <1>1, <2>2, <2>3
<1>6. Quiet(w) => Quiet(v)
  BY <1>1, <1>2 DEF Quiet, IsLast
<1>7. ASSUME NEW kinds, NEW id, Going(w, kinds, id)
      PROVE  Going(v, kinds, id)
  BY <1>1, <1>2, <1>7 DEF Going
<1>8. QED
  BY <1>5, <1>6, <1>7 DEF v

\* An event that is not about a call.
LEMMA OtherEventOnWire ==
    ASSUME NEW w \in Seq(Events), NEW e \in Events, e.kind \notin CallKinds
    PROVE  LET v == Append(w, e)
               n == Len(w) + 1
           IN  /\ \A i : IsLast(v, i) <=> i = n
               /\ \A i \in DOMAIN v : AdjacentIn(v, i, n) <=> IsLast(w, i)
               /\ \A i \in DOMAIN v, j \in DOMAIN w :
                     AdjacentIn(v, i, j) <=> i \in DOMAIN w /\ AdjacentIn(w, i, j)
<1> DEFINE v == Append(w, e)
           n == Len(w) + 1
<1>1. /\ DOMAIN w = 1..Len(w) /\ DOMAIN v = 1..n /\ Len(v) = n /\ v[n] = e
      /\ n \notin DOMAIN w /\ \A i \in DOMAIN w : v[i] = w[i]
      /\ Len(w) \in Nat
  BY WireFacts
<1> HIDE DEF v
<1>2. \A i : IsLast(v, i) <=> i = n
  BY <1>1 DEF IsLast
<1>3. ASSUME NEW i \in DOMAIN v
      PROVE  AdjacentIn(v, i, n) <=> IsLast(w, i)
  <2>1. CASE i = n
    BY <1>1, <2>1 DEF AdjacentIn, IsLast
  <2>2. CASE i \in DOMAIN w
    <3>1. n - 1 = Len(w) /\ i < n /\ v[i] = w[i]
      BY <1>1, <2>2
    <3>2. \A k \in i + 1 .. Len(w) : v[k] = w[k]
      BY <1>1, <2>2
    <3>3. QED
      BY <1>1, <2>2, <3>1, <3>2 DEF AdjacentIn, IsLast
  <2>3. QED
    BY <1>1, <2>1, <2>2
<1>4. ASSUME NEW i \in DOMAIN v, NEW j \in DOMAIN w
      PROVE  AdjacentIn(v, i, j) <=> i \in DOMAIN w /\ AdjacentIn(w, i, j)
  <2>1. CASE i = n
    BY <1>1, <2>1 DEF AdjacentIn
  <2>2. CASE i \in DOMAIN w
    <3>1. v[i] = w[i] /\ v[j] = w[j]
      BY <1>1, <2>2
    <3>2. \A k \in i + 1 .. j - 1 : v[k] = w[k]
      BY <1>1, <2>2
    <3>3. QED
      BY <1>1, <2>2, <3>1, <3>2 DEF AdjacentIn
  <2>3. QED
    BY <1>1, <2>1, <2>2
<1>5. QED
  BY <1>2, <1>3, <1>4 DEF v

\* An event that goes on with what is open, or one where nothing is open,
\* leaves the frames nested, and what it leaves open is what it opens itself.
LEMMA FrameEventOnWire ==
    ASSUME NEW w \in Seq(Events), NEW e \in Events, e.kind \notin CallKinds, Nested(w),
           IF e.kind \in {"text", "textEnd", "thought", "thoughtEnd"}
           THEN \E i \in DOMAIN w : IsLast(w, i) /\ GoesOn(w[i], e)
           ELSE Quiet(w)
    PROVE  /\ Nested(Append(w, e))
           /\ e.kind \notin TextOpen \cup ThoughtOpen => Quiet(Append(w, e))
           /\ \A kinds : e.kind \in kinds => Going(Append(w, e), kinds, e.id)
<1> DEFINE v == Append(w, e)
           n == Len(w) + 1
<1>1. /\ DOMAIN w = 1..Len(w) /\ DOMAIN v = 1..n /\ Len(v) = n /\ v[n] = e
      /\ n \notin DOMAIN w /\ \A i \in DOMAIN w : v[i] = w[i]
      /\ Len(w) \in Nat
  BY WireFacts
<1>2. /\ \A i : IsLast(v, i) <=> i = n
      /\ \A i \in DOMAIN v : AdjacentIn(v, i, n) <=> IsLast(w, i)
      /\ \A i \in DOMAIN v, j \in DOMAIN w :
            AdjacentIn(v, i, j) <=> i \in DOMAIN w /\ AdjacentIn(w, i, j)
  BY OtherEventOnWire
<1> HIDE DEF v
<1>3. Nested(v)
  <2>1. SUFFICES ASSUME NEW j \in DOMAIN v
                 PROVE  IF v[j].kind \in {"text", "textEnd", "thought", "thoughtEnd"}
                        THEN \E i \in DOMAIN v : AdjacentIn(v, i, j) /\ GoesOn(v[i], v[j])
                        ELSE \A i \in DOMAIN v : AdjacentIn(v, i, j) =>
                                v[i].kind \notin {"textStart", "text", "thoughtStart", "thought"}
    BY DEF Nested
  <2>2. CASE j = n
    <3>1. CASE e.kind \in {"text", "textEnd", "thought", "thoughtEnd"}
      BY <1>1, <1>2, <2>2, <3>1
    <3>2. CASE e.kind \notin {"text", "textEnd", "thought", "thoughtEnd"}
      <4>1. Quiet(w)
        BY <3>2
      <4>2. ASSUME NEW i \in DOMAIN v, AdjacentIn(v, i, j)
            PROVE  v[i].kind \notin {"textStart", "text", "thoughtStart", "thought"}
        <5>1. IsLast(w, i)
          BY <1>2, <2>2, <4>2
        <5>2. i \in DOMAIN w
          BY <5>1 DEF IsLast
        <5>3. w[i].kind \notin TextOpen \cup ThoughtOpen
          BY <4>1, <5>1, <5>2 DEF Quiet
        <5>4. QED
          BY <1>1, <5>2, <5>3 DEF TextOpen, ThoughtOpen
      <4>3. QED
        BY <1>1, <2>2, <3>2, <4>2
    <3>3. QED
      BY <3>1, <3>2
  <2>3. CASE j \in DOMAIN w
    <3>1. IF w[j].kind \in {"text", "textEnd", "thought", "thoughtEnd"}
          THEN \E i \in DOMAIN w : AdjacentIn(w, i, j) /\ GoesOn(w[i], w[j])
          ELSE \A i \in DOMAIN w : AdjacentIn(w, i, j) =>
                  w[i].kind \notin {"textStart", "text", "thoughtStart", "thought"}
      BY <2>3 DEF Nested
    <3>2. v[j] = w[j] /\ DOMAIN w \subseteq DOMAIN v
      BY <1>1, <2>3
    <3>3. QED
      BY <1>1, <1>2, <2>3, <3>1, <3>2
  <2>4. QED
    BY <1>1, <2>2, <2>3
<1>4. e.kind \notin TextOpen \cup ThoughtOpen => Quiet(v)
  BY <1>1, <1>2 DEF Quiet
<1>5. \A kinds : e.kind \in kinds => Going(v, kinds, e.id)
  BY <1>1, <1>2 DEF Going
<1>6. QED
  BY <1>3, <1>4, <1>5 DEF v

-----------------------------------------------------------------------------
(* The bridge knows what is open on the wire: what it takes to be open is  *)
(* what was left open there, and nothing is when no run is attached.       *)

\* The frames of the bridge are those on the wire.
FramesOK(b) ==
    /\ Nil \in {b.message, b.reasoning}
    /\ Nested(b.wire)
    /\ b.sink = "run" /\ b.message # Nil => Going(b.wire, TextOpen, b.message)
    /\ b.sink = "run" /\ b.reasoning # Nil => Going(b.wire, ThoughtOpen, b.reasoning)
    /\ b.sink # "run" \/ (b.message = Nil /\ b.reasoning = Nil) => Quiet(b.wire)

\* The bridges of a live session whose frames are in order.
Framed == {b \in Bridges : b.sink # "replay" /\ FramesOK(b)}

\* No handler of tool calls disturbs the frames.
LEMMA FramedCalls == CallsStayIn(Framed)
<1>1. SUFFICES ASSUME NEW b \in Framed, NEW r \in Bridges, CallStep(b, r)
               PROVE  r \in Framed
  BY DEF CallsStayIn, Framed
<1>2. b \in Bridges /\ b.sink # "replay" /\ FramesOK(b) /\ b.wire \in Seq(Events)
  BY DEF Framed, Bridges
<1>3. SameRun(b, r) /\ SameFrames(b, r)
  BY <1>1 DEF CallStep
<1>4. CASE r.wire = b.wire
  BY <1>2, <1>3, <1>4 DEF Framed, FramesOK, SameRun, SameFrames
<1>5. ASSUME NEW e \in Events, e.kind \in CallKinds, r.wire = Append(b.wire, e)
      PROVE  r \in Framed
  <2>1. /\ Nested(b.wire) => Nested(r.wire)
        /\ Quiet(b.wire) => Quiet(r.wire)
        /\ \A kinds, id : Going(b.wire, kinds, id) => Going(r.wire, kinds, id)
    BY <1>2, <1>5, CallEventOnWire
  <2>2. QED
    BY <1>2, <1>3, <2>1 DEF Framed, FramesOK, SameRun, SameFrames
<1>6. QED
  BY <1>1, <1>4, <1>5 DEF CallStep, SameOut, Told, WireAfter

\* What an event that is not about a call may be told after.
Fits(b, e) ==
    /\ e \in Events /\ e.kind \notin CallKinds
    /\ IF e.kind \in {"text", "textEnd"} THEN b.message # Nil /\ e.id = b.message
       ELSE IF e.kind \in {"thought", "thoughtEnd"} THEN b.reasoning # Nil /\ e.id = b.reasoning
       ELSE b.message = Nil /\ b.reasoning = Nil

\* An event that fits what is open keeps the frames nested.
LEMMA FittingEvent ==
    ASSUME NEW b \in Framed, NEW e, Fits(b, e), b.sink = "run"
    PROVE  /\ Nested(Append(b.wire, e))
           /\ e.kind \notin TextOpen \cup ThoughtOpen => Quiet(Append(b.wire, e))
           /\ \A kinds : e.kind \in kinds => Going(Append(b.wire, e), kinds, e.id)
<1>1. b.wire \in Seq(Events) /\ FramesOK(b)
  BY DEF Framed, Bridges
<1>2. IF e.kind \in {"text", "textEnd", "thought", "thoughtEnd"}
      THEN \E i \in DOMAIN b.wire : IsLast(b.wire, i) /\ GoesOn(b.wire[i], e)
      ELSE Quiet(b.wire)
  <2>1. CASE e.kind \in {"text", "textEnd"}
    <3>1. Going(b.wire, TextOpen, b.message) /\ e.id = b.message
      BY <1>1, <2>1 DEF Fits, FramesOK
    <3>2. QED
      BY <2>1, <3>1 DEF Going, GoesOn, TextOpen
  <2>2. CASE e.kind \in {"thought", "thoughtEnd"}
    <3>1. Going(b.wire, ThoughtOpen, b.reasoning) /\ e.id = b.reasoning
      BY <1>1, <2>2 DEF Fits, FramesOK
    <3>2. QED
      BY <2>2, <3>1 DEF Going, GoesOn, ThoughtOpen
  <2>3. CASE e.kind \notin {"text", "textEnd", "thought", "thoughtEnd"}
    BY <1>1, <2>3 DEF Fits, FramesOK
  <2>4. QED
    BY <2>1, <2>2, <2>3
<1>3. Nested(b.wire) /\ e \in Events /\ e.kind \notin CallKinds
  BY <1>1 DEF Fits, FramesOK
<1>4. QED
  BY <1>1, <1>2, <1>3, FrameEventOnWire

\* The events of messages are what they are made of, and about no call.
LEMMA FrameEventFacts ==
    ASSUME NEW id \in Nat \cup {Nil}
    PROVE  /\ \A kind \in {"textStart", "textEnd", "thoughtStart", "thoughtEnd"} :
                 /\ FrameEvent(kind, id) \in Events /\ kind \notin CallKinds
                 /\ FrameEvent(kind, id).kind = kind /\ FrameEvent(kind, id).id = id
           /\ \A kind \in {"text", "thought"}, chunk \in Nat :
                 /\ ChunkEvent(kind, id, chunk) \in Events /\ kind \notin CallKinds
                 /\ ChunkEvent(kind, id, chunk).kind = kind
                 /\ ChunkEvent(kind, id, chunk).id = id
                 /\ ChunkEvent(kind, id, chunk).chunk = chunk
<1>1. /\ \A kind \in {"textStart", "textEnd", "thoughtStart", "thoughtEnd"} :
            /\ kind \notin CallKinds
            /\ FrameEvent(kind, id).kind = kind /\ FrameEvent(kind, id).id = id
      /\ \A kind \in {"text", "thought"}, chunk \in Nat :
            /\ kind \notin CallKinds
            /\ ChunkEvent(kind, id, chunk).kind = kind
            /\ ChunkEvent(kind, id, chunk).id = id
            /\ ChunkEvent(kind, id, chunk).chunk = chunk
  BY DEF FrameEvent, ChunkEvent, CallKinds
<1>2. QED
  BY <1>1, EventTypes

\* ... the chunks by themselves,
LEMMA ChunkEventFacts ==
    ASSUME NEW id \in Nat \cup {Nil}, NEW n \in Nat, NEW kind \in {"text", "thought"}
    PROVE  /\ ChunkEvent(kind, id, n) \in Events
           /\ ChunkEvent(kind, id, n).kind = kind
           /\ ChunkEvent(kind, id, n).chunk = n
<1>1. ChunkEvent(kind, id, n).kind = kind /\ ChunkEvent(kind, id, n).chunk = n
  BY DEF ChunkEvent
<1>2. QED
  BY <1>1, EventTypes

\* ... and the events of runs.
LEMMA RunEventFacts ==
    ASSUME NEW t \in Nat,
           NEW kind \in {"runStarted", "runFinished", "runError", "interrupt"}
    PROVE  /\ RunEvent(kind, t) \in Events /\ kind \notin CallKinds
           /\ RunEvent(kind, t).kind = kind /\ RunEvent(kind, t).turn = t
<1>1. kind \notin CallKinds /\ RunEvent(kind, t).kind = kind /\ RunEvent(kind, t).turn = t
  BY DEF RunEvent, CallKinds
<1>2. QED
  BY <1>1, EventTypes

\* Closing what is open keeps the frames:
LEMMA FramedCloses ==
    ASSUME NEW b \in Framed, NEW r
    PROVE  /\ ClosesReasoning(b, r) => r \in Framed
           /\ ClosesMessage(b, r) => r \in Framed
<1>1. b \in Bridges /\ b.sink # "replay" /\ FramesOK(b)
  BY DEF Framed
<1>0. b.message \in Nat \cup {Nil} /\ b.reasoning \in Nat \cup {Nil}
  BY <1>1 DEF Bridges
<1>2. ASSUME ClosesReasoning(b, r)
      PROVE  r \in Framed
  <2>1. CASE b.reasoning = Nil \/ b.sink # "run"
    BY <1>1, <1>2, <2>1 DEF ClosesReasoning, Framed, FramesOK, SameRun, SameOut, Told, WireAfter
  <2>2. CASE b.reasoning # Nil /\ b.sink = "run"
    <3> DEFINE e == FrameEvent("thoughtEnd", b.reasoning)
    <3>1. e \in Events /\ e.kind = "thoughtEnd" /\ e.id = b.reasoning /\ e.kind \notin CallKinds
      BY <1>0, FrameEventFacts
    <3>2. r.wire = Append(b.wire, e)
      BY <1>2, <2>2 DEF ClosesReasoning, Told, WireAfter
    <3> HIDE DEF e
    <3>3. Fits(b, e)
      BY <2>2, <3>1 DEF Fits
    <3>4. Nested(r.wire) /\ Quiet(r.wire)
      BY <2>2, <3>1, <3>2, <3>3, FittingEvent DEF TextOpen, ThoughtOpen
    <3>5. QED
      BY <1>1, <1>2, <2>2, <3>4 DEF ClosesReasoning, Framed, FramesOK, SameRun
  <2>3. QED
    BY <2>1, <2>2
<1>3. ASSUME ClosesMessage(b, r)
      PROVE  r \in Framed
  <2>1. CASE b.message = Nil \/ b.sink # "run"
    BY <1>1, <1>3, <2>1 DEF ClosesMessage, Framed, FramesOK, SameRun, SameOut, Told, WireAfter
  <2>2. CASE b.message # Nil /\ b.sink = "run"
    <3> DEFINE e == FrameEvent("textEnd", b.message)
    <3>1. e \in Events /\ e.kind = "textEnd" /\ e.id = b.message /\ e.kind \notin CallKinds
      BY <1>0, FrameEventFacts
    <3>2. r.wire = Append(b.wire, e)
      BY <1>3, <2>2 DEF ClosesMessage, Told, WireAfter
    <3> HIDE DEF e
    <3>3. Fits(b, e)
      BY <2>2, <3>1 DEF Fits
    <3>4. Nested(r.wire) /\ Quiet(r.wire)
      BY <2>2, <3>1, <3>2, <3>3, FittingEvent DEF TextOpen, ThoughtOpen
    <3>5. QED
      BY <1>1, <1>3, <2>2, <3>4 DEF ClosesMessage, Framed, FramesOK, SameRun
  <2>3. QED
    BY <2>1, <2>2
<1>4. QED
  BY <1>2, <1>3

\* ... closing all of it, and then nothing is open;
LEMMA FramedSilences ==
    ASSUME NEW b \in Framed, NEW r, Silences(b, r)
    PROVE  r \in Framed /\ r.message = Nil /\ r.reasoning = Nil
BY FramedCloses DEF Silences, ClosesReasoning, ClosesMessage

\* ... a text delta keeps them,
LEMMA FramedText ==
    ASSUME NEW b \in Framed, b.sink = "run", NEW chunk \in Nat
    PROVE  TextDelta(b, chunk) \in Framed
<1> DEFINE m == CloseReasoning(b)
           o == OpenText(m)
           r == SayText(o, chunk)
           d == ChunkEvent("text", o.message, chunk)
           e == FrameEvent("textStart", m.fresh)
<1>1. b \in Bridges
  BY DEF Framed
<1>2. ClosesReasoning(b, m) /\ m \in Framed /\ m.reasoning = Nil /\ m.sink = "run" /\ m \in Bridges
  BY <1>1, CloseReasoningFacts, FramedCloses DEF ClosesReasoning, SameRun
<1>3. OpensText(m, o)
  <2> HIDE DEF m
  <2>1. QED
    BY <1>2, OpenTextFacts
<1> HIDE DEF m, o
<1>4. o \in Framed /\ o.message # Nil /\ o.reasoning = Nil /\ o.sink = "run" /\ o \in Bridges
  <2>1. CASE m.message # Nil
    BY <1>2, <1>3, <2>1 DEF OpensText, Framed, FramesOK, SameRun, SameFrames, SameOut
  <2>2. CASE m.message = Nil
    <3>1. m.fresh \in Nat /\ m.fresh # Nil
      BY <1>2, ConstantsAssumption DEF Bridges
    <3>2. e \in Events /\ e.kind = "textStart" /\ e.id = m.fresh /\ e.kind \notin CallKinds
      BY <3>1, FrameEventFacts
    <3>3. o.wire = Append(m.wire, e)
      BY <1>2, <1>3, <2>2 DEF OpensText, Told, WireAfter
    <3> HIDE DEF e
    <3>4. Fits(m, e)
      BY <1>2, <2>2, <3>2 DEF Fits
    <3>5. Nested(o.wire) /\ Going(o.wire, TextOpen, m.fresh)
      BY <1>2, <3>2, <3>3, <3>4, FittingEvent DEF TextOpen
    <3>6. QED
      BY <1>2, <1>3, <2>2, <3>1, <3>5 DEF OpensText, Framed, FramesOK, SameRun
  <2>3. QED
    BY <2>1, <2>2
<1>5. Says(o, r, d)
  BY <1>4, SayFacts
<1>6. d \in Events /\ d.kind = "text" /\ d.id = o.message /\ d.kind \notin CallKinds
  BY <1>4, FrameEventFacts DEF Bridges
<1> HIDE DEF r, d
<1>7. Fits(o, d)
  BY <1>4, <1>6 DEF Fits
<1>8. r.wire = Append(o.wire, d)
  BY <1>4, <1>5 DEF Says, Told, WireAfter
<1>9. Nested(r.wire) /\ Going(r.wire, TextOpen, o.message)
  BY <1>4, <1>6, <1>7, <1>8, FittingEvent DEF TextOpen
<1>10. r \in Framed
  BY <1>4, <1>5, <1>9 DEF Says, SameRun, SameFrames, Framed, FramesOK
<1>11. QED
  BY <1>10 DEF TextDelta, r, o, m

\* ... a thought delta,
LEMMA FramedThought ==
    ASSUME NEW b \in Framed, b.sink = "run", NEW chunk \in Nat
    PROVE  ThoughtDelta(b, chunk) \in Framed
<1> DEFINE o == OpenThought(b)
           r == SayThought(o, chunk)
           d == ChunkEvent("thought", o.reasoning, chunk)
<1>1. b \in Bridges
  BY DEF Framed
<1>2. OpensThought(b, o)
  BY <1>1, OpenThoughtFacts
<1> HIDE DEF o
<1>3. o \in Framed /\ o.reasoning # Nil /\ o.message = Nil /\ o.sink = "run" /\ o \in Bridges
  <2>1. CASE b.reasoning # Nil
    BY <1>1, <1>2, <2>1 DEF OpensThought, Framed, FramesOK
  <2>2. CASE b.reasoning = Nil
    <3>1. PICK m \in Bridges :
            /\ ClosesMessage(b, m)
            /\ o \in Bridges /\ SameRun(m, o) /\ SameCalls(m, o)
            /\ o.message = m.message /\ o.reasoning = m.fresh /\ o.fresh = m.fresh + 1
            /\ Told(m, o, FrameEvent("thoughtStart", m.fresh))
      BY <1>2, <2>2 DEF OpensThought
    <3> DEFINE e == FrameEvent("thoughtStart", m.fresh)
    <3>2. m \in Framed /\ m.message = Nil /\ m.reasoning = Nil /\ m.sink = "run"
      BY <2>2, <3>1, FramedCloses DEF ClosesMessage, SameRun
    <3>3. m.fresh \in Nat /\ m.fresh # Nil
      BY ConstantsAssumption DEF Bridges
    <3>4. e \in Events /\ e.kind = "thoughtStart" /\ e.id = m.fresh /\ e.kind \notin CallKinds
      BY <3>3, FrameEventFacts
    <3>5. o.wire = Append(m.wire, e)
      BY <3>1, <3>2 DEF Told, WireAfter
    <3> HIDE DEF e
    <3>6. Fits(m, e)
      BY <3>2, <3>4 DEF Fits
    <3>7. Nested(o.wire) /\ Going(o.wire, ThoughtOpen, m.fresh)
      BY <3>2, <3>4, <3>5, <3>6, FittingEvent DEF ThoughtOpen
    <3>8. QED
      BY <3>1, <3>2, <3>3, <3>7 DEF Framed, FramesOK, SameRun
  <2>3. QED
    BY <2>1, <2>2
<1>4. Says(o, r, d)
  BY <1>3, SayFacts
<1>5. d \in Events /\ d.kind = "thought" /\ d.id = o.reasoning /\ d.kind \notin CallKinds
  BY <1>3, FrameEventFacts DEF Bridges
<1> HIDE DEF r, d
<1>6. Fits(o, d)
  BY <1>3, <1>5 DEF Fits
<1>7. r.wire = Append(o.wire, d)
  BY <1>3, <1>4 DEF Says, Told, WireAfter
<1>8. Nested(r.wire) /\ Going(r.wire, ThoughtOpen, o.reasoning)
  BY <1>3, <1>5, <1>6, <1>7, FittingEvent DEF ThoughtOpen
<1>9. r \in Framed
  BY <1>3, <1>4, <1>8 DEF Says, SameRun, SameFrames, Framed, FramesOK
<1>10. QED
  BY <1>9 DEF ThoughtDelta, r, o

\* ... every update of a call,
LEMMA FramedCallHandlers ==
    ASSUME NEW b \in Framed, NEW call \in Calls
    PROVE  /\ \A input \in {"initial", Nil} : ToolCall(b, call, input) \in Framed
           /\ \A input \in Inputs : Progress(b, call, input) \in Framed
           /\ \A input \in Inputs : Completed(b, call, input) \in Framed
<1>1. b \in Bridges
  BY DEF Framed
<1>2. CloseMessage(CloseReasoning(b)) \in Framed
  BY <1>1, SilenceFacts, FramedSilences
<1>3. \A input \in {"initial", Nil} : ToolCall(b, call, input) \in Framed
  BY <1>1, <1>2, ToolCallFacts, FramedCalls, AreCallSteps
<1>4. QED
  BY <1>3, FramedCalls, CallHandlersStay

\* A run starts or goes on on a stream of its own.
LEMMA FramedStarts ==
    ASSUME NEW b \in Framed, b.sink # "run", NEW r
    PROVE  /\ \A t \in Nat : Starts(b, r, t) => r \in Framed
           /\ Attaches(b, r) => r \in Framed
<1>1. b.wire \in Seq(Events) /\ Nested(b.wire) /\ Quiet(b.wire) /\ b.turn \in Nat
  BY DEF Framed, Bridges, FramesOK
<1>2. ASSUME NEW t \in Nat, r.wire = Append(b.wire, RunEvent("runStarted", t))
      PROVE  Nested(r.wire) /\ Quiet(r.wire)
  <2> DEFINE e == RunEvent("runStarted", t)
  <2>1. e \in Events /\ e.kind = "runStarted" /\ e.kind \notin CallKinds
    BY RunEventFacts
  <2> HIDE DEF e
  <2>2. Nested(Append(b.wire, e)) /\ Quiet(Append(b.wire, e))
    BY <1>1, <2>1, FrameEventOnWire DEF TextOpen, ThoughtOpen
  <2>3. QED
    BY <1>2, <2>2 DEF e
<1>3. \A t \in Nat : Starts(b, r, t) => r \in Framed
  BY <1>2 DEF Starts, Framed, FramesOK
<1>4. Attaches(b, r) => r \in Framed
  BY <1>1, <1>2 DEF Attaches, Framed, FramesOK
<1>5. QED
  BY <1>3, <1>4

\* A run is suspended or ends with nothing open.
LEMMA FramedLeaves ==
    ASSUME NEW b \in Framed, b.message = Nil, b.reasoning = Nil, NEW r, NEW t \in Nat,
           NEW kind \in {"runFinished", "runError", "interrupt"},
           NEW sink \in {"none", "ended"}, Leaves(b, r, RunEvent(kind, t), sink)
    PROVE  r \in Framed
<1> DEFINE e == RunEvent(kind, t)
<1>1. e \in Events /\ e.kind = kind /\ e.kind \notin CallKinds
  BY RunEventFacts
<1>2. b \in Bridges /\ FramesOK(b)
  BY DEF Framed
<1>3. CASE b.sink # "run"
  BY <1>2, <1>3 DEF Leaves, Told, WireAfter, Framed, FramesOK, SameFrames
<1>4. CASE b.sink = "run"
  <2>1. r.wire = Append(b.wire, e)
    BY <1>4 DEF Leaves, Told, WireAfter
  <2> HIDE DEF e
  <2>2. Fits(b, e)
    BY <1>1 DEF Fits
  <2>3. Nested(r.wire) /\ Quiet(r.wire)
    BY <1>1, <1>4, <2>1, <2>2, FittingEvent DEF TextOpen, ThoughtOpen
  <2>4. QED
    BY <2>3 DEF Leaves, Framed, FramesOK, SameFrames
<1>5. QED
  BY <1>3, <1>4

\* ... and the suspension and the end of a run.
LEMMA FramedEnds ==
    ASSUME NEW b \in Framed, NEW r, NEW rank \in Seq(Calls)
    PROVE  /\ Suspends(b, r) => r \in Framed
           /\ Ends(b, r, rank, "runFinished") => r \in Framed
           /\ Ends(b, r, rank, "runError") => r \in Framed
<1>1. b.turn \in Nat /\ b.sink \in {"none", "run", "ended"}
  BY DEF Framed, Bridges, Sinks
<1>2. Suspends(b, r) => r \in Framed
  BY <1>1, FramedSilences, FramedLeaves DEF Suspends
<1>3. ASSUME NEW kind \in {"runFinished", "runError"}, Ends(b, r, rank, kind)
      PROVE  r \in Framed
  <2>1. PICK m \in Bridges :
           /\ Silences(b, m)
           /\ Leaves(CloseCalls(m, rank), r, RunEvent(kind, b.turn),
                     IF b.sink = "run" THEN "ended" ELSE b.sink)
    BY <1>3 DEF Ends
  <2> DEFINE x == CloseCalls(m, rank)
  <2>2. m \in Framed /\ m.message = Nil /\ m.reasoning = Nil
    BY <2>1, FramedSilences
  <2>3. x \in Framed
    BY <2>2, FramedCalls, CallHandlersStay
  <2>4. x.message = Nil /\ x.reasoning = Nil
    BY <2>2, CloseCallsFacts DEF SameFrames
  <2> HIDE DEF x
  <2>5. (IF b.sink = "run" THEN "ended" ELSE b.sink) \in {"none", "ended"}
    BY <1>1
  <2>6. Leaves(x, r, RunEvent(kind, b.turn), IF b.sink = "run" THEN "ended" ELSE b.sink)
    BY <2>1 DEF x
  <2>7. QED
    BY <1>1, <2>3, <2>4, <2>5, <2>6, FramedLeaves
<1>4. QED
  BY <1>2, <1>3

-----------------------------------------------------------------------------
(* The chunks on the wire, and the history they come from.                 *)

\* ClientInOrder, of any wire and history.
ChunksOf(w) == {k \in DOMAIN w : w[k].kind \in ChunkKinds}

InOrder(w, h) ==
    /\ \A j, k \in ChunksOf(w) : j < k => w[j].chunk < w[k].chunk
    /\ \A k \in ChunksOf(w) :
            /\ w[k].chunk \in DOMAIN h
            /\ h[w[k].chunk].kind = w[k].kind
            /\ h[w[k].chunk].attached
    /\ \A at \in DOMAIN h :
            h[at].kind \in ChunkKinds /\ h[at].attached =>
                \E k \in ChunksOf(w) : w[k].chunk = at

\* What the history keeps.
Records ==
    [kind     : {"user", "text", "thought", "toolCall", "progress", "completed", "turnEnd"},
     call     : Calls \cup {Nil},
     input    : Inputs,
     turn     : Nat,
     attached : BOOLEAN]

\* What the history is once a record is put at its end.
LEMMA HistoryFacts ==
    ASSUME NEW h \in Seq(Records), NEW u \in Records
    PROVE  LET v == Append(h, u)
               n == Len(h) + 1
           IN  /\ v \in Seq(Records) /\ DOMAIN h = 1..Len(h) /\ DOMAIN v = 1..n /\ Len(v) = n
               /\ v[n] = u /\ n \notin DOMAIN h /\ \A i \in DOMAIN h : v[i] = h[i]
               /\ n \in Nat
OBVIOUS

\* An event that is no chunk keeps the order of the chunks,
LEMMA OtherEventInOrder ==
    ASSUME NEW w \in Seq(Events), NEW h, InOrder(w, h),
           NEW e \in Events, e.kind \notin ChunkKinds
    PROVE  InOrder(Append(w, e), h)
<1> DEFINE v == Append(w, e)
           n == Len(w) + 1
<1>1. /\ DOMAIN w = 1..Len(w) /\ DOMAIN v = 1..n /\ v[n] = e
      /\ \A i \in DOMAIN w : v[i] = w[i]
      /\ Len(w) \in Nat
  BY WireFacts
<1> HIDE DEF v
<1>2. ChunksOf(v) = ChunksOf(w) /\ \A k \in ChunksOf(w) : v[k] = w[k]
  BY <1>1 DEF ChunksOf
<1>3. InOrder(v, h)
  BY <1>2 DEF InOrder
<1>4. QED
  BY <1>3 DEF v

\* ... so does a record that asks for none,
LEMMA OtherRecordInOrder ==
    ASSUME NEW w, NEW h \in Seq(Records), InOrder(w, h),
           NEW u \in Records, u.kind \notin ChunkKinds \/ ~u.attached
    PROVE  InOrder(w, Append(h, u))
<1> DEFINE v == Append(h, u)
           n == Len(h) + 1
<1>1. /\ DOMAIN h = 1..Len(h) /\ DOMAIN v = 1..n /\ v[n] = u
      /\ \A i \in DOMAIN h : v[i] = h[i]
      /\ Len(h) \in Nat
  BY HistoryFacts
<1> HIDE DEF v
<1>2. InOrder(w, v)
  BY <1>1 DEF InOrder
<1>3. QED
  BY <1>2 DEF v

\* ... and so do a chunk and its record together.
LEMMA ChunkInOrder ==
    ASSUME NEW w \in Seq(Events), NEW h \in Seq(Records), InOrder(w, h),
           NEW e \in Events, e.kind \in ChunkKinds, e.chunk = Len(h) + 1,
           NEW u \in Records, u.kind = e.kind, u.attached
    PROVE  InOrder(Append(w, e), Append(h, u))
<1> DEFINE v == Append(w, e)
           g == Append(h, u)
           n == Len(w) + 1
           m == Len(h) + 1
<1>1. /\ DOMAIN w = 1..Len(w) /\ DOMAIN v = 1..n /\ v[n] = e
      /\ \A i \in DOMAIN w : v[i] = w[i]
      /\ Len(w) \in Nat
  BY WireFacts
<1>2. /\ DOMAIN h = 1..Len(h) /\ DOMAIN g = 1..m /\ g[m] = u
      /\ \A i \in DOMAIN h : g[i] = h[i]
      /\ Len(h) \in Nat
  BY HistoryFacts
<1> HIDE DEF v, g
<1>3. /\ ChunksOf(v) = ChunksOf(w) \cup {n}
      /\ \A k \in ChunksOf(w) : v[k] = w[k] /\ k < n /\ k \in DOMAIN w
  BY <1>1 DEF ChunksOf
<1>4. \A k \in ChunksOf(w) : w[k].chunk \in DOMAIN h /\ w[k].chunk < m
  BY <1>2 DEF InOrder
<1>5. \A j, k \in ChunksOf(v) : j < k => v[j].chunk < v[k].chunk
  <2>1. SUFFICES ASSUME NEW j \in ChunksOf(v), NEW k \in ChunksOf(v), j < k
                 PROVE  v[j].chunk < v[k].chunk
    OBVIOUS
  <2>2. j \in ChunksOf(w)
    BY <1>1, <1>3, <2>1
  <2>3. CASE k = n
    BY <1>1, <1>3, <1>4, <2>2, <2>3
  <2>4. CASE k \in ChunksOf(w)
    BY <1>3, <2>1, <2>2, <2>4 DEF InOrder
  <2>5. QED
    BY <1>3, <2>3, <2>4
<1>6. \A k \in ChunksOf(v) :
            /\ v[k].chunk \in DOMAIN g
            /\ g[v[k].chunk].kind = v[k].kind
            /\ g[v[k].chunk].attached
  <2>1. SUFFICES ASSUME NEW k \in ChunksOf(v)
                 PROVE  /\ v[k].chunk \in DOMAIN g
                        /\ g[v[k].chunk].kind = v[k].kind
                        /\ g[v[k].chunk].attached
    OBVIOUS
  <2>2. CASE k = n
    BY <1>1, <1>2, <2>2
  <2>3. CASE k \in ChunksOf(w)
    <3>1. /\ w[k].chunk \in DOMAIN h
          /\ h[w[k].chunk].kind = w[k].kind
          /\ h[w[k].chunk].attached
      BY <2>3 DEF InOrder
    <3>2. QED
      BY <1>2, <1>3, <2>3, <3>1
  <2>4. QED
    BY <1>3, <2>2, <2>3
<1>7. \A at \in DOMAIN g :
            g[at].kind \in ChunkKinds /\ g[at].attached =>
                \E k \in ChunksOf(v) : v[k].chunk = at
  <2>1. SUFFICES ASSUME NEW at \in DOMAIN g, g[at].kind \in ChunkKinds, g[at].attached
                 PROVE  \E k \in ChunksOf(v) : v[k].chunk = at
    OBVIOUS
  <2>2. CASE at = m
    BY <1>1, <1>3, <2>2
  <2>3. CASE at \in DOMAIN h
    <3>1. PICK k \in ChunksOf(w) : w[k].chunk = at
      BY <1>2, <2>1, <2>3 DEF InOrder
    <3>2. QED
      BY <1>3, <3>1
  <2>4. QED
    BY <1>2, <2>2, <2>3
<1>8. QED
  BY <1>5, <1>6, <1>7 DEF InOrder, v, g

\* The bridges that have told h in order.
Ordered(h) == {b \in Bridges : InOrder(b.wire, h)}

\* What is told, if anything, is no chunk.
LEMMA OrderedStep ==
    ASSUME NEW h, NEW b \in Ordered(h), NEW r \in Bridges,
           \/ r.wire = b.wire
           \/ \E e \in Events : /\ e.kind \notin ChunkKinds
                                /\ r.wire = b.wire \/ r.wire = Append(b.wire, e)
    PROVE  r \in Ordered(h)
<1>1. b.wire \in Seq(Events) /\ InOrder(b.wire, h)
  BY DEF Ordered, Bridges
<1>2. CASE r.wire = b.wire
  BY <1>1, <1>2 DEF Ordered
<1>3. ASSUME NEW e \in Events, e.kind \notin ChunkKinds, r.wire = Append(b.wire, e)
      PROVE  r \in Ordered(h)
  BY <1>1, <1>3, OtherEventInOrder DEF Ordered
<1>4. QED
  BY <1>2, <1>3

\* Told something that is no chunk, a bridge stays in order:
LEMMA OrderedTold ==
    ASSUME NEW h, NEW b \in Ordered(h), NEW r \in Bridges,
           NEW e \in Events, e.kind \notin ChunkKinds, Told(b, r, e)
    PROVE  r \in Ordered(h)
BY OrderedStep DEF Told, WireAfter

\* ... by the handlers of tool calls,
LEMMA OrderedCalls ==
    ASSUME NEW h
    PROVE  CallsStayIn(Ordered(h))
<1>1. SUFFICES ASSUME NEW b \in Ordered(h), NEW r \in Bridges, CallStep(b, r)
               PROVE  r \in Ordered(h)
  BY DEF CallsStayIn, Ordered
<1>2. \A e \in Events : e.kind \in CallKinds => e.kind \notin ChunkKinds
  BY DEF CallKinds, ChunkKinds
<1>3. QED
  BY <1>1, <1>2, OrderedStep, OrderedTold DEF CallStep, SameOut

\* ... when frames are opened or closed,
LEMMA OrderedFrames ==
    ASSUME NEW h, NEW b \in Ordered(h), NEW r
    PROVE  /\ ClosesReasoning(b, r) => r \in Ordered(h)
           /\ ClosesMessage(b, r) => r \in Ordered(h)
           /\ OpensText(b, r) => r \in Ordered(h)
           /\ OpensThought(b, r) => r \in Ordered(h)
<1>1. \A kind \in {"textStart", "textEnd", "thoughtStart", "thoughtEnd"}, id \in Nat \cup {Nil} :
         FrameEvent(kind, id) \in Events /\ FrameEvent(kind, id).kind \notin ChunkKinds
  BY FrameEventFacts DEF ChunkKinds
<1>2. \A x \in Bridges : /\ x.message \in Nat \cup {Nil} /\ x.reasoning \in Nat \cup {Nil}
                         /\ x.fresh \in Nat \cup {Nil}
  BY DEF Bridges
<1>3. b \in Bridges
  BY DEF Ordered
<1>4. ClosesReasoning(b, r) => r \in Ordered(h)
  BY <1>1, <1>2, <1>3, OrderedStep, OrderedTold DEF ClosesReasoning, SameOut
<1>5. \A x : ClosesMessage(b, x) => x \in Ordered(h)
  BY <1>1, <1>2, <1>3, OrderedStep, OrderedTold DEF ClosesMessage, SameOut
<1>6. OpensText(b, r) => r \in Ordered(h)
  BY <1>1, <1>2, <1>3, OrderedStep, OrderedTold DEF OpensText, SameOut
<1>7. OpensThought(b, r) => r \in Ordered(h)
  <2>1. SUFFICES ASSUME OpensThought(b, r), b.reasoning = Nil
                 PROVE  r \in Ordered(h)
    BY DEF OpensThought
  <2>2. PICK m \in Bridges :
            /\ ClosesMessage(b, m)
            /\ r \in Bridges
            /\ Told(m, r, FrameEvent("thoughtStart", m.fresh))
    BY <2>1 DEF OpensThought
  <2>3. m \in Ordered(h)
    BY <1>5, <2>2
  <2>4. QED
    BY <1>1, <1>2, <2>2, <2>3, OrderedTold
<1>8. QED
  BY <1>4, <1>5, <1>6, <1>7

\* ... when runs start, are suspended, go on and end.
LEMMA OrderedRuns ==
    ASSUME NEW h, NEW b \in Ordered(h), NEW r, NEW rank \in Seq(Calls)
    PROVE  /\ Silences(b, r) => r \in Ordered(h)
           /\ \A t \in Nat : Starts(b, r, t) => r \in Ordered(h)
           /\ Attaches(b, r) => r \in Ordered(h)
           /\ Suspends(b, r) => r \in Ordered(h)
           /\ \A kind \in {"runFinished", "runError"} : Ends(b, r, rank, kind) => r \in Ordered(h)
<1>1. \A kind \in {"runStarted", "runFinished", "runError", "interrupt"}, t \in Nat :
         RunEvent(kind, t) \in Events /\ RunEvent(kind, t).kind \notin ChunkKinds
  BY RunEventFacts DEF ChunkKinds
<1>2. b \in Bridges /\ b.turn \in Nat
  BY DEF Ordered, Bridges
<1>3. \A x : Silences(b, x) => x \in Ordered(h)
  BY OrderedFrames DEF Silences
<1>4. \A t \in Nat : Starts(b, r, t) => r \in Ordered(h)
  BY <1>1, OrderedStep DEF Starts
<1>5. Attaches(b, r) => r \in Ordered(h)
  BY <1>1, <1>2, OrderedStep DEF Attaches
<1>6. \A sink : \A x \in Ordered(h), kind \in {"runStarted", "runFinished", "runError", "interrupt"} :
         Leaves(x, r, RunEvent(kind, b.turn), sink) => r \in Ordered(h)
  BY <1>1, <1>2, OrderedTold DEF Leaves
<1>7. Suspends(b, r) => r \in Ordered(h)
  BY <1>3, <1>6 DEF Suspends
<1>8. ASSUME NEW kind \in {"runFinished", "runError"}, Ends(b, r, rank, kind)
      PROVE  r \in Ordered(h)
  <2>1. PICK m \in Bridges :
           /\ Silences(b, m)
           /\ Leaves(CloseCalls(m, rank), r, RunEvent(kind, b.turn),
                     IF b.sink = "run" THEN "ended" ELSE b.sink)
    BY <1>8 DEF Ends
  <2>2. CloseCalls(m, rank) \in Ordered(h)
    BY <1>3, <2>1, OrderedCalls, CallHandlersStay
  <2>3. QED
    BY <1>6, <2>1, <2>2
<1>9. QED
  BY <1>3, <1>4, <1>5, <1>7, <1>8

\* A chunk is told as the one that the history has just been given.
LEMMA OrderedChunks ==
    ASSUME NEW h \in Seq(Records), NEW b \in Ordered(h), b.sink = "run"
    PROVE  /\ \A u \in Records : u.kind = "text" /\ u.attached =>
                  TextDelta(b, Len(h) + 1) \in Ordered(Append(h, u))
           /\ \A u \in Records : u.kind = "thought" /\ u.attached =>
                  ThoughtDelta(b, Len(h) + 1) \in Ordered(Append(h, u))
<1> DEFINE n == Len(h) + 1
<1>1. b \in Bridges /\ n \in Nat
  BY DEF Ordered
<1>2. ASSUME NEW u \in Records, u.kind = "text", u.attached
      PROVE  TextDelta(b, n) \in Ordered(Append(h, u))
  <2> DEFINE m == CloseReasoning(b)
             o == OpenText(m)
             r == SayText(o, n)
             d == ChunkEvent("text", o.message, n)
  <2>1. ClosesReasoning(b, m) /\ m \in Ordered(h) /\ m \in Bridges /\ m.sink = "run"
    BY <1>1, CloseReasoningFacts, OrderedFrames DEF ClosesReasoning, SameRun
  <2>2. OpensText(m, o)
    <3> HIDE DEF m
    <3>1. QED
      BY <2>1, OpenTextFacts
  <2> HIDE DEF m, o
  <2>3. o \in Ordered(h) /\ o \in Bridges /\ o.sink = "run"
    BY <2>1, <2>2, OrderedFrames DEF OpensText, SameRun
  <2> HIDE DEF n
  <2>4. Says(o, r, d)
    BY <1>1, <2>3, SayFacts
  <2>5. d \in Events /\ d.kind = "text" /\ d.chunk = n
    <3>1. o.message \in Nat \cup {Nil}
      BY <2>3 DEF Bridges
    <3>2. n \in Nat
      BY <1>1
    <3>3. QED
      BY <3>1, <3>2, ChunkEventFacts
  <2> HIDE DEF r, d
  <2>6. r.wire = Append(o.wire, d) /\ r \in Bridges
    BY <2>3, <2>4 DEF Says, Told, WireAfter
  <2>7. InOrder(r.wire, Append(h, u))
    <3>1. o.wire \in Seq(Events) /\ InOrder(o.wire, h)
      BY <2>3 DEF Ordered, Bridges
    <3>2. QED
      BY <1>2, <2>5, <2>6, <3>1, ChunkInOrder DEF ChunkKinds, n
  <2>8. QED
    BY <2>6, <2>7 DEF Ordered, TextDelta, r, o, m
<1>3. ASSUME NEW u \in Records, u.kind = "thought", u.attached
      PROVE  ThoughtDelta(b, n) \in Ordered(Append(h, u))
  <2> DEFINE o == OpenThought(b)
             r == SayThought(o, n)
             d == ChunkEvent("thought", o.reasoning, n)
  <2>1. OpensThought(b, o) /\ o \in Bridges
    BY <1>1, OpenThoughtFacts
  <2> HIDE DEF o, n
  <2>2. o \in Ordered(h) /\ o.sink = "run"
    BY <2>1, OrderedFrames DEF OpensThought, ClosesMessage, SameRun
  <2>3. Says(o, r, d)
    BY <1>1, <2>1, SayFacts
  <2>4. d \in Events /\ d.kind = "thought" /\ d.chunk = n
    <3>1. o.reasoning \in Nat \cup {Nil}
      BY <2>1 DEF Bridges
    <3>2. n \in Nat
      BY <1>1
    <3>3. QED
      BY <3>1, <3>2, ChunkEventFacts
  <2> HIDE DEF r, d
  <2>5. r.wire = Append(o.wire, d) /\ r \in Bridges
    BY <2>2, <2>3 DEF Says, Told, WireAfter
  <2>6. InOrder(r.wire, Append(h, u))
    <3>1. o.wire \in Seq(Events) /\ InOrder(o.wire, h)
      BY <2>2 DEF Ordered, Bridges
    <3>2. QED
      BY <1>3, <2>4, <2>5, <3>1, ChunkInOrder DEF ChunkKinds, n
  <2>7. QED
    BY <2>5, <2>6 DEF Ordered, ThoughtDelta, r, o
<1>4. QED
  BY <1>2, <1>3

\* The updates of a call keep the order.
LEMMA OrderedHandlers ==
    ASSUME NEW h \in Seq(Records), NEW b \in Ordered(h), NEW call \in Calls
    PROVE  /\ \A input \in {"initial", Nil} : ToolCall(b, call, input) \in Ordered(h)
           /\ \A input \in Inputs : Progress(b, call, input) \in Ordered(h)
           /\ \A input \in Inputs : Completed(b, call, input) \in Ordered(h)
<1>1. b \in Bridges
  BY DEF Ordered
<1>2. \A input \in {"initial", Nil} : ToolCall(b, call, input) \in Ordered(h)
  <2>1. CloseMessage(CloseReasoning(b)) \in Ordered(h)
    BY <1>1, SilenceFacts, OrderedFrames DEF Silences
  <2>2. QED
    BY <1>1, <2>1, ToolCallFacts, OrderedCalls, AreCallSteps
<1>3. QED
  BY <1>2, OrderedCalls, CallHandlersStay

-----------------------------------------------------------------------------
(* The calls that wait for their START or are open.                        *)

\* No call waits twice.
Distinct(b) ==
    \A i, j \in DOMAIN b.pending : b.pending[i].call = b.pending[j].call => i = j

\* A call that waits once waits in one place, with one input.
LEMMA PendingUnique ==
    ASSUME NEW b \in Bridges, Distinct(b), NEW i \in DOMAIN b.pending
    PROVE  /\ IsPending(b, b.pending[i].call)
           /\ PendingAt(b, b.pending[i].call) = i
           /\ PendingInput(b, b.pending[i].call) = b.pending[i].input
<1>1. IsPending(b, b.pending[i].call)
  BY DEF IsPending
<1>2. PendingAt(b, b.pending[i].call) = i
  BY <1>1, PendingAtFacts DEF Distinct
<1>3. QED
  BY <1>1, <1>2 DEF PendingInput

\* Once its entry is taken out it does not wait, and the others do.
LEMMA RemovePending ==
    ASSUME NEW b \in Bridges, Distinct(b), NEW call, IsPending(b, call), NEW r \in Bridges,
           r.pending = RemoveAt(b.pending, PendingAt(b, call))
    PROVE  /\ Distinct(r)
           /\ \A d : IsPending(r, d) <=> IsPending(b, d) /\ d # call
           /\ \A d : IsPending(r, d) => PendingInput(r, d) = PendingInput(b, d)
<1> DEFINE s == b.pending
           k == PendingAt(b, call)
           n == Len(s)
           p == r.pending
           At(i) == IF i < k THEN i ELSE i + 1
<1>1. s \in Seq(PendingCalls) /\ k \in DOMAIN s /\ s[k].call = call /\ DOMAIN s = 1..n /\ n \in Nat
  BY PendingAtFacts DEF Bridges
<1>2. /\ p \in Seq(PendingCalls) /\ Len(p) = n - 1
      /\ \A i \in 1 .. k - 1 : p[i] = s[i]
      /\ \A i \in k .. n - 1 : p[i] = s[i + 1]
  <2> HIDE DEF s, k
  <2>1. /\ RemoveAt(s, k) \in Seq(PendingCalls) /\ Len(RemoveAt(s, k)) = Len(s) - 1
        /\ \A i \in 1 .. k - 1 : RemoveAt(s, k)[i] = s[i]
        /\ \A i \in k .. Len(s) - 1 : RemoveAt(s, k)[i] = s[i + 1]
    BY <1>1, RemoveAtFacts
  <2>2. QED
    BY <2>1 DEF s, k
<1> HIDE DEF k, p, s
<1>3. DOMAIN p = 1 .. n - 1
  BY <1>1, <1>2
<1> HIDE DEF n
<1>4. \A i \in DOMAIN p : At(i) \in DOMAIN s /\ At(i) # k /\ p[i] = s[At(i)]
  BY <1>1, <1>2, <1>3
<1>5. \A j \in DOMAIN s : j # k => \E i \in DOMAIN p : At(i) = j
  <2>1. SUFFICES ASSUME NEW j \in DOMAIN s, j # k
                 PROVE  \E i \in DOMAIN p : At(i) = j
    OBVIOUS
  <2>2. CASE j < k
    BY <1>1, <1>3, <2>1, <2>2
  <2>3. CASE j > k
    <3>1. j - 1 \in DOMAIN p /\ ~(j - 1 < k) /\ (j - 1) + 1 = j
      BY <1>1, <1>3, <2>1, <2>3
    <3>2. QED
      BY <3>1
  <2>4. QED
    BY <1>1, <2>1, <2>2, <2>3
<1>6. \A i, j \in DOMAIN p : At(i) = At(j) => i = j
  BY <1>1, <1>3
<1>7. \A i, j \in DOMAIN s : s[i].call = s[j].call => i = j
  BY DEF Distinct, s
<1> HIDE DEF At
<1>8. Distinct(r)
  <2>1. \A i, j \in DOMAIN p : p[i].call = p[j].call => i = j
    BY <1>4, <1>6, <1>7
  <2>2. QED
    BY <2>1 DEF Distinct, p
<1>9. ASSUME NEW d
      PROVE  IsPending(r, d) <=> IsPending(b, d) /\ d # call
  <2>1. (\E i \in DOMAIN p : p[i].call = d) <=> (\E j \in DOMAIN s : s[j].call = d) /\ d # call
    BY <1>1, <1>4, <1>5, <1>7
  <2>2. QED
    BY <2>1 DEF IsPending, p, s
<1>10. ASSUME NEW d, IsPending(r, d)
       PROVE  PendingInput(r, d) = PendingInput(b, d)
  <2>1. PICK i \in DOMAIN p : p[i].call = d
    BY <1>10 DEF IsPending, p
  <2>2. PendingInput(r, d) = p[i].input
    BY <1>8, <2>1, PendingUnique DEF p
  <2>3. At(i) \in DOMAIN s /\ s[At(i)].call = d /\ s[At(i)].input = p[i].input
    BY <1>4, <2>1
  <2>4. PendingInput(b, d) = s[At(i)].input
    BY <2>3, PendingUnique DEF s
  <2>5. QED
    BY <2>2, <2>3, <2>4
<1>11. QED
  BY <1>8, <1>9, <1>10

\* Once it is queued it waits, with its input, as the others do.
LEMMA AppendPending ==
    ASSUME NEW b \in Bridges, Distinct(b), NEW call \in Calls, ~IsPending(b, call),
           NEW input \in {"initial", Nil}, NEW r, Queues(b, r, call, input)
    PROVE  /\ Distinct(r)
           /\ \A d : IsPending(r, d) <=> IsPending(b, d) \/ d = call
           /\ PendingInput(r, call) = input
           /\ \A d : IsPending(b, d) => PendingInput(r, d) = PendingInput(b, d)
<1> DEFINE s == b.pending
           e == [call |-> call, input |-> input]
           p == r.pending
           n == Len(s) + 1
<1>1. s \in Seq(PendingCalls) /\ e \in PendingCalls
  BY DEF Bridges, PendingCalls
<1>2. e.call = call /\ e.input = input
  OBVIOUS
<1>3. p = Append(s, e) /\ r \in Bridges
  BY DEF Queues
<1> HIDE DEF s, e, p
<1>4. /\ DOMAIN s = 1..Len(s) /\ DOMAIN p = 1..n /\ p[n] = e /\ Len(s) \in Nat
      /\ \A i \in DOMAIN s : p[i] = s[i]
  BY <1>1, <1>3
<1>5. /\ \A i, j \in DOMAIN s : s[i].call = s[j].call => i = j
      /\ \A i \in DOMAIN s : s[i].call # call
  BY DEF Distinct, IsPending, s
<1>6. Distinct(r)
  <2>1. DOMAIN p = DOMAIN s \cup {n} /\ n \notin DOMAIN s
    BY <1>4
  <2>2. \A i, j \in DOMAIN p : p[i].call = p[j].call => i = j
    BY <1>2, <1>4, <1>5, <2>1
  <2>3. QED
    BY <2>2 DEF Distinct, p
<1>7. ASSUME NEW d
      PROVE  IsPending(r, d) <=> IsPending(b, d) \/ d = call
  <2>1. (\E i \in DOMAIN p : p[i].call = d) <=> (\E j \in DOMAIN s : s[j].call = d) \/ d = call
    <3>1. DOMAIN p = DOMAIN s \cup {n} /\ n \in DOMAIN p
      BY <1>4
    <3>2. QED
      BY <1>2, <1>4, <3>1
  <2>2. QED
    BY <2>1 DEF IsPending, p, s
<1>8. PendingInput(r, call) = input
  <2>1. n \in DOMAIN p /\ p[n].call = call /\ p[n].input = input
    BY <1>2, <1>4
  <2>2. QED
    BY <1>3, <1>6, <2>1, PendingUnique DEF p
<1>9. ASSUME NEW d, IsPending(b, d)
      PROVE  PendingInput(r, d) = PendingInput(b, d)
  <2>1. PICK i \in DOMAIN s : s[i].call = d
    BY <1>9 DEF IsPending, s
  <2>2. PendingInput(b, d) = s[i].input
    BY <2>1, PendingUnique DEF s
  <2>3. i \in DOMAIN p /\ p[i].call = d /\ p[i].input = s[i].input
    BY <1>4, <2>1
  <2>4. PendingInput(r, d) = p[i].input
    BY <1>3, <1>6, <2>3, PendingUnique DEF p
  <2>5. QED
    BY <2>2, <2>3, <2>4
<1>10. QED
  BY <1>6, <1>7, <1>8, <1>9

\* A call is waiting once or open, never both, and only calls of S are.
Holds(b, S) ==
    /\ Distinct(b)
    /\ \A c \in b.open : ~IsPending(b, c)
    /\ \A c : IsPending(b, c) \/ c \in b.open => c \in S

\* With the same calls waiting and no other open this still holds,
LEMMA HoldsSame ==
    ASSUME NEW b, NEW r, r.pending = b.pending, r.open \subseteq b.open, NEW S, Holds(b, S)
    PROVE  Holds(r, S)
BY DEF Holds, Distinct, IsPending

\* ... and with none of either it does,
LEMMA HoldsNothing ==
    ASSUME NEW r, r.pending = <<>>, r.open = {}, NEW S
    PROVE  Holds(r, S)
BY DEF Holds, Distinct, IsPending

\* ... when frames are closed or chunks told,
LEMMA HoldsFrames ==
    ASSUME NEW b \in Bridges, NEW S, Holds(b, S), NEW chunk \in Nat
    PROVE  /\ \A r : Silences(b, r) => Holds(r, S) /\ SameRun(b, r) /\ SameCalls(b, r)
           /\ Holds(TextDelta(b, chunk), S) /\ Holds(ThoughtDelta(b, chunk), S)
<1>1. ASSUME NEW r, Silences(b, r)
      PROVE  Holds(r, S) /\ SameRun(b, r) /\ SameCalls(b, r)
  <2>1. SameRun(b, r) /\ SameCalls(b, r)
    BY <1>1 DEF Silences, ClosesReasoning, ClosesMessage, SameRun, SameCalls
  <2>2. QED
    BY <2>1, HoldsSame DEF SameCalls
<1>2. Holds(TextDelta(b, chunk), S)
  <2> DEFINE m == CloseReasoning(b)
             o == OpenText(m)
             r == SayText(o, chunk)
  <2>1. SameCalls(b, m) /\ m \in Bridges
    BY CloseReasoningFacts DEF ClosesReasoning
  <2> HIDE DEF m
  <2>2. SameCalls(m, o) /\ o \in Bridges
    BY <2>1, OpenTextFacts DEF OpensText
  <2> HIDE DEF o
  <2>3. SameCalls(o, r)
    BY <2>2, SayFacts DEF Says
  <2> HIDE DEF r
  <2>4. Holds(r, S)
    BY <2>1, <2>2, <2>3, HoldsSame DEF SameCalls
  <2>5. QED
    BY <2>4 DEF TextDelta, r, o, m
<1>3. Holds(ThoughtDelta(b, chunk), S)
  <2> DEFINE o == OpenThought(b)
             r == SayThought(o, chunk)
  <2>1. SameCalls(b, o) /\ o \in Bridges
    BY OpenThoughtFacts DEF OpensThought, ClosesMessage, SameCalls
  <2> HIDE DEF o
  <2>2. SameCalls(o, r)
    BY <2>1, SayFacts DEF Says
  <2> HIDE DEF r
  <2>3. Holds(r, S)
    BY <2>1, <2>2, HoldsSame DEF SameCalls
  <2>4. QED
    BY <2>3 DEF ThoughtDelta, r, o
<1>4. QED
  BY <1>1, <1>2, <1>3

\* ... when a call is updated,
LEMMA HoldsCalls ==
    ASSUME NEW b \in Bridges, NEW S, Holds(b, S), NEW call \in Calls
    PROVE  /\ \A input \in {"initial", Nil} :
                 call \notin S => Holds(ToolCall(b, call, input), S \cup {call})
           /\ \A input \in Inputs : Progress(b, call, input) \in Bridges
                                    /\ Holds(Progress(b, call, input), S)
           /\ \A input \in Inputs : Completed(b, call, input) \in Bridges
                                    /\ Holds(Completed(b, call, input), S)
<1>1. ASSUME NEW input \in {"initial", Nil}, call \notin S
      PROVE  Holds(ToolCall(b, call, input), S \cup {call})
  <2> DEFINE m == CloseMessage(CloseReasoning(b))
             r == ToolCall(b, call, input)
  <2>1. Holds(m, S) /\ m \in Bridges
    BY SilenceFacts, HoldsFrames
  <2>2. Queues(m, r, call, input)
    BY ToolCallFacts
  <2> HIDE DEF m, r
  <2>3. ~IsPending(m, call) /\ call \notin m.open
    BY <1>1, <2>1 DEF Holds
  <2>4. /\ r \in Bridges /\ r.open = m.open
        /\ r.pending = Append(m.pending, [call |-> call, input |-> input])
    BY <2>2 DEF Queues
  <2>5. /\ Distinct(r)
        /\ \A d : IsPending(r, d) <=> IsPending(m, d) \/ d = call
    <3>1. Distinct(m)
      BY <2>1 DEF Holds
    <3>2. QED
      BY <1>1, <2>1, <2>2, <2>3, <3>1, AppendPending
  <2>6. Holds(r, S \cup {call})
    BY <2>1, <2>3, <2>4, <2>5 DEF Holds
  <2>7. QED
    BY <2>6 DEF r
<1>2. ASSUME IsPending(b, call)
      PROVE  ShowCall(b, call) \in Bridges /\ Holds(ShowCall(b, call), S)
  <2> DEFINE r == ShowCall(b, call)
  <2>1. Shows(b, r, call)
    BY <1>2, ShowCallFacts
  <2> HIDE DEF r
  <2>2. /\ r \in Bridges /\ r.open = b.open \cup {call}
        /\ r.pending = RemoveAt(b.pending, PendingAt(b, call))
    BY <2>1 DEF Shows
  <2>3. /\ Distinct(r)
        /\ \A d : IsPending(r, d) <=> IsPending(b, d) /\ d # call
    BY <1>2, <2>2, RemovePending DEF Holds
  <2>4. QED
    BY <1>2, <2>2, <2>3 DEF Holds, r
<1>3. ASSUME NEW x \in Bridges, Holds(x, S), NEW input \in Inputs
      PROVE  ShowArgs(x, call, input) \in Bridges /\ Holds(ShowArgs(x, call, input), S)
  <2> DEFINE r == ShowArgs(x, call, input)
  <2>1. ShowsArgs(x, r, call, input) /\ r \in Bridges
    BY ShowArgsFacts
  <2> HIDE DEF r
  <2>2. r.pending = x.pending /\ r.open = x.open
    BY <2>1 DEF ShowsArgs
  <2>3. QED
    BY <1>3, <2>1, <2>2, HoldsSame DEF r
<1>4. ASSUME NEW x \in Bridges, Holds(x, S)
      PROVE  EndCall(x, call) \in Bridges /\ Holds(EndCall(x, call), S)
  <2> DEFINE r == EndCall(x, call)
  <2>1. EndsCall(x, r, call) /\ r \in Bridges
    BY EndCallFacts
  <2> HIDE DEF r
  <2>2. r.pending = x.pending /\ r.open \subseteq x.open
    BY <2>1 DEF EndsCall, EmitsEnd, Says, SameCalls
  <2>3. QED
    BY <1>4, <2>1, <2>2, HoldsSame DEF r
<1>5. \A input \in Inputs : IsPending(b, call) => Or(input, PendingInput(b, call)) \in Inputs
  BY PendingAtFacts DEF Or, Inputs
<1>6. QED
  BY <1>1, <1>2, <1>3, <1>4, <1>5 DEF Progress, Completed

\* ... and when runs start, are suspended, go on and end.
LEMMA HoldsRuns ==
    ASSUME NEW b \in Bridges, NEW S, Holds(b, S), NEW r, NEW rank \in Seq(Calls)
    PROVE  /\ \A t : Starts(b, r, t) => Holds(r, S)
           /\ Attaches(b, r) => Holds(r, S)
           /\ Suspends(b, r) => Holds(r, S)
           /\ \A kind : Ends(b, r, rank, kind) =>
                 /\ Holds(r, S) /\ r.pending = <<>> /\ r.open = {} /\ r.turn = b.turn
<1>1. \A t : Starts(b, r, t) => Holds(r, S)
  BY HoldsNothing DEF Starts
<1>2. Attaches(b, r) => Holds(r, S)
  BY HoldsSame DEF Attaches, SameCalls
<1>3. Suspends(b, r) => Holds(r, S)
  <2>1. SUFFICES ASSUME NEW m, Silences(b, m), SameCalls(m, r)
                 PROVE  Holds(r, S)
    BY DEF Suspends, Leaves
  <2>2. Holds(m, S)
    BY <2>1, HoldsFrames
  <2>3. QED
    BY <2>1, <2>2, HoldsSame DEF SameCalls
<1>4. ASSUME NEW kind, Ends(b, r, rank, kind)
      PROVE  Holds(r, S) /\ r.pending = <<>> /\ r.open = {} /\ r.turn = b.turn
  <2>1. PICK m \in Bridges :
           /\ Silences(b, m)
           /\ Leaves(CloseCalls(m, rank), r, RunEvent(kind, b.turn),
                     IF b.sink = "run" THEN "ended" ELSE b.sink)
    BY <1>4 DEF Ends
  <2> DEFINE x == CloseCalls(m, rank)
  <2>2. x.pending = <<>> /\ x.open = {} /\ SameRun(m, x)
    BY CloseCallsFacts
  <2>3. SameRun(b, m)
    BY <2>1, HoldsFrames
  <2> HIDE DEF x
  <2>4. SameCalls(x, r) /\ r.turn = x.turn
    BY <2>1 DEF Leaves, x
  <2>5. QED
    BY <2>2, <2>3, <2>4, HoldsNothing DEF SameCalls, SameRun
<1>5. QED
  BY <1>1, <1>2, <1>3, <1>4

-----------------------------------------------------------------------------
(* The steps of the specification.                                         *)

\* An enumeration of the calls names each of them once.
LEMMA RankFacts ==
    ASSUME NEW rank \in Ranks
    PROVE  /\ rank \in Seq(Calls)
           /\ \A i, j \in 1..Len(rank) : rank[i] = rank[j] => i = j
           /\ \A c \in Calls : \E i \in 1..Len(rank) : rank[i] = c
<1> DEFINE n == Cardinality(Calls)
<1>1. n \in Nat /\ IsFiniteSet(Calls)
  BY ConstantsAssumption, FS_CardinalityType
<1>2. rank \in [1..n -> Calls] /\ \A i, j \in 1..n : i # j => rank[i] # rank[j]
  BY DEF Ranks, SetToSeqs
<1>3. Cardinality(1..n) = n
  BY <1>1, FS_Interval
<1> HIDE DEF n
<1>4. rank \in Seq(Calls) /\ Len(rank) = n
  BY <1>1, <1>2
<1>5. rank \in Injection(1..n, Calls)
  BY <1>2, Fun_IsInj
<1>6. rank \in Surjection(1..n, Calls)
  BY <1>1, <1>3, <1>5, FS_Injection DEF n
<1>7. QED
  BY <1>2, <1>4, <1>6, Fun_SurjectionProperties

\* The stream that the bridge has in each phase.
SinkFits ==
    CASE phase = "idle"    -> bridge.sink \in {"none", "ended"}
      [] phase = "working" -> bridge.sink \in {"run", "none"}
      [] phase = "waiting" -> bridge.sink = "none"
      [] phase = "closing" -> bridge.sink \in {"ended", "none"}

\* The types, and what stream the bridge has in which phase of which turn.
TypeInv ==
    /\ bridge \in Bridges
    /\ phase \in {"idle", "working", "waiting", "closing"}
    /\ turn \in 0..MaxTurns
    /\ history \in Seq(Records)
    /\ bridge.turn = turn
    /\ SinkFits

Phases == {"idle", "working", "waiting", "closing"}

\* Nothing but the phase changes.
Idles ==
    /\ phase' \in Phases /\ SinkFits' /\ (phase = "idle" => phase' = "idle")
    /\ UNCHANGED <<bridge, turn, history>>

Prompted ==
    /\ phase = "idle" /\ phase' = "working"
    /\ turn < MaxTurns /\ turn' = turn + 1
    /\ bridge.sink # "run"
    /\ Starts(bridge, bridge', turn')
    /\ history' = Recorded(Plain("user"), turn')

AgentUpdates == NextUpdates \cup {Plain("turnEnd")}

\* An update that no stream is there for.
Missed ==
    /\ phase \in {"working", "waiting"} /\ phase' \in {phase, "closing"}
    /\ bridge.sink = "none"
    /\ \E u \in AgentUpdates : history' = Recorded(u, turn)
    /\ UNCHANGED <<bridge, turn>>

\* The bridge is given an update, and shows it by the handler that led to r.
Handled(u, r) ==
    /\ phase = "working" /\ phase' = "working"
    /\ bridge.sink = "run"
    /\ history' = Recorded(u, turn)
    /\ bridge' = r
    /\ UNCHANGED turn

Spoke ==
    \/ Handled(Plain("text"), TextDelta(bridge, Len(history) + 1))
    \/ Handled(Plain("thought"), ThoughtDelta(bridge, Len(history) + 1))

StartOfCall(c, i) == [kind |-> "toolCall", call |-> c, input |-> i]

ProgressOfCall(c) == [kind |-> "progress", call |-> c, input |-> "later"]

EndOfCall(c, i) == [kind |-> "completed", call |-> c, input |-> i]

Called(c, i) ==
    /\ ~IsStarted(c)
    /\ Handled(StartOfCall(c, i), ToolCall(bridge, c, i))

Progressed(c) ==
    /\ Running(c)
    /\ Handled(ProgressOfCall(c), Progress(bridge, c, "later"))

Finished(c, i) ==
    /\ Running(c)
    /\ Handled(EndOfCall(c, i), Completed(bridge, c, i))

TurnEnded(rank) ==
    /\ phase = "working" /\ phase' = "closing"
    /\ bridge.sink = "run"
    /\ Ends(bridge, bridge', rank, "runFinished")
    /\ history' = Recorded(Plain("turnEnd"), turn)
    /\ UNCHANGED turn

Closed(rank, kind) ==
    /\ phase # "idle" /\ phase' = "idle"
    /\ Ends(bridge, bridge', rank, kind)
    /\ UNCHANGED <<turn, history>>

Suspended ==
    /\ phase = "working" /\ phase' = "waiting"
    /\ bridge.sink = "run"
    /\ Suspends(bridge, bridge')
    /\ UNCHANGED <<turn, history>>

Resumed ==
    /\ phase = "waiting" /\ phase' = "working"
    /\ bridge.sink = "none"
    /\ Attaches(bridge, bridge')
    /\ UNCHANGED <<turn, history>>

\* Every step is one of these.
Stepped ==
    \/ Idles
    \/ Prompted
    \/ Missed
    \/ Spoke
    \/ \E c \in Calls, i \in {"initial", Nil} : Called(c, i)
    \/ \E c \in Calls : Progressed(c)
    \/ \E c \in Calls, i \in {"later", Nil} : Finished(c, i)
    \/ \E rank \in Ranks : TurnEnded(rank)
    \/ \E rank \in Ranks, kind \in {"runFinished", "runError"} : Closed(rank, kind)
    \/ Suspended
    \/ Resumed

\* An update is missed, or is handled by its handler.
LEMMA UpdateCases ==
    ASSUME TypeInv, Update
    PROVE  Stepped
<1>1. /\ phase \in {"working", "waiting"} /\ phase' = phase /\ turn' = turn
      /\ history \in Seq(Records) /\ SinkFits
  BY DEF Update, TypeInv
<1>2. PICK u \in NextUpdates :
        /\ history' = Recorded(u, turn)
        /\ bridge' = SessionUpdate(bridge, u, Len(history'), <<>>)
  BY DEF Update
<1>3. Len(history') = Len(history) + 1
  BY <1>1, <1>2 DEF Recorded
<1>4. CASE bridge.sink = "none"
  <2>1. bridge' = bridge
    BY <1>2, <1>4 DEF SessionUpdate
  <2>2. Missed
    BY <1>1, <1>2, <1>4, <2>1 DEF Missed, AgentUpdates
  <2>3. QED
    BY <2>2 DEF Stepped
<1>5. CASE bridge.sink # "none"
  <2>1. phase = "working" /\ bridge.sink = "run"
    BY <1>1, <1>5 DEF SinkFits
  <2>2. \A r : bridge' = r => Handled(u, r)
    BY <1>1, <1>2, <2>1 DEF Handled
  <2>3. CASE u = Plain("text")
    <3>1. bridge' = TextDelta(bridge, Len(history) + 1)
      BY <1>2, <1>3, <2>1, <2>3 DEF SessionUpdate, Plain
    <3>2. QED
      BY <2>2, <2>3, <3>1 DEF Stepped, Spoke
  <2>4. CASE u = Plain("thought")
    <3>1. bridge' = ThoughtDelta(bridge, Len(history) + 1)
      BY <1>2, <1>3, <2>1, <2>4 DEF SessionUpdate, Plain
    <3>2. QED
      BY <2>2, <2>4, <3>1 DEF Stepped, Spoke
  <2>5. ASSUME NEW c \in Calls, NEW i \in {"initial", Nil}, ~IsStarted(c),
               u = StartOfCall(c, i)
        PROVE  Stepped
    <3>1. bridge' = ToolCall(bridge, c, i)
      BY <1>2, <2>1, <2>5 DEF SessionUpdate, StartOfCall
    <3>2. Called(c, i)
      BY <2>2, <2>5, <3>1 DEF Called
    <3>3. QED
      BY <2>5, <3>2 DEF Stepped
  <2>6. ASSUME NEW c \in Calls, Running(c), u = ProgressOfCall(c)
        PROVE  Stepped
    <3>1. bridge' = Progress(bridge, c, "later")
      BY <1>2, <2>1, <2>6 DEF SessionUpdate, ProgressOfCall
    <3>2. Progressed(c)
      BY <2>2, <2>6, <3>1 DEF Progressed
    <3>3. QED
      BY <2>6, <3>2 DEF Stepped
  <2>7. ASSUME NEW c \in Calls, NEW i \in {"later", Nil}, Running(c), u = EndOfCall(c, i)
        PROVE  Stepped
    <3>1. bridge' = Completed(bridge, c, i)
      BY <1>2, <2>1, <2>7 DEF SessionUpdate, EndOfCall
    <3>2. Finished(c, i)
      BY <2>2, <2>7, <3>1 DEF Finished
    <3>3. QED
      BY <2>7, <3>2 DEF Stepped
  <2>8. QED
    BY <1>2, <2>3, <2>4, <2>5, <2>6, <2>7
       DEF NextUpdates, StartOfCall, ProgressOfCall, EndOfCall
<1>6. QED
  BY <1>4, <1>5

\* Every step of the specification is one of the cases.
LEMMA NextCases ==
    ASSUME TypeInv, [Next]_vars
    PROVE  Stepped
<1>1. bridge \in Bridges /\ turn \in Nat /\ SinkFits /\ history \in Seq(Records)
  BY ConstantsAssumption DEF TypeInv
<1>2. ASSUME Prompt PROVE Stepped
  <2>1. bridge' = StartRun(bridge, turn') /\ turn' = turn + 1
    BY <1>2 DEF Prompt
  <2>2. Starts(bridge, bridge', turn')
    BY <1>1, <2>1, StartRunFacts
  <2>3. bridge.sink # "run"
    BY <1>1, <1>2 DEF Prompt, SinkFits
  <2>4. Prompted
    BY <1>2, <2>2, <2>3 DEF Prompt, Prompted
  <2>5. QED
    BY <2>4 DEF Stepped
<1>3. ASSUME Update PROVE Stepped
  BY <1>3, UpdateCases
<1>4. ASSUME SendTurnEnd PROVE Stepped
  <2>1. PICK rank \in Ranks :
          bridge' = SessionUpdate(bridge, Plain("turnEnd"), Len(history'), rank)
    BY <1>4 DEF SendTurnEnd
  <2>2. phase = "working" /\ phase' = "closing" /\ turn' = turn
        /\ history' = Recorded(Plain("turnEnd"), turn)
    BY <1>4 DEF SendTurnEnd
  <2>3. CASE bridge.sink = "none"
    <3>1. bridge' = bridge
      BY <2>1, <2>3 DEF SessionUpdate
    <3>2. Missed
      BY <2>2, <2>3, <3>1 DEF Missed, AgentUpdates
    <3>3. QED
      BY <3>2 DEF Stepped
  <2>4. CASE bridge.sink = "run"
    <3>1. bridge' = FinishRun(bridge, rank)
      BY <2>1, <2>4 DEF SessionUpdate, Plain, TurnEnd
    <3>2. Ends(bridge, bridge', rank, "runFinished")
      BY <1>1, <3>1, RankFacts, EndRunFacts
    <3>3. TurnEnded(rank)
      BY <2>2, <2>4, <3>2 DEF TurnEnded
    <3>4. QED
      BY <3>3 DEF Stepped
  <2>5. QED
    BY <1>1, <2>2, <2>3, <2>4 DEF SinkFits
<1>5. ASSUME PromptReturns PROVE Stepped
  <2>1. CASE bridge.sink # "run"
    <3>1. UNCHANGED <<bridge, turn, history>> /\ phase' = "idle" /\ phase \in {"working", "closing"}
      BY <1>5, <2>1 DEF PromptReturns
    <3>2. Idles
      BY <1>1, <2>1, <3>1 DEF Idles, SinkFits, Phases
    <3>3. QED
      BY <3>2 DEF Stepped
  <2>2. CASE bridge.sink = "run"
    <3>1. PICK rank \in Ranks : bridge' = FinishRun(bridge, rank)
      BY <1>5, <2>2 DEF PromptReturns
    <3>2. Ends(bridge, bridge', rank, "runFinished")
      BY <1>1, <3>1, RankFacts, EndRunFacts
    <3>3. Closed(rank, "runFinished")
      BY <1>5, <3>2 DEF PromptReturns, Closed
    <3>4. QED
      BY <3>3 DEF Stepped
  <2>3. QED
    BY <2>1, <2>2
<1>6. ASSUME PromptFails PROVE Stepped
  <2>1. PICK rank \in Ranks : bridge' = ErrorRun(bridge, rank)
    BY <1>6 DEF PromptFails
  <2>2. Ends(bridge, bridge', rank, "runError")
    BY <1>1, <2>1, RankFacts, EndRunFacts
  <2>3. Closed(rank, "runError")
    BY <1>6, <2>2 DEF PromptFails, Closed
  <2>4. QED
    BY <2>3 DEF Stepped
<1>7. ASSUME RequestPermission PROVE Stepped
  BY <1>1, <1>7, SuspendRunFacts DEF RequestPermission, Stepped, Suspended
<1>8. ASSUME Resume PROVE Stepped
  BY <1>1, <1>8, AttachResumeQueueFacts DEF Resume, SinkFits, Stepped, Resumed
<1>9. ASSUME Expire \/ UNCHANGED vars PROVE Stepped
  <2>1. UNCHANGED <<bridge, turn, history>>
    BY <1>9 DEF Expire, vars
  <2>2. phase' = phase \/ (phase = "waiting" /\ phase' = "working")
    BY <1>9 DEF Expire, vars
  <2>3. Idles
    BY <1>1, <2>1, <2>2 DEF Idles, SinkFits, Phases, TypeInv
  <2>4. QED
    BY <2>3 DEF Stepped
<1>10. QED
  BY <1>2, <1>3, <1>4, <1>5, <1>6, <1>7, <1>8, <1>9 DEF Next

-----------------------------------------------------------------------------
(* Type correctness.                                                       *)

\* What the history keeps of an update.
RecordOf(u, t) ==
    [kind |-> u.kind, call |-> u.call, input |-> u.input,
     turn |-> t, attached |-> bridge.sink = "run"]

\* The record of an update is what Recorded appends.
LEMMA RecordFacts ==
    ASSUME NEW u \in AgentUpdates \cup {Plain("user")}, NEW t \in Nat
    PROVE  /\ Recorded(u, t) = Append(history, RecordOf(u, t))
           /\ RecordOf(u, t) \in Records
           /\ RecordOf(u, t).kind = u.kind /\ RecordOf(u, t).call = u.call
           /\ RecordOf(u, t).input = u.input /\ RecordOf(u, t).turn = t
           /\ RecordOf(u, t).attached = (bridge.sink = "run")
<1>1. /\ u.kind \in {"user", "text", "thought", "toolCall", "progress", "completed", "turnEnd"}
      /\ u.call \in Calls \cup {Nil} /\ u.input \in Inputs
  BY DEF AgentUpdates, NextUpdates, Plain, Inputs
<1>2. (bridge.sink = "run") \in BOOLEAN
  OBVIOUS
<1>3. RecordOf(u, t) \in Records
  BY <1>1, <1>2 DEF RecordOf, Records
<1>4. QED
  BY <1>3 DEF Recorded, RecordOf

\* The updates that are handled are updates of the agent.
LEMMA HandledUpdates ==
    /\ Plain("text") \in AgentUpdates /\ Plain("thought") \in AgentUpdates
    /\ Plain("turnEnd") \in AgentUpdates
    /\ \A c \in Calls : ~IsStarted(c) =>
          \A i \in {"initial", Nil} : StartOfCall(c, i) \in AgentUpdates
    /\ \A c \in Calls : Running(c) =>
          /\ ProgressOfCall(c) \in AgentUpdates
          /\ \A i \in {"later", Nil} : EndOfCall(c, i) \in AgentUpdates
<1>1. /\ Plain("text") \in AgentUpdates /\ Plain("thought") \in AgentUpdates
      /\ Plain("turnEnd") \in AgentUpdates
  BY DEF AgentUpdates, NextUpdates
<1>2. ASSUME NEW c \in Calls, ~IsStarted(c), NEW i \in {"initial", Nil}
      PROVE  StartOfCall(c, i) \in AgentUpdates
  BY <1>2 DEF AgentUpdates, NextUpdates, StartOfCall
<1>3. ASSUME NEW c \in Calls, Running(c)
      PROVE  ProgressOfCall(c) \in AgentUpdates
  BY <1>3 DEF AgentUpdates, NextUpdates, ProgressOfCall
<1>4. ASSUME NEW c \in Calls, Running(c), NEW i \in {"later", Nil}
      PROVE  EndOfCall(c, i) \in AgentUpdates
  BY <1>4 DEF AgentUpdates, NextUpdates, EndOfCall
<1>5. QED
  BY <1>1, <1>2, <1>3, <1>4

\* No handler of an update changes the run it is told in.
LEMMA HandlersKeepRun ==
    ASSUME NEW b \in Bridges, NEW n \in Nat
    PROVE  /\ TextDelta(b, n) \in Bridges /\ SameRun(b, TextDelta(b, n))
           /\ ThoughtDelta(b, n) \in Bridges /\ SameRun(b, ThoughtDelta(b, n))
           /\ \A call \in Calls, input \in {"initial", Nil} :
                 ToolCall(b, call, input) \in Bridges /\ SameRun(b, ToolCall(b, call, input))
           /\ \A call \in Calls, input \in Inputs :
                 /\ Progress(b, call, input) \in Bridges /\ SameRun(b, Progress(b, call, input))
                 /\ Completed(b, call, input) \in Bridges /\ SameRun(b, Completed(b, call, input))
<1>1. TextDelta(b, n) \in Bridges /\ SameRun(b, TextDelta(b, n))
  <2> DEFINE m == CloseReasoning(b)
             o == OpenText(m)
             r == SayText(o, n)
  <2>1. SameRun(b, m) /\ m \in Bridges
    BY CloseReasoningFacts DEF ClosesReasoning
  <2> HIDE DEF m
  <2>2. SameRun(m, o) /\ o \in Bridges
    BY <2>1, OpenTextFacts DEF OpensText, SameRun
  <2> HIDE DEF o
  <2>3. SameRun(o, r) /\ r \in Bridges
    BY <2>2, SayFacts DEF Says
  <2> HIDE DEF r
  <2>4. SameRun(b, r)
    BY <2>1, <2>2, <2>3 DEF SameRun
  <2>5. QED
    BY <2>3, <2>4 DEF TextDelta, r, o, m
<1>2. ThoughtDelta(b, n) \in Bridges /\ SameRun(b, ThoughtDelta(b, n))
  <2> DEFINE o == OpenThought(b)
             r == SayThought(o, n)
  <2>1. SameRun(b, o) /\ o \in Bridges
    BY OpenThoughtFacts DEF OpensThought, ClosesMessage, SameRun
  <2> HIDE DEF o
  <2>2. SameRun(o, r) /\ r \in Bridges
    BY <2>1, SayFacts DEF Says
  <2> HIDE DEF r
  <2>3. SameRun(b, r)
    BY <2>1, <2>2 DEF SameRun
  <2>4. QED
    BY <2>2, <2>3 DEF ThoughtDelta, r, o
<1> DEFINE D == {r \in Bridges : SameRun(b, r)}
<1>3. CallsStayIn(D) /\ b \in D
  BY DEF CallsStayIn, CallStep, SameRun
<1>4. CloseMessage(CloseReasoning(b)) \in D
  BY SilenceFacts DEF Silences, ClosesReasoning, ClosesMessage, SameRun
<1> HIDE DEF D
<1>5. /\ \A call \in Calls, input \in {"initial", Nil} : ToolCall(b, call, input) \in D
      /\ \A call \in Calls, input \in Inputs : Progress(b, call, input) \in D /\ Completed(b, call, input) \in D
  BY <1>3, <1>4, ToolCallFacts, AreCallSteps, CallHandlersStay
<1>6. QED
  BY <1>1, <1>2, <1>5 DEF D

\* A run that ends, or is suspended, leaves its turn and its stream.
LEMMA EndedRun ==
    ASSUME NEW b \in Bridges, NEW r, NEW rank \in Seq(Calls), NEW kind, Ends(b, r, rank, kind)
    PROVE  /\ r \in Bridges /\ r.turn = b.turn
           /\ r.sink = IF b.sink = "run" THEN "ended" ELSE b.sink
<1>1. PICK m \in Bridges :
        /\ Silences(b, m)
        /\ Leaves(CloseCalls(m, rank), r, RunEvent(kind, b.turn),
                  IF b.sink = "run" THEN "ended" ELSE b.sink)
  BY DEF Ends
<1>2. SameRun(b, m)
  BY <1>1 DEF Silences, ClosesReasoning, ClosesMessage, SameRun
<1>3. SameRun(m, CloseCalls(m, rank))
  BY CloseCallsFacts
<1>4. QED
  BY <1>1, <1>2, <1>3 DEF Leaves, SameRun

\* ... or is suspended ...
LEMMA SuspendedRun ==
    ASSUME NEW b \in Bridges, NEW r, Suspends(b, r)
    PROVE  r \in Bridges /\ r.turn = b.turn /\ r.sink = "none"
<1>1. PICK m \in Bridges : Silences(b, m) /\ Leaves(m, r, RunEvent("interrupt", b.turn), "none")
  BY DEF Suspends
<1>2. SameRun(b, m)
  BY <1>1 DEF Silences, ClosesReasoning, ClosesMessage, SameRun
<1>3. QED
  BY <1>1, <1>2 DEF Leaves, SameRun

\* Nothing has been folded into the first transcript.
LEMMA EmptyTypes == EmptyTranscript \in Transcripts
<1> DEFINE Openings == UNION {[X -> Nat] : X \in SUBSET (Nat \cup {Nil})}
           Wheres == UNION {[X -> [message : Nat, index : Nat]] : X \in SUBSET Calls}
<1>1. <<>> \in [{} -> Nat] /\ <<>> \in [{} -> [message : Nat, index : Nat]]
  OBVIOUS
<1>2. <<>> \in Openings /\ <<>> \in Wheres
  BY <1>1
<1>3. <<>> \in Seq(Messages)
  OBVIOUS
<1> HIDE DEF Openings, Wheres
<1>4. EmptyTranscript \in [messages : Seq(Messages), opened : Openings, where : Wheres]
  BY <1>2, <1>3 DEF EmptyTranscript
<1>5. QED
  BY <1>4 DEF Transcripts, Openings, Wheres

\* Every step keeps the types, and the stream that fits the phase.
LEMMA TypeStep ==
    ASSUME TypeInv, Stepped
    PROVE  TypeInv'
<1>1. /\ bridge \in Bridges /\ bridge.turn = turn /\ turn \in 0..MaxTurns /\ turn \in Nat
      /\ history \in Seq(Records)
      /\ phase \in {"idle", "working", "waiting", "closing"} /\ SinkFits /\ MaxTurns \in Nat
  BY ConstantsAssumption DEF TypeInv
<1>2. ASSUME NEW u \in AgentUpdates \cup {Plain("user")}, NEW t \in Nat,
             history' = Recorded(u, t)
      PROVE  history' \in Seq(Records)
  <2>1. RecordOf(u, t) \in Records /\ history' = Append(history, RecordOf(u, t))
    BY <1>2, RecordFacts
  <2>2. QED
    BY <1>1, <2>1, AppendFacts
<1>3. ASSUME NEW u \in AgentUpdates, NEW r \in Bridges, SameRun(bridge, r), Handled(u, r)
      PROVE  TypeInv'
  BY <1>1, <1>2, <1>3 DEF Handled, SameRun, TypeInv, SinkFits
<1>4. Len(history) + 1 \in Nat /\ "later" \in Inputs /\ Nil \in Inputs
  BY <1>1 DEF Inputs
<1>5. CASE Idles
  BY <1>1, <1>5 DEF Idles, TypeInv, Phases
<1>6. CASE Prompted
  <2>1. turn' \in Nat /\ turn' \in 0..MaxTurns
    BY <1>1, <1>6 DEF Prompted
  <2>2. history' \in Seq(Records)
    BY <1>2, <1>6, <2>1 DEF Prompted
  <2>3. bridge' \in Bridges /\ bridge'.sink = "run" /\ bridge'.turn = turn'
    BY <1>6 DEF Prompted, Starts
  <2>4. QED
    BY <1>6, <2>1, <2>2, <2>3 DEF Prompted, TypeInv, SinkFits
<1>7. CASE Missed
  BY <1>1, <1>2, <1>7 DEF Missed, TypeInv, SinkFits
<1>8. CASE Spoke
  <2>1. ASSUME NEW n \in Nat
        PROVE  /\ TextDelta(bridge, n) \in Bridges /\ SameRun(bridge, TextDelta(bridge, n))
               /\ ThoughtDelta(bridge, n) \in Bridges /\ SameRun(bridge, ThoughtDelta(bridge, n))
    BY <1>1, <2>1, HandlersKeepRun
  <2>2. QED
    BY <1>3, <1>4, <1>8, <2>1, HandledUpdates DEF Spoke
<1>9. ASSUME NEW c \in Calls, NEW i \in {"initial", Nil}, Called(c, i)
      PROVE  TypeInv'
  BY <1>1, <1>3, <1>4, <1>9, HandledUpdates, HandlersKeepRun DEF Called
<1>10. ASSUME NEW c \in Calls, Progressed(c)
       PROVE  TypeInv'
  BY <1>1, <1>3, <1>4, <1>10, HandledUpdates, HandlersKeepRun DEF Progressed
<1>11. ASSUME NEW c \in Calls, NEW i \in {"later", Nil}, Finished(c, i)
       PROVE  TypeInv'
  BY <1>1, <1>3, <1>4, <1>11, HandledUpdates, HandlersKeepRun DEF Finished
<1>12. ASSUME NEW rank \in Ranks, TurnEnded(rank)
       PROVE  TypeInv'
  <2>1. rank \in Seq(Calls)
    BY <1>12, RankFacts
  <2>2. bridge' \in Bridges /\ bridge'.turn = turn /\ bridge'.sink = "ended"
    BY <1>1, <1>12, <2>1, EndedRun DEF TurnEnded
  <2>3. QED
    BY <1>1, <1>2, <1>12, <2>2, HandledUpdates DEF TurnEnded, TypeInv, SinkFits
<1>13. ASSUME NEW rank \in Ranks, NEW kind \in {"runFinished", "runError"}, Closed(rank, kind)
       PROVE  TypeInv'
  <2>1. rank \in Seq(Calls)
    BY <1>13, RankFacts
  <2>2. bridge' \in Bridges /\ bridge'.turn = turn
        /\ bridge'.sink = IF bridge.sink = "run" THEN "ended" ELSE bridge.sink
    BY <1>1, <1>13, <2>1, EndedRun DEF Closed
  <2>3. QED
    BY <1>1, <1>13, <2>2 DEF Closed, TypeInv, SinkFits
<1>14. CASE Suspended
  BY <1>1, <1>14, SuspendedRun DEF Suspended, TypeInv, SinkFits
<1>15. CASE Resumed
  BY <1>1, <1>15 DEF Resumed, Attaches, TypeInv, SinkFits
<1>16. QED
  BY <1>5, <1>6, <1>7, <1>8, <1>9, <1>10, <1>11, <1>12, <1>13, <1>14, <1>15 DEF Stepped

\* The first state has them.
LEMMA TypeAtFirst == Init => TypeInv
<1>1. SUFFICES ASSUME Init PROVE TypeInv
  OBVIOUS
<1>2. NewBridge \in Bridges /\ NewBridge.sink = "none" /\ NewBridge.turn = 0
  BY EmptyTypes DEF NewBridge, Bridges, Sinks
<1>3. 0 \in 0..MaxTurns /\ <<>> \in Seq(Records)
  BY ConstantsAssumption
<1>4. QED
  BY <1>1, <1>2, <1>3 DEF Init, TypeInv, SinkFits

-----------------------------------------------------------------------------
(* The frames stay nested.                                                 *)

\* Every step keeps the frames.
LEMMA FramedStep ==
    ASSUME TypeInv, Stepped, bridge \in Framed
    PROVE  bridge' \in Framed
<1>1. /\ bridge.turn = turn /\ turn \in Nat /\ history \in Seq(Records) /\ SinkFits
      /\ Len(history) + 1 \in Nat /\ "later" \in Inputs /\ Nil \in Inputs
  BY ConstantsAssumption DEF TypeInv, Inputs
<1>2. CASE Idles
  BY <1>2 DEF Idles
<1>3. CASE Prompted
  <2>1. turn' \in Nat
    BY <1>1, <1>3 DEF Prompted
  <2>2. QED
    BY <1>3, <2>1, FramedStarts DEF Prompted
<1>4. CASE Missed
  BY <1>4 DEF Missed
<1>5. CASE Spoke
  BY <1>1, <1>5, FramedText, FramedThought DEF Spoke, Handled
<1>6. ASSUME NEW c \in Calls, NEW i \in {"initial", Nil}, Called(c, i)
      PROVE  bridge' \in Framed
  BY <1>6, FramedCallHandlers DEF Called, Handled
<1>7. ASSUME NEW c \in Calls, Progressed(c)
      PROVE  bridge' \in Framed
  BY <1>1, <1>7, FramedCallHandlers DEF Progressed, Handled
<1>8. ASSUME NEW c \in Calls, NEW i \in {"later", Nil}, Finished(c, i)
      PROVE  bridge' \in Framed
  BY <1>1, <1>8, FramedCallHandlers DEF Finished, Handled
<1>9. ASSUME NEW rank \in Ranks, TurnEnded(rank)
      PROVE  bridge' \in Framed
  <2>1. rank \in Seq(Calls)
    BY <1>9, RankFacts
  <2>2. QED
    BY <1>9, <2>1, FramedEnds DEF TurnEnded
<1>10. ASSUME NEW rank \in Ranks, NEW kind \in {"runFinished", "runError"}, Closed(rank, kind)
       PROVE  bridge' \in Framed
  <2>1. rank \in Seq(Calls)
    BY <1>10, RankFacts
  <2>2. QED
    BY <1>10, <2>1, FramedEnds DEF Closed
<1>11. CASE Suspended
  <2>1. <<>> \in Seq(Calls)
    OBVIOUS
  <2>2. QED
    BY <1>11, <2>1, FramedEnds DEF Suspended
<1>12. CASE Resumed
  BY <1>12, FramedStarts DEF Resumed
<1>13. QED
  BY <1>2, <1>3, <1>4, <1>5, <1>6, <1>7, <1>8, <1>9, <1>10, <1>11, <1>12 DEF Stepped

\* Nothing is on the first wire.
LEMMA FramedAtFirst == Init => bridge \in Framed
<1>1. SUFFICES ASSUME Init PROVE bridge \in Framed
  OBVIOUS
<1>2. /\ bridge \in Bridges /\ bridge.sink = "none" /\ bridge.wire = <<>>
      /\ bridge.message = Nil /\ bridge.reasoning = Nil
  BY <1>1, TypeAtFirst DEF Init, NewBridge, TypeInv
<1>3. Nested(<<>>) /\ Quiet(<<>>)
  BY DEF Nested, Quiet, IsLast
<1>4. QED
  BY <1>2, <1>3 DEF Framed, FramesOK

FramesInv == TypeInv /\ bridge \in Framed

\* The types and the frames are invariant.
LEMMA FramesAlways == Spec => []FramesInv
<1>1. Init => FramesInv
  BY TypeAtFirst, FramedAtFirst DEF FramesInv
<1>2. FramesInv /\ [Next]_vars => FramesInv'
  BY NextCases, TypeStep, FramedStep DEF FramesInv
<1>3. QED
  BY <1>1, <1>2, PTL DEF Spec

\* Text and reasoning never overlap on the wire, nothing is said outside its
\* own frame, and none is open where a stream begins or ends.
THEOREM FramesAlwaysNest == Spec => []FramesNest
<1>1. FramesInv => FramesNest
  BY DEF FramesInv, Framed, FramesOK, Nested, FramesNest, AdjacentIn, Adjacent
<1>2. QED
  BY <1>1, FramesAlways, PTL

-----------------------------------------------------------------------------
(* Every chunk that had a stream is told once, in order.                   *)

\* A bridge stays in order when the history grows by what asks for no chunk.
LEMMA OrderedRecord ==
    ASSUME NEW b \in Bridges, NEW h \in Seq(Records), b \in Ordered(h),
           NEW u \in Records, u.kind \notin ChunkKinds \/ ~u.attached
    PROVE  b \in Ordered(Append(h, u))
BY OtherRecordInOrder DEF Ordered

\* Every step keeps the chunks in order.
LEMMA OrderedAction ==
    ASSUME TypeInv, Stepped, bridge \in Ordered(history)
    PROVE  bridge' \in Ordered(history')
<1>1. /\ bridge.turn = turn /\ turn \in Nat /\ history \in Seq(Records) /\ SinkFits
      /\ bridge \in Bridges /\ "later" \in Inputs /\ Nil \in Inputs
  BY ConstantsAssumption DEF TypeInv, Inputs
<1>2. bridge' \in Bridges
  BY TypeStep DEF TypeInv
<1>3. ASSUME NEW u \in AgentUpdates \cup {Plain("user")}, NEW t \in Nat,
             history' = Recorded(u, t), bridge' \in Ordered(history),
             u.kind \notin ChunkKinds \/ bridge.sink # "run"
      PROVE  bridge' \in Ordered(history')
  <2>1. /\ RecordOf(u, t) \in Records /\ history' = Append(history, RecordOf(u, t))
        /\ RecordOf(u, t).kind \notin ChunkKinds \/ ~RecordOf(u, t).attached
    BY <1>3, RecordFacts
  <2>2. QED
    BY <1>1, <1>2, <1>3, <2>1, OrderedRecord
<1>4. CASE Idles
  BY <1>4 DEF Idles
<1>5. CASE Prompted
  <2>1. turn' \in Nat
    BY <1>1, <1>5 DEF Prompted
  <2>2. bridge' \in Ordered(history)
    <3>1. <<>> \in Seq(Calls)
      OBVIOUS
    <3>2. QED
      BY <1>5, <2>1, <3>1, OrderedRuns DEF Prompted
  <2>3. Plain("user").kind \notin ChunkKinds
    BY DEF Plain, ChunkKinds
  <2>4. QED
    BY <1>3, <1>5, <2>1, <2>2, <2>3 DEF Prompted
<1>6. CASE Missed
  <2>1. PICK u \in AgentUpdates : history' = Recorded(u, turn)
    BY <1>6 DEF Missed
  <2>2. QED
    BY <1>1, <1>3, <1>6, <2>1 DEF Missed
<1>7. CASE Spoke
  <2>1. ASSUME NEW u \in AgentUpdates, bridge.sink = "run"
        PROVE  /\ RecordOf(u, turn) \in Records /\ RecordOf(u, turn).kind = u.kind
               /\ RecordOf(u, turn).attached
               /\ Recorded(u, turn) = Append(history, RecordOf(u, turn))
    BY <1>1, <2>1, RecordFacts
  <2>2. Plain("text").kind = "text" /\ Plain("thought").kind = "thought"
    BY DEF Plain
  <2>3. CASE Handled(Plain("text"), TextDelta(bridge, Len(history) + 1))
    <3>1. bridge.sink = "run" /\ bridge' = TextDelta(bridge, Len(history) + 1)
          /\ history' = Recorded(Plain("text"), turn)
      BY <2>3 DEF Handled
    <3>2. QED
      BY <1>1, <2>1, <2>2, <3>1, HandledUpdates, OrderedChunks
  <2>4. CASE Handled(Plain("thought"), ThoughtDelta(bridge, Len(history) + 1))
    <3>1. bridge.sink = "run" /\ bridge' = ThoughtDelta(bridge, Len(history) + 1)
          /\ history' = Recorded(Plain("thought"), turn)
      BY <2>4 DEF Handled
    <3>2. QED
      BY <1>1, <2>1, <2>2, <3>1, HandledUpdates, OrderedChunks
  <2>5. QED
    BY <1>7, <2>3, <2>4 DEF Spoke
<1>8. ASSUME NEW c \in Calls, NEW i \in {"initial", Nil}, Called(c, i)
      PROVE  bridge' \in Ordered(history')
  <2>1. bridge' \in Ordered(history)
    BY <1>1, <1>8, OrderedHandlers DEF Called, Handled
  <2>2. StartOfCall(c, i).kind \notin ChunkKinds
    BY DEF StartOfCall, ChunkKinds
  <2>3. QED
    BY <1>1, <1>3, <1>8, <2>1, <2>2, HandledUpdates DEF Called, Handled
<1>9. ASSUME NEW c \in Calls, Progressed(c)
      PROVE  bridge' \in Ordered(history')
  <2>1. bridge' \in Ordered(history)
    BY <1>1, <1>9, OrderedHandlers DEF Progressed, Handled
  <2>2. ProgressOfCall(c).kind \notin ChunkKinds
    BY DEF ProgressOfCall, ChunkKinds
  <2>3. QED
    BY <1>1, <1>3, <1>9, <2>1, <2>2, HandledUpdates DEF Progressed, Handled
<1>10. ASSUME NEW c \in Calls, NEW i \in {"later", Nil}, Finished(c, i)
       PROVE  bridge' \in Ordered(history')
  <2>1. bridge' \in Ordered(history)
    BY <1>1, <1>10, OrderedHandlers DEF Finished, Handled
  <2>2. EndOfCall(c, i).kind \notin ChunkKinds
    BY DEF EndOfCall, ChunkKinds
  <2>3. QED
    BY <1>1, <1>3, <1>10, <2>1, <2>2, HandledUpdates DEF Finished, Handled
<1>11. ASSUME NEW rank \in Ranks, TurnEnded(rank)
       PROVE  bridge' \in Ordered(history')
  <2>1. rank \in Seq(Calls)
    BY <1>11, RankFacts
  <2>2. bridge' \in Ordered(history)
    BY <1>11, <2>1, OrderedRuns DEF TurnEnded
  <2>3. Plain("turnEnd").kind \notin ChunkKinds
    BY DEF Plain, ChunkKinds
  <2>4. QED
    BY <1>1, <1>3, <1>11, <2>2, <2>3, HandledUpdates DEF TurnEnded
<1>12. ASSUME NEW rank \in Ranks, NEW kind \in {"runFinished", "runError"}, Closed(rank, kind)
       PROVE  bridge' \in Ordered(history')
  <2>1. rank \in Seq(Calls)
    BY <1>12, RankFacts
  <2>2. QED
    BY <1>12, <2>1, OrderedRuns DEF Closed
<1>13. CASE Suspended
  <2>1. <<>> \in Seq(Calls)
    OBVIOUS
  <2>2. QED
    BY <1>13, <2>1, OrderedRuns DEF Suspended
<1>14. CASE Resumed
  <2>1. <<>> \in Seq(Calls)
    OBVIOUS
  <2>2. QED
    BY <1>14, <2>1, OrderedRuns DEF Resumed
<1>15. QED
  BY <1>4, <1>5, <1>6, <1>7, <1>8, <1>9, <1>10, <1>11, <1>12, <1>13, <1>14 DEF Stepped

OrderInv == TypeInv /\ bridge \in Ordered(history)

\* The types and the order of the chunks are invariant.
LEMMA OrderAlways == Spec => []OrderInv
<1>1. Init => OrderInv
  <2>1. SUFFICES ASSUME Init PROVE OrderInv
    OBVIOUS
  <2>2. TypeInv /\ bridge \in Bridges /\ bridge.wire = <<>> /\ history = <<>>
    BY <2>1, TypeAtFirst DEF Init, NewBridge, TypeInv
  <2>3. InOrder(<<>>, <<>>)
    BY DEF InOrder, ChunksOf
  <2>4. QED
    BY <2>2, <2>3 DEF OrderInv, Ordered
<1>2. OrderInv /\ [Next]_vars => OrderInv'
  BY NextCases, TypeStep, OrderedAction DEF OrderInv
<1>3. QED
  BY <1>1, <1>2, PTL DEF Spec

\* What is said while a run is attached reaches the client once, as what it
\* is, and in the order in which the agent said it.
THEOREM ClientAlwaysInOrder == Spec => []ClientInOrder
<1>1. OrderInv => ClientInOrder
  BY DEF OrderInv, Ordered, InOrder, ChunksOf, ClientInOrder
<1>2. QED
  BY <1>1, OrderAlways, PTL

-----------------------------------------------------------------------------
(* The bridge's own state.                                                 *)

Started == {c \in Calls : IsStarted(c)}

\* A call that has started stays started.
LEMMA StartedStays ==
    ASSUME history \in Seq(Records), NEW u \in Records, history' = Append(history, u)
    PROVE  /\ Started \subseteq Started'
           /\ \A c \in Calls : u.kind = "toolCall" /\ u.call = c => c \in Started'
BY HistoryFacts DEF Started, IsStarted

\* More calls may have started.
LEMMA HoldsMore ==
    ASSUME NEW b, NEW S, NEW T, S \subseteq T, Holds(b, S)
    PROVE  Holds(b, T)
BY DEF Holds

\* Every step keeps what is pending and open apart.
LEMMA HoldsStep ==
    ASSUME TypeInv, Stepped, Holds(bridge, Started)
    PROVE  Holds(bridge', Started')
<1>1. /\ bridge.turn = turn /\ turn \in Nat /\ history \in Seq(Records) /\ SinkFits
      /\ bridge \in Bridges /\ "later" \in Inputs /\ Nil \in Inputs
      /\ Len(history) + 1 \in Nat /\ <<>> \in Seq(Calls)
  BY ConstantsAssumption DEF TypeInv, Inputs
<1>2. ASSUME UNCHANGED history
      PROVE  Started' = Started
  BY <1>2 DEF Started, IsStarted
<1>3. ASSUME NEW u \in AgentUpdates \cup {Plain("user")}, NEW t \in Nat,
             history' = Recorded(u, t)
      PROVE  /\ Started \subseteq Started'
             /\ \A c \in Calls : u.kind = "toolCall" /\ u.call = c => c \in Started'
  <2>1. /\ RecordOf(u, t) \in Records /\ history' = Append(history, RecordOf(u, t))
        /\ RecordOf(u, t).kind = u.kind /\ RecordOf(u, t).call = u.call
    BY <1>3, RecordFacts
  <2>2. QED
    BY <1>1, <2>1, StartedStays
<1>4. CASE Idles
  BY <1>2, <1>4 DEF Idles
<1>5. CASE Prompted
  BY <1>5, HoldsNothing DEF Prompted, Starts
<1>6. CASE Missed
  BY <1>1, <1>3, <1>6, HoldsMore DEF Missed
<1>7. CASE Spoke
  <2>1. Holds(bridge', Started)
    BY <1>1, <1>7, HoldsFrames DEF Spoke, Handled
  <2>2. QED
    BY <1>1, <1>3, <1>7, <2>1, HoldsMore, HandledUpdates DEF Spoke, Handled
<1>8. ASSUME NEW c \in Calls, NEW i \in {"initial", Nil}, Called(c, i)
      PROVE  Holds(bridge', Started')
  <2>1. Holds(bridge', Started \cup {c})
    BY <1>1, <1>8, HoldsCalls DEF Called, Handled, Started
  <2>2. StartOfCall(c, i).kind = "toolCall" /\ StartOfCall(c, i).call = c
    BY DEF StartOfCall
  <2>3. Started \cup {c} \subseteq Started'
    BY <1>1, <1>3, <1>8, <2>2, HandledUpdates DEF Called, Handled
  <2>4. QED
    BY <2>1, <2>3, HoldsMore
<1>9. ASSUME NEW c \in Calls, Progressed(c)
      PROVE  Holds(bridge', Started')
  <2>1. Holds(bridge', Started)
    BY <1>1, <1>9, HoldsCalls DEF Progressed, Handled
  <2>2. QED
    BY <1>1, <1>3, <1>9, <2>1, HoldsMore, HandledUpdates DEF Progressed, Handled
<1>10. ASSUME NEW c \in Calls, NEW i \in {"later", Nil}, Finished(c, i)
       PROVE  Holds(bridge', Started')
  <2>1. Holds(bridge', Started)
    BY <1>1, <1>10, HoldsCalls DEF Finished, Handled
  <2>2. QED
    BY <1>1, <1>3, <1>10, <2>1, HoldsMore, HandledUpdates DEF Finished, Handled
<1>11. ASSUME NEW rank \in Ranks, TurnEnded(rank)
       PROVE  Holds(bridge', Started')
  <2>1. rank \in Seq(Calls)
    BY <1>11, RankFacts
  <2>2. Holds(bridge', Started')
    BY <1>1, <1>11, <2>1, HoldsRuns, HoldsNothing DEF TurnEnded
  <2>3. QED
    BY <2>2
<1>12. ASSUME NEW rank \in Ranks, NEW kind \in {"runFinished", "runError"}, Closed(rank, kind)
       PROVE  Holds(bridge', Started')
  <2>1. rank \in Seq(Calls)
    BY <1>12, RankFacts
  <2>2. QED
    BY <1>1, <1>12, <2>1, HoldsRuns, HoldsNothing DEF Closed
<1>13. CASE Suspended
  BY <1>1, <1>2, <1>13, HoldsRuns DEF Suspended
<1>14. CASE Resumed
  BY <1>1, <1>2, <1>14, HoldsRuns DEF Resumed
<1>15. QED
  BY <1>4, <1>5, <1>6, <1>7, <1>8, <1>9, <1>10, <1>11, <1>12, <1>13, <1>14 DEF Stepped

HoldsInv == FramesInv /\ Holds(bridge, Started)

\* It is invariant, with the types and the frames.
LEMMA HoldsAlways == Spec => []HoldsInv
<1>1. Init => FramesInv
  BY TypeAtFirst, FramedAtFirst DEF FramesInv
<1>2. FramesInv /\ [Next]_vars => FramesInv'
  BY NextCases, TypeStep, FramedStep DEF FramesInv
<1>3. Init => Holds(bridge, Started)
  BY HoldsNothing DEF Init, NewBridge
<1>4. HoldsInv /\ [Next]_vars => HoldsInv'
  BY <1>2, NextCases, HoldsStep DEF FramesInv, HoldsInv
<1>5. QED
  BY <1>1, <1>3, <1>4, PTL DEF Spec, HoldsInv

\* The bridge's state is well formed: a call waits for its START once or is
\* open, never both, and text and reasoning are never open at the same time.
THEOREM FramingTypeCorrect == Spec => []TypeOK
<1>1. HoldsInv => TypeOK
  <2>1. SUFFICES ASSUME HoldsInv PROVE TypeOK
    OBVIOUS
  <2>2. /\ bridge \in Bridges /\ bridge.sink # "replay" /\ Nil \in {bridge.message, bridge.reasoning}
        /\ phase \in {"idle", "working", "waiting", "closing"} /\ turn \in 0..MaxTurns
    BY <2>1 DEF HoldsInv, FramesInv, TypeInv, Framed, FramesOK
  <2>3. /\ bridge.sink \in Sinks /\ bridge.message \in Nat \cup {Nil}
        /\ bridge.reasoning \in Nat \cup {Nil} /\ bridge.open \subseteq Calls
        /\ bridge.argsSent \subseteq Calls /\ bridge.pending \in Seq(PendingCalls)
    BY <2>2 DEF Bridges
  <2>4. \A i \in DOMAIN bridge.pending : bridge.pending[i].input \in {"initial", Nil}
    <3>1. \A i \in DOMAIN bridge.pending : bridge.pending[i] \in PendingCalls
      BY <2>3
    <3>2. QED
      BY <3>1 DEF PendingCalls
  <2>5. /\ \A i, j \in DOMAIN bridge.pending :
              bridge.pending[i].call = bridge.pending[j].call => i = j
        /\ \A c \in bridge.open : ~IsPending(bridge, c)
    BY <2>1 DEF HoldsInv, Holds, Distinct
  <2>6. QED
    BY <2>2, <2>3, <2>4, <2>5 DEF TypeOK, Sinks
<1>2. QED
  BY <1>1, HoldsAlways, PTL
=============================================================================
