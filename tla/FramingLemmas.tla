--------------------------- MODULE FramingLemmas ---------------------------
(***************************************************************************)
(* What the handlers of the bridge do: the types they keep, and for each   *)
(* of them a relation of the bridge before and after it.  The proofs about *)
(* the specification use these relations and never the records that the    *)
(* handlers build.                                                         *)
(*                                                                         *)
(* Handlers loop: first comes what lets a proof follow a loop.             *)
(***************************************************************************)
EXTENDS Framing, Integers, WellFoundedInduction, TLAPS

-----------------------------------------------------------------------------
(* Induction over a set of numbers, and the functions defined by it: what   *)
(* follows, for sets, from the theorem that < is well founded on Nat.       *)

\* Zero, and with each number the next one: these are all of them.
LEMMA NatSetInduction ==
    ASSUME NEW S \in SUBSET Nat, 0 \in S, \A n \in S : n + 1 \in S
    PROVE  S = Nat
<1> DEFINE T == Nat \ S
           R == OpToRel(<, Nat)
<1>1. SUFFICES ASSUME T # {} PROVE FALSE
  OBVIOUS
<1>2. IsWellFoundedOn(R, Nat)
  BY NatLessThanWellFounded
<1>3. PICK x \in T : \A y \in T : ~(<<y, x>> \in R)
  <2> HIDE DEF R
  <2>1. T \subseteq Nat
    OBVIOUS
  <2> HIDE DEF T
  <2>2. QED
    BY <1>1, <1>2, <2>1, WFMin
<1>4. \A y \in Nat : y < x => <<y, x>> \in R
  BY <1>3 DEF OpToRel
<1>5. x # 0 /\ x \in Nat
  BY <1>3
<1>6. x - 1 \in Nat /\ x - 1 < x /\ (x - 1) + 1 = x
  BY <1>5
<1>7. x - 1 \notin T
  BY <1>3, <1>4, <1>6
<1>8. x - 1 \in S
  BY <1>6, <1>7
<1>9. QED
  BY <1>3, <1>6, <1>8

\* The same up to a bound.
LEMMA IntervalInduction ==
    ASSUME NEW m \in Nat, NEW S,
           0 \in S, \A n \in 0..m : n \in S /\ n < m => n + 1 \in S
    PROVE  0..m \subseteq S
<1> DEFINE T == {n \in Nat : n <= m => n \in S}
<1>1. T \in SUBSET Nat /\ 0 \in T
  OBVIOUS
<1>2. \A n \in T : n + 1 \in T
  OBVIOUS
<1>3. T = Nat
  <2> HIDE DEF T
  <2>1. QED
    BY <1>1, <1>2, NatSetInduction
<1>4. QED
  BY <1>3

\* What follows from step to step: the value i from the one before.
Steps(n, D) == [1..n -> [D -> D]]

\* g is what follows from c by the steps F.
Iterates(g, n, D, c, F) ==
    /\ g \in [0..n -> D]
    /\ g[0] = c
    /\ \A i \in 1..n : g[i] = F[i][g[i - 1]]

\* A function by recursion on 0..n, from c by the steps F, exists, with its
\* values in D, when each step stays in D.
LEMMA Iteration ==
    ASSUME NEW D, NEW n \in Nat, NEW c \in D, NEW F \in Steps(n, D)
    PROVE  \E g : Iterates(g, n, D, c, F)
<1> USE DEF Steps, Iterates
<1> DEFINE Is(g, m) == \A i \in 0..m : g[i] = IF i = 0 THEN c ELSE F[i][g[i - 1]]
           S == {m \in 0..n : \E g \in [0..m -> D] : Is(g, m)}
<1>1. 0 \in S
  <2> DEFINE g == [i \in 0..0 |-> c]
  <2>1. g \in [0..0 -> D]
    OBVIOUS
  <2>2. Is(g, 0)
    OBVIOUS
  <2> HIDE DEF g, Is
  <2>3. QED
    BY <2>1, <2>2
<1>2. \A m \in 0..n : m \in S /\ m < n => m + 1 \in S
  <2>1. SUFFICES ASSUME NEW m \in 0..n, NEW g \in [0..m -> D], Is(g, m), m < n
                 PROVE  m + 1 \in S
    <3> HIDE DEF Is
    <3>1. QED
      OBVIOUS
  <2> DEFINE x == F[m + 1][g[m]]
             h == [i \in 0..(m + 1) |-> IF i = m + 1 THEN x ELSE g[i]]
  <2>2. x \in D
    <3>1. m + 1 \in 1..n /\ g[m] \in D
      BY <2>1
    <3>2. F[m + 1] \in [D -> D]
      BY <3>1
    <3>3. QED
      BY <3>1, <3>2
  <2>3. h \in [0..(m + 1) -> D]
    <3> HIDE DEF x
    <3>1. QED
      BY <2>2
  <2>4. h[m + 1] = x /\ \A i \in 0..m : h[i] = g[i]
    <3> HIDE DEF x
    <3>1. QED
      OBVIOUS
  <2>5. Is(h, m + 1)
    <3>1. SUFFICES ASSUME NEW i \in 0..(m + 1)
                   PROVE  h[i] = IF i = 0 THEN c ELSE F[i][h[i - 1]]
      OBVIOUS
    <3> HIDE DEF h
    <3>2. CASE i = m + 1
      <4>1. i - 1 = m /\ m \in 0..m /\ i # 0
        BY <3>2
      <4>2. h[i - 1] = g[m]
        BY <4>1, <2>4
      <4>3. QED
        BY <3>2, <4>1, <4>2, <2>4
    <3>3. CASE i \in 0..m
      <4>1. g[i] = IF i = 0 THEN c ELSE F[i][g[i - 1]]
        BY <2>1, <3>3
      <4>2. i # 0 => i - 1 \in 0..m
        BY <3>3
      <4>3. i # 0 => h[i - 1] = g[i - 1]
        BY <4>2, <2>4
      <4>4. QED
        BY <3>3, <4>1, <4>3, <2>4
    <3>4. QED
      BY <3>2, <3>3
  <2>6. QED
    <3> HIDE DEF h, Is
    <3>1. QED
      BY <2>1, <2>3, <2>5
<1>3. n \in S
  <2> HIDE DEF S
  <2>1. 0..n \subseteq S
    BY <1>1, <1>2, IntervalInduction
  <2>2. n \in 0..n
    OBVIOUS
  <2>3. QED
    BY <2>1, <2>2
<1>4. PICK g \in [0..n -> D] : Is(g, n)
  <2> HIDE DEF Is
  <2>1. QED
    BY <1>3
<1>5. g[0] = c /\ \A i \in 1..n : g[i] = F[i][g[i - 1]]
  BY <1>4
<1>6. QED
  BY <1>5

-----------------------------------------------------------------------------
(* The types.                                                              *)

\* The types of the model: a bridge, what it tells, and its transcript.
Sinks == {"none", "run", "ended", "replay"}

PendingCalls == [call : Calls, input : {"initial", Nil}]

\* The events a bridge can emit.
Events ==
    [kind : {"textStart", "textEnd", "thoughtStart", "thoughtEnd"}, id : Nat \cup {Nil}]
    \cup [kind : {"text", "thought"}, id : Nat \cup {Nil}, chunk : Nat]
    \cup [kind : {"callStart", "callEnd", "callResult"}, call : Calls]
    \cup [kind : {"callArgs"}, call : Calls, input : Inputs]
    \cup [kind : {"runStarted", "runFinished", "runError", "interrupt"}, turn : Nat]

Roles == {"assistant", "reasoning", "user", "tool"}

CallEntries == [call : Calls, args : Inputs]

Messages ==
    [role : Roles, content : Seq(Nat \cup Calls),
     calls : Seq(CallEntries)]

Transcripts ==
    [messages : Seq(Messages),
     opened   : UNION {[X -> Nat] : X \in SUBSET (Nat \cup {Nil})},
     where    : UNION {[X -> [message : Nat, index : Nat]] : X \in SUBSET Calls}]

Bridges ==
    [sink      : Sinks,
     turn      : Nat,
     message   : Nat \cup {Nil},
     reasoning : Nat \cup {Nil},
     pending   : Seq(PendingCalls),
     open      : SUBSET Calls,
     argsSent  : SUBSET Calls,
     fresh     : Nat,
     wire      : Seq(Events),
     acc       : Transcripts]

-----------------------------------------------------------------------------

\* The constructors make events.
LEMMA EventTypes ==
    /\ \A id \in Nat \cup {Nil} :
        /\ \A kind \in {"textStart", "textEnd", "thoughtStart", "thoughtEnd"} :
              FrameEvent(kind, id) \in Events
        /\ \A kind \in {"text", "thought"}, chunk \in Nat :
              ChunkEvent(kind, id, chunk) \in Events
    /\ \A call \in Calls :
        /\ \A kind \in {"callStart", "callEnd", "callResult"} :
              CallEvent(kind, call) \in Events
        /\ \A input \in Inputs : ArgsEvent(call, input) \in Events
    /\ \A kind \in {"runStarted", "runFinished", "runError", "interrupt"}, t \in Nat :
          RunEvent(kind, t) \in Events
BY DEF Events, FrameEvent, ChunkEvent, CallEvent, ArgsEvent, RunEvent

\* What a sequence is once an element is put at its end.
LEMMA AppendFacts ==
    ASSUME NEW S, NEW s \in Seq(S), NEW e \in S
    PROVE  /\ Append(s, e) \in Seq(S)
           /\ Len(Append(s, e)) = Len(s) + 1
           /\ DOMAIN Append(s, e) = 1..(Len(s) + 1)
           /\ Append(s, e)[Len(s) + 1] = e
           /\ \A i \in 1..Len(s) : Append(s, e)[i] = s[i]
OBVIOUS

\* An update outside of a sequence is none.
LEMMA OutsideFacts ==
    ASSUME NEW S, NEW s \in Seq(S), NEW i, i \notin DOMAIN s, NEW x
    PROVE  [s EXCEPT ![i] = x] = s
OBVIOUS

\* The accumulator keeps its type: when a message is opened,
LEMMA OpenMessageType ==
    ASSUME NEW acc \in Transcripts, NEW role \in Roles, NEW id \in Nat \cup {Nil}
    PROVE  OpenMessage(acc, role, id) \in Transcripts
<1> DEFINE m == Message(role, <<>>)
           o == Bind(acc.opened, id, Len(acc.messages) + 1)
<1>1. m \in Messages
  BY DEF Message, Messages
<1>2. Append(acc.messages, m) \in Seq(Messages)
  BY <1>1 DEF Transcripts
<1>3. o \in UNION {[X -> Nat] : X \in SUBSET (Nat \cup {Nil})}
  <2>1. PICK X \in SUBSET (Nat \cup {Nil}) : acc.opened \in [X -> Nat]
    BY DEF Transcripts
  <2>2. Len(acc.messages) + 1 \in Nat
    BY DEF Transcripts
  <2>3. o \in [X \cup {id} -> Nat]
    BY <2>1, <2>2 DEF Bind
  <2>4. QED
    BY <2>3
<1>4. OpenMessage(acc, role, id) = [acc EXCEPT !.messages = Append(acc.messages, m), !.opened = o]
  BY DEF OpenMessage
<1> HIDE DEF m, o
<1>5. QED
  BY <1>2, <1>3, <1>4 DEF Transcripts

\* ... when a message's content or its calls are replaced,
LEMMA MessageFacts ==
    ASSUME NEW ms \in Seq(Messages), NEW i \in DOMAIN ms
    PROVE  /\ ms[i] \in Messages
           /\ \A c \in Seq(Nat \cup Calls) : [ms EXCEPT ![i].content = c] \in Seq(Messages)
           /\ \A c \in Seq(CallEntries) :
                  [ms EXCEPT ![i].calls = c] \in Seq(Messages)
<1>1. ms[i] \in Messages
  OBVIOUS
<1>2. ASSUME NEW c \in Seq(Nat \cup Calls)
      PROVE  [ms EXCEPT ![i].content = c] \in Seq(Messages)
  <2>1. [ms[i] EXCEPT !.content = c] \in Messages
    BY <1>1 DEF Messages
  <2>2. \A m \in Messages : [ms EXCEPT ![i] = m] \in Seq(Messages)
    OBVIOUS
  <2>3. QED
    BY <2>1, <2>2
<1>3. ASSUME NEW c \in Seq(CallEntries)
      PROVE  [ms EXCEPT ![i].calls = c] \in Seq(Messages)
  <2>1. [ms[i] EXCEPT !.calls = c] \in Messages
    BY <1>1 DEF Messages
  <2>2. \A m \in Messages : [ms EXCEPT ![i] = m] \in Seq(Messages)
    OBVIOUS
  <2>3. QED
    BY <2>1, <2>2
<1>4. QED
  BY <1>1, <1>2, <1>3

\* ... when content is added,
LEMMA AddContentType ==
    ASSUME NEW acc \in Transcripts, NEW id, NEW chunk \in Nat
    PROVE  AddContent(acc, id, chunk) \in Transcripts
<1>1. CASE id \notin DOMAIN acc.opened
  BY <1>1 DEF AddContent
<1>2. CASE id \in DOMAIN acc.opened /\ acc.opened[id] \notin DOMAIN acc.messages
  <2>1. acc.messages \in Seq(Messages)
    BY DEF Transcripts
  <2>2. [acc.messages EXCEPT ![acc.opened[id]].content
             = Append(acc.messages[acc.opened[id]].content, chunk)] = acc.messages
    BY <1>2, <2>1
  <2>3. QED
    BY <1>2, <2>2 DEF AddContent, Transcripts
<1>3. CASE id \in DOMAIN acc.opened /\ acc.opened[id] \in DOMAIN acc.messages
  <2> DEFINE i == acc.opened[id]
             c == Append(acc.messages[i].content, chunk)
  <2>1. acc.messages \in Seq(Messages)
    BY DEF Transcripts
  <2>2. acc.messages[i] \in Messages
    BY <1>3, <2>1, MessageFacts
  <2>3. c \in Seq(Nat \cup Calls)
    BY <2>2 DEF Messages
  <2>4. [acc.messages EXCEPT ![i].content = c] \in Seq(Messages)
    <3> HIDE DEF c, i
    <3>1. i \in DOMAIN acc.messages
      BY <1>3 DEF i
    <3>2. QED
      BY <2>1, <2>3, <3>1, MessageFacts
  <2>5. AddContent(acc, id, chunk)
           = [acc EXCEPT !.messages = [acc.messages EXCEPT ![i].content = c]]
    BY <1>3 DEF AddContent
  <2> HIDE DEF i, c
  <2>6. QED
    BY <2>4, <2>5 DEF Transcripts
<1>4. QED
  BY <1>1, <1>2, <1>3

\* ... when a message is closed,
LEMMA PopMessageType ==
    ASSUME NEW acc \in Transcripts, NEW id
    PROVE  PopMessage(acc, id) \in Transcripts
<1> DEFINE o == Restrict(acc.opened, DOMAIN acc.opened \ {id})
<1>1. o \in UNION {[X -> Nat] : X \in SUBSET (Nat \cup {Nil})}
  <2>1. PICK X \in SUBSET (Nat \cup {Nil}) : acc.opened \in [X -> Nat]
    BY DEF Transcripts
  <2>2. o \in [X \ {id} -> Nat]
    BY <2>1 DEF Restrict
  <2>3. QED
    BY <2>2
<1>2. PopMessage(acc, id) = [acc EXCEPT !.opened = o]
  BY DEF PopMessage
<1> HIDE DEF o
<1>3. QED
  BY <1>1, <1>2 DEF Transcripts

\* ... when the result of a call comes,
LEMMA AddResultType ==
    ASSUME NEW acc \in Transcripts, NEW call \in Calls
    PROVE  AddResult(acc, call) \in Transcripts
<1>1. Message("tool", <<call>>) \in Messages
  BY DEF Message, Messages, Roles
<1>2. Append(acc.messages, Message("tool", <<call>>)) \in Seq(Messages)
  BY <1>1 DEF Transcripts
<1>3. QED
  BY <1>2 DEF AddResult, Transcripts

\* ... when a call joins a message,
LEMMA AttachCallType ==
    ASSUME NEW acc \in Transcripts, NEW call \in Calls
    PROVE  AttachCall(acc, call) \in Transcripts
<1> DEFINE ms == IF Trailing(acc, "assistant")
                 THEN acc.messages
                 ELSE Append(acc.messages, Message("assistant", <<>>))
           cs == Append(Last(ms).calls, [call |-> call, args |-> Nil])
           at == [message |-> Len(ms), index |-> Len(Last(ms).calls) + 1]
<1>1. Message("assistant", <<>>) \in Messages
  BY DEF Message, Messages, Roles
<1>2. ms \in Seq(Messages) /\ ms # <<>>
  <2>1. acc.messages \in Seq(Messages)
    BY DEF Transcripts
  <2>2. CASE Trailing(acc, "assistant")
    BY <2>1, <2>2 DEF Trailing
  <2>3. CASE ~Trailing(acc, "assistant")
    <3>1. Append(acc.messages, Message("assistant", <<>>)) \in Seq(Messages)
      BY <1>1, <2>1
    <3>2. Len(Append(acc.messages, Message("assistant", <<>>))) # 0
      BY <1>1, <2>1
    <3>3. QED
      BY <2>3, <3>1, <3>2
  <2>4. QED
    BY <2>2, <2>3
<1>3. Len(ms) \in DOMAIN ms /\ Len(ms) \in Nat
  <2> HIDE DEF ms
  <2>1. QED
    BY <1>2
<1>4. Last(ms) \in Messages /\ Last(ms) = ms[Len(ms)]
  <2> HIDE DEF ms
  <2>1. QED
    BY <1>2, <1>3 DEF Last
<1>5. Last(ms).calls \in Seq(CallEntries)
  <2> HIDE DEF ms
  <2>1. QED
    BY <1>4 DEF Messages
<1>6. cs \in Seq(CallEntries)
  <2> HIDE DEF ms
  <2>1. QED
    BY <1>5 DEF Inputs, CallEntries
<1>7. at \in [message : Nat, index : Nat]
  <2> HIDE DEF ms
  <2>1. QED
    BY <1>3, <1>5
<1>8. Bind(acc.where, call, at)
        \in UNION {[X -> [message : Nat, index : Nat]] : X \in SUBSET Calls}
  <2> HIDE DEF at
  <2>1. PICK X \in SUBSET Calls : acc.where \in [X -> [message : Nat, index : Nat]]
    BY DEF Transcripts
  <2>2. Bind(acc.where, call, at) \in [X \cup {call} -> [message : Nat, index : Nat]]
    BY <1>7, <2>1 DEF Bind
  <2>3. QED
    BY <2>2
<1>9. [ms EXCEPT ![Len(ms)].calls = cs] \in Seq(Messages)
  <2> HIDE DEF ms, cs
  <2>1. QED
    BY <1>2, <1>3, <1>6, MessageFacts
<1>10. AttachCall(acc, call)
          = [acc EXCEPT !.messages = [ms EXCEPT ![Len(ms)].calls = cs],
                        !.where = Bind(acc.where, call, at)]
  BY <1>4 DEF AttachCall
<1> HIDE DEF ms, cs, at
<1>11. QED
  BY <1>8, <1>9, <1>10 DEF Transcripts

\* ... when its arguments come,
LEMMA SetArgsType ==
    ASSUME NEW acc \in Transcripts, NEW call \in Calls, NEW input \in Inputs
    PROVE  SetArgs(acc, call, input) \in Transcripts
<1>1. CASE call \notin DOMAIN acc.where
  BY <1>1 DEF SetArgs
<1>2. CASE call \in DOMAIN acc.where
  <2> DEFINE ms == acc.messages
             m  == acc.where[call].message
             j  == acc.where[call].index
  <2>1. ms \in Seq(Messages)
    BY DEF Transcripts
  <2>2. SetArgs(acc, call, input)
           = [acc EXCEPT !.messages = [ms EXCEPT ![m] = [ms[m] EXCEPT !.calls =
                [ms[m].calls EXCEPT ![j] = [ms[m].calls[j] EXCEPT !.args = input]]]]]
    BY <1>2 DEF SetArgs
  <2>3. CASE m \notin DOMAIN ms
    <3> DEFINE x == [ms[m] EXCEPT !.calls =
                        [ms[m].calls EXCEPT ![j] = [ms[m].calls[j] EXCEPT !.args = input]]]
    <3>1. [ms EXCEPT ![m] = x] = ms
      <4> HIDE DEF ms, m, x
      <4>1. QED
        BY <2>1, <2>3, OutsideFacts
    <3>2. QED
      BY <2>1, <2>2, <3>1 DEF Transcripts
  <2>4. CASE m \in DOMAIN ms
    <3> DEFINE cs == ms[m].calls
               y  == [cs[j] EXCEPT !.args = input]
    <3>1. ms[m] \in Messages
      BY <2>1, <2>4, MessageFacts
    <3>2. cs \in Seq(CallEntries)
      BY <3>1 DEF Messages
    <3>3. [cs EXCEPT ![j] = y] \in Seq(CallEntries)
      <4> HIDE DEF cs, j
      <4>1. CASE j \notin DOMAIN cs
        <5> HIDE DEF y
        <5>1. [cs EXCEPT ![j] = y] = cs
          BY <3>2, <4>1, OutsideFacts
        <5>2. QED
          BY <3>2, <5>1
      <4>2. CASE j \in DOMAIN cs
        <5>1. cs[j] \in CallEntries
          BY <3>2, <4>2
        <5>2. y \in CallEntries
          BY <5>1 DEF CallEntries
        <5> HIDE DEF y
        <5>3. QED
          BY <3>2, <4>2, <5>2
      <4>3. QED
        BY <4>1, <4>2
    <3> HIDE DEF ms, m, j, cs, y
    <3>4. [ms EXCEPT ![m].calls = [cs EXCEPT ![j] = y]]
             \in Seq(Messages)
      BY <2>1, <2>4, <3>3, MessageFacts
    <3>5. SetArgs(acc, call, input)
             = [acc EXCEPT !.messages = [ms EXCEPT ![m].calls = [cs EXCEPT ![j] = y]]]
      BY <2>2 DEF cs, y
    <3>6. QED
      BY <3>4, <3>5 DEF Transcripts
  <2>5. QED
    BY <2>3, <2>4
<1>3. QED
  BY <1>1, <1>2

\* ... when the user is heard,
LEMMA AddUserTextType ==
    ASSUME NEW acc \in Transcripts, NEW chunk \in Nat
    PROVE  AddUserText(acc, chunk) \in Transcripts
<1> DEFINE ms == acc.messages
<1>1. ms \in Seq(Messages)
  BY DEF Transcripts
<1>2. CASE Trailing(acc, "user")
  <2>1. Len(ms) \in DOMAIN ms
    BY <1>1, <1>2 DEF Trailing
  <2>2. ms[Len(ms)] \in Messages
    BY <1>1, <2>1
  <2>3. Append(ms[Len(ms)].content, chunk) \in Seq(Nat \cup Calls)
    BY <2>2 DEF Messages
  <2>4. [ms EXCEPT ![Len(ms)].content = Append(ms[Len(ms)].content, chunk)]
           \in Seq(Messages)
    <3> HIDE DEF ms
    <3>1. QED
      BY <1>1, <2>1, <2>3, MessageFacts
  <2>5. QED
    BY <1>2, <2>4 DEF AddUserText, Transcripts
<1>3. CASE ~Trailing(acc, "user")
  <2>1. Message("user", <<chunk>>) \in Messages
    BY DEF Message, Messages, Roles
  <2>2. Append(ms, Message("user", <<chunk>>)) \in Seq(Messages)
    BY <1>1, <2>1
  <2>3. QED
    BY <1>3, <2>2 DEF AddUserText, Transcripts
<1>4. QED
  BY <1>2, <1>3

\* ... and so whatever event is folded in.
LEMMA FoldType ==
    ASSUME NEW acc \in Transcripts, NEW e \in Events
    PROVE  Fold(acc, e) \in Transcripts
<1>1. CASE e \in [kind : {"textStart", "textEnd", "thoughtStart", "thoughtEnd"},
                  id : Nat \cup {Nil}]
  <2>1. RoleOf(e.kind) \in Roles
    BY DEF RoleOf, Roles
  <2>2. e.id \in Nat \cup {Nil}
    BY <1>1
  <2>3. /\ OpenMessage(acc, RoleOf(e.kind), e.id) \in Transcripts
        /\ PopMessage(acc, e.id) \in Transcripts
    BY <2>1, <2>2, OpenMessageType, PopMessageType
  <2>4. QED
    BY <1>1, <2>3 DEF Fold
<1>2. CASE e \in [kind : {"text", "thought"}, id : Nat \cup {Nil}, chunk : Nat]
  <2>1. AddContent(acc, e.id, e.chunk) \in Transcripts
    BY <1>2, AddContentType
  <2>2. QED
    BY <1>2, <2>1 DEF Fold
<1>3. CASE e \in [kind : {"callStart", "callEnd", "callResult"}, call : Calls]
  <2>1. /\ AttachCall(acc, e.call) \in Transcripts
        /\ AddResult(acc, e.call) \in Transcripts
    BY <1>3, AttachCallType, AddResultType
  <2>2. QED
    BY <1>3, <2>1 DEF Fold
<1>4. CASE e \in [kind : {"callArgs"}, call : Calls, input : Inputs]
  <2>1. SetArgs(acc, e.call, e.input) \in Transcripts
    BY <1>4, SetArgsType
  <2>2. QED
    BY <1>4, <2>1 DEF Fold
<1>5. CASE e \in [kind : {"runStarted", "runFinished", "runError", "interrupt"}, turn : Nat]
  BY <1>5 DEF Fold
<1>6. QED
  BY <1>1, <1>2, <1>3, <1>4, <1>5 DEF Events

-----------------------------------------------------------------------------
(* What the primitives of the bridge do, field by field, and whatever its   *)
(* sink: each as a relation between the bridge before and after.            *)

\* What an event does to the wire, if there is a stream,
WireAfter(b, e) == IF b.sink = "run" THEN Append(b.wire, e) ELSE b.wire

\* ... and to the transcript, if a session is replayed.
AccAfter(b, e) == IF b.sink = "replay" THEN Fold(b.acc, e) ELSE b.acc

\* What a handler may leave alone: the run,
SameRun(b, r) == r.sink = b.sink /\ r.turn = b.turn

\* ... the messages that are open,
SameFrames(b, r) == /\ r.message = b.message
                    /\ r.reasoning = b.reasoning
                    /\ r.fresh = b.fresh

\* ... the calls,
SameCalls(b, r) == /\ r.pending = b.pending
                   /\ r.open = b.open
                   /\ r.argsSent = b.argsSent

\* ... and all that has been told.
SameOut(b, r) == r.wire = b.wire /\ r.acc = b.acc

\* r has told what b has, and then e.
Told(b, r, e) == r.wire = WireAfter(b, e) /\ r.acc = AccAfter(b, e)

\* An event changes nothing but what is told: the wire, or the transcript.
LEMMA EmitFacts ==
    ASSUME NEW b \in Bridges, NEW e \in Events
    PROVE  /\ Emit(b, e) \in Bridges
           /\ SameRun(b, Emit(b, e)) /\ SameFrames(b, Emit(b, e))
           /\ SameCalls(b, Emit(b, e)) /\ Told(b, Emit(b, e), e)
<1> USE DEF SameRun, SameFrames, SameCalls, Told, WireAfter, AccAfter
<1>1. CASE b.sink = "replay"
  <2>1. Fold(b.acc, e) \in Transcripts
    BY FoldType DEF Bridges
  <2>2. Emit(b, e) = [b EXCEPT !.acc = Fold(b.acc, e)]
    BY <1>1 DEF Emit
  <2>3. QED
    BY <1>1, <2>1, <2>2 DEF Bridges
<1>2. CASE b.sink = "run"
  <2>1. b.wire \in Seq(Events)
    BY DEF Bridges
  <2>2. Append(b.wire, e) \in Seq(Events)
    BY <2>1
  <2>3. Emit(b, e) = [b EXCEPT !.wire = Append(b.wire, e)]
    BY <1>2 DEF Emit
  <2>4. QED
    BY <1>2, <2>2, <2>3 DEF Bridges
<1>3. CASE b.sink \notin {"replay", "run"}
  BY <1>3 DEF Emit
<1>4. QED
  BY <1>1, <1>2, <1>3

\* What a handler does, as a relation of the bridge before and after it.
ClosesReasoning(b, r) ==
    /\ r \in Bridges /\ SameRun(b, r) /\ SameCalls(b, r)
    /\ r.message = b.message /\ r.fresh = b.fresh /\ r.reasoning = Nil
    /\ IF b.reasoning = Nil THEN SameOut(b, r)
       ELSE Told(b, r, FrameEvent("thoughtEnd", b.reasoning))

\* What CloseReasoning does.
LEMMA CloseReasoningFacts ==
    ASSUME NEW b \in Bridges
    PROVE  ClosesReasoning(b, CloseReasoning(b))
<1> DEFINE e == FrameEvent("thoughtEnd", b.reasoning)
           x == Emit(b, e)
<1>1. e \in Events
  BY EventTypes DEF Bridges
<1>2. x \in Bridges /\ SameRun(b, x) /\ SameFrames(b, x) /\ SameCalls(b, x) /\ Told(b, x, e)
  BY <1>1, EmitFacts
<1>3. CASE b.reasoning = Nil
  BY <1>3 DEF ClosesReasoning, CloseReasoning, SameRun, SameCalls, SameOut
<1>4. CASE b.reasoning # Nil
  <2>1. CloseReasoning(b) = [x EXCEPT !.reasoning = Nil]
    BY <1>4 DEF CloseReasoning
  <2> HIDE DEF x, e
  <2>2. QED
    BY <1>2, <1>4, <2>1 DEF Bridges, ClosesReasoning, SameRun, SameFrames, SameCalls, Told, e
<1>5. QED
  BY <1>3, <1>4

\* The text message that is open, if any, is ended.
ClosesMessage(b, r) ==
    /\ r \in Bridges /\ SameRun(b, r) /\ SameCalls(b, r)
    /\ r.reasoning = b.reasoning /\ r.fresh = b.fresh /\ r.message = Nil
    /\ IF b.message = Nil THEN SameOut(b, r)
       ELSE Told(b, r, FrameEvent("textEnd", b.message))

\* What CloseMessage does.
LEMMA CloseMessageFacts ==
    ASSUME NEW b \in Bridges
    PROVE  ClosesMessage(b, CloseMessage(b))
<1> DEFINE e == FrameEvent("textEnd", b.message)
           x == Emit(b, e)
<1>1. e \in Events
  BY EventTypes DEF Bridges
<1>2. x \in Bridges /\ SameRun(b, x) /\ SameFrames(b, x) /\ SameCalls(b, x) /\ Told(b, x, e)
  BY <1>1, EmitFacts
<1>3. CASE b.message = Nil
  BY <1>3 DEF ClosesMessage, CloseMessage, SameRun, SameCalls, SameOut
<1>4. CASE b.message # Nil
  <2>1. CloseMessage(b) = [x EXCEPT !.message = Nil]
    BY <1>4 DEF CloseMessage
  <2> HIDE DEF x, e
  <2>2. QED
    BY <1>2, <1>4, <2>1 DEF Bridges, ClosesMessage, SameRun, SameFrames, SameCalls, Told, e
<1>5. QED
  BY <1>3, <1>4

\* A text message is open, a new one if there was none.
OpensText(b, r) ==
    /\ r \in Bridges /\ SameRun(b, r) /\ SameCalls(b, r)
    /\ r.reasoning = b.reasoning
    /\ IF b.message # Nil THEN SameFrames(b, r) /\ SameOut(b, r)
       ELSE /\ r.message = b.fresh /\ r.fresh = b.fresh + 1
            /\ Told(b, r, FrameEvent("textStart", b.fresh))

\* What OpenText does.
LEMMA OpenTextFacts ==
    ASSUME NEW b \in Bridges
    PROVE  OpensText(b, OpenText(b))
<1> DEFINE e == FrameEvent("textStart", b.fresh)
           d == [b EXCEPT !.message = b.fresh]
           a == [d EXCEPT !.fresh = b.fresh + 1]
           x == Emit(a, e)
<1>1. e \in Events
  BY EventTypes DEF Bridges
<1>2. /\ a \in Bridges /\ SameRun(b, a) /\ SameCalls(b, a) /\ SameOut(b, a)
      /\ a.reasoning = b.reasoning /\ a.message = b.fresh /\ a.fresh = b.fresh + 1
  <2>1. /\ d \in Bridges /\ SameRun(b, d) /\ SameCalls(b, d) /\ SameOut(b, d)
        /\ d.reasoning = b.reasoning /\ d.message = b.fresh
    BY DEF Bridges, SameRun, SameCalls, SameOut
  <2>2. b.fresh + 1 \in Nat
    BY DEF Bridges
  <2> HIDE DEF d
  <2>3. QED
    BY <2>1, <2>2 DEF Bridges, SameRun, SameCalls, SameOut
<1>3. x \in Bridges /\ SameRun(a, x) /\ SameFrames(a, x) /\ SameCalls(a, x) /\ Told(a, x, e)
  <2> HIDE DEF a, e
  <2>1. QED
    BY <1>1, <1>2, EmitFacts
<1>4. CASE b.message # Nil
  BY <1>4 DEF OpensText, OpenText, SameRun, SameCalls, SameFrames, SameOut
<1>5. CASE b.message = Nil
  <2>1. OpenText(b) = x
    BY <1>5 DEF OpenText
  <2> HIDE DEF x, a
  <2>2. QED
    BY <1>2, <1>3, <1>5, <2>1 DEF OpensText, SameRun, SameFrames, SameCalls, SameOut, Told,
                                   WireAfter, AccAfter
<1>6. QED
  BY <1>4, <1>5

\* An event is told, and nothing else.
Says(b, r, e) ==
    /\ r \in Bridges /\ SameRun(b, r) /\ SameFrames(b, r) /\ SameCalls(b, r)
    /\ Told(b, r, e)

\* A delta is told under the message that is open.
LEMMA SayFacts ==
    ASSUME NEW b \in Bridges, NEW chunk \in Nat
    PROVE  /\ Says(b, SayText(b, chunk), ChunkEvent("text", b.message, chunk))
           /\ Says(b, SayThought(b, chunk), ChunkEvent("thought", b.reasoning, chunk))
<1>1. /\ ChunkEvent("text", b.message, chunk) \in Events
      /\ ChunkEvent("thought", b.reasoning, chunk) \in Events
  BY EventTypes DEF Bridges
<1>2. QED
  BY <1>1, EmitFacts DEF Says, SayText, SayThought

\* The text message is closed before reasoning is opened.
OpensThought(b, r) ==
    IF b.reasoning # Nil THEN r = b
    ELSE \E m \in Bridges :
            /\ ClosesMessage(b, m)
            /\ r \in Bridges /\ SameRun(m, r) /\ SameCalls(m, r)
            /\ r.message = m.message /\ r.reasoning = m.fresh /\ r.fresh = m.fresh + 1
            /\ Told(m, r, FrameEvent("thoughtStart", m.fresh))

\* What OpenThought does.
LEMMA OpenThoughtFacts ==
    ASSUME NEW b \in Bridges
    PROVE  OpensThought(b, OpenThought(b)) /\ OpenThought(b) \in Bridges
<1> DEFINE m == CloseMessage(b)
           e == FrameEvent("thoughtStart", m.fresh)
           d == [m EXCEPT !.reasoning = m.fresh]
           a == [d EXCEPT !.fresh = m.fresh + 1]
           x == Emit(a, e)
<1>1. m \in Bridges /\ ClosesMessage(b, m) /\ m.fresh = b.fresh
  BY CloseMessageFacts DEF ClosesMessage
<1>2. e \in Events
  BY <1>1, EventTypes DEF Bridges
<1>3. /\ a \in Bridges /\ SameRun(m, a) /\ SameCalls(m, a) /\ SameOut(m, a)
      /\ a.reasoning = m.fresh /\ a.message = m.message /\ a.fresh = m.fresh + 1
  <2> HIDE DEF m
  <2>1. /\ d \in Bridges /\ SameRun(m, d) /\ SameCalls(m, d) /\ SameOut(m, d)
        /\ d.reasoning = m.fresh /\ d.message = m.message
    BY <1>1 DEF Bridges, SameRun, SameCalls, SameOut
  <2>2. m.fresh + 1 \in Nat
    BY <1>1 DEF Bridges
  <2> HIDE DEF d
  <2>3. QED
    BY <2>1, <2>2 DEF Bridges, SameRun, SameCalls, SameOut
<1>4. x \in Bridges /\ SameRun(a, x) /\ SameFrames(a, x) /\ SameCalls(a, x) /\ Told(a, x, e)
  <2> HIDE DEF a, e
  <2>1. QED
    BY <1>2, <1>3, EmitFacts
<1>5. CASE b.reasoning # Nil
  BY <1>5 DEF OpensThought, OpenThought
<1>6. CASE b.reasoning = Nil
  <2>1. OpenThought(b) = x
    BY <1>1, <1>6 DEF OpenThought
  <2> HIDE DEF x, a, m
  <2>2. QED
    BY <1>1, <1>3, <1>4, <1>6, <2>1 DEF OpensThought, SameRun, SameFrames, SameCalls, SameOut,
                                         Told, WireAfter, AccAfter
<1>7. QED
  BY <1>5, <1>6

-----------------------------------------------------------------------------
(* The primitives for tool calls.                                          *)

\* What a sequence is once an element is taken out of it.
LEMMA RemoveAtFacts ==
    ASSUME NEW S, NEW s \in Seq(S), NEW k \in DOMAIN s
    PROVE  /\ RemoveAt(s, k) \in Seq(S)
           /\ Len(RemoveAt(s, k)) = Len(s) - 1
           /\ \A i \in 1 .. k - 1 : RemoveAt(s, k)[i] = s[i]
           /\ \A i \in k .. Len(s) - 1 : RemoveAt(s, k)[i] = s[i + 1]
<1> DEFINE p == SubSeq(s, 1, k - 1)
           q == SubSeq(s, k + 1, Len(s))
<1>1. k \in 1..Len(s) /\ Len(s) \in Nat
  OBVIOUS
<1>2. p \in Seq(S) /\ Len(p) = k - 1 /\ \A i \in 1 .. k - 1 : p[i] = s[i]
  BY <1>1
<1>3. q \in Seq(S) /\ Len(q) = Len(s) - k /\ \A i \in 1 .. Len(s) - k : q[i] = s[k + i]
  <2>1. CASE k < Len(s)
    BY <1>1, <2>1
  <2>2. CASE k = Len(s)
    BY <1>1, <2>2
  <2>3. QED
    BY <1>1, <2>1, <2>2
<1>4. RemoveAt(s, k) = p \o q
  BY DEF RemoveAt
<1> HIDE DEF p, q
<1>5. p \o q \in Seq(S) /\ Len(p \o q) = Len(s) - 1
  BY <1>1, <1>2, <1>3
<1>6. \A i \in 1 .. k - 1 : (p \o q)[i] = s[i]
  BY <1>1, <1>2, <1>3
<1>7. \A i \in k .. Len(s) - 1 : (p \o q)[i] = s[i + 1]
  <2>1. SUFFICES ASSUME NEW i \in k .. Len(s) - 1 PROVE (p \o q)[i] = s[i + 1]
    OBVIOUS
  <2>2. (p \o q)[i] = q[i - (k - 1)]
    BY <1>1, <1>2, <1>3
  <2>3. i - (k - 1) \in 1 .. Len(s) - k /\ k + (i - (k - 1)) = i + 1
    BY <1>1
  <2>4. QED
    BY <1>3, <2>2, <2>3
<1>8. QED
  BY <1>4, <1>5, <1>6, <1>7

\* The call waits for its START.
Queues(b, r, call, input) ==
    /\ r \in Bridges /\ SameRun(b, r) /\ SameFrames(b, r) /\ SameOut(b, r)
    /\ r.open = b.open /\ r.argsSent = b.argsSent
    /\ r.pending = Append(b.pending, [call |-> call, input |-> input])

\* ToolCall queues the call once the frames are closed.
LEMMA ToolCallFacts ==
    ASSUME NEW b \in Bridges, NEW call \in Calls, NEW input \in {"initial", Nil}
    PROVE  Queues(CloseMessage(CloseReasoning(b)), ToolCall(b, call, input), call, input)
<1> DEFINE m == CloseMessage(CloseReasoning(b))
<1>1. m \in Bridges
  BY CloseMessageFacts, CloseReasoningFacts DEF ClosesMessage, ClosesReasoning
<1>2. [call |-> call, input |-> input] \in PendingCalls
  BY DEF PendingCalls
<1>3. m.pending \in Seq(PendingCalls)
  <2> HIDE DEF m
  <2>1. QED
    BY <1>1 DEF Bridges
<1>4. Append(m.pending, [call |-> call, input |-> input]) \in Seq(PendingCalls)
  <2> HIDE DEF m
  <2>1. QED
    BY <1>2, <1>3
<1>5. ToolCall(b, call, input)
        = [m EXCEPT !.pending = Append(m.pending, [call |-> call, input |-> input])]
  BY DEF ToolCall
<1> HIDE DEF m
<1>6. Queues(m, ToolCall(b, call, input), call, input)
  BY <1>1, <1>4, <1>5 DEF Bridges, Queues, SameRun, SameFrames, SameOut
<1>7. QED
  BY <1>6 DEF m

\* Its START is told.
Opens(b, r, call) ==
    /\ r \in Bridges /\ SameRun(b, r) /\ SameFrames(b, r)
    /\ r.pending = b.pending /\ r.argsSent = b.argsSent
    /\ r.open = b.open \cup {call}
    /\ Told(b, r, CallEvent("callStart", call))

\* What OpenCall does.
LEMMA OpenCallFacts ==
    ASSUME NEW b \in Bridges, NEW call \in Calls
    PROVE  Opens(b, OpenCall(b, call), call)
<1> DEFINE e == CallEvent("callStart", call)
           x == Emit(b, e)
<1>1. e \in Events
  BY EventTypes
<1>2. x \in Bridges /\ SameRun(b, x) /\ SameFrames(b, x) /\ SameCalls(b, x) /\ Told(b, x, e)
  BY <1>1, EmitFacts
<1>3. OpenCall(b, call) = [x EXCEPT !.open = x.open \cup {call}]
  BY DEF OpenCall
<1> HIDE DEF x, e
<1>4. QED
  BY <1>2, <1>3 DEF Bridges, Opens, SameRun, SameFrames, SameCalls, Told, e

\* The same, and the call no longer waits.
Shows(b, r, call) ==
    /\ r \in Bridges /\ SameRun(b, r) /\ SameFrames(b, r)
    /\ r.pending = RemoveAt(b.pending, PendingAt(b, call)) /\ r.argsSent = b.argsSent
    /\ r.open = b.open \cup {call}
    /\ Told(b, r, CallEvent("callStart", call))

\* A call that waits is found where it waits.
LEMMA PendingAtFacts ==
    ASSUME NEW b \in Bridges, NEW call, IsPending(b, call)
    PROVE  /\ PendingAt(b, call) \in DOMAIN b.pending
           /\ b.pending[PendingAt(b, call)].call = call
           /\ PendingInput(b, call) \in {"initial", Nil}
<1>1. /\ PendingAt(b, call) \in DOMAIN b.pending
      /\ b.pending[PendingAt(b, call)].call = call
  BY DEF IsPending, PendingAt
<1>2. b.pending \in Seq(PendingCalls)
  BY DEF Bridges
<1>3. b.pending[PendingAt(b, call)] \in PendingCalls
  BY <1>1, <1>2
<1>4. QED
  BY <1>1, <1>3 DEF PendingCalls, PendingInput

\* What ShowCall does.
LEMMA ShowCallFacts ==
    ASSUME NEW b \in Bridges, NEW call \in Calls, IsPending(b, call)
    PROVE  Shows(b, ShowCall(b, call), call)
<1> DEFINE x == OpenCall(b, call)
           p == RemoveAt(b.pending, PendingAt(b, call))
<1>1. Opens(b, x, call)
  BY OpenCallFacts
<1>2. p \in Seq(PendingCalls)
  BY PendingAtFacts, RemoveAtFacts DEF Bridges
<1>3. x.pending = b.pending
  BY <1>1 DEF Opens
<1>4. ShowCall(b, call) = [x EXCEPT !.pending = p]
  BY <1>3 DEF ShowCall
<1> HIDE DEF x, p
<1>5. QED
  BY <1>1, <1>2, <1>4 DEF Bridges, Opens, Shows, SameRun, SameFrames, Told, p

\* Arguments, unless there are none or they were shown before.
ShowsArgs(b, r, call, input) ==
    IF input = Nil \/ call \in b.argsSent THEN r = b
    ELSE /\ r \in Bridges /\ SameRun(b, r) /\ SameFrames(b, r)
         /\ r.pending = b.pending /\ r.open = b.open
         /\ r.argsSent = b.argsSent \cup {call}
         /\ Told(b, r, ArgsEvent(call, input))

\* What ShowArgs does.
LEMMA ShowArgsFacts ==
    ASSUME NEW b \in Bridges, NEW call \in Calls, NEW input \in Inputs
    PROVE  ShowsArgs(b, ShowArgs(b, call, input), call, input)
           /\ ShowArgs(b, call, input) \in Bridges
<1> DEFINE e == ArgsEvent(call, input)
           x == Emit(b, e)
<1>1. e \in Events
  BY EventTypes
<1>2. x \in Bridges /\ SameRun(b, x) /\ SameFrames(b, x) /\ SameCalls(b, x) /\ Told(b, x, e)
  BY <1>1, EmitFacts
<1>3. CASE input = Nil \/ call \in b.argsSent
  BY <1>3 DEF ShowArgs, ShowsArgs
<1>4. CASE ~(input = Nil \/ call \in b.argsSent)
  <2>1. ShowArgs(b, call, input) = [x EXCEPT !.argsSent = x.argsSent \cup {call}]
    BY <1>4 DEF ShowArgs
  <2> HIDE DEF x
  <2>2. x.argsSent = b.argsSent /\ x.argsSent \cup {call} \in SUBSET Calls
    BY <1>2 DEF Bridges, SameCalls
  <2> DEFINE r == [x EXCEPT !.argsSent = x.argsSent \cup {call}]
  <2>3. /\ r \in Bridges /\ SameRun(b, r) /\ SameFrames(b, r) /\ Told(b, r, e)
        /\ r.pending = b.pending /\ r.open = b.open /\ r.argsSent = b.argsSent \cup {call}
    <3> HIDE DEF e
    <3>1. QED
      BY <1>2, <2>2 DEF Bridges, SameRun, SameFrames, SameCalls, Told
  <2> HIDE DEF r
  <2>4. QED
    BY <1>4, <2>1, <2>3 DEF ShowsArgs, r
<1>5. QED
  BY <1>3, <1>4

\* Its END and RESULT are told.
EmitsEnd(b, r, call) ==
    \E m \in Bridges : /\ Says(b, m, CallEvent("callEnd", call))
                       /\ Says(m, r, CallEvent("callResult", call))

\* What EmitEnd does.
LEMMA EmitEndFacts ==
    ASSUME NEW b \in Bridges, NEW call \in Calls
    PROVE  EmitsEnd(b, EmitEnd(b, call), call) /\ EmitEnd(b, call) \in Bridges
<1> DEFINE e == CallEvent("callEnd", call)
           f == CallEvent("callResult", call)
           m == Emit(b, e)
<1>1. e \in Events /\ f \in Events
  BY EventTypes
<1>2. m \in Bridges /\ Says(b, m, e)
  BY <1>1, EmitFacts DEF Says
<1>3. Emit(m, f) \in Bridges /\ Says(m, Emit(m, f), f)
  <2> HIDE DEF m, f
  <2>1. QED
    BY <1>1, <1>2, EmitFacts DEF Says
<1>4. EmitEnd(b, call) = Emit(m, f)
  BY DEF EmitEnd
<1> HIDE DEF m
<1>5. QED
  BY <1>2, <1>3, <1>4 DEF EmitsEnd

\* The same if it is open, and then it no longer is.
EndsCall(b, r, call) ==
    IF call \notin b.open THEN r = b
    ELSE \E m \in Bridges :
            /\ EmitsEnd(b, m, call)
            /\ r \in Bridges /\ SameRun(m, r) /\ SameFrames(m, r) /\ SameOut(m, r)
            /\ r.pending = m.pending
            /\ r.open = m.open \ {call} /\ r.argsSent = m.argsSent \ {call}

\* What EndCall does.
LEMMA EndCallFacts ==
    ASSUME NEW b \in Bridges, NEW call \in Calls
    PROVE  EndsCall(b, EndCall(b, call), call) /\ EndCall(b, call) \in Bridges
<1> DEFINE m == EmitEnd(b, call)
           d == [m EXCEPT !.open = m.open \ {call}]
           r == [d EXCEPT !.argsSent = m.argsSent \ {call}]
<1>1. EmitsEnd(b, m, call) /\ m \in Bridges
  BY EmitEndFacts
<1>2. /\ d \in Bridges /\ SameRun(m, d) /\ SameFrames(m, d) /\ SameOut(m, d)
      /\ d.pending = m.pending /\ d.argsSent = m.argsSent /\ d.open = m.open \ {call}
  <2> HIDE DEF m
  <2>1. QED
    BY <1>1 DEF Bridges, SameRun, SameFrames, SameOut
<1>3. /\ r \in Bridges /\ SameRun(m, r) /\ SameFrames(m, r) /\ SameOut(m, r)
      /\ r.pending = m.pending /\ r.argsSent = m.argsSent \ {call} /\ r.open = m.open \ {call}
  <2> HIDE DEF d, m
  <2>1. QED
    BY <1>1, <1>2 DEF Bridges, SameRun, SameFrames, SameOut
<1>4. CASE call \notin b.open
  BY <1>4 DEF EndCall, EndsCall
<1>5. CASE call \in b.open
  <2>1. EndCall(b, call) = r
    BY <1>5 DEF EndCall
  <2> HIDE DEF m, d, r
  <2>2. QED
    BY <1>1, <1>3, <1>5, <2>1 DEF EndsCall
<1>6. QED
  BY <1>4, <1>5

-----------------------------------------------------------------------------
(* The loops: the bridge after each of their steps.                        *)

\* One more of the calls that wait is shown.
FlushStep(b, y, i) ==
    ShowArgs(OpenCall(y, b.pending[i].call), b.pending[i].call, b.pending[i].input)

\* A step of the first loop opens a call and shows its arguments.
LEMMA FlushStepFacts ==
    ASSUME NEW b \in Bridges, NEW y \in Bridges, NEW i \in 1..Len(b.pending)
    PROVE  /\ FlushStep(b, y, i) \in Bridges
           /\ \E m \in Bridges :
                 /\ Opens(y, m, b.pending[i].call)
                 /\ ShowsArgs(m, FlushStep(b, y, i), b.pending[i].call, b.pending[i].input)
<1>1. b.pending[i].call \in Calls /\ b.pending[i].input \in Inputs
  <2>1. b.pending \in Seq(PendingCalls)
    BY DEF Bridges
  <2>2. b.pending[i] \in PendingCalls
    BY <2>1
  <2>3. QED
    BY <2>2 DEF PendingCalls, Inputs
<1> DEFINE m == OpenCall(y, b.pending[i].call)
<1>2. m \in Bridges /\ Opens(y, m, b.pending[i].call)
  BY <1>1, OpenCallFacts DEF Opens
<1>3. /\ ShowArgs(m, b.pending[i].call, b.pending[i].input) \in Bridges
      /\ ShowsArgs(m, ShowArgs(m, b.pending[i].call, b.pending[i].input),
                   b.pending[i].call, b.pending[i].input)
  <2> HIDE DEF m
  <2>1. QED
    BY <1>1, <1>2, ShowArgsFacts
<1>4. QED
  BY <1>2, <1>3 DEF FlushStep

\* g: the bridge after each step; r: the last of them, with nothing pending.
FlushedBy(b, g) ==
    /\ g \in [0..Len(b.pending) -> Bridges]
    /\ g[0] = b
    /\ \A i \in 1..Len(b.pending) : \E m \in Bridges :
          /\ Opens(g[i - 1], m, b.pending[i].call)
          /\ ShowsArgs(m, g[i], b.pending[i].call, b.pending[i].input)

\* The calls that waited are forgotten,
Clears(g, r) ==
    /\ r \in Bridges /\ r.pending = <<>>
    /\ SameRun(g, r) /\ SameFrames(g, r) /\ SameOut(g, r)
    /\ r.open = g.open /\ r.argsSent = g.argsSent

\* FlushPending is its loop, and nothing is pending after it.
LEMMA FlushPendingFacts ==
    ASSUME NEW b \in Bridges
    PROVE  \E g : FlushedBy(b, g) /\ Clears(g[Len(b.pending)], FlushPending(b))
<1> DEFINE n == Len(b.pending)
           F == [i \in 1..n |-> [y \in Bridges |-> FlushStep(b, y, i)]]
           Is(g) == g = [i \in 0..n |-> IF i = 0 THEN b
                           ELSE ShowArgs(OpenCall(g[i - 1], b.pending[i].call),
                                         b.pending[i].call, b.pending[i].input)]
<1>1. n \in Nat
  BY DEF Bridges
<1>2. F \in Steps(n, Bridges)
  BY FlushStepFacts DEF Steps
<1>3. PICK g : Iterates(g, n, Bridges, b, F)
  <2> HIDE DEF n, F
  <2>1. QED
    BY <1>1, <1>2, Iteration
<1>4. \A i \in 1..n : g[i] = FlushStep(b, g[i - 1], i)
  <2>1. SUFFICES ASSUME NEW i \in 1..n
                 PROVE  g[i] = FlushStep(b, g[i - 1], i)
    OBVIOUS
  <2>2. i \in 0..n /\ i - 1 \in 0..n
    BY <1>1
  <2>3. g[i] = F[i][g[i - 1]] /\ g[i - 1] \in Bridges
    <3> HIDE DEF F, n
    <3>1. QED
      BY <1>3, <2>2 DEF Iterates
  <2>4. QED
    BY <2>3
<1>5. g[0] = b /\ g \in [0..n -> Bridges]
  BY <1>3 DEF Iterates
<1>6. Is(g)
  <2> HIDE DEF F
  <2>1. \A i \in 0..n : g[i] = IF i = 0 THEN b
                           ELSE ShowArgs(OpenCall(g[i - 1], b.pending[i].call),
                                         b.pending[i].call, b.pending[i].input)
    BY <1>1, <1>4, <1>5 DEF FlushStep
  <2>2. g = [i \in 0..n |-> g[i]]
    BY <1>5
  <2>3. QED
    BY <2>1, <2>2
<1>7. PICK h : Is(h) /\ FlushPending(b) = [h[n] EXCEPT !.pending = <<>>]
  <2> DEFINE h == CHOOSE h : Is(h)
  <2>1. Is(h)
    BY <1>6
  <2>2. FlushPending(b) = [h[n] EXCEPT !.pending = <<>>]
    BY DEF FlushPending
  <2>3. QED
    BY <2>1, <2>2
<1>8. /\ h = [i \in 0..n |-> h[i]] /\ h[0] = b
      /\ \A i \in 1..n : h[i] = FlushStep(b, h[i - 1], i)
  BY <1>1, <1>7 DEF FlushStep
<1>9. \A i \in 0..n : h[i] \in Bridges
  <2> DEFINE S == {i \in 0..n : h[i] \in Bridges}
  <2>1. 0 \in S
    BY <1>1, <1>8
  <2>2. \A i \in 0..n : i \in S /\ i < n => i + 1 \in S
    <3>1. SUFFICES ASSUME NEW i \in 0..n, h[i] \in Bridges, i < n
                   PROVE  h[i + 1] \in Bridges
      BY <1>1
    <3>2. i + 1 \in 1..n /\ (i + 1) - 1 = i
      BY <1>1, <3>1
    <3>3. h[i + 1] = FlushStep(b, h[i], i + 1)
      BY <1>8, <3>2
    <3>4. QED
      BY <3>1, <3>2, <3>3, FlushStepFacts
  <2>3. 0..n \subseteq S
    <3> HIDE DEF S, n
    <3>1. QED
      BY <1>1, <2>1, <2>2, IntervalInduction
  <2>4. QED
    BY <2>3
<1>10. FlushedBy(b, h)
  <2>1. h \in [0..n -> Bridges]
    BY <1>8, <1>9
  <2>2. ASSUME NEW i \in 1..n
        PROVE  \E m \in Bridges :
                 /\ Opens(h[i - 1], m, b.pending[i].call)
                 /\ ShowsArgs(m, h[i], b.pending[i].call, b.pending[i].input)
    <3>1. h[i - 1] \in Bridges
      BY <1>1, <1>9
    <3>2. h[i] = FlushStep(b, h[i - 1], i)
      BY <1>8
    <3>3. QED
      BY <3>1, <3>2, FlushStepFacts
  <2>3. QED
    BY <1>8, <2>1, <2>2 DEF FlushedBy
<1>11. Clears(h[n], FlushPending(b))
  <2>1. h[n] \in Bridges
    BY <1>1, <1>9
  <2> DEFINE x == h[n]
  <2>2. FlushPending(b) = [x EXCEPT !.pending = <<>>]
    BY <1>7
  <2>3. x \in Bridges
    BY <2>1
  <2> HIDE DEF x
  <2>4. <<>> \in Seq(PendingCalls)
    OBVIOUS
  <2>5. Clears(x, FlushPending(b))
    BY <2>2, <2>3, <2>4 DEF Clears, Bridges, SameRun, SameFrames, SameOut
  <2>6. QED
    BY <2>5 DEF x
<1>12. QED
  BY <1>10, <1>11

\* A call of the enumeration ends if it was open before the loop.
EndStep(b, y, call) == IF call \in b.open THEN EmitEnd(y, call) ELSE y

\* A step of the second loop, as a relation,
EndsStep(b, y, r, call) == IF call \in b.open THEN EmitsEnd(y, r, call) ELSE r = y

\* ... and all of its steps: g is the bridge after each.
EndedBy(b, rank, g) ==
    /\ g \in [0..Len(rank) -> Bridges]
    /\ g[0] = b
    /\ \A i \in 1..Len(rank) : EndsStep(b, g[i - 1], g[i], rank[i])

\* ... or those that were open are.
ForgetsOpen(g, r) ==
    /\ r \in Bridges /\ r.open = {}
    /\ SameRun(g, r) /\ SameFrames(g, r) /\ SameOut(g, r)
    /\ r.pending = g.pending /\ r.argsSent = g.argsSent

\* A step of the second loop ends a call if it is open.
LEMMA EndStepFacts ==
    ASSUME NEW b \in Bridges, NEW y \in Bridges, NEW call \in Calls
    PROVE  EndStep(b, y, call) \in Bridges /\ EndsStep(b, y, EndStep(b, y, call), call)
BY EmitEndFacts DEF EndStep, EndsStep

\* EndCalls is its loop, and nothing is open after it.
LEMMA EndCallsFacts ==
    ASSUME NEW b \in Bridges, NEW rank \in Seq(Calls)
    PROVE  \E g : EndedBy(b, rank, g) /\ ForgetsOpen(g[Len(rank)], EndCalls(b, rank))
<1> DEFINE n == Len(rank)
           F == [i \in 1..n |-> [y \in Bridges |-> EndStep(b, y, rank[i])]]
           Is(g) == g = [i \in 0..n |-> IF i = 0 THEN b
                           ELSE IF rank[i] \in b.open THEN EmitEnd(g[i - 1], rank[i])
                           ELSE g[i - 1]]
<1>1. n \in Nat /\ \A i \in 1..n : rank[i] \in Calls
  OBVIOUS
<1>2. F \in Steps(n, Bridges)
  BY <1>1, EndStepFacts DEF Steps
<1>3. PICK g : Iterates(g, n, Bridges, b, F)
  <2> HIDE DEF n, F
  <2>1. QED
    BY <1>1, <1>2, Iteration
<1>4. \A i \in 1..n : g[i] = EndStep(b, g[i - 1], rank[i])
  <2>1. SUFFICES ASSUME NEW i \in 1..n
                 PROVE  g[i] = EndStep(b, g[i - 1], rank[i])
    OBVIOUS
  <2>2. i \in 0..n /\ i - 1 \in 0..n
    BY <1>1
  <2>3. g[i] = F[i][g[i - 1]] /\ g[i - 1] \in Bridges
    <3> HIDE DEF F, n
    <3>1. QED
      BY <1>3, <2>2 DEF Iterates
  <2>4. QED
    BY <2>3
<1>5. g[0] = b /\ g \in [0..n -> Bridges]
  BY <1>3 DEF Iterates
<1>6. Is(g)
  <2> HIDE DEF F
  <2>1. \A i \in 0..n : g[i] = IF i = 0 THEN b
                           ELSE IF rank[i] \in b.open THEN EmitEnd(g[i - 1], rank[i])
                           ELSE g[i - 1]
    BY <1>1, <1>4, <1>5 DEF EndStep
  <2>2. g = [i \in 0..n |-> g[i]]
    BY <1>5
  <2>3. QED
    BY <2>1, <2>2
<1>7. PICK h : Is(h) /\ EndCalls(b, rank) = [h[n] EXCEPT !.open = {}]
  <2> DEFINE h == CHOOSE h : Is(h)
  <2>1. Is(h)
    BY <1>6
  <2>2. EndCalls(b, rank) = [h[n] EXCEPT !.open = {}]
    BY DEF EndCalls
  <2>3. QED
    BY <2>1, <2>2
<1>8. /\ h = [i \in 0..n |-> h[i]] /\ h[0] = b
      /\ \A i \in 1..n : h[i] = EndStep(b, h[i - 1], rank[i])
  BY <1>1, <1>7 DEF EndStep
<1>9. \A i \in 0..n : h[i] \in Bridges
  <2> DEFINE S == {i \in 0..n : h[i] \in Bridges}
  <2>1. 0 \in S
    BY <1>1, <1>8
  <2>2. \A i \in 0..n : i \in S /\ i < n => i + 1 \in S
    <3>1. SUFFICES ASSUME NEW i \in 0..n, h[i] \in Bridges, i < n
                   PROVE  h[i + 1] \in Bridges
      BY <1>1
    <3>2. i + 1 \in 1..n /\ (i + 1) - 1 = i
      BY <1>1, <3>1
    <3>3. h[i + 1] = EndStep(b, h[i], rank[i + 1])
      BY <1>8, <3>2
    <3>4. QED
      BY <1>1, <3>1, <3>2, <3>3, EndStepFacts
  <2>3. 0..n \subseteq S
    <3> HIDE DEF S, n
    <3>1. QED
      BY <1>1, <2>1, <2>2, IntervalInduction
  <2>4. QED
    BY <2>3
<1>10. EndedBy(b, rank, h)
  <2>1. h \in [0..n -> Bridges]
    BY <1>8, <1>9
  <2>2. ASSUME NEW i \in 1..n
        PROVE  EndsStep(b, h[i - 1], h[i], rank[i])
    <3>1. h[i - 1] \in Bridges
      BY <1>1, <1>9
    <3>2. QED
      BY <1>1, <1>8, <3>1, EndStepFacts
  <2>3. QED
    BY <1>8, <2>1, <2>2 DEF EndedBy
<1>11. ForgetsOpen(h[n], EndCalls(b, rank))
  <2> DEFINE x == h[n]
  <2>1. EndCalls(b, rank) = [x EXCEPT !.open = {}]
    BY <1>7
  <2>2. x \in Bridges
    BY <1>1, <1>9
  <2> HIDE DEF x
  <2>3. ForgetsOpen(x, EndCalls(b, rank))
    BY <2>1, <2>2 DEF ForgetsOpen, Bridges, SameRun, SameFrames, SameOut
  <2>4. QED
    BY <2>3 DEF x
<1>12. QED
  BY <1>10, <1>11

-----------------------------------------------------------------------------
(* A step on tool calls: the frames stay as they are, and what is told, if  *)
(* anything, is about a call.  A set of bridges that such steps cannot     *)
(* leave is one that no handler of tool calls can leave.                   *)

\* A step on tool calls, as above.
CallStep(b, r) ==
    /\ SameRun(b, r) /\ SameFrames(b, r)
    /\ SameOut(b, r) \/ \E e \in Events : e.kind \in CallKinds /\ Told(b, r, e)

\* No step on tool calls leaves D.
CallsStayIn(D) ==
    /\ D \subseteq Bridges
    /\ \A b \in D, r \in Bridges : CallStep(b, r) => r \in D

\* The events of a call are about it.
LEMMA CallEventFacts ==
    ASSUME NEW call \in Calls
    PROVE  /\ \A kind \in {"callStart", "callEnd", "callResult"} :
                 /\ CallEvent(kind, call) \in Events
                 /\ CallEvent(kind, call).kind = kind
                 /\ CallEvent(kind, call).call = call
                 /\ kind \in CallKinds
           /\ \A input \in Inputs :
                 /\ ArgsEvent(call, input) \in Events
                 /\ ArgsEvent(call, input).kind = "callArgs"
                 /\ ArgsEvent(call, input).call = call
                 /\ ArgsEvent(call, input).input = input
           /\ "callArgs" \in CallKinds
<1>1. /\ \A kind \in {"callStart", "callEnd", "callResult"} :
            /\ CallEvent(kind, call).kind = kind
            /\ CallEvent(kind, call).call = call
            /\ kind \in CallKinds
      /\ \A input \in Inputs :
            /\ ArgsEvent(call, input).kind = "callArgs"
            /\ ArgsEvent(call, input).call = call
            /\ ArgsEvent(call, input).input = input
      /\ "callArgs" \in CallKinds
  BY DEF CallEvent, ArgsEvent, CallKinds
<1>2. QED
  BY <1>1, EventTypes

\* Each relation of a handler of tool calls is made of such steps.
LEMMA AreCallSteps ==
    ASSUME NEW D, CallsStayIn(D), NEW b \in D, NEW r, NEW call \in Calls
    PROVE  /\ \A input : Queues(b, r, call, input) => r \in D
           /\ Opens(b, r, call) => r \in D
           /\ Shows(b, r, call) => r \in D
           /\ \A input \in Inputs : ShowsArgs(b, r, call, input) => r \in D
           /\ EmitsEnd(b, r, call) => r \in D
           /\ EndsCall(b, r, call) => r \in D
           /\ Clears(b, r) => r \in D
           /\ ForgetsOpen(b, r) => r \in D
<1>1. ASSUME NEW x \in D, NEW y \in Bridges, SameRun(x, y), SameFrames(x, y), SameOut(x, y)
      PROVE  y \in D
  BY <1>1 DEF CallsStayIn, CallStep
<1>2. ASSUME NEW x \in D, NEW y \in Bridges, SameRun(x, y), SameFrames(x, y),
             NEW e \in Events, e.kind \in CallKinds, Told(x, y, e)
      PROVE  y \in D
  BY <1>2 DEF CallsStayIn, CallStep
<1>3. \A input : Queues(b, r, call, input) => r \in D
  BY <1>1 DEF Queues
<1>4. Opens(b, r, call) => r \in D
  BY <1>2, CallEventFacts DEF Opens
<1>5. Shows(b, r, call) => r \in D
  BY <1>2, CallEventFacts DEF Shows
<1>6. \A input \in Inputs : ShowsArgs(b, r, call, input) => r \in D
  BY <1>2, CallEventFacts DEF ShowsArgs
<1>7. ASSUME NEW x \in D, NEW y, EmitsEnd(x, y, call)
      PROVE  y \in D
  <2>1. PICK m \in Bridges : /\ Says(x, m, CallEvent("callEnd", call))
                             /\ Says(m, y, CallEvent("callResult", call))
    BY <1>7 DEF EmitsEnd
  <2>2. m \in D
    BY <1>2, <2>1, CallEventFacts DEF Says
  <2>3. QED
    BY <1>2, <2>1, <2>2, CallEventFacts DEF Says
<1>8. EndsCall(b, r, call) => r \in D
  BY <1>1, <1>7 DEF EndsCall
<1>9. Clears(b, r) => r \in D
  BY <1>1 DEF Clears
<1>10. ForgetsOpen(b, r) => r \in D
  BY <1>1 DEF ForgetsOpen
<1>11. QED
  BY <1>3, <1>4, <1>5, <1>6, <1>7, <1>8, <1>9, <1>10

\* The first loop cannot leave such a set,
LEMMA FlushPendingStays ==
    ASSUME NEW D, CallsStayIn(D), NEW b \in D
    PROVE  FlushPending(b) \in D
<1>1. b \in Bridges
  BY DEF CallsStayIn
<1>2. PICK g : FlushedBy(b, g) /\ Clears(g[Len(b.pending)], FlushPending(b))
  BY <1>1, FlushPendingFacts
<1> DEFINE n == Len(b.pending)
           S == {i \in 0..n : g[i] \in D}
<1>3. n \in Nat /\ \A i \in 1..n : b.pending[i].call \in Calls /\ b.pending[i].input \in Inputs
  <2>1. b.pending \in Seq(PendingCalls)
    BY <1>1 DEF Bridges
  <2>2. \A i \in 1..n : b.pending[i] \in PendingCalls
    BY <2>1
  <2>3. QED
    BY <2>1, <2>2 DEF PendingCalls, Inputs
<1>4. 0 \in S
  BY <1>2, <1>3 DEF FlushedBy
<1>5. \A i \in 0..n : i \in S /\ i < n => i + 1 \in S
  <2>1. SUFFICES ASSUME NEW i \in 0..n, g[i] \in D, i < n
                 PROVE  g[i + 1] \in D
    BY <1>3
  <2>2. i + 1 \in 1..n /\ (i + 1) - 1 = i
    BY <1>3, <2>1
  <2>3. PICK m \in Bridges :
              /\ Opens(g[i], m, b.pending[i + 1].call)
              /\ ShowsArgs(m, g[i + 1], b.pending[i + 1].call, b.pending[i + 1].input)
    BY <1>2, <2>2 DEF FlushedBy
  <2>4. m \in D
    BY <1>3, <2>1, <2>2, <2>3, AreCallSteps
  <2>5. QED
    BY <1>3, <2>2, <2>3, <2>4, AreCallSteps
<1>6. 0..n \subseteq S
  <2> HIDE DEF S, n
  <2>1. QED
    BY <1>3, <1>4, <1>5, IntervalInduction
<1>7. g[n] \in D
  BY <1>3, <1>6
<1>8. QED
  <2>1. \A x \in D : \A y : Clears(x, y) => y \in D
    BY AreCallSteps, <1>1 DEF CallsStayIn, Clears, CallStep
  <2>2. QED
    BY <1>2, <1>7, <2>1

\* ... nor can the second one,
LEMMA EndCallsStays ==
    ASSUME NEW D, CallsStayIn(D), NEW b \in D, NEW rank \in Seq(Calls)
    PROVE  EndCalls(b, rank) \in D
<1>1. b \in Bridges
  BY DEF CallsStayIn
<1>2. PICK g : EndedBy(b, rank, g) /\ ForgetsOpen(g[Len(rank)], EndCalls(b, rank))
  BY <1>1, EndCallsFacts
<1> DEFINE n == Len(rank)
           S == {i \in 0..n : g[i] \in D}
<1>3. n \in Nat /\ \A i \in 1..n : rank[i] \in Calls
  OBVIOUS
<1>4. 0 \in S
  BY <1>2, <1>3 DEF EndedBy
<1>5. \A i \in 0..n : i \in S /\ i < n => i + 1 \in S
  <2>1. SUFFICES ASSUME NEW i \in 0..n, g[i] \in D, i < n
                 PROVE  g[i + 1] \in D
    BY <1>3
  <2>2. i + 1 \in 1..n /\ (i + 1) - 1 = i
    BY <1>3, <2>1
  <2>3. EndsStep(b, g[i], g[i + 1], rank[i + 1])
    BY <1>2, <2>2 DEF EndedBy
  <2>4. CASE rank[i + 1] \in b.open
    BY <1>3, <2>1, <2>2, <2>3, <2>4, AreCallSteps DEF EndsStep
  <2>5. CASE rank[i + 1] \notin b.open
    BY <2>1, <2>3, <2>5 DEF EndsStep
  <2>6. QED
    BY <2>4, <2>5
<1>6. 0..n \subseteq S
  <2> HIDE DEF S, n
  <2>1. QED
    BY <1>3, <1>4, <1>5, IntervalInduction
<1>7. g[n] \in D
  BY <1>3, <1>6
<1>8. QED
  <2>1. \A x \in D : \A y : ForgetsOpen(x, y) => y \in D
    BY DEF CallsStayIn, ForgetsOpen, CallStep
  <2>2. QED
    BY <1>2, <1>7, <2>1

\* ... nor any handler of tool calls.
LEMMA CallHandlersStay ==
    ASSUME NEW D, CallsStayIn(D), NEW b \in D
    PROVE  /\ \A rank \in Seq(Calls) : CloseCalls(b, rank) \in D
           /\ \A call \in Calls, input \in Inputs :
                 Progress(b, call, input) \in D /\ Completed(b, call, input) \in D
<1>1. \A rank \in Seq(Calls) : CloseCalls(b, rank) \in D
  BY FlushPendingStays, EndCallsStays DEF CloseCalls
<1>2. SUFFICES ASSUME NEW call \in Calls, NEW input \in Inputs
               PROVE  Progress(b, call, input) \in D /\ Completed(b, call, input) \in D
  BY <1>1
<1>3. \A x \in D : x \in Bridges
  BY DEF CallsStayIn
<1>4. IsPending(b, call) => ShowCall(b, call) \in D
  BY <1>3, ShowCallFacts, AreCallSteps
<1>5. \A x \in D, i \in Inputs : ShowArgs(x, call, i) \in D
  BY <1>3, ShowArgsFacts, AreCallSteps
<1>6. \A x \in D : EndCall(x, call) \in D
  BY <1>3, EndCallFacts, AreCallSteps
<1>7. IsPending(b, call) => Or(input, PendingInput(b, call)) \in Inputs
  BY <1>3, PendingAtFacts DEF Or, Inputs
<1>8. QED
  BY <1>4, <1>5, <1>6, <1>7 DEF Progress, Completed

-----------------------------------------------------------------------------
(* The handlers that start, suspend, resume and end a run.                 *)

\* Reasoning, then text is closed.
Silences(b, r) ==
    \E m \in Bridges : ClosesReasoning(b, m) /\ ClosesMessage(m, r)

\* What closing reasoning and text does.
LEMMA SilenceFacts ==
    ASSUME NEW b \in Bridges
    PROVE  /\ Silences(b, CloseMessage(CloseReasoning(b)))
           /\ CloseMessage(CloseReasoning(b)) \in Bridges
BY CloseReasoningFacts, CloseMessageFacts DEF Silences, ClosesReasoning, ClosesMessage

\* The run of turn t begins with nothing open.
Starts(b, r, t) ==
    /\ r \in Bridges /\ r.sink = "run" /\ r.turn = t
    /\ r.message = Nil /\ r.reasoning = Nil /\ r.fresh = b.fresh
    /\ r.pending = <<>> /\ r.open = {} /\ r.argsSent = {}
    /\ r.wire = Append(b.wire, RunEvent("runStarted", t))

\* What StartRun does.
LEMMA StartRunFacts ==
    ASSUME NEW b \in Bridges, NEW t \in Nat
    PROVE  Starts(b, StartRun(b, t), t)
<1> DEFINE e  == RunEvent("runStarted", t)
           b1 == [b EXCEPT !.sink = "run"]
           b2 == [b1 EXCEPT !.turn = t]
           b3 == [b2 EXCEPT !.message = Nil]
           b4 == [b3 EXCEPT !.reasoning = Nil]
           b5 == [b4 EXCEPT !.pending = <<>>]
           b6 == [b5 EXCEPT !.open = {}]
           b7 == [b6 EXCEPT !.argsSent = {}]
<1>1. e \in Events
  BY EventTypes
<1>2. /\ b2 \in Bridges /\ SameFrames(b, b2) /\ SameOut(b, b2)
      /\ b2.sink = "run" /\ b2.turn = t
  <2>1. b1 \in Bridges /\ SameFrames(b, b1) /\ SameOut(b, b1) /\ b1.sink = "run"
    BY DEF Bridges, Sinks, SameFrames, SameOut
  <2> HIDE DEF b1
  <2>2. QED
    BY <2>1 DEF Bridges, SameFrames, SameOut
<1>3. /\ b4 \in Bridges /\ SameRun(b2, b4) /\ SameOut(b2, b4)
      /\ b4.message = Nil /\ b4.reasoning = Nil /\ b4.fresh = b2.fresh
  <2> HIDE DEF b2
  <2>1. /\ b3 \in Bridges /\ SameRun(b2, b3) /\ SameOut(b2, b3)
        /\ b3.message = Nil /\ b3.fresh = b2.fresh
    BY <1>2 DEF Bridges, SameRun, SameOut
  <2> HIDE DEF b3
  <2>2. QED
    BY <2>1 DEF Bridges, SameRun, SameOut
<1>4. /\ b6 \in Bridges /\ SameRun(b4, b6) /\ SameOut(b4, b6) /\ SameFrames(b4, b6)
      /\ b6.pending = <<>> /\ b6.open = {}
  <2> HIDE DEF b4
  <2>1. <<>> \in Seq(PendingCalls)
    OBVIOUS
  <2>2. /\ b5 \in Bridges /\ SameRun(b4, b5) /\ SameOut(b4, b5) /\ SameFrames(b4, b5)
        /\ b5.pending = <<>>
    BY <1>3, <2>1 DEF Bridges, SameRun, SameOut, SameFrames
  <2> HIDE DEF b5
  <2>3. QED
    BY <2>2 DEF Bridges, SameRun, SameOut, SameFrames
<1>5. /\ b7 \in Bridges /\ SameRun(b6, b7) /\ SameOut(b6, b7) /\ SameFrames(b6, b7)
      /\ b7.pending = b6.pending /\ b7.open = {} /\ b7.argsSent = {}
  <2> HIDE DEF b6
  <2>1. QED
    BY <1>4 DEF Bridges, SameRun, SameOut, SameFrames
<1>6. Says(b7, Emit(b7, e), e)
  <2> HIDE DEF b7, e
  <2>1. QED
    BY <1>1, <1>5, EmitFacts DEF Says
<1>7. StartRun(b, t) = Emit(b7, e)
  BY DEF StartRun
<1> HIDE DEF b2, b4, b6, b7
<1>8. b7.sink = "run" /\ b7.turn = t /\ b7.wire = b.wire /\ b7.fresh = b.fresh
      /\ b7.message = Nil /\ b7.reasoning = Nil
  BY <1>2, <1>3, <1>4, <1>5 DEF SameRun, SameFrames, SameOut
<1>9. QED
  BY <1>4, <1>5, <1>6, <1>7, <1>8
     DEF Starts, Says, SameRun, SameFrames, SameCalls, Told, WireAfter

\* The run of the turn goes on on a new stream.
Attaches(b, r) ==
    /\ r \in Bridges /\ r.sink = "run" /\ r.turn = b.turn /\ SameCalls(b, r)
    /\ r.message = Nil /\ r.reasoning = Nil /\ r.fresh = b.fresh
    /\ r.wire = Append(b.wire, RunEvent("runStarted", b.turn))

\* What AttachResumeQueue does.
LEMMA AttachResumeQueueFacts ==
    ASSUME NEW b \in Bridges
    PROVE  Attaches(b, AttachResumeQueue(b))
<1> DEFINE e  == RunEvent("runStarted", b.turn)
           b1 == [b EXCEPT !.sink = "run"]
           b2 == [b1 EXCEPT !.message = Nil]
           b3 == [b2 EXCEPT !.reasoning = Nil]
<1>1. e \in Events
  BY EventTypes DEF Bridges
<1>2. /\ b1 \in Bridges /\ SameCalls(b, b1) /\ SameFrames(b, b1) /\ SameOut(b, b1)
      /\ b1.sink = "run" /\ b1.turn = b.turn
  BY DEF Bridges, Sinks, SameFrames, SameOut, SameCalls
<1>3. /\ b3 \in Bridges /\ SameRun(b1, b3) /\ SameOut(b1, b3) /\ SameCalls(b1, b3)
      /\ b3.message = Nil /\ b3.reasoning = Nil /\ b3.fresh = b1.fresh
  <2> HIDE DEF b1
  <2>1. /\ b2 \in Bridges /\ SameRun(b1, b2) /\ SameOut(b1, b2) /\ SameCalls(b1, b2)
        /\ b2.message = Nil /\ b2.fresh = b1.fresh
    BY <1>2 DEF Bridges, SameRun, SameOut, SameCalls
  <2> HIDE DEF b2
  <2>2. QED
    BY <2>1 DEF Bridges, SameRun, SameOut, SameCalls
<1>4. Says(b3, Emit(b3, e), e)
  <2> HIDE DEF b3, e
  <2>1. QED
    BY <1>1, <1>3, EmitFacts DEF Says
<1>5. AttachResumeQueue(b) = Emit(b3, e)
  BY DEF AttachResumeQueue
<1> HIDE DEF b1, b3
<1>6. QED
  BY <1>2, <1>3, <1>4, <1>5
     DEF Attaches, Says, SameRun, SameFrames, SameCalls, SameOut, Told, WireAfter

\* The stream of the run is told e last, and the bridge is left with sink.
Leaves(b, r, e, sink) ==
    /\ r \in Bridges /\ r.turn = b.turn /\ SameFrames(b, r) /\ SameCalls(b, r)
    /\ r.sink = sink /\ Told(b, r, e)

\* What telling an event and replacing the stream does.
LEMMA LeaveFacts ==
    ASSUME NEW b \in Bridges, NEW e \in Events, NEW sink \in Sinks
    PROVE  Leaves(b, [Emit(b, e) EXCEPT !.sink = sink], e, sink)
<1> DEFINE x == Emit(b, e)
<1>1. x \in Bridges /\ SameRun(b, x) /\ SameFrames(b, x) /\ SameCalls(b, x) /\ Told(b, x, e)
  BY EmitFacts
<1> HIDE DEF x
<1>2. Leaves(b, [x EXCEPT !.sink = sink], e, sink)
  BY <1>1 DEF Leaves, Bridges, SameRun, SameFrames, SameCalls, Told
<1>3. QED
  BY <1>2 DEF x

\* The run is interrupted.
Suspends(b, r) ==
    \E m \in Bridges : Silences(b, m) /\ Leaves(m, r, RunEvent("interrupt", b.turn), "none")

\* What SuspendRun does.
LEMMA SuspendRunFacts ==
    ASSUME NEW b \in Bridges
    PROVE  Suspends(b, SuspendRun(b))
<1> DEFINE m == CloseMessage(CloseReasoning(b))
           e == RunEvent("interrupt", b.turn)
<1>1. Silences(b, m) /\ m \in Bridges
  BY SilenceFacts
<1>2. e \in Events
  BY EventTypes DEF Bridges
<1>3. "none" \in Sinks
  BY DEF Sinks
<1>4. SuspendRun(b) = [Emit(m, e) EXCEPT !.sink = "none"]
  BY DEF SuspendRun
<1> HIDE DEF m
<1>5. Leaves(m, [Emit(m, e) EXCEPT !.sink = "none"], e, "none")
  <2> HIDE DEF e
  <2>1. QED
    BY <1>1, <1>2, <1>3, LeaveFacts
<1>6. QED
  BY <1>1, <1>4, <1>5 DEF Suspends

\* CloseCalls leaves no call pending or open, and nothing else changed.
LEMMA CloseCallsFacts ==
    ASSUME NEW b \in Bridges, NEW rank \in Seq(Calls)
    PROVE  LET r == CloseCalls(b, rank)
           IN  /\ r \in Bridges /\ SameRun(b, r) /\ SameFrames(b, r)
               /\ r.pending = <<>> /\ r.open = {}
<1> DEFINE D == {r \in Bridges : SameRun(b, r) /\ SameFrames(b, r)}
<1>1. CallsStayIn(D) /\ b \in D
  BY DEF CallsStayIn, CallStep, SameRun, SameFrames
<1>2. CloseCalls(b, rank) \in D
  <2> HIDE DEF D
  <2>1. QED
    BY <1>1, CallHandlersStay
<1>3. PICK g : Clears(g, FlushPending(b))
  BY FlushPendingFacts
<1>4. FlushPending(b) \in Bridges /\ FlushPending(b).pending = <<>>
  BY <1>3 DEF Clears
<1>5. PICK h : /\ EndedBy(FlushPending(b), rank, h)
               /\ ForgetsOpen(h[Len(rank)], CloseCalls(b, rank))
  BY <1>4, EndCallsFacts DEF CloseCalls
<1> DEFINE E == {r \in Bridges : r.pending = <<>>}
           n == Len(rank)
           S == {i \in 0..n : h[i].pending = <<>>}
<1>6. n \in Nat /\ 0 \in S
  BY <1>4, <1>5 DEF EndedBy
<1>7. \A i \in 0..n : i \in S /\ i < n => i + 1 \in S
  <2>1. SUFFICES ASSUME NEW i \in 0..n, h[i].pending = <<>>, i < n
                 PROVE  h[i + 1].pending = <<>>
    BY <1>6
  <2>2. i + 1 \in 1..n /\ (i + 1) - 1 = i
    BY <1>6, <2>1
  <2>3. EndsStep(FlushPending(b), h[i], h[i + 1], rank[i + 1])
    BY <1>5, <2>2 DEF EndedBy
  <2>4. QED
    BY <2>1, <2>3 DEF EndsStep, EmitsEnd, Says, SameCalls
<1>8. 0..n \subseteq S
  <2> HIDE DEF S, n
  <2>1. QED
    BY <1>6, <1>7, IntervalInduction
<1>9. h[n].pending = <<>>
  BY <1>6, <1>8
<1>10. QED
  BY <1>2, <1>5, <1>9 DEF ForgetsOpen

\* FinishRun and ErrorRun.
Ends(b, r, rank, kind) ==
    \E m \in Bridges :
        /\ Silences(b, m)
        /\ Leaves(CloseCalls(m, rank), r, RunEvent(kind, b.turn),
                  IF b.sink = "run" THEN "ended" ELSE b.sink)

\* What FinishRun and ErrorRun do.
LEMMA EndRunFacts ==
    ASSUME NEW b \in Bridges, NEW rank \in Seq(Calls)
    PROVE  /\ Ends(b, FinishRun(b, rank), rank, "runFinished")
           /\ Ends(b, ErrorRun(b, rank), rank, "runError")
<1> DEFINE m == CloseMessage(CloseReasoning(b))
           x == CloseCalls(m, rank)
           sink == IF b.sink = "run" THEN "ended" ELSE b.sink
<1>1. Silences(b, m) /\ m \in Bridges
  BY SilenceFacts
<1>2. SameRun(b, m)
  <2> HIDE DEF m
  <2>1. QED
    BY <1>1 DEF Silences, ClosesReasoning, ClosesMessage, SameRun
<1>3. x \in Bridges /\ SameRun(m, x)
  <2> HIDE DEF m
  <2>1. QED
    BY <1>1, CloseCallsFacts
<1>4. sink \in Sinks /\ x.sink = b.sink
  <2> HIDE DEF x, m
  <2>1. QED
    BY <1>2, <1>3 DEF Sinks, SameRun, Bridges
<1>5. ASSUME NEW kind \in {"runFinished", "runError"}
      PROVE  /\ RunEvent(kind, b.turn) \in Events
             /\ Leaves(x, [Emit(x, RunEvent(kind, b.turn)) EXCEPT !.sink = sink],
                       RunEvent(kind, b.turn), sink)
  <2>1. RunEvent(kind, b.turn) \in Events
    BY EventTypes DEF Bridges
  <2> HIDE DEF x, sink
  <2>2. QED
    BY <1>3, <1>4, <2>1, LeaveFacts
<1>6. ASSUME NEW e \in Events
      PROVE  [Emit(x, e) EXCEPT !.sink = IF @ = "run" THEN "ended" ELSE @]
               = [Emit(x, e) EXCEPT !.sink = sink]
  <2> HIDE DEF x
  <2>1. Emit(x, e).sink = b.sink
    BY <1>3, <1>4, EmitFacts DEF SameRun
  <2>2. QED
    BY <2>1
<1>7. /\ FinishRun(b, rank) = [Emit(x, RunEvent("runFinished", b.turn)) EXCEPT !.sink = sink]
      /\ ErrorRun(b, rank) = [Emit(x, RunEvent("runError", b.turn)) EXCEPT !.sink = sink]
  <2>1. /\ RunEvent("runFinished", b.turn) \in Events
        /\ RunEvent("runError", b.turn) \in Events
    BY <1>5
  <2>2. CloseFrames(b, rank) = x
    BY DEF CloseFrames
  <2> HIDE DEF x, sink
  <2>3. QED
    BY <1>6, <2>1, <2>2 DEF FinishRun, ErrorRun
<1> HIDE DEF sink
<1>8. Ends(b, FinishRun(b, rank), rank, "runFinished")
  <2>1. Leaves(x, FinishRun(b, rank), RunEvent("runFinished", b.turn), sink)
    BY <1>5, <1>7
  <2> HIDE DEF m
  <2>2. QED
    BY <1>1, <2>1 DEF Ends, sink
<1>9. Ends(b, ErrorRun(b, rank), rank, "runError")
  <2>1. Leaves(x, ErrorRun(b, rank), RunEvent("runError", b.turn), sink)
    BY <1>5, <1>7
  <2> HIDE DEF m
  <2>2. QED
    BY <1>1, <2>1 DEF Ends, sink
<1>10. QED
  BY <1>8, <1>9
=============================================================================
