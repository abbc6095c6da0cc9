--------------------------- MODULE SnapshotProofs ---------------------------
(***************************************************************************)
(* What a replay makes of the history that a session leaves, for any calls *)
(* and any number of turns and updates: the snapshot tells the whole       *)
(* conversation in order when the turns of the history are marked.         *)
(*                                                                         *)
(* A replay is a recursion on the history, so the invariant here is one of *)
(* the bridge after each record of it, and the induction is over data.     *)
(*                                                                         *)
(* On the way: what a transcript shows of one tool call, and which events  *)
(* change that.                                                            *)
(***************************************************************************)
EXTENDS FramingProofs

-----------------------------------------------------------------------------
(* Lists of messages, and what is said in them.                            *)

\* A chunk is said at place k of message m.
Said(ms, m, k) == m \in DOMAIN ms /\ ms[m].role # "tool" /\ k \in DOMAIN ms[m].content

\* Nothing is said in it.
Silent(message) == message.role = "tool" \/ message.content = <<>>

SpokenKinds == ChunkKinds \cup {"user"}

\* The chunks among the first n records of h.
SpokenBy(h, n) == {at \in 1..n : h[at].kind \in SpokenKinds}

ChunkAt(ms, m, k) == ms[m].content[k]

Precedes(m, k, p, q) == m < p \/ (m = p /\ k < q)

\* The messages tell these chunks, each once and in order (Tells, of the
\* first n records of any history).
SaysOnly(ms, h, n) ==
    \A m, k : Said(ms, m, k) =>
        /\ ChunkAt(ms, m, k) \in SpokenBy(h, n)
        /\ ms[m].role = RoleOf(h[ChunkAt(ms, m, k)].kind)

SaysInOrder(ms) ==
    \A m, k, p, q : Said(ms, m, k) /\ Said(ms, p, q) /\ Precedes(m, k, p, q) =>
        ChunkAt(ms, m, k) < ChunkAt(ms, p, q)

SaysAll(ms, h, n) ==
    \A at \in SpokenBy(h, n) : \E m, k : Said(ms, m, k) /\ ChunkAt(ms, m, k) = at

Covers(ms, h, n) == SaysOnly(ms, h, n) /\ SaysInOrder(ms) /\ SaysAll(ms, h, n)

\* Nothing is said after message i, which is one that can go on.
LastSaid(ms, i) ==
    /\ i \in DOMAIN ms /\ ms[i].role # "tool"
    /\ \A m \in DOMAIN ms : m > i => Silent(ms[m])

\* Nothing is said by a step from ms to r: messages may follow.
SaysNothing(ms, r) ==
    /\ r \in Seq(Messages) /\ Len(ms) <= Len(r)
    /\ \A m \in DOMAIN ms : r[m].role = ms[m].role /\ r[m].content = ms[m].content
    /\ \A m \in DOMAIN r \ DOMAIN ms : Silent(r[m])

\* Chunk c is said at the end of message i.
Adds(ms, r, i, c) ==
    /\ r \in Seq(Messages) /\ DOMAIN r = DOMAIN ms
    /\ \A m \in DOMAIN ms : r[m].role = ms[m].role
    /\ \A m \in DOMAIN ms \ {i} : r[m] = ms[m]
    /\ r[i].calls = ms[i].calls /\ r[i].content = Append(ms[i].content, c)

\* Where nothing is said, what was said stands.
LEMMA SilentStep ==
    ASSUME NEW ms \in Seq(Messages), NEW r, SaysNothing(ms, r), NEW h, NEW n \in Nat
    PROVE  /\ Covers(ms, h, n) => Covers(r, h, n)
           /\ \A i : LastSaid(ms, i) => LastSaid(r, i) /\ r[i].role = ms[i].role
<1>1. DOMAIN ms = 1..Len(ms) /\ DOMAIN r = 1..Len(r) /\ DOMAIN ms \subseteq DOMAIN r
  BY DEF SaysNothing
<1>2. \A m, k : Said(r, m, k) <=> Said(ms, m, k)
  BY <1>1 DEF Said, SaysNothing, Silent
<1>3. \A m, k : Said(ms, m, k) => ChunkAt(r, m, k) = ChunkAt(ms, m, k) /\ r[m].role = ms[m].role
  BY DEF Said, SaysNothing, ChunkAt
<1>4. /\ SaysOnly(ms, h, n) => SaysOnly(r, h, n)
      /\ SaysInOrder(ms) => SaysInOrder(r)
      /\ SaysAll(ms, h, n) => SaysAll(r, h, n)
  <2>1. SaysOnly(ms, h, n) => SaysOnly(r, h, n)
    BY <1>2, <1>3 DEF SaysOnly
  <2>2. SaysInOrder(ms) => SaysInOrder(r)
    BY <1>2, <1>3 DEF SaysInOrder
  <2>3. SaysAll(ms, h, n) => SaysAll(r, h, n)
    BY <1>2, <1>3 DEF SaysAll
  <2>4. QED
    BY <2>1, <2>2, <2>3
<1>5. \A i : LastSaid(ms, i) => LastSaid(r, i) /\ r[i].role = ms[i].role
  BY <1>1 DEF LastSaid, SaysNothing, Silent
<1>6. QED
  BY <1>4, <1>5 DEF Covers

\* The next chunk is said where nothing is said after it.
LEMMA SaidStep ==
    ASSUME NEW ms \in Seq(Messages), NEW h, NEW n \in Nat, Covers(ms, h, n),
           NEW i, LastSaid(ms, i), NEW r, Adds(ms, r, i, n + 1),
           h[n + 1].kind \in SpokenKinds, ms[i].role = RoleOf(h[n + 1].kind)
    PROVE  Covers(r, h, n + 1) /\ LastSaid(r, i)
<1> DEFINE l == Len(ms[i].content) + 1
<1>0. i \in DOMAIN ms /\ ms[i].role # "tool" /\ i \in Nat
  BY DEF LastSaid
<1>1. ms[i] \in Messages
  BY <1>0, MessageFacts
<1>2. /\ l \in Nat /\ 1..l = (1 .. l - 1) \cup {l}
      /\ DOMAIN ms[i].content = 1 .. l - 1
      /\ DOMAIN r[i].content = 1..l
      /\ ChunkAt(r, i, l) = n + 1
      /\ \A k \in 1 .. l - 1 : ChunkAt(r, i, k) = ChunkAt(ms, i, k)
  <2>1. ms[i].content \in Seq(Nat \cup Calls) /\ n + 1 \in Nat \cup Calls
    BY <1>1 DEF Messages
  <2>2. r[i].content = Append(ms[i].content, n + 1)
    BY DEF Adds
  <2>3. QED
    BY <2>1, <2>2, AppendFacts DEF ChunkAt
<1> HIDE DEF l
<1>3. \A m, k : Said(r, m, k) <=> Said(ms, m, k) \/ (m = i /\ k = l)
  <2>1. SUFFICES ASSUME NEW m, NEW k
                 PROVE  Said(r, m, k) <=> Said(ms, m, k) \/ (m = i /\ k = l)
    OBVIOUS
  <2>2. CASE m = i
    <3>1. Said(r, i, k) <=> k \in 1..l
      BY <1>0, <1>2 DEF Said, Adds
    <3>2. Said(ms, i, k) <=> k \in 1 .. l - 1
      BY <1>0, <1>2 DEF Said
    <3>3. QED
      BY <1>2, <2>2, <3>1, <3>2
  <2>3. CASE m # i
    BY <1>0, <2>3 DEF Said, Adds
  <2>4. QED
    BY <2>2, <2>3
<1>4. \A m, k : Said(ms, m, k) =>
         /\ ChunkAt(r, m, k) = ChunkAt(ms, m, k) /\ r[m].role = ms[m].role
         /\ m \in Nat /\ m <= i /\ (m = i => k \in 1 .. l - 1)
  <2>1. SUFFICES ASSUME NEW m, NEW k, Said(ms, m, k)
                 PROVE  /\ ChunkAt(r, m, k) = ChunkAt(ms, m, k) /\ r[m].role = ms[m].role
                        /\ m \in Nat /\ m <= i /\ (m = i => k \in 1 .. l - 1)
    OBVIOUS
  <2>2. m \in DOMAIN ms /\ ~Silent(ms[m]) /\ r[m].role = ms[m].role /\ k \in DOMAIN ms[m].content
    BY <2>1 DEF Said, Silent, Adds
  <2>3. m \in Nat /\ m <= i
    BY <1>0, <2>2 DEF LastSaid
  <2>4. m = i => k \in 1 .. l - 1
    BY <1>2, <2>2
  <2>5. m # i => ChunkAt(r, m, k) = ChunkAt(ms, m, k)
    BY <2>2 DEF ChunkAt, Adds
  <2>6. QED
    BY <1>2, <2>2, <2>3, <2>4, <2>5
<1>5. Said(r, i, l) /\ r[i].role = RoleOf(h[n + 1].kind)
  BY <1>0, <1>3 DEF Adds
<1>6. SpokenBy(h, n + 1) = SpokenBy(h, n) \cup {n + 1} /\ SpokenBy(h, n) \subseteq 1..n
  BY DEF SpokenBy
<1>7. SaysOnly(r, h, n + 1)
  BY <1>2, <1>3, <1>4, <1>5, <1>6 DEF SaysOnly, Covers
<1>8. SaysInOrder(r)
  <2>1. SUFFICES ASSUME NEW m, NEW k, NEW p, NEW q,
                        Said(r, m, k), Said(r, p, q), Precedes(m, k, p, q)
                 PROVE  ChunkAt(r, m, k) < ChunkAt(r, p, q)
    BY DEF SaysInOrder
  <2>2. CASE Said(ms, m, k) /\ Said(ms, p, q)
    BY <1>4, <2>1, <2>2 DEF Covers, SaysInOrder
  <2>3. CASE Said(ms, m, k) /\ p = i /\ q = l
    <3>1. ChunkAt(ms, m, k) \in 1..n
      BY <1>6, <2>3 DEF Covers, SaysOnly
    <3>2. QED
      BY <1>2, <1>4, <2>3, <3>1
  <2>4. CASE m = i /\ k = l
    <3>1. ~Said(ms, p, q)
      <4>1. SUFFICES ASSUME Said(ms, p, q) PROVE FALSE
        OBVIOUS
      <4>2. p \in Nat /\ p <= i /\ (p = i => q \in 1 .. l - 1)
        BY <1>4, <4>1
      <4>3. QED
        BY <1>0, <1>2, <2>1, <2>4, <4>2 DEF Precedes
    <3>2. p = i /\ q = l
      BY <1>3, <2>1, <3>1
    <3>3. QED
      BY <1>0, <1>2, <2>1, <2>4, <3>2 DEF Precedes
  <2>5. QED
    BY <1>3, <2>1, <2>2, <2>3, <2>4
<1>9. SaysAll(r, h, n + 1)
  <2>1. SUFFICES ASSUME NEW at \in SpokenBy(h, n + 1)
                 PROVE  \E m, k : Said(r, m, k) /\ ChunkAt(r, m, k) = at
    BY DEF SaysAll
  <2>2. CASE at = n + 1
    BY <1>2, <1>5, <2>2
  <2>3. CASE at \in SpokenBy(h, n)
    <3>1. PICK m, k : Said(ms, m, k) /\ ChunkAt(ms, m, k) = at
      BY <2>3 DEF Covers, SaysAll
    <3>2. Said(r, m, k) /\ ChunkAt(r, m, k) = at
      BY <1>3, <1>4, <3>1
    <3>3. QED
      BY <3>2
  <2>4. QED
    BY <1>6, <2>2, <2>3
<1>10. LastSaid(r, i)
  BY <1>0 DEF LastSaid, Adds, Silent
<1>11. QED
  BY <1>7, <1>8, <1>9, <1>10 DEF Covers

\* A record that says nothing adds nothing.
LEMMA UnspokenRecord ==
    ASSUME NEW ms, NEW h, NEW n \in Nat, Covers(ms, h, n), h[n + 1].kind \notin SpokenKinds
    PROVE  Covers(ms, h, n + 1)
<1>1. SpokenBy(h, n + 1) = SpokenBy(h, n)
  BY DEF SpokenBy
<1>2. QED
  BY <1>1 DEF Covers, SaysOnly, SaysAll

\* A message that is begun is the last, and nothing is said in it yet.
LEMMA BeginsMessage ==
    ASSUME NEW ms \in Seq(Messages), NEW role \in Roles \ {"tool"}
    PROVE  LET r == Append(ms, Message(role, <<>>))
           IN  /\ SaysNothing(ms, r) /\ LastSaid(r, Len(ms) + 1)
               /\ Len(ms) + 1 \in DOMAIN r /\ r[Len(ms) + 1].role = role
<1> DEFINE x == Message(role, <<>>)
<1>1. x \in Messages /\ x.role = role /\ x.content = <<>>
  BY DEF Message, Messages, Roles
<1> HIDE DEF x
<1>2. /\ Append(ms, x) \in Seq(Messages)
      /\ Len(Append(ms, x)) = Len(ms) + 1
      /\ DOMAIN Append(ms, x) = 1..(Len(ms) + 1)
      /\ Append(ms, x)[Len(ms) + 1] = x
      /\ \A i \in 1..Len(ms) : Append(ms, x)[i] = ms[i]
  BY <1>1, AppendFacts
<1>3. DOMAIN ms = 1..Len(ms) /\ Len(ms) \in Nat
  OBVIOUS
<1>4. SaysNothing(ms, Append(ms, x))
  BY <1>1, <1>2, <1>3 DEF SaysNothing, Silent
<1>5. LastSaid(Append(ms, x), Len(ms) + 1)
  BY <1>1, <1>2, <1>3 DEF LastSaid, Silent
<1>6. QED
  BY <1>1, <1>2, <1>4, <1>5 DEF x

-----------------------------------------------------------------------------
(* What events about calls do to a transcript.                             *)

CallsOf(ms, i) == IF i \in DOMAIN ms THEN ms[i].calls ELSE <<>>

\* The calls of every message but i are what they were.
OtherCalls(ms, r, i) == \A m \in DOMAIN r \ {i} : m \in DOMAIN ms /\ r[m].calls = ms[m].calls

\* No result is among the messages that are new.
NoNewResult(ms, r) == \A m \in DOMAIN r \ DOMAIN ms : r[m].role # "tool"

Entry(call, input) == [call |-> call, args |-> input]

\* The call joins message i, an assistant's.
Joins(acc, r, call, i) ==
    /\ SaysNothing(acc.messages, r.messages) /\ r.opened = acc.opened
    /\ i \in DOMAIN r.messages
    /\ r.messages[i].calls = Append(CallsOf(acc.messages, i), Entry(call, Nil))
    /\ OtherCalls(acc.messages, r.messages, i)
    /\ NoNewResult(acc.messages, r.messages)
    /\ r.where = Bind(acc.where, call,
                      [message |-> i, index |-> Len(CallsOf(acc.messages, i)) + 1])

\* What AttachCall does.
LEMMA AttachCallFacts ==
    ASSUME NEW acc \in Transcripts, NEW call \in Calls
    PROVE  \E i : Joins(acc, AttachCall(acc, call), call, i)
<1> DEFINE ms == acc.messages
           x  == Message("assistant", <<>>)
           xs == IF Trailing(acc, "assistant") THEN ms ELSE Append(ms, x)
           i  == Len(xs)
           cs == Append(Last(xs).calls, Entry(call, Nil))
           ys == [xs EXCEPT ![i].calls = cs]
           at == [message |-> i, index |-> Len(Last(xs).calls) + 1]
           r  == AttachCall(acc, call)
<1>1. ms \in Seq(Messages)
  BY DEF Transcripts
<1>2. x \in Messages /\ x.calls = <<>> /\ x.content = <<>> /\ x.role = "assistant"
  BY DEF Message, Messages, Roles
<1>3. /\ xs \in Seq(Messages) /\ i \in DOMAIN xs /\ i \in Nat /\ SaysNothing(ms, xs)
      /\ xs[i].calls = CallsOf(ms, i)
      /\ OtherCalls(ms, xs, i) /\ NoNewResult(ms, xs)
  <2>1. CASE Trailing(acc, "assistant")
    <3>1. xs = ms /\ ms # <<>>
      BY <2>1 DEF Trailing
    <3>2. Len(ms) \in DOMAIN ms /\ Len(ms) \in Nat
      BY <1>1, <3>1
    <3> HIDE DEF xs, ms
    <3>3. QED
      BY <1>1, <3>1, <3>2 DEF SaysNothing, CallsOf, OtherCalls, NoNewResult
  <2>2. CASE ~Trailing(acc, "assistant")
    <3>1. xs = Append(ms, x)
      BY <2>2
    <3> HIDE DEF xs, ms, x
    <3>2. /\ xs \in Seq(Messages) /\ Len(xs) = Len(ms) + 1 /\ DOMAIN xs = 1..(Len(ms) + 1)
          /\ xs[Len(ms) + 1] = x
          /\ \A m \in 1..Len(ms) : xs[m] = ms[m]
      BY <1>1, <1>2, <3>1, AppendFacts
    <3>3. DOMAIN ms = 1..Len(ms) /\ Len(ms) \in Nat
      BY <1>1
    <3>4. QED
      BY <1>2, <3>2, <3>3 DEF SaysNothing, CallsOf, OtherCalls, NoNewResult, Silent
  <2>3. QED
    BY <2>1, <2>2
<1>4. Last(xs) = xs[i]
  BY DEF Last
<1>5. r = [acc EXCEPT !.messages = ys, !.where = Bind(acc.where, call, at)]
  BY <1>4 DEF AttachCall, Entry
<1> HIDE DEF xs
<1>6. xs[i] \in Messages
  BY <1>3, MessageFacts
<1>7. cs \in Seq(CallEntries)
  <2>1. xs[i].calls \in Seq(CallEntries) /\ Entry(call, Nil) \in CallEntries
    BY <1>6 DEF Messages, CallEntries, Entry, Inputs
  <2>2. QED
    BY <1>4, <2>1
<1> HIDE DEF i, cs
<1>8. ys \in Seq(Messages)
  BY <1>3, <1>7, MessageFacts
<1>9. /\ DOMAIN ys = DOMAIN xs /\ ys[i].calls = cs
      /\ \A m \in DOMAIN xs : ys[m].role = xs[m].role /\ ys[m].content = xs[m].content
      /\ \A m \in DOMAIN xs \ {i} : ys[m].calls = xs[m].calls
  <2>1. ys[i] = [xs[i] EXCEPT !.calls = cs]
    BY <1>3
  <2>2. \A m \in DOMAIN xs \ {i} : ys[m] = xs[m]
    BY <1>3
  <2>3. ys[i].calls = cs /\ ys[i].role = xs[i].role /\ ys[i].content = xs[i].content
    BY <1>6, <2>1 DEF Messages
  <2>4. DOMAIN ys = DOMAIN xs
    BY <1>3
  <2>5. QED
    BY <2>2, <2>3, <2>4
<1> HIDE DEF ys, at
<1>10. r.messages = ys /\ r.opened = acc.opened /\ r.where = Bind(acc.where, call, at)
  BY <1>5 DEF Transcripts
<1>11. Len(ys) = Len(xs) /\ DOMAIN ms \subseteq DOMAIN xs
  BY <1>1, <1>3, <1>8, <1>9 DEF SaysNothing
<1>12. SaysNothing(ms, ys)
  BY <1>3, <1>8, <1>9, <1>11 DEF SaysNothing, Silent
<1>13. OtherCalls(ms, ys, i) /\ NoNewResult(ms, ys)
  BY <1>3, <1>9 DEF OtherCalls, NoNewResult
<1>14. cs = Append(CallsOf(ms, i), Entry(call, Nil))
       /\ at = [message |-> i, index |-> Len(CallsOf(ms, i)) + 1]
  BY <1>3, <1>4 DEF cs, at
<1>15. Joins(acc, r, call, i)
  BY <1>3, <1>9, <1>10, <1>12, <1>13, <1>14 DEF Joins
<1>16. QED
  BY <1>15

\* The arguments of the call at place j of message m become the input.
Argues(acc, r, call, input) ==
    /\ SaysNothing(acc.messages, r.messages) /\ r.opened = acc.opened /\ r.where = acc.where
    /\ DOMAIN r.messages = DOMAIN acc.messages
    /\ call \notin DOMAIN acc.where => r.messages = acc.messages
    /\ call \in DOMAIN acc.where =>
          LET m == acc.where[call].message
              j == acc.where[call].index
          IN  /\ OtherCalls(acc.messages, r.messages, m)
              /\ m \in DOMAIN acc.messages /\ j \in DOMAIN acc.messages[m].calls =>
                    r.messages[m].calls =
                        [acc.messages[m].calls EXCEPT
                            ![j] = Entry(acc.messages[m].calls[j].call, input)]

\* What SetArgs does.
LEMMA SetArgsFacts ==
    ASSUME NEW acc \in Transcripts, NEW call \in Calls, NEW input \in Inputs
    PROVE  Argues(acc, SetArgs(acc, call, input), call, input)
<1>0. acc.messages \in Seq(Messages)
  BY DEF Transcripts
<1>1. CASE call \notin DOMAIN acc.where
  <2>1. SaysNothing(acc.messages, acc.messages)
    BY <1>0 DEF SaysNothing
  <2>2. SetArgs(acc, call, input) = acc
    BY <1>1 DEF SetArgs
  <2>3. QED
    BY <1>1, <2>1, <2>2 DEF Argues
<1>2. CASE call \in DOMAIN acc.where
  <2> DEFINE ms == acc.messages
             m  == acc.where[call].message
             j  == acc.where[call].index
             cs == ms[m].calls
             y  == [cs[j] EXCEPT !.args = input]
             x  == [ms[m] EXCEPT !.calls = [cs EXCEPT ![j] = y]]
             ys == [ms EXCEPT ![m] = x]
             r  == SetArgs(acc, call, input)
  <2>1. r = [acc EXCEPT !.messages = ys]
    BY <1>2 DEF SetArgs
  <2>2. r \in Transcripts
    BY SetArgsType
  <2> HIDE DEF r
  <2>3. r.messages = ys /\ r.opened = acc.opened /\ r.where = acc.where /\ ys \in Seq(Messages)
    <3> HIDE DEF ys
    <3>1. QED
      BY <2>1, <2>2 DEF Transcripts
  <2>4. DOMAIN ys = DOMAIN ms /\ \A k \in DOMAIN ms \ {m} : ys[k] = ms[k]
    <3> HIDE DEF x, m, ms
    <3>1. QED
      BY <1>0 DEF ms
  <2>5. m \in DOMAIN ms => ys[m] = x
    <3> HIDE DEF x, m, ms
    <3>1. QED
      BY <1>0 DEF ms
  <2>6. m \in DOMAIN ms => ms[m] \in Messages
    BY <1>0
  <2>7. m \in DOMAIN ms => x.role = ms[m].role /\ x.content = ms[m].content
                           /\ x.calls = [cs EXCEPT ![j] = y]
    <3> HIDE DEF y, cs, j, m, ms
    <3>1. QED
      BY <2>6 DEF Messages
  <2>8. m \in DOMAIN ms /\ j \in DOMAIN cs => y = Entry(cs[j].call, input)
    <3>1. SUFFICES ASSUME m \in DOMAIN ms, j \in DOMAIN cs
                   PROVE  y = Entry(cs[j].call, input)
      OBVIOUS
    <3>2. cs \in Seq(CallEntries)
      BY <2>6, <3>1 DEF Messages
    <3>3. cs[j] \in CallEntries
      <4> HIDE DEF cs, j
      <4>1. QED
        BY <3>1, <3>2
    <3> HIDE DEF cs, j
    <3>4. QED
      BY <3>3 DEF CallEntries, Entry
  <2> HIDE DEF x, y, ys
  <2>9. SaysNothing(ms, ys)
    <3>1. Len(ys) = Len(ms)
      <4> HIDE DEF ms
      <4>1. QED
        BY <1>0, <2>3, <2>4 DEF ms
    <3>2. \A k \in DOMAIN ms : ys[k].role = ms[k].role /\ ys[k].content = ms[k].content
      <4> HIDE DEF ms, m
      <4>1. QED
        BY <2>4, <2>5, <2>7
    <3> HIDE DEF ms
    <3>3. Len(ms) \in Nat
      BY <1>0 DEF ms
    <3>4. QED
      BY <2>3, <2>4, <3>1, <3>2, <3>3 DEF SaysNothing
  <2>10. OtherCalls(ms, ys, m)
    <3> HIDE DEF ms, m
    <3>1. QED
      BY <2>4 DEF OtherCalls
  <2>11. m \in DOMAIN ms /\ j \in DOMAIN cs =>
            ys[m].calls = [cs EXCEPT ![j] = Entry(cs[j].call, input)]
    BY <2>5, <2>7, <2>8
  <2>12. QED
    BY <1>2, <2>3, <2>4, <2>9, <2>10, <2>11 DEF Argues, r
<1>3. QED
  BY <1>1, <1>2

\* The result of the call is the last message.
Results(acc, r, call) ==
    /\ r.messages = Append(acc.messages, Message("tool", <<call>>))
    /\ r.opened = acc.opened /\ r.where = acc.where

\* A result says nothing, by the agent.
LEMMA ResultFacts ==
    ASSUME NEW acc \in Transcripts, NEW call \in Calls
    PROVE  /\ Results(acc, AddResult(acc, call), call)
           /\ SaysNothing(acc.messages, AddResult(acc, call).messages)
<1> DEFINE x == Message("tool", <<call>>)
           ms == acc.messages
<1>1. x \in Messages /\ x.role = "tool" /\ ms \in Seq(Messages)
  BY DEF Message, Messages, Roles, Transcripts
<1>2. AddResult(acc, call) = [acc EXCEPT !.messages = Append(ms, x)]
  BY DEF AddResult
<1> HIDE DEF x
<1>3. Results(acc, AddResult(acc, call), call)
  BY <1>2 DEF Results, Transcripts, x
<1>4. /\ Append(ms, x) \in Seq(Messages) /\ Len(Append(ms, x)) = Len(ms) + 1
      /\ DOMAIN Append(ms, x) = 1..(Len(ms) + 1)
      /\ Append(ms, x)[Len(ms) + 1] = x
      /\ \A i \in 1..Len(ms) : Append(ms, x)[i] = ms[i]
  BY <1>1, AppendFacts
<1>5. DOMAIN ms = 1..Len(ms) /\ Len(ms) \in Nat
  BY <1>1
<1>6. SaysNothing(ms, Append(ms, x))
  BY <1>1, <1>4, <1>5 DEF SaysNothing, Silent
<1>7. QED
  BY <1>3, <1>6 DEF Results, x

-----------------------------------------------------------------------------
(* The events of a replay, on the transcript.                              *)

\* No event about a call says anything, or touches what is open.
LEMMA CallFold ==
    ASSUME NEW acc \in Transcripts, NEW e \in Events, e.kind \in CallKinds
    PROVE  /\ SaysNothing(acc.messages, Fold(acc, e).messages)
           /\ Fold(acc, e).opened = acc.opened
<1>0. acc.messages \in Seq(Messages)
  BY DEF Transcripts
<1>1. e.call \in Calls /\ (e.kind = "callArgs" => e.input \in Inputs)
  BY DEF Events, CallKinds
<1>2. CASE e.kind = "callStart"
  <2>1. Fold(acc, e) = AttachCall(acc, e.call)
    BY <1>2 DEF Fold
  <2>2. QED
    BY <1>1, <2>1, AttachCallFacts DEF Joins
<1>3. CASE e.kind = "callArgs"
  <2>1. Fold(acc, e) = SetArgs(acc, e.call, e.input)
    BY <1>3 DEF Fold
  <2>2. Argues(acc, SetArgs(acc, e.call, e.input), e.call, e.input)
    BY <1>1, <1>3, SetArgsFacts
  <2>3. QED
    BY <2>1, <2>2 DEF Argues
<1>4. CASE e.kind = "callResult"
  <2>1. Fold(acc, e) = AddResult(acc, e.call)
    BY <1>4 DEF Fold
  <2>2. QED
    BY <1>1, <2>1, ResultFacts DEF Results
<1>5. CASE e.kind = "callEnd"
  <2>1. Fold(acc, e) = acc
    BY <1>5 DEF Fold
  <2>2. QED
    BY <1>0, <2>1 DEF SaysNothing
<1>6. QED
  BY <1>2, <1>3, <1>4, <1>5 DEF CallKinds

\* Message id is the one with this role that is said last, or there is none.
OpenAt(acc, id, role) ==
    id # Nil =>
        /\ id \in DOMAIN acc.opened
        /\ LastSaid(acc.messages, acc.opened[id])
        /\ acc.messages[acc.opened[id]].role = role

\* START begins a message, the last one.
LEMMA StartFold ==
    ASSUME NEW acc \in Transcripts, NEW id \in Nat,
           NEW kind \in {"textStart", "thoughtStart"}
    PROVE  LET r == Fold(acc, FrameEvent(kind, id))
           IN  SaysNothing(acc.messages, r.messages) /\ OpenAt(r, id, RoleOf(kind))
<1> DEFINE role == RoleOf(kind)
           ms == acc.messages
           x == Append(ms, Message(role, <<>>))
           r == Fold(acc, FrameEvent(kind, id))
           o == Bind(acc.opened, id, Len(ms) + 1)
<1>1. role \in Roles \ {"tool"} /\ ms \in Seq(Messages)
  BY DEF RoleOf, Roles, Transcripts
<1>2. r = [acc EXCEPT !.messages = x, !.opened = o]
  BY DEF Fold, FrameEvent, OpenMessage
<1> HIDE DEF r, x, o
<1>3. r.messages = x /\ r.opened = o
  BY <1>2 DEF Transcripts
<1>4. id \in DOMAIN o /\ o[id] = Len(ms) + 1
  BY DEF o, Bind
<1>5. SaysNothing(ms, x) /\ LastSaid(x, Len(ms) + 1) /\ x[Len(ms) + 1].role = role
  <2> HIDE DEF role, ms
  <2>1. QED
    BY <1>1, BeginsMessage DEF x
<1>6. QED
  BY <1>3, <1>4, <1>5 DEF OpenAt, r

\* CONTENT of the message that is open is said in it.
LEMMA ContentFold ==
    ASSUME NEW acc \in Transcripts, NEW id \in Nat \cup {Nil}, NEW c \in Nat,
           NEW kind \in {"text", "thought"}, id \in DOMAIN acc.opened,
           acc.opened[id] \in DOMAIN acc.messages
    PROVE  LET r == Fold(acc, ChunkEvent(kind, id, c))
           IN  Adds(acc.messages, r.messages, acc.opened[id], c) /\ r.opened = acc.opened
<1> DEFINE ms == acc.messages
           i == acc.opened[id]
           x == [ms[i] EXCEPT !.content = Append(ms[i].content, c)]
           y == [ms EXCEPT ![i] = x]
           r == Fold(acc, ChunkEvent(kind, id, c))
<1>1. ms \in Seq(Messages) /\ ms[i] \in Messages
  BY MessageFacts DEF Transcripts
<1>2. r = [acc EXCEPT !.messages = y]
  BY DEF Fold, ChunkEvent, AddContent
<1>3. r \in Transcripts
  <2>1. ChunkEvent(kind, id, c) \in Events
    BY EventTypes
  <2>2. QED
    BY <2>1, FoldType
<1> HIDE DEF r
<1>4. x.role = ms[i].role /\ x.calls = ms[i].calls /\ x.content = Append(ms[i].content, c)
  <2> HIDE DEF ms, i
  <2>1. QED
    BY <1>1 DEF Messages
<1>5. y[i] = x /\ DOMAIN y = DOMAIN ms /\ \A m \in DOMAIN ms \ {i} : y[m] = ms[m]
  <2> HIDE DEF x
  <2>1. QED
    BY <1>1
<1> HIDE DEF y, x
<1>6. r.messages = y /\ r.opened = acc.opened /\ y \in Seq(Messages)
  BY <1>2, <1>3 DEF Transcripts
<1>7. Adds(ms, y, i, c)
  <2> HIDE DEF ms, i
  <2>1. QED
    BY <1>4, <1>5, <1>6 DEF Adds
<1>8. QED
  BY <1>6, <1>7 DEF r

\* Other events say nothing.
LEMMA OtherFold ==
    ASSUME NEW acc \in Transcripts
    PROVE  /\ \A id, kind : kind \in {"textEnd", "thoughtEnd"} =>
                 Fold(acc, FrameEvent(kind, id)).messages = acc.messages
           /\ \A t, kind : kind \in {"runStarted", "runFinished", "runError", "interrupt"} =>
                 Fold(acc, RunEvent(kind, t)) = acc
<1>1. ASSUME NEW id, NEW kind \in {"textEnd", "thoughtEnd"}
      PROVE  Fold(acc, FrameEvent(kind, id)).messages = acc.messages
  <2>1. Fold(acc, FrameEvent(kind, id)) = PopMessage(acc, id)
    BY DEF Fold, FrameEvent
  <2>2. PopMessage(acc, id).messages = acc.messages
    BY DEF PopMessage, Transcripts
  <2>3. QED
    BY <2>1, <2>2
<1>2. ASSUME NEW t, NEW kind \in {"runStarted", "runFinished", "runError", "interrupt"}
      PROVE  Fold(acc, RunEvent(kind, t)) = acc
  BY DEF Fold, RunEvent
<1>3. QED
  BY <1>1, <1>2

-----------------------------------------------------------------------------
(* What a transcript shows of a call.                                      *)

\* Entry j of message m is the call's.
PlaceOf(ms, m, j, c) == m \in DOMAIN ms /\ j \in DOMAIN ms[m].calls /\ ms[m].calls[j].call = c

ArgsAt(ms, m, j) == ms[m].calls[j].args

\* Message m is a result of the call.
ResultAt(ms, m, c) == m \in DOMAIN ms /\ ms[m].role = "tool" /\ ms[m].content = <<c>>

\* The accumulator finds a call where it is shown,
Located(acc) ==
    \A d \in DOMAIN acc.where :
        PlaceOf(acc.messages, acc.where[d].message, acc.where[d].index, d)

\* ... and adds no content to a result.
Speaks(acc) ==
    \A id \in DOMAIN acc.opened :
        acc.opened[id] \in DOMAIN acc.messages /\ acc.messages[acc.opened[id]].role # "tool"

Kept(acc) == Located(acc) /\ Speaks(acc)

\* The call is shown in one place, with arguments y,
StandsAt(acc, c, y) ==
    /\ c \in DOMAIN acc.where
    /\ \A m, j : PlaceOf(acc.messages, m, j, c) =>
          /\ m = acc.where[c].message /\ j = acc.where[c].index
          /\ ArgsAt(acc.messages, m, j) = y

\* ... or in none.
Missing(acc, c) ==
    c \notin DOMAIN acc.where /\ \A m, j : ~PlaceOf(acc.messages, m, j, c)

\* It has one result, after it,
Answered(acc, c) ==
    c \in DOMAIN acc.where /\ \E r : /\ ResultAt(acc.messages, r, c) /\ acc.where[c].message < r
           /\ \A q : ResultAt(acc.messages, q, c) => q = r

\* ... or none.
Unanswered(acc, c) == \A q : ~ResultAt(acc.messages, q, c)

\* A transcript of these kinds of events of call c, and x as its arguments.
ReadsAs(acc, c, kinds, x) ==
    /\ Kept(acc)
    /\ IF "callStart" \in kinds THEN StandsAt(acc, c, IF "callArgs" \in kinds THEN x ELSE Nil)
       ELSE Missing(acc, c)
    /\ IF "callResult" \in kinds THEN Answered(acc, c) ELSE Unanswered(acc, c)

\* acc and r show the same of the call.
Looks(acc, r, c) ==
    /\ c \in DOMAIN r.where <=> c \in DOMAIN acc.where
    /\ c \in DOMAIN acc.where => r.where[c] = acc.where[c]
    /\ \A m, j : PlaceOf(r.messages, m, j, c) <=> PlaceOf(acc.messages, m, j, c)
    /\ \A m, j : PlaceOf(acc.messages, m, j, c) =>
          ArgsAt(r.messages, m, j) = ArgsAt(acc.messages, m, j)
    /\ \A m : ResultAt(r.messages, m, c) <=> ResultAt(acc.messages, m, c)

\* A call that looks the same reads the same.
LEMMA LooksReads ==
    ASSUME NEW acc, NEW r, NEW c, Looks(acc, r, c), Kept(r), NEW kinds, NEW x,
           ReadsAs(acc, c, kinds, x)
    PROVE  ReadsAs(r, c, kinds, x)
<1>1. \A y : StandsAt(acc, c, y) => StandsAt(r, c, y)
  BY DEF StandsAt, Looks
<1>2. Missing(acc, c) => Missing(r, c)
  BY DEF Missing, Looks
<1>3. Answered(acc, c) => Answered(r, c)
  BY DEF Answered, Looks
<1>4. Unanswered(acc, c) => Unanswered(r, c)
  BY DEF Unanswered, Looks
<1>5. QED
  BY <1>1, <1>2, <1>3, <1>4 DEF ReadsAs

\* A step that is about no call: messages may follow, but no result, and what
\* is added is added to no result.
Widens(acc, r) ==
    /\ r.where = acc.where
    /\ DOMAIN acc.messages \subseteq DOMAIN r.messages
    /\ \A m \in DOMAIN acc.messages :
          /\ r.messages[m].calls = acc.messages[m].calls
          /\ r.messages[m].role = acc.messages[m].role
          /\ r.messages[m].role = "tool" => r.messages[m].content = acc.messages[m].content
    /\ \A m \in DOMAIN r.messages \ DOMAIN acc.messages :
          r.messages[m].calls = <<>> /\ r.messages[m].role # "tool"

\* Every call looks the same after it.
LEMMA WidensLooks ==
    ASSUME NEW acc, Located(acc), NEW r, Widens(acc, r)
    PROVE  Located(r) /\ \A c : Looks(acc, r, c)
<1>1. ASSUME NEW c, NEW m, NEW j
      PROVE  PlaceOf(r.messages, m, j, c) <=> PlaceOf(acc.messages, m, j, c)
  <2>1. CASE m \in DOMAIN acc.messages
    BY <2>1 DEF Widens, PlaceOf
  <2>2. CASE m \notin DOMAIN acc.messages
    <3>1. m \in DOMAIN r.messages => r.messages[m].calls = <<>>
      BY <2>2 DEF Widens
    <3>2. QED
      BY <2>2, <3>1 DEF PlaceOf
  <2>3. QED
    BY <2>1, <2>2
<1>2. \A c, m, j : PlaceOf(acc.messages, m, j, c) =>
          ArgsAt(r.messages, m, j) = ArgsAt(acc.messages, m, j)
  BY DEF Widens, PlaceOf, ArgsAt
<1>3. \A c, m : ResultAt(r.messages, m, c) <=> ResultAt(acc.messages, m, c)
  BY DEF Widens, ResultAt
<1>4. Located(r)
  BY <1>1 DEF Located, Widens
<1>5. ASSUME NEW c
      PROVE  Looks(acc, r, c)
  BY <1>1, <1>2, <1>3 DEF Looks, Widens
<1>6. QED
  BY <1>4, <1>5

\* A message that is begun, and is no result.
LEMMA MessageWidens ==
    ASSUME NEW acc \in Transcripts, NEW x \in Messages, x.calls = <<>>, x.role # "tool",
           NEW r, r.messages = Append(acc.messages, x), r.where = acc.where
    PROVE  /\ Widens(acc, r)
           /\ DOMAIN r.messages = DOMAIN acc.messages \cup {Len(acc.messages) + 1}
           /\ r.messages[Len(acc.messages) + 1] = x
           /\ Len(acc.messages) + 1 \in Nat
<1> DEFINE ms == acc.messages
<1>1. ms \in Seq(Messages)
  BY DEF Transcripts
<1> HIDE DEF ms
<1>2. /\ DOMAIN Append(ms, x) = 1..(Len(ms) + 1)
      /\ Append(ms, x)[Len(ms) + 1] = x
      /\ \A i \in 1..Len(ms) : Append(ms, x)[i] = ms[i]
  BY <1>1, AppendFacts
<1>3. DOMAIN ms = 1..Len(ms) /\ Len(ms) \in Nat
  BY <1>1
<1>4. DOMAIN r.messages = DOMAIN ms \cup {Len(ms) + 1}
  BY <1>2, <1>3 DEF ms
<1>5. r.messages[Len(ms) + 1] = x /\ \A i \in DOMAIN ms : r.messages[i] = ms[i]
  BY <1>2, <1>3 DEF ms
<1>6. Widens(acc, r)
  BY <1>4, <1>5 DEF Widens, ms
<1>7. QED
  BY <1>3, <1>4, <1>5, <1>6 DEF ms

\* What is open was begun by no result, whatever is opened or closed.
LEMMA WidensSpeaks ==
    ASSUME NEW acc, Speaks(acc), NEW r, Widens(acc, r),
           \A id \in DOMAIN r.opened :
              \/ id \in DOMAIN acc.opened /\ r.opened[id] = acc.opened[id]
              \/ r.opened[id] \in DOMAIN r.messages /\ r.messages[r.opened[id]].role # "tool"
    PROVE  Speaks(r)
BY DEF Speaks, Widens

\* Content is added to a message that is no result.
LEMMA ContentWidens ==
    ASSUME NEW acc \in Transcripts, NEW i \in DOMAIN acc.messages,
           acc.messages[i].role # "tool", NEW n \in Nat, NEW r,
           r = [acc EXCEPT !.messages[i].content = Append(@, n)]
    PROVE  Widens(acc, r) /\ r.opened = acc.opened
<1> DEFINE ms == acc.messages
           x == [ms[i] EXCEPT !.content = Append(ms[i].content, n)]
           y == [ms EXCEPT ![i] = x]
<1>1. ms \in Seq(Messages) /\ ms[i] \in Messages
  BY MessageFacts DEF Transcripts
<1>2. x.role = ms[i].role /\ x.calls = ms[i].calls
  <2> HIDE DEF ms
  <2>1. QED
    BY <1>1 DEF Messages
<1>3. r = [acc EXCEPT !.messages = y]
  OBVIOUS
<1>4. y[i] = x /\ DOMAIN y = DOMAIN ms /\ \A m \in DOMAIN ms \ {i} : y[m] = ms[m]
  <2> HIDE DEF x, ms
  <2>1. QED
    BY <1>1 DEF ms
<1> HIDE DEF x, y
<1>5. r.messages = y /\ r.opened = acc.opened /\ r.where = acc.where
  BY <1>3 DEF Transcripts
<1>6. Widens(acc, r)
  BY <1>2, <1>4, <1>5 DEF Widens
<1>7. QED
  BY <1>5, <1>6

\* What is not about a call widens the transcript.
LEMMA FoldWidens ==
    ASSUME NEW acc \in Transcripts, Kept(acc), NEW e \in Events, e.kind \notin CallKinds
    PROVE  Widens(acc, Fold(acc, e)) /\ Speaks(Fold(acc, e))
<1> DEFINE r == Fold(acc, e)
<1>1. CASE e.kind \in {"textStart", "thoughtStart"}
  <2> DEFINE x == Message(RoleOf(e.kind), <<>>)
             o == Bind(acc.opened, e.id, Len(acc.messages) + 1)
  <2>1. r = [acc EXCEPT !.messages = Append(acc.messages, x), !.opened = o]
    BY <1>1 DEF Fold, OpenMessage
  <2>2. x \in Messages /\ x.calls = <<>> /\ x.role # "tool"
    BY <1>1 DEF Message, Messages, Roles, RoleOf
  <2> HIDE DEF x, r
  <2>3. r.messages = Append(acc.messages, x) /\ r.opened = o /\ r.where = acc.where
    <3> HIDE DEF o
    <3>1. QED
      BY <2>1 DEF Transcripts
  <2>4. /\ Widens(acc, r) /\ Len(acc.messages) + 1 \in DOMAIN r.messages
        /\ r.messages[Len(acc.messages) + 1].role # "tool"
    BY <2>2, <2>3, MessageWidens
  <2>5. \A id \in DOMAIN o : \/ o[id] = Len(acc.messages) + 1
                             \/ id \in DOMAIN acc.opened /\ o[id] = acc.opened[id]
    BY DEF Bind
  <2> HIDE DEF o
  <2>6. Speaks(r)
    BY <2>3, <2>4, <2>5, WidensSpeaks DEF Kept
  <2>7. QED
    BY <2>4, <2>6 DEF r
<1>2. CASE e.kind \in {"text", "thought"}
  <2>1. e.chunk \in Nat
    BY <1>2 DEF Events
  <2>2. CASE e.id \in DOMAIN acc.opened
    <3> DEFINE i == acc.opened[e.id]
    <3>1. i \in DOMAIN acc.messages /\ acc.messages[i].role # "tool"
      BY <2>2 DEF Kept, Speaks
    <3>2. r = [acc EXCEPT !.messages[i].content = Append(@, e.chunk)]
      BY <1>2, <2>2 DEF Fold, AddContent
    <3> HIDE DEF r, i
    <3>3. Widens(acc, r) /\ r.opened = acc.opened
      BY <2>1, <3>1, <3>2, ContentWidens
    <3>4. Speaks(r)
      BY <3>3, WidensSpeaks DEF Kept
    <3>5. QED
      BY <3>3, <3>4 DEF r
  <2>3. CASE e.id \notin DOMAIN acc.opened
    <3>1. r = acc
      BY <1>2, <2>3 DEF Fold, AddContent
    <3>2. QED
      BY <3>1 DEF Kept, Widens
  <2>4. QED
    BY <2>2, <2>3
<1>3. CASE e.kind \in {"textEnd", "thoughtEnd"}
  <2> DEFINE o == Restrict(acc.opened, DOMAIN acc.opened \ {e.id})
  <2>1. r = [acc EXCEPT !.opened = o]
    BY <1>3 DEF Fold, PopMessage
  <2> HIDE DEF r
  <2>2. r.messages = acc.messages /\ r.opened = o /\ r.where = acc.where
    <3> HIDE DEF o
    <3>1. QED
      BY <2>1 DEF Transcripts
  <2>3. \A id \in DOMAIN o : id \in DOMAIN acc.opened /\ o[id] = acc.opened[id]
    BY DEF Restrict
  <2> HIDE DEF o
  <2>4. Widens(acc, r)
    BY <2>2 DEF Widens
  <2>5. Speaks(r)
    BY <2>2, <2>3, <2>4, WidensSpeaks DEF Kept
  <2>6. QED
    BY <2>4, <2>5 DEF r
<1>4. CASE e.kind \notin {"textStart", "thoughtStart", "text", "thought", "textEnd", "thoughtEnd"}
  <2>1. r = acc
    BY <1>4 DEF Fold, CallKinds
  <2>2. QED
    BY <2>1 DEF Kept, Widens
<1>5. QED
  BY <1>1, <1>2, <1>3, <1>4

\* So does what the user says.
LEMMA UserWidens ==
    ASSUME NEW acc \in Transcripts, Kept(acc), NEW n \in Nat
    PROVE  Widens(acc, AddUserText(acc, n)) /\ Speaks(AddUserText(acc, n))
<1> DEFINE r == AddUserText(acc, n)
           ms == acc.messages
<1>1. ms \in Seq(Messages)
  BY DEF Transcripts
<1>2. Widens(acc, r) /\ r.opened = acc.opened
  <2>1. CASE Trailing(acc, "user")
    <3>1. Len(ms) \in DOMAIN ms /\ ms[Len(ms)].role # "tool"
      BY <1>1, <2>1 DEF Trailing, Last
    <3>2. r = [acc EXCEPT !.messages[Len(ms)].content = Append(@, n)]
      BY <2>1 DEF AddUserText
    <3> HIDE DEF r
    <3>3. QED
      BY <3>1, <3>2, ContentWidens
  <2>2. CASE ~Trailing(acc, "user")
    <3> DEFINE x == Message("user", <<n>>)
    <3>1. r = [acc EXCEPT !.messages = Append(ms, x)]
      BY <2>2 DEF AddUserText
    <3>2. x \in Messages /\ x.calls = <<>> /\ x.role # "tool"
      BY DEF Message, Messages, Roles
    <3> HIDE DEF x, r
    <3>3. r.messages = Append(ms, x) /\ r.where = acc.where /\ r.opened = acc.opened
      BY <3>1 DEF Transcripts
    <3>4. QED
      BY <3>2, <3>3, MessageWidens
  <2>3. QED
    BY <2>1, <2>2
<1> HIDE DEF r
<1>3. Speaks(r)
  BY <1>2, WidensSpeaks DEF Kept
<1>4. QED
  BY <1>2, <1>3 DEF r

\* Results are the same where no message is new but such as are none.
LEMMA SameResults ==
    ASSUME NEW ms \in Seq(Messages), NEW r, SaysNothing(ms, r), NoNewResult(ms, r)
    PROVE  \A m, c : ResultAt(r, m, c) <=> ResultAt(ms, m, c)
<1>1. DOMAIN ms \subseteq DOMAIN r
  BY DEF SaysNothing
<1>2. QED
  BY <1>1 DEF SaysNothing, NoNewResult, ResultAt

\* A call that joins a message is shown there without arguments,
LEMMA JoinShows ==
    ASSUME NEW acc \in Transcripts, Kept(acc), NEW d \in Calls, NEW r, NEW i,
           Joins(acc, r, d, i)
    PROVE  /\ Kept(r)
           /\ \A c : c # d => Looks(acc, r, c)
           /\ Missing(acc, d) /\ Unanswered(acc, d) => StandsAt(r, d, Nil) /\ Unanswered(r, d)
<1> DEFINE ms == acc.messages
           rs == r.messages
           cs == CallsOf(ms, i)
           l  == Len(cs) + 1
           at == [message |-> i, index |-> l]
<1>1. /\ ms \in Seq(Messages) /\ SaysNothing(ms, rs) /\ r.opened = acc.opened
      /\ i \in DOMAIN rs /\ rs[i].calls = Append(cs, Entry(d, Nil))
      /\ OtherCalls(ms, rs, i) /\ NoNewResult(ms, rs)
      /\ r.where = Bind(acc.where, d, at)
  BY DEF Joins, Transcripts
<1>2. cs \in Seq(CallEntries)
  <2>1. CASE i \in DOMAIN ms
    <3>1. ms[i] \in Messages
      BY <1>1, <2>1, MessageFacts
    <3>2. QED
      BY <2>1, <3>1 DEF CallsOf, Messages
  <2>2. CASE i \notin DOMAIN ms
    <3>1. <<>> \in Seq(CallEntries)
      OBVIOUS
    <3>2. QED
      BY <2>2, <3>1 DEF CallsOf
  <2>3. QED
    BY <2>1, <2>2
<1>3. Entry(d, Nil) \in CallEntries /\ Entry(d, Nil).call = d /\ Entry(d, Nil).args = Nil
  BY DEF Entry, CallEntries, Inputs
<1> HIDE DEF cs, ms, rs
<1>4. /\ DOMAIN cs = 1..Len(cs) /\ Len(cs) \in Nat
      /\ DOMAIN rs[i].calls = 1..l /\ rs[i].calls[l] = Entry(d, Nil)
      /\ \A j \in 1..Len(cs) : rs[i].calls[j] = cs[j]
  <2>1. DOMAIN cs = 1..Len(cs) /\ Len(cs) \in Nat
    BY <1>2
  <2>2. QED
    BY <1>1, <1>2, <1>3, <2>1, AppendFacts
<1>5. l \notin DOMAIN cs /\ DOMAIN rs[i].calls = DOMAIN cs \cup {l}
  BY <1>4
<1> HIDE DEF l
<1>6. \A m, j, c : PlaceOf(rs, m, j, c) <=>
          PlaceOf(ms, m, j, c) \/ (m = i /\ j = l /\ c = d)
  <2>1. SUFFICES ASSUME NEW m, NEW j, NEW c
                 PROVE  PlaceOf(rs, m, j, c) <=>
                            PlaceOf(ms, m, j, c) \/ (m = i /\ j = l /\ c = d)
    OBVIOUS
  <2>2. CASE m = i
    <3>1. PlaceOf(ms, i, j, c) <=> j \in DOMAIN cs /\ cs[j].call = c
      BY DEF PlaceOf, CallsOf, cs
    <3>2. PlaceOf(rs, i, j, c) <=> j \in DOMAIN cs \cup {l} /\ rs[i].calls[j].call = c
      BY <1>1, <1>5 DEF PlaceOf
    <3>3. QED
      BY <1>3, <1>4, <1>5, <2>2, <3>1, <3>2
  <2>3. CASE m # i
    <3>1. m \in DOMAIN rs => m \in DOMAIN ms /\ rs[m].calls = ms[m].calls
      BY <1>1, <2>3 DEF OtherCalls
    <3>2. m \in DOMAIN ms => m \in DOMAIN rs
      BY <1>1 DEF SaysNothing
    <3>3. QED
      BY <2>3, <3>1, <3>2 DEF PlaceOf
  <2>4. QED
    BY <2>2, <2>3
<1>7. \A m, j, c : PlaceOf(ms, m, j, c) => ArgsAt(rs, m, j) = ArgsAt(ms, m, j)
  <2>1. SUFFICES ASSUME NEW m, NEW j, NEW c, PlaceOf(ms, m, j, c)
                 PROVE  ArgsAt(rs, m, j) = ArgsAt(ms, m, j)
    OBVIOUS
  <2>2. m \in DOMAIN ms /\ j \in DOMAIN ms[m].calls /\ m \in DOMAIN rs
    BY <1>1, <2>1 DEF PlaceOf, SaysNothing
  <2>3. CASE m = i
    <3>1. cs = ms[i].calls
      BY <2>2, <2>3 DEF cs, CallsOf
    <3>2. QED
      BY <1>4, <2>2, <2>3, <3>1 DEF ArgsAt
  <2>4. CASE m # i
    BY <1>1, <2>2, <2>4 DEF OtherCalls, ArgsAt
  <2>5. QED
    BY <2>3, <2>4
<1>8. ArgsAt(rs, i, l) = Nil
  BY <1>3, <1>4 DEF ArgsAt
<1>9. \A m, c : ResultAt(rs, m, c) <=> ResultAt(ms, m, c)
  BY <1>1, SameResults
<1>10. /\ DOMAIN r.where = DOMAIN acc.where \cup {d} /\ r.where[d] = at
       /\ \A c \in DOMAIN acc.where : c # d => r.where[c] = acc.where[c]
  BY <1>1 DEF Bind
<1>11. Kept(r)
  <2>1. Located(r)
    BY <1>6, <1>10 DEF Kept, Located, ms, rs
  <2>2. Speaks(r)
    BY <1>1 DEF Kept, Speaks, SaysNothing, ms, rs
  <2>3. QED
    BY <2>1, <2>2 DEF Kept
<1>12. \A c : c # d => Looks(acc, r, c)
  BY <1>6, <1>7, <1>9, <1>10 DEF Looks, ms, rs
<1>13. ASSUME Missing(acc, d), Unanswered(acc, d)
       PROVE  StandsAt(r, d, Nil) /\ Unanswered(r, d)
  <2>1. \A m, j : PlaceOf(rs, m, j, d) => m = i /\ j = l
    BY <1>6, <1>13 DEF Missing, ms
  <2>2. StandsAt(r, d, Nil)
    BY <1>8, <1>10, <2>1 DEF StandsAt, rs
  <2>3. QED
    BY <1>9, <1>13, <2>2 DEF Unanswered, ms, rs
<1>14. QED
  BY <1>11, <1>12, <1>13

\* ... whose arguments are shown there,
LEMMA ArgsShow ==
    ASSUME NEW acc \in Transcripts, Kept(acc), NEW d \in Calls, NEW x, NEW r,
           Argues(acc, r, d, x)
    PROVE  /\ Kept(r)
           /\ \A c : c # d => Looks(acc, r, c)
           /\ \A y : StandsAt(acc, d, y) => StandsAt(r, d, x)
           /\ Unanswered(acc, d) => Unanswered(r, d)
<1> DEFINE ms == acc.messages
           rs == r.messages
<1>1. /\ ms \in Seq(Messages) /\ SaysNothing(ms, rs) /\ r.opened = acc.opened
      /\ r.where = acc.where /\ DOMAIN rs = DOMAIN ms
  BY DEF Argues, Transcripts
<1>2. \A m, c : ResultAt(rs, m, c) <=> ResultAt(ms, m, c)
  BY <1>1, SameResults DEF NoNewResult
<1>3. Speaks(r)
  BY <1>1 DEF Kept, Speaks, SaysNothing
<1>4. CASE d \in DOMAIN acc.where
  <2> DEFINE m == acc.where[d].message
             j == acc.where[d].index
             cs == ms[m].calls
             ds == rs[m].calls
  <2>1. m \in DOMAIN ms /\ j \in DOMAIN cs /\ cs[j].call = d
    BY <1>4 DEF Kept, Located, PlaceOf
  <2>2. OtherCalls(ms, rs, m) /\ ds = [cs EXCEPT ![j] = Entry(d, x)]
    BY <1>4, <2>1 DEF Argues
  <2>3. ms[m] \in Messages
    BY <1>1, <2>1, MessageFacts
  <2>4. cs \in Seq(CallEntries)
    BY <2>3 DEF Messages
  <2> HIDE DEF m, j, cs, ds, ms, rs
  <2>5. /\ DOMAIN ds = DOMAIN cs /\ ds[j] = Entry(d, x)
        /\ \A k \in DOMAIN cs \ {j} : ds[k] = cs[k]
    BY <2>1, <2>2, <2>4
  <2>6. Entry(d, x).call = d /\ Entry(d, x).args = x
    BY DEF Entry
  <2>7. \A k : k \in DOMAIN ds <=> k \in DOMAIN cs
    BY <2>5
  <2>8. \A k \in DOMAIN cs : ds[k].call = cs[k].call
    BY <2>1, <2>5, <2>6
  <2>9. ASSUME NEW p, NEW k, NEW c
        PROVE  PlaceOf(rs, p, k, c) <=> PlaceOf(ms, p, k, c)
    <3>1. CASE p = m
      BY <1>1, <2>7, <2>8, <3>1 DEF PlaceOf, cs, ds
    <3>2. CASE p # m
      BY <1>1, <2>2, <3>2 DEF PlaceOf, OtherCalls
    <3>3. QED
      BY <3>1, <3>2
  <2>10. ArgsAt(rs, m, j) = x
    BY <2>5, <2>6 DEF ArgsAt, ds
  <2>11. ASSUME NEW p, NEW k, NEW c, PlaceOf(ms, p, k, c), c # d
         PROVE  ArgsAt(rs, p, k) = ArgsAt(ms, p, k)
    <3>1. CASE p = m
      <4>1. k \in DOMAIN cs \ {j}
        BY <2>1, <2>11, <3>1 DEF PlaceOf, cs
      <4>2. QED
        BY <2>5, <3>1, <4>1 DEF ArgsAt, cs, ds
    <3>2. CASE p # m
      BY <1>1, <2>2, <2>11, <3>2 DEF PlaceOf, OtherCalls, ArgsAt
    <3>3. QED
      BY <3>1, <3>2
  <2>12. Located(r)
    BY <1>1, <2>9 DEF Kept, Located, ms, rs
  <2>13. \A c : c # d => Looks(acc, r, c)
    BY <1>1, <1>2, <2>9, <2>11 DEF Looks, ms, rs
  <2>14. ASSUME NEW y, StandsAt(acc, d, y)
         PROVE  StandsAt(r, d, x)
    BY <1>1, <2>9, <2>10, <2>14 DEF StandsAt, ms, rs, m, j
  <2>15. Unanswered(acc, d) => Unanswered(r, d)
    BY <1>2 DEF Unanswered, ms, rs
  <2>16. QED
    BY <1>3, <2>12, <2>13, <2>14, <2>15 DEF Kept
<1>5. CASE d \notin DOMAIN acc.where
  <2>1. rs = ms
    BY <1>5 DEF Argues
  <2>2. Located(r)
    BY <1>1, <2>1 DEF Kept, Located
  <2>3. \A c : Looks(acc, r, c)
    BY <1>1, <2>1 DEF Looks
  <2>4. \A y : ~StandsAt(acc, d, y)
    BY <1>5 DEF StandsAt
  <2>5. Unanswered(acc, d) => Unanswered(r, d)
    BY <1>2 DEF Unanswered
  <2>6. QED
    BY <1>3, <2>2, <2>3, <2>4, <2>5 DEF Kept
<1>6. QED
  BY <1>4, <1>5

\* ... and the result of a call, after the call.
LEMMA ResultShows ==
    ASSUME NEW acc \in Transcripts, Kept(acc), NEW d \in Calls, NEW r, Results(acc, r, d)
    PROVE  /\ Kept(r)
           /\ \A c : c # d => Looks(acc, r, c)
           /\ \A y : StandsAt(acc, d, y) => StandsAt(r, d, y)
           /\ d \in DOMAIN acc.where /\ Unanswered(acc, d) => Answered(r, d)
<1> DEFINE ms == acc.messages
           rs == r.messages
           x  == Message("tool", <<d>>)
           n  == Len(ms) + 1
<1>1. ms \in Seq(Messages) /\ r.opened = acc.opened /\ r.where = acc.where
  BY DEF Results, Transcripts
<1>2. x \in Messages /\ x.role = "tool" /\ x.content = <<d>> /\ x.calls = <<>>
  BY DEF Message, Messages, Roles
<1>3. rs = Append(ms, x)
  BY DEF Results
<1> HIDE DEF x, ms, rs
<1>4. /\ DOMAIN ms = 1..Len(ms) /\ Len(ms) \in Nat /\ DOMAIN rs = 1..n /\ rs[n] = x
      /\ \A i \in DOMAIN ms : rs[i] = ms[i]
  BY <1>1, <1>2, <1>3, AppendFacts
<1>5. DOMAIN rs = DOMAIN ms \cup {n} /\ n \notin DOMAIN ms /\ \A i \in DOMAIN ms : i < n
  BY <1>4
<1> HIDE DEF n
<1>6. \A m, j, c : PlaceOf(rs, m, j, c) <=> PlaceOf(ms, m, j, c)
  <2>1. \A j : j \notin DOMAIN rs[n].calls
    BY <1>2, <1>4
  <2>2. QED
    BY <1>4, <1>5, <2>1 DEF PlaceOf
<1>7. \A m, j, c : PlaceOf(ms, m, j, c) => ArgsAt(rs, m, j) = ArgsAt(ms, m, j)
  BY <1>4 DEF PlaceOf, ArgsAt
<1>8. \A c, e : <<c>> = <<e>> => c = e
  OBVIOUS
<1>9. \A m, c : ResultAt(rs, m, c) <=> ResultAt(ms, m, c) \/ (m = n /\ c = d)
  BY <1>2, <1>4, <1>5, <1>8 DEF ResultAt
<1>10. Kept(r)
  <2>1. Located(r)
    BY <1>1, <1>6 DEF Kept, Located, ms, rs
  <2>2. Speaks(r)
    BY <1>1, <1>4, <1>5 DEF Kept, Speaks, ms, rs
  <2>3. QED
    BY <2>1, <2>2 DEF Kept
<1>11. \A c : c # d => Looks(acc, r, c)
  BY <1>1, <1>6, <1>7, <1>9 DEF Looks, ms, rs
<1>12. ASSUME NEW y, StandsAt(acc, d, y)
       PROVE  StandsAt(r, d, y)
  BY <1>1, <1>6, <1>7, <1>12 DEF StandsAt, ms, rs
<1>13. ASSUME d \in DOMAIN acc.where, Unanswered(acc, d)
       PROVE  Answered(r, d)
  <2>1. acc.where[d].message \in DOMAIN ms
    BY <1>13 DEF Kept, Located, PlaceOf, ms
  <2>2. ResultAt(rs, n, d) /\ \A q : ResultAt(rs, q, d) => q = n
    BY <1>9, <1>13 DEF Unanswered, ms
  <2>3. QED
    BY <1>1, <1>5, <1>13, <2>1, <2>2 DEF Answered, rs
<1>14. QED
  BY <1>10, <1>11, <1>12, <1>13

\* No event breaks the accumulator's places, and one that is not about a call
\* leaves what is shown of it.
LEMMA FoldKeeps ==
    ASSUME NEW acc \in Transcripts, Kept(acc), NEW e \in Events
    PROVE  /\ Kept(Fold(acc, e))
           /\ \A c : (e.kind \in CallKinds => e.call # c) => Looks(acc, Fold(acc, e), c)
<1>1. CASE e.kind \notin CallKinds
  <2>1. Widens(acc, Fold(acc, e)) /\ Speaks(Fold(acc, e))
    BY <1>1, FoldWidens
  <2>2. Located(Fold(acc, e)) /\ \A c : Looks(acc, Fold(acc, e), c)
    BY <2>1, WidensLooks DEF Kept
  <2>3. QED
    BY <2>1, <2>2 DEF Kept
<1>2. CASE e.kind \in CallKinds
  <2>1. e.call \in Calls /\ (e.kind = "callArgs" => e.input \in Inputs)
    BY <1>2 DEF Events, CallKinds
  <2>2. CASE e.kind = "callStart"
    <3>1. \E i : Joins(acc, Fold(acc, e), e.call, i)
      BY <2>1, <2>2, AttachCallFacts DEF Fold
    <3>2. QED
      BY <1>2, <2>1, <3>1, JoinShows
  <2>3. CASE e.kind = "callArgs"
    <3>1. Argues(acc, Fold(acc, e), e.call, e.input)
      BY <2>1, <2>3, SetArgsFacts DEF Fold
    <3>2. QED
      BY <1>2, <2>1, <3>1, ArgsShow
  <2>4. CASE e.kind = "callResult"
    <3>1. Results(acc, Fold(acc, e), e.call)
      BY <2>1, <2>4, ResultFacts DEF Fold
    <3>2. QED
      BY <1>2, <2>1, <3>1, ResultShows
  <2>5. CASE e.kind = "callEnd"
    <3>1. Fold(acc, e) = acc
      BY <2>5 DEF Fold
    <3>2. QED
      BY <3>1 DEF Looks
  <2>6. QED
    BY <1>2, <2>2, <2>3, <2>4, <2>5 DEF CallKinds
<1>3. QED
  BY <1>1, <1>2

\* What a transcript reads of a call grows by START, ARGS, END and RESULT.
LEMMA ReadsGrow ==
    ASSUME NEW acc \in Transcripts, NEW c \in Calls, NEW x \in Inputs, NEW kinds,
           ReadsAs(acc, c, kinds, x), "callResult" \notin kinds
    PROVE  /\ kinds = {} =>
                 ReadsAs(Fold(acc, CallEvent("callStart", c)), c, {"callStart"}, x)
           /\ kinds = {"callStart"} =>
                 ReadsAs(Fold(acc, ArgsEvent(c, x)), c, {"callStart", "callArgs"}, x)
           /\ ReadsAs(Fold(acc, CallEvent("callEnd", c)), c, kinds \cup {"callEnd"}, x)
           /\ "callStart" \in kinds =>
                 ReadsAs(Fold(acc, CallEvent("callResult", c)), c, kinds \cup {"callResult"}, x)
<1>1. Kept(acc) /\ Unanswered(acc, c)
  BY DEF ReadsAs
<1>2. ASSUME kinds = {}
      PROVE  ReadsAs(Fold(acc, CallEvent("callStart", c)), c, {"callStart"}, x)
  <2> DEFINE r == Fold(acc, CallEvent("callStart", c))
  <2>1. r = AttachCall(acc, c)
    BY DEF Fold, CallEvent
  <2> HIDE DEF r
  <2>2. PICK i : Joins(acc, r, c, i)
    BY <2>1, AttachCallFacts
  <2>3. Missing(acc, c)
    BY <1>2 DEF ReadsAs
  <2>4. Kept(r) /\ StandsAt(r, c, Nil) /\ Unanswered(r, c)
    BY <1>1, <2>2, <2>3, JoinShows
  <2>5. ReadsAs(r, c, {"callStart"}, x)
    BY <2>4 DEF ReadsAs
  <2>6. QED
    BY <2>5 DEF r
<1>3. ASSUME kinds = {"callStart"}
      PROVE  ReadsAs(Fold(acc, ArgsEvent(c, x)), c, {"callStart", "callArgs"}, x)
  <2> DEFINE r == Fold(acc, ArgsEvent(c, x))
  <2>1. r = SetArgs(acc, c, x)
    BY DEF Fold, ArgsEvent
  <2> HIDE DEF r
  <2>2. Argues(acc, r, c, x)
    BY <2>1, SetArgsFacts
  <2>3. StandsAt(acc, c, Nil)
    BY <1>3 DEF ReadsAs
  <2>4. Kept(r) /\ StandsAt(r, c, x) /\ Unanswered(r, c)
    BY <1>1, <2>2, <2>3, ArgsShow
  <2>5. ReadsAs(r, c, {"callStart", "callArgs"}, x)
    BY <2>4 DEF ReadsAs
  <2>6. QED
    BY <2>5 DEF r
<1>4. ReadsAs(Fold(acc, CallEvent("callEnd", c)), c, kinds \cup {"callEnd"}, x)
  <2>1. Fold(acc, CallEvent("callEnd", c)) = acc
    BY DEF Fold, CallEvent
  <2>2. QED
    BY <2>1 DEF ReadsAs
<1>5. ASSUME "callStart" \in kinds
      PROVE  ReadsAs(Fold(acc, CallEvent("callResult", c)), c, kinds \cup {"callResult"}, x)
  <2> DEFINE r == Fold(acc, CallEvent("callResult", c))
             y == IF "callArgs" \in kinds THEN x ELSE Nil
  <2>1. r = AddResult(acc, c)
    BY DEF Fold, CallEvent
  <2> HIDE DEF r
  <2>2. Results(acc, r, c)
    BY <2>1, ResultFacts
  <2>3. StandsAt(acc, c, y)
    BY <1>5 DEF ReadsAs
  <2>4. c \in DOMAIN acc.where
    BY <2>3 DEF StandsAt
  <2> HIDE DEF y
  <2>5. Kept(r) /\ StandsAt(r, c, y) /\ Answered(r, c)
    BY <1>1, <2>2, <2>3, <2>4, ResultShows
  <2>6. ReadsAs(r, c, kinds \cup {"callResult"}, x)
    BY <1>5, <2>5 DEF ReadsAs, y
  <2>7. QED
    BY <2>6 DEF r
<1>6. QED
  BY <1>2, <1>3, <1>4, <1>5

\* Before its arguments are shown they may be any.
LEMMA ReadsInput ==
    ASSUME NEW acc, NEW c, NEW kinds, NEW x, NEW y,
           ReadsAs(acc, c, kinds, x), "callArgs" \notin kinds
    PROVE  ReadsAs(acc, c, kinds, y)
BY DEF ReadsAs

\* Of a transcript of nothing, nothing is read.
LEMMA ReadsNothing ==
    ASSUME NEW c, NEW x
    PROVE  ReadsAs(EmptyTranscript, c, {}, x)
<1>1. /\ EmptyTranscript.messages = <<>> /\ DOMAIN EmptyTranscript.opened = {}
      /\ DOMAIN EmptyTranscript.where = {}
  BY DEF EmptyTranscript
<1>2. DOMAIN <<>> = {}
  OBVIOUS
<1>3. Kept(EmptyTranscript)
  BY <1>1 DEF Kept, Located, Speaks
<1>4. Missing(EmptyTranscript, c) /\ Unanswered(EmptyTranscript, c)
  BY <1>1, <1>2 DEF Missing, Unanswered, PlaceOf, ResultAt
<1>5. QED
  BY <1>3, <1>4 DEF ReadsAs

-----------------------------------------------------------------------------
(* The bridge of a replay, after the first n records of h.                 *)

\* What it has folded tells the chunks of these records, and what is open is
\* where the next chunk belongs.
Telling(h, n) ==
    {b \in Bridges : /\ b.sink = "replay"
                     /\ Covers(b.acc.messages, h, n)
                     /\ Nil \in {b.message, b.reasoning}
                     /\ OpenAt(b.acc, b.message, "assistant")
                     /\ OpenAt(b.acc, b.reasoning, "reasoning")}

\* Where nothing is said, what is open stays open.
LEMMA StaysOpen ==
    ASSUME NEW acc \in Transcripts, NEW r, SaysNothing(acc.messages, r.messages),
           r.opened = acc.opened, NEW id, NEW role, OpenAt(acc, id, role)
    PROVE  OpenAt(r, id, role)
<1>1. acc.messages \in Seq(Messages) /\ 0 \in Nat
  BY DEF Transcripts
<1>2. \A i : LastSaid(acc.messages, i) =>
               LastSaid(r.messages, i) /\ r.messages[i].role = acc.messages[i].role
  BY <1>1, SilentStep
<1>3. QED
  BY <1>2 DEF OpenAt

\* No handler of tool calls says anything.
LEMMA TellingCalls ==
    ASSUME NEW h, NEW n \in Nat
    PROVE  CallsStayIn(Telling(h, n))
<1>1. SUFFICES ASSUME NEW b \in Telling(h, n), NEW r \in Bridges, CallStep(b, r)
               PROVE  r \in Telling(h, n)
  BY DEF CallsStayIn, Telling
<1>2. /\ b \in Bridges /\ b.sink = "replay" /\ b.acc \in Transcripts
      /\ b.acc.messages \in Seq(Messages)
      /\ Covers(b.acc.messages, h, n)
      /\ Nil \in {b.message, b.reasoning}
      /\ OpenAt(b.acc, b.message, "assistant") /\ OpenAt(b.acc, b.reasoning, "reasoning")
  BY DEF Telling, Bridges, Transcripts
<1>3. SameRun(b, r) /\ SameFrames(b, r)
  BY <1>1 DEF CallStep
<1>4. CASE r.acc = b.acc
  BY <1>2, <1>3, <1>4 DEF Telling, SameRun, SameFrames
<1>5. ASSUME NEW e \in Events, e.kind \in CallKinds, r.acc = Fold(b.acc, e)
      PROVE  r \in Telling(h, n)
  <2>1. SaysNothing(b.acc.messages, r.acc.messages) /\ r.acc.opened = b.acc.opened
    BY <1>2, <1>5, CallFold
  <2>2. Covers(r.acc.messages, h, n)
    BY <1>2, <2>1, SilentStep
  <2>3. OpenAt(r.acc, b.message, "assistant") /\ OpenAt(r.acc, b.reasoning, "reasoning")
    BY <1>2, <2>1, StaysOpen
  <2>4. QED
    BY <1>2, <1>3, <2>2, <2>3 DEF Telling, SameRun, SameFrames
<1>6. QED
  BY <1>1, <1>2, <1>4, <1>5 DEF CallStep, SameOut, Told, AccAfter

\* Nor does closing what is open.
LEMMA TellingCloses ==
    ASSUME NEW h, NEW n \in Nat, NEW b \in Telling(h, n), NEW r
    PROVE  /\ ClosesReasoning(b, r) => r \in Telling(h, n) /\ r.reasoning = Nil /\ r.message = b.message
           /\ ClosesMessage(b, r) => r \in Telling(h, n) /\ r.message = Nil /\ r.reasoning = b.reasoning
<1>1. /\ b \in Bridges /\ b.sink = "replay" /\ b.acc \in Transcripts
      /\ Covers(b.acc.messages, h, n)
      /\ Nil \in {b.message, b.reasoning}
      /\ OpenAt(b.acc, b.message, "assistant") /\ OpenAt(b.acc, b.reasoning, "reasoning")
  BY DEF Telling, Bridges
<1>2. \A acc : OpenAt(acc, Nil, "assistant") /\ OpenAt(acc, Nil, "reasoning")
  BY DEF OpenAt
<1>3. ASSUME ClosesReasoning(b, r)
      PROVE  r \in Telling(h, n) /\ r.reasoning = Nil /\ r.message = b.message
  <2>0. r \in Bridges /\ SameRun(b, r) /\ r.reasoning = Nil /\ r.message = b.message
    BY <1>3 DEF ClosesReasoning
  <2>1. CASE b.reasoning = Nil
    <3>1. r.acc = b.acc
      BY <1>3, <2>1 DEF ClosesReasoning, SameOut
    <3>2. QED
      BY <1>1, <1>2, <2>0, <3>1 DEF Telling, SameRun
  <2>2. CASE b.reasoning # Nil
    <3>1. r.acc = Fold(b.acc, FrameEvent("thoughtEnd", b.reasoning))
      BY <1>1, <1>3, <2>2 DEF ClosesReasoning, Told, AccAfter
    <3>2. r.acc.messages = b.acc.messages
      BY <1>1, <3>1, OtherFold
    <3>3. r.message = Nil
      BY <1>1, <2>0, <2>2
    <3>4. QED
      BY <1>1, <1>2, <2>0, <3>2, <3>3 DEF Telling, SameRun
  <2>3. QED
    BY <2>1, <2>2
<1>4. ASSUME ClosesMessage(b, r)
      PROVE  r \in Telling(h, n) /\ r.message = Nil /\ r.reasoning = b.reasoning
  <2>0. r \in Bridges /\ SameRun(b, r) /\ r.message = Nil /\ r.reasoning = b.reasoning
    BY <1>4 DEF ClosesMessage
  <2>1. CASE b.message = Nil
    <3>1. r.acc = b.acc
      BY <1>4, <2>1 DEF ClosesMessage, SameOut
    <3>2. QED
      BY <1>1, <1>2, <2>0, <3>1 DEF Telling, SameRun
  <2>2. CASE b.message # Nil
    <3>1. r.acc = Fold(b.acc, FrameEvent("textEnd", b.message))
      BY <1>1, <1>4, <2>2 DEF ClosesMessage, Told, AccAfter
    <3>2. r.acc.messages = b.acc.messages
      BY <1>1, <3>1, OtherFold
    <3>3. r.reasoning = Nil
      BY <1>1, <2>0, <2>2
    <3>4. QED
      BY <1>1, <1>2, <2>0, <3>2, <3>3 DEF Telling, SameRun
  <2>3. QED
    BY <2>1, <2>2
<1>5. QED
  BY <1>3, <1>4

\* ... and then nothing is open.
LEMMA TellingSilences ==
    ASSUME NEW h, NEW n \in Nat, NEW b \in Telling(h, n), NEW r, Silences(b, r)
    PROVE  r \in Telling(h, n) /\ r.message = Nil /\ r.reasoning = Nil
<1>1. PICK m \in Bridges : ClosesReasoning(b, m) /\ ClosesMessage(m, r)
  BY DEF Silences
<1>2. m \in Telling(h, n) /\ m.reasoning = Nil
  BY <1>1, TellingCloses
<1>3. QED
  BY <1>1, <1>2, TellingCloses

\* A message is begun where none is open.
LEMMA TellingStarts ==
    ASSUME NEW h, NEW n \in Nat, NEW b \in Telling(h, n), b.message = Nil, b.reasoning = Nil,
           NEW kind \in {"textStart", "thoughtStart"}, NEW id \in Nat,
           NEW r \in Bridges, SameRun(b, r), Told(b, r, FrameEvent(kind, id)),
           r.message = IF kind = "textStart" THEN id ELSE Nil,
           r.reasoning = IF kind = "textStart" THEN Nil ELSE id
    PROVE  r \in Telling(h, n)
<1>1. /\ b \in Bridges /\ b.sink = "replay" /\ b.acc \in Transcripts
      /\ b.acc.messages \in Seq(Messages) /\ Covers(b.acc.messages, h, n)
  BY DEF Telling, Bridges, Transcripts
<1>2. r.acc = Fold(b.acc, FrameEvent(kind, id))
  BY <1>1 DEF Told, AccAfter
<1>3. SaysNothing(b.acc.messages, r.acc.messages) /\ OpenAt(r.acc, id, RoleOf(kind))
  BY <1>1, <1>2, StartFold
<1>4. Covers(r.acc.messages, h, n)
  BY <1>1, <1>3, SilentStep
<1>5. \A acc : OpenAt(acc, Nil, "assistant") /\ OpenAt(acc, Nil, "reasoning")
  BY DEF OpenAt
<1>6. RoleOf(kind) = IF kind = "textStart" THEN "assistant" ELSE "reasoning"
  BY DEF RoleOf
<1>7. OpenAt(r.acc, r.message, "assistant") /\ OpenAt(r.acc, r.reasoning, "reasoning")
  BY <1>3, <1>5, <1>6
<1>8. QED
  BY <1>1, <1>4, <1>7 DEF Telling, SameRun

\* The next chunk is said in the message that is open for it.
LEMMA TellingSays ==
    ASSUME NEW h, NEW n \in Nat, NEW b \in Telling(h, n), NEW kind \in ChunkKinds,
           h[n + 1].kind = kind,
           NEW id, id = (IF kind = "text" THEN b.message ELSE b.reasoning), id # Nil,
           NEW r, Says(b, r, ChunkEvent(kind, id, n + 1))
    PROVE  r \in Telling(h, n + 1)
<1>1. /\ b \in Bridges /\ b.sink = "replay" /\ b.acc \in Transcripts
      /\ b.acc.messages \in Seq(Messages) /\ Covers(b.acc.messages, h, n)
      /\ OpenAt(b.acc, b.message, "assistant") /\ OpenAt(b.acc, b.reasoning, "reasoning")
      /\ Nil \in {b.message, b.reasoning}
  BY DEF Telling, Bridges, Transcripts
<1>2. id \in Nat \cup {Nil} /\ n + 1 \in Nat /\ kind \in {"text", "thought"}
  BY <1>1 DEF Bridges, ChunkKinds
<1> DEFINE i == b.acc.opened[id]
<1>3. OpenAt(b.acc, id, RoleOf(kind))
  BY <1>1, <1>2 DEF RoleOf
<1>4. /\ id \in DOMAIN b.acc.opened /\ i \in DOMAIN b.acc.messages
      /\ LastSaid(b.acc.messages, i) /\ b.acc.messages[i].role = RoleOf(kind)
  BY <1>3 DEF OpenAt, LastSaid
<1>5. r.acc = Fold(b.acc, ChunkEvent(kind, id, n + 1))
  BY <1>1 DEF Says, Told, AccAfter
<1>6. Adds(b.acc.messages, r.acc.messages, i, n + 1) /\ r.acc.opened = b.acc.opened
  BY <1>1, <1>2, <1>4, <1>5, ContentFold
<1> HIDE DEF i
<1>7. Covers(r.acc.messages, h, n + 1) /\ LastSaid(r.acc.messages, i)
  BY <1>1, <1>4, <1>6, SaidStep DEF SpokenKinds
<1>8. r.acc.messages[i].role = RoleOf(kind)
  BY <1>4, <1>6 DEF Adds
<1>9. OpenAt(r.acc, id, RoleOf(kind))
  BY <1>4, <1>6, <1>7, <1>8 DEF OpenAt, i
<1>10. \A acc : OpenAt(acc, Nil, "assistant") /\ OpenAt(acc, Nil, "reasoning")
  BY DEF OpenAt
<1>11. r \in Bridges /\ r.sink = "replay" /\ r.message = b.message /\ r.reasoning = b.reasoning
  BY <1>1 DEF Says, SameRun, SameFrames
<1>12. OpenAt(r.acc, r.message, "assistant") /\ OpenAt(r.acc, r.reasoning, "reasoning")
  BY <1>1, <1>2, <1>9, <1>10, <1>11 DEF RoleOf
<1>13. QED
  BY <1>1, <1>7, <1>11, <1>12 DEF Telling

-----------------------------------------------------------------------------
(* The handlers of a replay.                                               *)

\* A text delta that is the next record,
LEMMA TellingText ==
    ASSUME NEW h, NEW n \in Nat, NEW b \in Telling(h, n), h[n + 1].kind = "text"
    PROVE  TextDelta(b, n + 1) \in Telling(h, n + 1)
<1> DEFINE m == CloseReasoning(b)
           o == OpenText(m)
           r == SayText(o, n + 1)
<1>1. b \in Bridges
  BY DEF Telling
<1>2. m \in Telling(h, n) /\ m.reasoning = Nil /\ m \in Bridges
  BY <1>1, CloseReasoningFacts, TellingCloses DEF ClosesReasoning
<1>3. OpensText(m, o)
  <2> HIDE DEF m
  <2>1. QED
    BY <1>2, OpenTextFacts
<1> HIDE DEF m, o
<1>4. m.fresh \in Nat /\ m.fresh # Nil /\ o \in Bridges /\ o.reasoning = Nil
  BY <1>2, <1>3, ConstantsAssumption DEF OpensText, Bridges
<1>5. o \in Telling(h, n) /\ o.message # Nil
  <2>1. CASE m.message # Nil
    BY <1>2, <1>3, <1>4, <2>1 DEF OpensText, Telling, SameRun, SameFrames, SameOut
  <2>2. CASE m.message = Nil
    <3>1. /\ SameRun(m, o) /\ Told(m, o, FrameEvent("textStart", m.fresh))
          /\ o.message = m.fresh
      BY <1>3, <2>2 DEF OpensText
    <3>2. QED
      BY <1>2, <1>4, <2>2, <3>1, TellingStarts
  <2>3. QED
    BY <2>1, <2>2
<1>6. Says(o, r, ChunkEvent("text", o.message, n + 1))
  BY <1>4, SayFacts
<1> HIDE DEF r
<1>7. r \in Telling(h, n + 1)
  BY <1>5, <1>6, TellingSays DEF ChunkKinds
<1>8. QED
  BY <1>7 DEF TextDelta, r, o, m

\* ... a thought delta,
LEMMA TellingThought ==
    ASSUME NEW h, NEW n \in Nat, NEW b \in Telling(h, n), h[n + 1].kind = "thought"
    PROVE  ThoughtDelta(b, n + 1) \in Telling(h, n + 1)
<1> DEFINE o == OpenThought(b)
           r == SayThought(o, n + 1)
<1>1. b \in Bridges
  BY DEF Telling
<1>2. OpensThought(b, o) /\ o \in Bridges
  BY <1>1, OpenThoughtFacts
<1> HIDE DEF o
<1>3. o \in Telling(h, n) /\ o.reasoning # Nil
  <2>1. CASE b.reasoning # Nil
    BY <1>2, <2>1 DEF OpensThought
  <2>2. CASE b.reasoning = Nil
    <3>1. PICK m \in Bridges :
            /\ ClosesMessage(b, m)
            /\ o \in Bridges /\ SameRun(m, o) /\ SameCalls(m, o)
            /\ o.message = m.message /\ o.reasoning = m.fresh /\ o.fresh = m.fresh + 1
            /\ Told(m, o, FrameEvent("thoughtStart", m.fresh))
      BY <1>2, <2>2 DEF OpensThought
    <3>2. m \in Telling(h, n) /\ m.message = Nil /\ m.reasoning = Nil
      BY <2>2, <3>1, TellingCloses
    <3>3. m.fresh \in Nat /\ m.fresh # Nil
      BY ConstantsAssumption DEF Bridges
    <3>4. QED
      BY <3>1, <3>2, <3>3, TellingStarts
  <2>3. QED
    BY <2>1, <2>2
<1>4. Says(o, r, ChunkEvent("thought", o.reasoning, n + 1))
  BY <1>2, SayFacts
<1> HIDE DEF r
<1>5. r \in Telling(h, n + 1)
  BY <1>3, <1>4, TellingSays DEF ChunkKinds
<1>6. QED
  BY <1>5 DEF ThoughtDelta, r, o

\* ... what the user says, in the trailing user's message or a new one, when
\* no text message is open,
LEMMA TellingUser ==
    ASSUME NEW h, NEW n \in Nat, NEW b \in Telling(h, n), h[n + 1].kind = "user",
           b.message = Nil
    PROVE  UserChunk(b, n + 1) \in Telling(h, n + 1)
<1> DEFINE m == CloseReasoning(b)
           ms == m.acc.messages
           a == AddUserText(m.acc, n + 1)
           r == UserChunk(b, n + 1)
<1>1. b \in Bridges /\ b.sink = "replay"
  BY DEF Telling
<1>2. m \in Telling(h, n) /\ m.reasoning = Nil /\ m.message = Nil
  BY <1>1, CloseReasoningFacts, TellingCloses
<1>3. r = [m EXCEPT !.acc = a]
  BY <1>1 DEF UserChunk
<1> HIDE DEF m, r
<1>4. /\ m \in Bridges /\ m.sink = "replay" /\ m.acc \in Transcripts
      /\ ms \in Seq(Messages) /\ Covers(ms, h, n)
  BY <1>2 DEF Telling, Bridges, Transcripts
<1>5. a \in Transcripts
  BY <1>4, AddUserTextType
<1>6. RoleOf("user") = "user" /\ "user" \in Roles \ {"tool"} /\ "user" \in SpokenKinds
  BY DEF RoleOf, Roles, SpokenKinds
<1>7. Covers(a.messages, h, n + 1)
  <2>1. CASE Trailing(m.acc, "user")
    <3> DEFINE l == Len(ms)
               x == [ms[l] EXCEPT !.content = Append(ms[l].content, n + 1)]
               y == [ms EXCEPT ![l] = x]
    <3>1. l \in DOMAIN ms /\ ms[l].role = "user" /\ l \in Nat
      BY <1>4, <2>1 DEF Trailing, Last
    <3>2. a = [m.acc EXCEPT !.messages = y]
      BY <2>1 DEF AddUserText
    <3>3. ms[l] \in Messages
      BY <1>4, <3>1, MessageFacts
    <3>4. x.role = ms[l].role /\ x.calls = ms[l].calls /\ x.content = Append(ms[l].content, n + 1)
      BY <3>3 DEF Messages
    <3>5. y[l] = x /\ DOMAIN y = DOMAIN ms /\ \A k \in DOMAIN ms \ {l} : y[k] = ms[k]
      <4> HIDE DEF x, ms
      <4>1. QED
        BY <1>4, <3>1
    <3> HIDE DEF x, y
    <3>6. a.messages = y /\ y \in Seq(Messages)
      BY <1>4, <1>5, <3>2 DEF Transcripts
    <3>7. LastSaid(ms, l)
      BY <1>4, <3>1 DEF LastSaid
    <3>8. Adds(ms, y, l, n + 1)
      <4> HIDE DEF l, ms
      <4>1. QED
        BY <3>4, <3>5, <3>6 DEF Adds
    <3>9. Covers(y, h, n + 1)
      <4> HIDE DEF l, ms
      <4>1. QED
        BY <1>4, <1>6, <3>1, <3>7, <3>8, SaidStep
    <3>10. QED
      BY <3>6, <3>9
  <2>2. CASE ~Trailing(m.acc, "user")
    <3> DEFINE x == Append(ms, Message("user", <<>>))
               y == Append(ms, Message("user", <<n + 1>>))
               l == Len(ms) + 1
    <3>1. a = [m.acc EXCEPT !.messages = y]
      BY <2>2 DEF AddUserText
    <3>2. /\ Message("user", <<>>) \in Messages /\ Message("user", <<n + 1>>) \in Messages
          /\ Message("user", <<>>).role = "user" /\ Message("user", <<n + 1>>).role = "user"
          /\ Message("user", <<>>).content = <<>> /\ Message("user", <<n + 1>>).content = <<n + 1>>
          /\ Message("user", <<>>).calls = Message("user", <<n + 1>>).calls
      BY DEF Message, Messages, Roles
    <3>3. SaysNothing(ms, x) /\ LastSaid(x, l) /\ x[l].role = "user" /\ x \in Seq(Messages)
      <4>1. SaysNothing(ms, x) /\ LastSaid(x, l) /\ x[l].role = "user"
        <5> HIDE DEF ms
        <5>1. QED
          BY <1>4, <1>6, BeginsMessage
      <4>2. QED
        BY <4>1 DEF SaysNothing
    <3>4. Covers(x, h, n)
      <4> HIDE DEF x, ms
      <4>1. QED
        BY <1>4, <3>3, SilentStep
    <3>5. /\ DOMAIN x = 1..l /\ x[l] = Message("user", <<>>)
          /\ \A k \in 1..Len(ms) : x[k] = ms[k]
          /\ DOMAIN y = 1..l /\ y[l] = Message("user", <<n + 1>>)
          /\ \A k \in 1..Len(ms) : y[k] = ms[k]
          /\ y \in Seq(Messages)
      <4> HIDE DEF ms
      <4>1. QED
        BY <1>4, <3>2, AppendFacts
    <3>6. Len(ms) \in Nat /\ l \in 1..l
      BY <1>4
    <3>7. Append(<<>>, n + 1) = <<n + 1>>
      OBVIOUS
    <3>8. Adds(x, y, l, n + 1)
      <4> HIDE DEF x, y, ms
      <4>1. \A k \in DOMAIN x \ {l} : y[k] = x[k]
        BY <3>5, <3>6
      <4>2. QED
        BY <3>2, <3>5, <3>6, <3>7, <4>1 DEF Adds
    <3>9. Covers(y, h, n + 1)
      <4> HIDE DEF x, y, l
      <4>1. QED
        BY <1>6, <3>3, <3>4, <3>8, SaidStep
    <3> HIDE DEF y
    <3>10. a.messages = y
      BY <1>4, <3>1 DEF Transcripts
    <3>11. QED
      BY <3>9, <3>10
  <2>3. QED
    BY <2>1, <2>2
<1> HIDE DEF a
<1>8. r \in Bridges /\ r.acc = a /\ r.sink = "replay" /\ r.message = Nil /\ r.reasoning = Nil
  BY <1>2, <1>3, <1>4, <1>5 DEF Bridges
<1>9. r \in Telling(h, n + 1)
  BY <1>7, <1>8 DEF Telling, OpenAt
<1>10. QED
  BY <1>9 DEF r

\* ... and a record that says nothing.
LEMMA TellingNext ==
    ASSUME NEW h, NEW n \in Nat, NEW b \in Telling(h, n), h[n + 1].kind \notin SpokenKinds
    PROVE  b \in Telling(h, n + 1)
BY UnspokenRecord DEF Telling

\* The end of a turn, which in a replay leaves the sink, closes what is open.
LEMMA TellingEnds ==
    ASSUME NEW h, NEW n \in Nat, NEW b \in Telling(h, n), NEW rank \in Seq(Calls)
    PROVE  FinishRun(b, rank) \in Telling(h, n) /\ FinishRun(b, rank).message = Nil
<1> DEFINE r == FinishRun(b, rank)
<1>1. b \in Bridges /\ b.sink = "replay" /\ b.turn \in Nat
  BY DEF Telling, Bridges
<1>2. Ends(b, r, rank, "runFinished")
  BY <1>1, EndRunFacts
<1> HIDE DEF r
<1>3. PICK m \in Bridges :
        /\ Silences(b, m)
        /\ Leaves(CloseCalls(m, rank), r, RunEvent("runFinished", b.turn), "replay")
  BY <1>1, <1>2 DEF Ends
<1> DEFINE x == CloseCalls(m, rank)
<1>4. m \in Telling(h, n) /\ m.message = Nil /\ m.reasoning = Nil
  BY <1>3, TellingSilences
<1>5. x \in Telling(h, n)
  BY <1>4, TellingCalls, CallHandlersStay
<1>6. x.message = Nil /\ x.reasoning = Nil
  BY <1>3, <1>4, CloseCallsFacts DEF SameFrames
<1>7. Leaves(x, r, RunEvent("runFinished", b.turn), "replay")
  BY <1>3
<1> HIDE DEF x
<1>8. r.acc = x.acc
  <2>1. x.sink = "replay" /\ x.acc \in Transcripts
    BY <1>5 DEF Telling, Bridges
  <2>2. r.acc = Fold(x.acc, RunEvent("runFinished", b.turn))
    BY <1>7, <2>1 DEF Leaves, Told, AccAfter
  <2>3. QED
    BY <2>1, <2>2, OtherFold
<1>9. r \in Bridges /\ r.sink = "replay" /\ r.message = Nil /\ r.reasoning = Nil
  BY <1>6, <1>7 DEF Leaves, SameFrames
<1>10. r \in Telling(h, n)
  BY <1>5, <1>8, <1>9 DEF Telling, OpenAt
<1>11. QED
  BY <1>9, <1>10 DEF r

-----------------------------------------------------------------------------
(* Histories, and their replay.                                            *)

\* What the agent gives with an update of a call.
Carries(u) ==
    /\ u.kind \in {"toolCall", "progress", "completed"} => u.call \in Calls
    /\ u.kind = "toolCall" => u.input \in {"initial", Nil}

Histories == {h \in Seq(Records) : \A i \in DOMAIN h : Carries(h[i])}

\* A record of a history.
LEMMA RecordIn ==
    ASSUME NEW h \in Histories, NEW i \in 1..Len(h)
    PROVE  h[i] \in Records /\ Carries(h[i])
BY DEF Histories

\* An update takes a bridge to a bridge.
LEMMA UpdateType ==
    ASSUME NEW b \in Bridges, NEW u \in Records, Carries(u), NEW n \in Nat,
           NEW rank \in Seq(Calls)
    PROVE  SessionUpdate(b, u, n, rank) \in Bridges
<1>1. /\ u.kind \in {"user", "text", "thought", "toolCall", "progress", "completed", "turnEnd"}
      /\ u.input \in Inputs
  BY DEF Records
<1>2. UserChunk(b, n) \in Bridges
  <2> DEFINE m == CloseReasoning(b)
             a == AddUserText(m.acc, n)
  <2>1. m \in Bridges
    BY CloseReasoningFacts DEF ClosesReasoning
  <2>2. UserChunk(b, n) = b \/ UserChunk(b, n) = [m EXCEPT !.acc = a]
    BY DEF UserChunk
  <2> HIDE DEF m
  <2>3. a \in Transcripts
    BY <2>1, AddUserTextType DEF Bridges
  <2> HIDE DEF a
  <2>4. QED
    BY <2>1, <2>2, <2>3 DEF Bridges
<1>3. TextDelta(b, n) \in Bridges /\ ThoughtDelta(b, n) \in Bridges
  BY HandlersKeepRun
<1>4. FinishRun(b, rank) \in Bridges
  BY EndRunFacts, EndedRun
<1>5. ASSUME u.kind \in {"toolCall", "progress", "completed"}
      PROVE  /\ u.kind = "toolCall" => ToolCall(b, u.call, u.input) \in Bridges
             /\ u.kind = "progress" => Progress(b, u.call, u.input) \in Bridges
             /\ u.kind = "completed" => Completed(b, u.call, u.input) \in Bridges
  BY <1>1, <1>5, HandlersKeepRun DEF Carries
<1>6. QED
  BY <1>1, <1>2, <1>3, <1>4, <1>5 DEF SessionUpdate, TurnEnd

\* The bridge that a replay begins with.
NewReplay == [NewBridge EXCEPT !.sink = "replay"]

\* It is a bridge, in the state that the replay of nothing leaves it in.
LEMMA NewReplayType ==
    /\ NewReplay \in Bridges /\ NewReplay.sink = "replay"
    /\ NewReplay.message = Nil /\ NewReplay.reasoning = Nil
    /\ NewReplay.acc = EmptyTranscript
<1>1. EmptyTranscript \in Transcripts /\ <<>> \in Seq(PendingCalls) /\ <<>> \in Seq(Events)
  BY EmptyTypes
<1>2. QED
  BY <1>1 DEF NewReplay, NewBridge, Bridges, Sinks

\* g: the bridge after each record of the history.
LoadedBy(h, rank, g) ==
    /\ g \in [0..Len(h) -> Bridges]
    /\ g[0] = NewReplay
    /\ \A i \in 1..Len(h) : g[i] = SessionUpdate(g[i - 1], h[i], i, rank)

\* A replay is its loop, and the end of the run that is open then.
LEMMA ReplayFacts ==
    ASSUME NEW h \in Histories, NEW rank \in Seq(Calls)
    PROVE  \E g : /\ LoadedBy(h, rank, g)
                  /\ Replay(h, rank) = FinishRun(g[Len(h)], rank).acc.messages
<1> DEFINE n == Len(h)
           F == [i \in 1..n |-> [y \in Bridges |-> SessionUpdate(y, h[i], i, rank)]]
           Is(g) == g = [i \in 0..n |-> IF i = 0 THEN [NewBridge EXCEPT !.sink = "replay"]
                           ELSE SessionUpdate(g[i - 1], h[i], i, rank)]
<1>1. n \in Nat
  BY DEF Histories
<1>2. \A i \in 1..n, y \in Bridges : SessionUpdate(y, h[i], i, rank) \in Bridges
  <2>1. \A i \in 1..n : i \in Nat
    OBVIOUS
  <2>2. QED
    BY <2>1, RecordIn, UpdateType
<1>3. F \in Steps(n, Bridges)
  BY <1>2 DEF Steps
<1>4. PICK g : Iterates(g, n, Bridges, NewReplay, F)
  <2> HIDE DEF n, F
  <2>1. QED
    BY <1>1, <1>3, NewReplayType, Iteration
<1>5. g[0] = NewReplay /\ g \in [0..n -> Bridges]
  BY <1>4 DEF Iterates
<1>6. \A i \in 1..n : g[i] = SessionUpdate(g[i - 1], h[i], i, rank)
  <2>1. SUFFICES ASSUME NEW i \in 1..n
                 PROVE  g[i] = SessionUpdate(g[i - 1], h[i], i, rank)
    OBVIOUS
  <2>2. i - 1 \in 0..n
    BY <1>1
  <2>3. g[i] = F[i][g[i - 1]] /\ g[i - 1] \in Bridges
    <3> HIDE DEF F, n
    <3>1. QED
      BY <1>4, <2>1, <2>2 DEF Iterates
  <2>4. QED
    BY <2>3
<1>7. Is(g)
  <2> HIDE DEF F
  <2>1. \A i \in 0..n : g[i] = IF i = 0 THEN [NewBridge EXCEPT !.sink = "replay"]
                           ELSE SessionUpdate(g[i - 1], h[i], i, rank)
    <3>1. \A i \in 0..n : i # 0 => i \in 1..n
      BY <1>1
    <3> HIDE DEF n
    <3>2. QED
      BY <1>5, <1>6, <3>1 DEF NewReplay
  <2>2. g = [i \in 0..n |-> g[i]]
    BY <1>5
  <2>3. QED
    BY <2>1, <2>2
<1>8. PICK k : Is(k) /\ Replay(h, rank) = FinishRun(k[n], rank).acc.messages
  <2> DEFINE k == CHOOSE k : Is(k)
  <2>1. Is(k)
    BY <1>7
  <2>2. Replay(h, rank) = FinishRun(k[n], rank).acc.messages
    BY DEF Replay
  <2>3. QED
    BY <2>1, <2>2
<1>9. /\ k = [i \in 0..n |-> k[i]] /\ k[0] = NewReplay
      /\ \A i \in 1..n : k[i] = SessionUpdate(k[i - 1], h[i], i, rank)
  <2> DEFINE G(i) == IF i = 0 THEN [NewBridge EXCEPT !.sink = "replay"]
                       ELSE SessionUpdate(k[i - 1], h[i], i, rank)
  <2>1. k = [i \in 0..n |-> G(i)]
    BY <1>8
  <2>2. /\ 0 \in 0..n /\ G(0) = NewReplay
        /\ \A i \in 1..n : /\ i \in 0..n
                           /\ G(i) = SessionUpdate(k[i - 1], h[i], i, rank)
    BY <1>1 DEF NewReplay
  <2> HIDE DEF G, n
  <2>3. \A i \in 0..n : k[i] = G(i)
    BY <2>1
  <2>4. k = [i \in 0..n |-> k[i]]
    BY <2>1
  <2>5. QED
    BY <2>2, <2>3, <2>4
<1>10. \A i \in 0..n : k[i] \in Bridges
  <2> DEFINE S == {i \in 0..n : k[i] \in Bridges}
  <2>1. 0 \in S
    BY <1>1, <1>9, NewReplayType
  <2>2. \A i \in 0..n : i \in S /\ i < n => i + 1 \in S
    <3>1. SUFFICES ASSUME NEW i \in 0..n, k[i] \in Bridges, i < n
                   PROVE  k[i + 1] \in Bridges
      BY <1>1
    <3>2. i + 1 \in 1..n /\ (i + 1) - 1 = i
      BY <1>1, <3>1
    <3>3. k[i + 1] = SessionUpdate(k[i], h[i + 1], i + 1, rank)
      BY <1>9, <3>2
    <3>4. QED
      BY <1>2, <3>1, <3>2, <3>3
  <2>3. 0..n \subseteq S
    <3> HIDE DEF S, n
    <3>1. QED
      BY <1>1, <2>1, <2>2, IntervalInduction
  <2>4. QED
    BY <2>3
<1>11. LoadedBy(h, rank, k)
  BY <1>9, <1>10 DEF LoadedBy
<1>12. QED
  BY <1>8, <1>11

-----------------------------------------------------------------------------
(* A snapshot tells the conversation.                                      *)

\* An update keeps what has been told, and adds to it what it says.
LEMMA TellingUpdate ==
    ASSUME NEW h \in Histories, NEW n \in Nat, n + 1 \in 1..Len(h),
           NEW b \in Telling(h, n), h[n + 1].kind = "user" => b.message = Nil,
           NEW rank \in Seq(Calls)
    PROVE  LET r == SessionUpdate(b, h[n + 1], n + 1, rank)
           IN  /\ r \in Telling(h, n + 1)
               /\ h[n + 1].kind = "turnEnd" => r.message = Nil
<1> DEFINE u == h[n + 1]
           r == SessionUpdate(b, u, n + 1, rank)
<1>1. u \in Records /\ Carries(u)
  BY RecordIn
<1>2. u.kind \in {"user", "text", "thought", "toolCall", "progress", "completed", "turnEnd"}
      /\ u.input \in Inputs
  BY <1>1 DEF Records
<1>3. b \in Bridges /\ b.sink = "replay"
  BY DEF Telling
<1>4. CASE u.kind = "user"
  <2>1. r = UserChunk(b, n + 1)
    BY <1>3, <1>4 DEF SessionUpdate
  <2>2. QED
    BY <1>4, <2>1, TellingUser
<1>5. CASE u.kind = "text"
  <2>1. r = TextDelta(b, n + 1)
    BY <1>3, <1>5 DEF SessionUpdate
  <2>2. QED
    BY <1>5, <2>1, TellingText
<1>6. CASE u.kind = "thought"
  <2>1. r = ThoughtDelta(b, n + 1)
    BY <1>3, <1>6 DEF SessionUpdate
  <2>2. QED
    BY <1>6, <2>1, TellingThought
<1>7. CASE u.kind \in {"toolCall", "progress", "completed"}
  <2>1. b \in Telling(h, n + 1)
    BY <1>7, TellingNext DEF SpokenKinds, ChunkKinds
  <2>2. CallsStayIn(Telling(h, n + 1)) /\ n + 1 \in Nat
    BY TellingCalls
  <2>3. u.call \in Calls /\ (u.kind = "toolCall" => u.input \in {"initial", Nil})
    BY <1>1, <1>7 DEF Carries
  <2>4. CASE u.kind = "toolCall"
    <3>1. r = ToolCall(b, u.call, u.input)
      BY <1>3, <2>4 DEF SessionUpdate
    <3>2. CloseMessage(CloseReasoning(b)) \in Telling(h, n + 1)
      BY <1>3, <2>1, <2>2, SilenceFacts, TellingSilences
    <3>3. ToolCall(b, u.call, u.input) \in Telling(h, n + 1)
      BY <1>3, <2>2, <2>3, <2>4, <3>2, ToolCallFacts, AreCallSteps
    <3>4. QED
      BY <2>4, <3>1, <3>3
  <2>5. CASE u.kind = "progress"
    <3>1. r = Progress(b, u.call, u.input)
      BY <1>3, <2>5 DEF SessionUpdate
    <3>2. QED
      BY <1>2, <2>1, <2>2, <2>3, <2>5, <3>1, CallHandlersStay
  <2>6. CASE u.kind = "completed"
    <3>1. r = Completed(b, u.call, u.input)
      BY <1>3, <2>6 DEF SessionUpdate
    <3>2. QED
      BY <1>2, <2>1, <2>2, <2>3, <2>6, <3>1, CallHandlersStay
  <2>7. QED
    BY <1>7, <2>4, <2>5, <2>6
<1>8. CASE u.kind = "turnEnd"
  <2>1. r = FinishRun(b, rank)
    BY <1>3, <1>8 DEF SessionUpdate, TurnEnd
  <2>2. b \in Telling(h, n + 1) /\ n + 1 \in Nat
    BY <1>8, TellingNext DEF SpokenKinds, ChunkKinds
  <2>3. QED
    BY <2>1, <2>2, TellingEnds
<1>9. QED
  BY <1>2, <1>4, <1>5, <1>6, <1>7, <1>8

\* TurnsMarked, of any history.
Marked(h) == \A i \in DOMAIN h \ {1} : h[i].kind = "user" => h[i - 1].kind = "turnEnd"

\* Nothing is told before the first record.
LEMMA TellingNothing ==
    ASSUME NEW h
    PROVE  NewReplay \in Telling(h, 0)
<1>1. EmptyTranscript.messages = <<>>
  BY DEF EmptyTranscript
<1>2. SpokenBy(h, 0) = {}
  BY DEF SpokenBy
<1>3. \A m, k : ~Said(<<>>, m, k)
  BY DEF Said
<1>4. Covers(<<>>, h, 0)
  BY <1>2, <1>3 DEF Covers, SaysOnly, SaysInOrder, SaysAll
<1>5. QED
  BY <1>1, <1>4, NewReplayType DEF Telling, OpenAt

\* After each record the bridge has told the records so far.
LEMMA TellingLoaded ==
    ASSUME NEW h \in Histories, Marked(h), NEW rank \in Seq(Calls),
           NEW g, LoadedBy(h, rank, g)
    PROVE  g[Len(h)] \in Telling(h, Len(h))
<1> DEFINE n == Len(h)
           S == {i \in 0..n : /\ g[i] \in Telling(h, i)
                              /\ i = 0 \/ h[i].kind = "turnEnd" => g[i].message = Nil}
<1>1. n \in Nat /\ DOMAIN h = 1..n
  BY DEF Histories
<1>2. 0 \in S
  BY <1>1, TellingNothing, NewReplayType DEF LoadedBy
<1>3. \A i \in 0..n : i \in S /\ i < n => i + 1 \in S
  <2>1. SUFFICES ASSUME NEW i \in 0..n, g[i] \in Telling(h, i), i < n,
                        i = 0 \/ h[i].kind = "turnEnd" => g[i].message = Nil
                 PROVE  /\ g[i + 1] \in Telling(h, i + 1)
                        /\ h[i + 1].kind = "turnEnd" => g[i + 1].message = Nil
    BY <1>1
  <2>2. i \in Nat /\ i + 1 \in 1..n /\ (i + 1) - 1 = i
    BY <1>1, <2>1
  <2>3. h[i + 1].kind = "user" => g[i].message = Nil
    <3>1. i + 1 \in DOMAIN h /\ (i # 0 => i + 1 # 1)
      BY <1>1, <2>2
    <3>2. i # 0 /\ h[i + 1].kind = "user" => h[(i + 1) - 1].kind = "turnEnd"
      BY <3>1 DEF Marked
    <3>3. QED
      BY <2>1, <2>2, <3>2
  <2>4. g[i + 1] = SessionUpdate(g[i], h[i + 1], i + 1, rank)
    BY <2>2 DEF LoadedBy
  <2>5. QED
    BY <2>1, <2>2, <2>3, <2>4, TellingUpdate
<1>4. 0..n \subseteq S
  <2> HIDE DEF S, n
  <2>1. QED
    BY <1>1, <1>2, <1>3, IntervalInduction
<1>5. QED
  BY <1>1, <1>4

\* The agent's updates carry what they should.
HistoryInv == TypeInv /\ history \in Histories

\* It holds in every state: each record is appended by Prompt, Update or
\* SendTurnEnd, and says what its kind says.
LEMMA HistoryAlways == Spec => []HistoryInv
<1>1. Init => HistoryInv
  BY TypeAtFirst DEF Init, HistoryInv, Histories, TypeInv
<1>2. ASSUME HistoryInv, [Next]_vars
      PROVE  HistoryInv'
  <2>1. TypeInv /\ TypeInv'
    BY <1>2, NextCases, TypeStep DEF HistoryInv
  <2>2. ASSUME NEW u \in AgentUpdates \cup {Plain("user")}, NEW t \in Nat,
               history' = Recorded(u, t)
        PROVE  history' \in Histories
    <3>1. /\ history' = Append(history, RecordOf(u, t))
          /\ RecordOf(u, t) \in Records
          /\ RecordOf(u, t).kind = u.kind /\ RecordOf(u, t).call = u.call
          /\ RecordOf(u, t).input = u.input
      BY <2>2, RecordFacts
    <3>2. Carries(u)
      BY DEF AgentUpdates, NextUpdates, Plain, Carries
    <3>3. Carries(RecordOf(u, t))
      BY <3>1, <3>2 DEF Carries
    <3>4. history \in Seq(Records) /\ \A i \in 1..Len(history) : Carries(history[i])
      BY <1>2 DEF HistoryInv, Histories
    <3> DEFINE e == RecordOf(u, t)
    <3> HIDE DEF e
    <3>5. /\ history' \in Seq(Records)
          /\ DOMAIN history' = 1..(Len(history) + 1)
          /\ history'[Len(history) + 1] = e
          /\ \A i \in 1..Len(history) : history'[i] = history[i]
      BY <3>1, <3>4, AppendFacts DEF e
    <3>6. \A i \in 1..(Len(history) + 1) : Carries(history'[i])
      <4>1. Carries(e) /\ Len(history) \in Nat
        BY <3>3, <3>4 DEF e
      <4>2. \A i \in 1..(Len(history) + 1) : i \in 1..Len(history) \/ i = Len(history) + 1
        BY <4>1
      <4>3. QED
        BY <3>4, <3>5, <4>1, <4>2
    <3>7. QED
      BY <3>5, <3>6 DEF Histories
  <2>3. \/ history' = history
        \/ \E u \in AgentUpdates \cup {Plain("user")}, t \in Nat : history' = Recorded(u, t)
    <3>1. turn \in Nat
      BY <2>1, ConstantsAssumption DEF TypeInv
    <3>2. CASE Prompt
      BY <3>1, <3>2 DEF Prompt
    <3>3. CASE Update
      BY <3>1, <3>3 DEF Update, AgentUpdates
    <3>4. CASE SendTurnEnd
      BY <3>1, <3>4 DEF SendTurnEnd, AgentUpdates
    <3>5. CASE \/ PromptReturns \/ PromptFails \/ RequestPermission \/ Resume \/ Expire
               \/ UNCHANGED vars
      BY <3>5 DEF PromptReturns, PromptFails, RequestPermission, Resume, Expire, vars
    <3>6. QED
      BY <1>2, <3>2, <3>3, <3>4, <3>5 DEF Next
  <2>4. QED
    BY <1>2, <2>1, <2>2, <2>3 DEF HistoryInv
<1>3. QED
  BY <1>1, <1>2, PTL DEF Spec

\* What covers the history tells it.
LEMMA CoversTells ==
    ASSUME NEW ms \in Seq(Messages), history \in Seq(Records),
           Covers(ms, history, Len(history))
    PROVE  Tells(ms)
<1> DEFINE C(p) == ms[p[1]].content[p[2]]
           Spoken == {at \in DOMAIN history : history[at].kind \in ChunkKinds \cup {"user"}}
<1>1. Spoken = SpokenBy(history, Len(history))
  BY DEF SpokenBy, SpokenKinds
<1>2. \A p \in SaidIn(ms) : Said(ms, p[1], p[2]) /\ C(p) = ChunkAt(ms, p[1], p[2])
  BY DEF SaidIn, Said, ChunkAt
<1>3. \A m, k : Said(ms, m, k) => <<m, k>> \in SaidIn(ms) /\ C(<<m, k>>) = ChunkAt(ms, m, k)
  BY DEF SaidIn, Said, ChunkAt
<1>4. \A p \in SaidIn(ms) : C(p) \in Spoken /\ ms[p[1]].role = RoleOf(history[C(p)].kind)
  BY <1>1, <1>2 DEF Covers, SaysOnly
<1>5. \A p, q \in SaidIn(ms) : Earlier(p, q) => C(p) < C(q)
  BY <1>2 DEF Covers, SaysInOrder, Earlier, Precedes
<1>6. \A at \in Spoken : \E p \in SaidIn(ms) : C(p) = at
  BY <1>1, <1>3 DEF Covers, SaysAll
<1>7. QED
  BY <1>4, <1>5, <1>6 DEF Tells

\* Whatever a live session went through, the replay of a history whose turns
\* are marked tells the whole conversation in order, each chunk once and in a
\* message of its role.
THEOREM SnapshotsTellAll == Spec => []SnapshotInOrder
<1>1. HistoryInv => SnapshotInOrder
  <2>1. SUFFICES ASSUME HistoryInv, TurnsMarked, NEW rank \in Ranks
                 PROVE  Tells(Replay(history, rank))
    BY DEF SnapshotInOrder
  <2>2. history \in Histories /\ history \in Seq(Records) /\ rank \in Seq(Calls)
        /\ Len(history) \in Nat /\ Marked(history)
    BY <2>1, RankFacts DEF HistoryInv, Histories, Marked, TurnsMarked
  <2>3. PICK g : /\ LoadedBy(history, rank, g)
                 /\ Replay(history, rank) = FinishRun(g[Len(history)], rank).acc.messages
    BY <2>2, ReplayFacts
  <2>4. FinishRun(g[Len(history)], rank) \in Telling(history, Len(history))
    BY <2>2, <2>3, TellingLoaded, TellingEnds
  <2>5. /\ Covers(Replay(history, rank), history, Len(history))
        /\ Replay(history, rank) \in Seq(Messages)
    BY <2>3, <2>4 DEF Telling, Bridges, Transcripts
  <2>6. QED
    BY <2>2, <2>5, CoversTells
<1>2. QED
  BY <1>1, HistoryAlways, PTL
=============================================================================
