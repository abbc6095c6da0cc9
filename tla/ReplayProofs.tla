---------------------------- MODULE ReplayProofs ----------------------------
(***************************************************************************)
(* Live and replay converge: LiveMatchesReplay.                            *)
(*                                                                         *)
(* Two bridges are compared, the live one and that of a replay of what the *)
(* agent has kept so far.  Read is what can be read of either: what the    *)
(* client makes of its streams, or the accumulator; Reading is its Shape.  *)
(* Each handler changes the Shape in a way that depends only on the Shape  *)
(* itself and on what both bridges agree on, so that it takes bridges of   *)
(* which the same is read to bridges of which the same is read:            *)
(*   - a chunk goes on where the last one was, or begins the next message; *)
(*   - a call with its arguments is one more call of the assistant;        *)
(*   - any number of results, one after the other, are the same.           *)
(* While a turn goes on the two bridges are Level: the same calls wait and *)
(* are open.  A message that is open in the replay and not live was closed *)
(* by an interrupt; the next chunk of it would be split from the last one, *)
(* which is why LiveMatchesReplay speaks of sessions that are Unsplit.     *)
(***************************************************************************)
EXTENDS CallFramingProofs, SequenceTheorems

-----------------------------------------------------------------------------
(* Sequences that are put together.                                        *)

\* Putting sequences together.
LEMMA ConcatFacts ==
    ASSUME NEW S, NEW s \in Seq(S), NEW t \in Seq(S)
    PROVE  /\ s \o t \in Seq(S) /\ Len(s \o t) = Len(s) + Len(t)
           /\ DOMAIN (s \o t) = 1..(Len(s) + Len(t))
           /\ \A i \in 1..Len(s) : (s \o t)[i] = s[i]
           /\ \A i \in 1..Len(t) : (s \o t)[Len(s) + i] = t[i]
           /\ s \o <<>> = s
<1>1. Len(s) \in Nat /\ Len(t) \in Nat
  OBVIOUS
<1>2. /\ s \o t \in Seq(S) /\ Len(s \o t) = Len(s) + Len(t)
      /\ DOMAIN (s \o t) = 1..(Len(s) + Len(t))
  OBVIOUS
<1>3. \A i \in 1..Len(s) : (s \o t)[i] = s[i]
  BY <1>1
<1>4. \A i \in 1..Len(t) : (s \o t)[Len(s) + i] = t[i]
  BY <1>1
<1>5. s \o <<>> = s
  OBVIOUS
<1>6. QED
  BY <1>2, <1>3, <1>4, <1>5

\* Sequences are equal when they are as long, and everywhere equal.
LEMMA SameSequence ==
    ASSUME NEW S, NEW s \in Seq(S), NEW t \in Seq(S), Len(s) = Len(t),
           \A i \in 1..Len(s) : s[i] = t[i]
    PROVE  s = t
OBVIOUS

\* It makes no difference where an element is put at the end.
LEMMA ConcatAppend ==
    ASSUME NEW S, NEW s \in Seq(S), NEW t \in Seq(S), NEW e \in S
    PROVE  /\ s \o Append(t, e) = Append(s \o t, e)
           /\ s \o <<e>> = Append(s, e)
<1>1. <<e>> \in Seq(S) /\ s \o t \in Seq(S)
  BY ConcatFacts
<1>2. Append(t, e) = t \o <<e>> /\ Append(s \o t, e) = (s \o t) \o <<e>>
  BY <1>1, AppendIsConcat
<1>3. (s \o t) \o <<e>> = s \o (t \o <<e>>)
  BY <1>1, ConcatAssociative
<1>4. QED
  BY <1>2, <1>3, AppendIsConcat

-----------------------------------------------------------------------------
(* How messages are merged.                                                *)

\* The next message is of the role of the last one.
Fuses(x, m) == x # <<>> /\ x[Len(x)].role = m.role

\* A message that is merged: its contents and calls are put at the end of the
\* last message, or it is the next one.
LEMMA MergeFacts ==
    ASSUME NEW x \in Seq(Messages), NEW m \in Messages
    PROVE  LET y == Merge(x, m)
               n == Len(x)
           IN  /\ y \in Seq(Messages) /\ Bare(m) \in Messages /\ Bare(m).role = m.role
               /\ m.role = "user" => y = x
               /\ m.role # "user" /\ Fuses(x, m) =>
                     /\ n \in 1..n /\ Len(y) = n /\ \A i \in 1..(n - 1) : y[i] = x[i]
                     /\ y[n].role = x[n].role
                     /\ y[n].content = x[n].content \o Bare(m).content
                     /\ y[n].calls = x[n].calls \o Bare(m).calls
               /\ m.role # "user" /\ ~Fuses(x, m) => y = Append(x, Bare(m))
<1> DEFINE y == Merge(x, m)
           n == Len(x)
           k == [role |-> x[n].role, content |-> x[n].content \o Bare(m).content,
                 calls |-> x[n].calls \o Bare(m).calls]
<1>1. Bare(m) \in Messages /\ Bare(m).role = m.role
  BY DEF Bare, Message, Messages, Roles
<1>2. m.role = "user" => y = x
  BY DEF Merge
<1>3. Fuses(x, m) <=> x # <<>> /\ Last(x).role = m.role
  BY DEF Fuses, Last
<1>4. m.role # "user" /\ ~Fuses(x, m) => y = Append(x, Bare(m))
  BY <1>3 DEF Merge
<1>5. ASSUME m.role # "user", Fuses(x, m)
      PROVE  /\ n \in 1..n /\ Len(y) = n /\ \A i \in 1..(n - 1) : y[i] = x[i]
             /\ y[n] = k /\ y \in Seq(Messages)
  <2>1. n \in 1..n /\ n \in Nat /\ DOMAIN x = 1..n
    BY <1>5 DEF Fuses
  <2>2. y = [x EXCEPT ![n] = k]
    BY <1>3, <1>5 DEF Merge
  <2>3. k \in Messages
    <3>1. x[n] \in Messages
      BY <2>1
    <3>2. x[n].content \o Bare(m).content \in Seq(Nat \cup Calls)
          /\ x[n].calls \o Bare(m).calls \in Seq(CallEntries)
      BY <1>1, <3>1, ConcatFacts DEF Messages
    <3>3. QED
      BY <3>1, <3>2 DEF Messages
  <2> HIDE DEF k, y, n
  <2>4. Len(y) = Len(x) /\ y[n] = k /\ y \in Seq(Messages)
    BY <2>1, <2>2, <2>3
  <2>5. \A i \in 1..(n - 1) : y[i] = x[i]
    BY <2>1, <2>2
  <2>6. QED
    BY <2>1, <2>4, <2>5 DEF n
<1>6. Append(x, Bare(m)) \in Seq(Messages)
  BY <1>1
<1> HIDE DEF y
<1>7. y \in Seq(Messages)
  BY <1>2, <1>4, <1>5, <1>6
<1>8. m.role # "user" /\ Fuses(x, m) =>
          /\ n \in 1..n /\ Len(y) = n /\ \A i \in 1..(n - 1) : y[i] = x[i]
          /\ y[n].role = x[n].role
          /\ y[n].content = x[n].content \o Bare(m).content
          /\ y[n].calls = x[n].calls \o Bare(m).calls
  <2>1. /\ k.role = x[n].role /\ k.content = x[n].content \o Bare(m).content
        /\ k.calls = x[n].calls \o Bare(m).calls
    OBVIOUS
  <2> HIDE DEF k, n
  <2>2. QED
    BY <1>5, <2>1
<1>9. QED
  BY <1>1, <1>2, <1>4, <1>7, <1>8 DEF y

-----------------------------------------------------------------------------
(* The shape of a list of messages.                                        *)

\* g: what has been merged after each message.
ShapedBy(ms, g) ==
    /\ g \in [0..Len(ms) -> Seq(Messages)]
    /\ g[0] = <<>>
    /\ \A i \in 1..Len(ms) : g[i] = Merge(g[i - 1], ms[i])

\* A shape is its loop.
LEMMA ShapeFacts ==
    ASSUME NEW ms \in Seq(Messages)
    PROVE  \E g : ShapedBy(ms, g) /\ Shape(ms) = g[Len(ms)]
<1> DEFINE n == Len(ms)
           D == Seq(Messages)
           F == [i \in 1..n |-> [y \in D |-> Merge(y, ms[i])]]
           Is(g) == g = [i \in 0..n |-> IF i = 0 THEN <<>> ELSE Merge(g[i - 1], ms[i])]
<1>1. n \in Nat /\ <<>> \in D
  OBVIOUS
<1>2. \A i \in 1..n, y \in D : Merge(y, ms[i]) \in D
  <2>1. \A i \in 1..n : ms[i] \in Messages
    OBVIOUS
  <2>2. QED
    BY <2>1, MergeFacts
<1>3. F \in Steps(n, D)
  BY <1>2 DEF Steps
<1>4. PICK g : Iterates(g, n, D, <<>>, F)
  <2> HIDE DEF n, F, D
  <2>1. QED
    BY <1>1, <1>3, Iteration
<1>5. g[0] = <<>> /\ g \in [0..n -> D]
  BY <1>4 DEF Iterates
<1>6. \A i \in 1..n : g[i] = Merge(g[i - 1], ms[i])
  <2>1. SUFFICES ASSUME NEW i \in 1..n
                 PROVE  g[i] = Merge(g[i - 1], ms[i])
    OBVIOUS
  <2>2. i - 1 \in 0..n
    BY <1>1
  <2>3. g[i] = F[i][g[i - 1]] /\ g[i - 1] \in D
    <3> HIDE DEF F, n, D
    <3>1. QED
      BY <1>4, <2>1, <2>2 DEF Iterates
  <2>4. QED
    BY <2>3
<1>7. Is(g)
  <2> HIDE DEF F
  <2>1. \A i \in 0..n : g[i] = IF i = 0 THEN <<>> ELSE Merge(g[i - 1], ms[i])
    <3>1. \A i \in 0..n : i # 0 => i \in 1..n
      BY <1>1
    <3> HIDE DEF n
    <3>2. QED
      BY <1>5, <1>6, <3>1
  <2>2. g = [i \in 0..n |-> g[i]]
    BY <1>5
  <2>3. QED
    BY <2>1, <2>2
<1>8. PICK k : Is(k) /\ Shape(ms) = k[n]
  <2> DEFINE k == CHOOSE k : Is(k)
  <2>1. Is(k)
    BY <1>7
  <2>2. Shape(ms) = k[n]
    BY DEF Shape
  <2>3. QED
    BY <2>1, <2>2
<1>9. /\ k = [i \in 0..n |-> k[i]] /\ k[0] = <<>>
      /\ \A i \in 1..n : k[i] = Merge(k[i - 1], ms[i])
  <2> DEFINE G(i) == IF i = 0 THEN <<>> ELSE Merge(k[i - 1], ms[i])
  <2>1. k = [i \in 0..n |-> G(i)]
    BY <1>8
  <2>2. /\ 0 \in 0..n /\ G(0) = <<>>
        /\ \A i \in 1..n : i \in 0..n /\ G(i) = Merge(k[i - 1], ms[i])
    BY <1>1
  <2> HIDE DEF G, n
  <2>3. \A i \in 0..n : k[i] = G(i)
    BY <2>1
  <2>4. k = [i \in 0..n |-> k[i]]
    BY <2>1
  <2>5. QED
    BY <2>2, <2>3, <2>4
<1>10. \A i \in 0..n : k[i] \in D
  <2> DEFINE S == {i \in 0..n : k[i] \in D}
  <2>1. 0 \in S
    BY <1>1, <1>9
  <2>2. \A i \in 0..n : i \in S /\ i < n => i + 1 \in S
    <3>1. SUFFICES ASSUME NEW i \in 0..n, k[i] \in D, i < n
                   PROVE  k[i + 1] \in D
      BY <1>1
    <3>2. i + 1 \in 1..n /\ (i + 1) - 1 = i
      BY <1>1, <3>1
    <3>3. k[i + 1] = Merge(k[i], ms[i + 1])
      BY <1>9, <3>2
    <3>4. QED
      BY <1>2, <3>1, <3>2, <3>3
  <2>3. 0..n \subseteq S
    <3> HIDE DEF S, n
    <3>1. QED
      BY <1>1, <2>1, <2>2, IntervalInduction
  <2>4. QED
    BY <2>3
<1>11. ShapedBy(ms, k)
  BY <1>9, <1>10 DEF ShapedBy
<1>12. QED
  BY <1>8, <1>11

\* What has been merged of two lists is the same as long as they are.
LEMMA SamePrefix ==
    ASSUME NEW ms, NEW r, NEW g, NEW f, ShapedBy(ms, g), ShapedBy(r, f),
           NEW p \in Nat, p <= Len(ms), p <= Len(r), Len(ms) \in Nat, Len(r) \in Nat,
           \A i \in 1..p : r[i] = ms[i]
    PROVE  f[p] = g[p]
<1> DEFINE S == {i \in 0..p : f[i] = g[i]}
<1>1. 0 \in S
  BY DEF ShapedBy
<1>2. \A i \in 0..p : i \in S /\ i < p => i + 1 \in S
  <2>1. SUFFICES ASSUME NEW i \in 0..p, f[i] = g[i], i < p
                 PROVE  f[i + 1] = g[i + 1]
    OBVIOUS
  <2>2. i + 1 \in 1..p /\ i + 1 \in 1..Len(ms) /\ i + 1 \in 1..Len(r) /\ (i + 1) - 1 = i
    BY <2>1
  <2>3. f[i + 1] = Merge(f[i], r[i + 1]) /\ g[i + 1] = Merge(g[i], ms[i + 1])
    BY <2>2 DEF ShapedBy
  <2>4. QED
    BY <2>1, <2>2, <2>3
<1>3. 0..p \subseteq S
  <2> HIDE DEF S
  <2>1. QED
    BY <1>1, <1>2, IntervalInduction
<1>4. QED
  BY <1>3

\* The shape of nothing is nothing.
LEMMA ShapeOfNothing == Shape(<<>>) = <<>>
<1>1. <<>> \in Seq(Messages) /\ Len(<<>>) = 0
  OBVIOUS
<1>2. PICK g : ShapedBy(<<>>, g) /\ Shape(<<>>) = g[0]
  BY <1>1, ShapeFacts
<1>3. QED
  BY <1>2 DEF ShapedBy

\* One more message is merged.
LEMMA ShapeExtends ==
    ASSUME NEW ms \in Seq(Messages), NEW r \in Seq(Messages), Len(r) = Len(ms) + 1,
           \A i \in 1..Len(ms) : r[i] = ms[i]
    PROVE  Shape(r) = Merge(Shape(ms), r[Len(r)]) /\ Shape(ms) \in Seq(Messages)
<1> DEFINE n == Len(ms)
<1>1. n \in Nat /\ Len(r) = n + 1 /\ n + 1 \in 1..(n + 1) /\ (n + 1) - 1 = n /\ n <= n + 1
      /\ n \in 0..n /\ Len(r) \in Nat /\ n <= n
  OBVIOUS
<1>2. PICK g : ShapedBy(ms, g) /\ Shape(ms) = g[n]
  BY ShapeFacts
<1>3. PICK f : ShapedBy(r, f) /\ Shape(r) = f[Len(r)]
  BY ShapeFacts
<1> HIDE DEF n
<1>4. f[n] = g[n]
  <2>1. n = Len(ms)
    BY DEF n
  <2>2. \A i \in 1..n : r[i] = ms[i]
    BY <2>1
  <2>3. QED
    BY <1>1, <1>2, <1>3, <2>1, <2>2, SamePrefix
<1>5. f[n + 1] = Merge(f[n], r[n + 1])
  BY <1>1, <1>3 DEF ShapedBy
<1>6. g[n] \in Seq(Messages)
  BY <1>1, <1>2 DEF ShapedBy, n
<1>7. QED
  BY <1>1, <1>2, <1>3, <1>4, <1>5, <1>6

\* All but the last message are merged alike, whatever the last one is.
LEMMA ShapeLast ==
    ASSUME NEW ms \in Seq(Messages), ms # <<>>
    PROVE  \E z \in Seq(Messages) : \A r \in Seq(Messages) :
              Len(r) = Len(ms) /\ (\A i \in 1..(Len(ms) - 1) : r[i] = ms[i]) =>
                  Shape(r) = Merge(z, r[Len(ms)])
<1> DEFINE p == SubSeq(ms, 1, Len(ms) - 1)
<1>1. /\ Len(ms) \in Nat /\ Len(ms) - 1 \in Nat /\ p \in Seq(Messages)
      /\ Len(p) = Len(ms) - 1 /\ Len(p) + 1 = Len(ms)
      /\ \A i \in 1..(Len(ms) - 1) : p[i] = ms[i]
  OBVIOUS
<1> HIDE DEF p
<1>2. ASSUME NEW r \in Seq(Messages), Len(r) = Len(ms),
             \A i \in 1..(Len(ms) - 1) : r[i] = ms[i]
      PROVE  Shape(r) = Merge(Shape(p), r[Len(ms)])
  <2>1. Len(r) = Len(p) + 1 /\ \A i \in 1..Len(p) : r[i] = p[i]
    BY <1>1, <1>2
  <2>2. Shape(r) = Merge(Shape(p), r[Len(r)])
    BY <1>1, <1>2, <2>1, ShapeExtends
  <2>3. QED
    BY <1>2, <2>2
<1>3. Shape(p) \in Seq(Messages)
  <2> DEFINE a == Append(p, Message("tool", <<>>))
  <2>1. Message("tool", <<>>) \in Messages
    BY DEF Message, Messages, Roles
  <2>2. a \in Seq(Messages) /\ Len(a) = Len(p) + 1 /\ \A i \in 1..Len(p) : a[i] = p[i]
    BY <1>1, <2>1, AppendFacts
  <2> HIDE DEF a
  <2>3. QED
    BY <1>1, <2>2, ShapeExtends
<1>4. QED
  BY <1>2, <1>3

\* A shape is a list of messages.
LEMMA ShapeType ==
    ASSUME NEW ms \in Seq(Messages)
    PROVE  Shape(ms) \in Seq(Messages)
<1>1. PICK g : ShapedBy(ms, g) /\ Shape(ms) = g[Len(ms)]
  BY ShapeFacts
<1>2. Len(ms) \in 0..Len(ms)
  OBVIOUS
<1>3. QED
  BY <1>1, <1>2 DEF ShapedBy

-----------------------------------------------------------------------------
(* What a client makes of the events it has read.                          *)

\* g: the transcript after each event.
TranscribedBy(w, g) ==
    /\ g \in [0..Len(w) -> Transcripts]
    /\ g[0] = EmptyTranscript
    /\ \A i \in 1..Len(w) : g[i] = Fold(g[i - 1], w[i])

\* A transcript is its loop.
LEMMA TranscribeFacts ==
    ASSUME NEW w \in Seq(Events)
    PROVE  \E g : TranscribedBy(w, g) /\ Transcribe(w) = g[Len(w)]
<1> DEFINE n == Len(w)
           c == EmptyTranscript
           F == [i \in 1..n |-> [y \in Transcripts |-> Fold(y, w[i])]]
           Is(g) == g = [i \in 0..n |-> IF i = 0 THEN c ELSE Fold(g[i - 1], w[i])]
<1>1. n \in Nat /\ c \in Transcripts
  BY EmptyTypes
<1>2. \A i \in 1..n, y \in Transcripts : Fold(y, w[i]) \in Transcripts
  <2>1. \A i \in 1..n : w[i] \in Events
    OBVIOUS
  <2>2. QED
    BY <2>1, FoldType
<1>3. F \in Steps(n, Transcripts)
  BY <1>2 DEF Steps
<1>4. PICK g : Iterates(g, n, Transcripts, c, F)
  <2> HIDE DEF n, F, c
  <2>1. QED
    BY <1>1, <1>3, Iteration
<1>5. g[0] = c /\ g \in [0..n -> Transcripts]
  BY <1>4 DEF Iterates
<1>6. \A i \in 1..n : g[i] = Fold(g[i - 1], w[i])
  <2>1. SUFFICES ASSUME NEW i \in 1..n
                 PROVE  g[i] = Fold(g[i - 1], w[i])
    OBVIOUS
  <2>2. i - 1 \in 0..n
    BY <1>1
  <2>3. g[i] = F[i][g[i - 1]] /\ g[i - 1] \in Transcripts
    <3> HIDE DEF F, n, c
    <3>1. QED
      BY <1>4, <2>1, <2>2 DEF Iterates
  <2>4. QED
    BY <2>3
<1>7. Is(g)
  <2> HIDE DEF F, c
  <2>1. \A i \in 0..n : g[i] = IF i = 0 THEN c ELSE Fold(g[i - 1], w[i])
    <3>1. \A i \in 0..n : i # 0 => i \in 1..n
      BY <1>1
    <3> HIDE DEF n
    <3>2. QED
      BY <1>5, <1>6, <3>1
  <2>2. g = [i \in 0..n |-> g[i]]
    BY <1>5
  <2>3. QED
    BY <2>1, <2>2
<1>8. PICK k : Is(k) /\ Transcribe(w) = k[n]
  <2> DEFINE k == CHOOSE k : Is(k)
  <2>1. Is(k)
    BY <1>7
  <2>2. Transcribe(w) = k[n]
    BY DEF Transcribe
  <2>3. QED
    BY <2>1, <2>2
<1>9. /\ k = [i \in 0..n |-> k[i]] /\ k[0] = c
      /\ \A i \in 1..n : k[i] = Fold(k[i - 1], w[i])
  <2> DEFINE G(i) == IF i = 0 THEN c ELSE Fold(k[i - 1], w[i])
  <2>1. k = [i \in 0..n |-> G(i)]
    BY <1>8
  <2>2. /\ 0 \in 0..n /\ G(0) = c
        /\ \A i \in 1..n : i \in 0..n /\ G(i) = Fold(k[i - 1], w[i])
    BY <1>1
  <2> HIDE DEF G, n
  <2>3. \A i \in 0..n : k[i] = G(i)
    BY <2>1
  <2>4. k = [i \in 0..n |-> k[i]]
    BY <2>1
  <2>5. QED
    BY <2>2, <2>3, <2>4
<1>10. \A i \in 0..n : k[i] \in Transcripts
  <2> DEFINE S == {i \in 0..n : k[i] \in Transcripts}
  <2>1. 0 \in S
    BY <1>1, <1>9
  <2>2. \A i \in 0..n : i \in S /\ i < n => i + 1 \in S
    <3>1. SUFFICES ASSUME NEW i \in 0..n, k[i] \in Transcripts, i < n
                   PROVE  k[i + 1] \in Transcripts
      BY <1>1
    <3>2. i + 1 \in 1..n /\ (i + 1) - 1 = i
      BY <1>1, <3>1
    <3>3. k[i + 1] = Fold(k[i], w[i + 1])
      BY <1>9, <3>2
    <3>4. QED
      BY <1>2, <3>1, <3>2, <3>3
  <2>3. 0..n \subseteq S
    <3> HIDE DEF S, n
    <3>1. QED
      BY <1>1, <2>1, <2>2, IntervalInduction
  <2>4. QED
    BY <2>3
<1>11. TranscribedBy(w, k)
  BY <1>9, <1>10 DEF TranscribedBy
<1>12. QED
  BY <1>8, <1>11

\* The transcript of a wire is one, and grows with every event by a fold.
LEMMA TranscribeGrows ==
    ASSUME NEW w \in Seq(Events)
    PROVE  /\ Transcribe(w) \in Transcripts
           /\ \A e \in Events : Transcribe(Append(w, e)) = Fold(Transcribe(w), e)
<1>1. PICK g : TranscribedBy(w, g) /\ Transcribe(w) = g[Len(w)]
  BY TranscribeFacts
<1>2. Len(w) \in 0..Len(w) /\ Len(w) \in Nat
  OBVIOUS
<1>3. Transcribe(w) \in Transcripts
  BY <1>1, <1>2 DEF TranscribedBy
<1>4. ASSUME NEW e \in Events
      PROVE  Transcribe(Append(w, e)) = Fold(Transcribe(w), e)
  <2> DEFINE n == Len(w)
             v == Append(w, e)
  <2>1. v \in Seq(Events) /\ Len(v) = n + 1 /\ v[n + 1] = e /\ \A i \in 1..n : v[i] = w[i]
    BY <1>4, AppendFacts
  <2>2. PICK f : TranscribedBy(v, f) /\ Transcribe(v) = f[Len(v)]
    BY <2>1, TranscribeFacts
  <2> DEFINE S == {i \in 0..n : f[i] = g[i]}
  <2> HIDE DEF v, n
  <2>3. n \in Nat /\ n = Len(w)
    BY <1>2 DEF n
  <2>4. 0 \in S
    BY <1>1, <2>2, <2>3 DEF TranscribedBy
  <2>5. \A i \in 0..n : i \in S /\ i < n => i + 1 \in S
    <3>1. SUFFICES ASSUME NEW i \in 0..n, f[i] = g[i], i < n
                   PROVE  f[i + 1] = g[i + 1]
      BY <2>3
    <3>2. i + 1 \in 1..n /\ i + 1 \in 1..(n + 1) /\ (i + 1) - 1 = i
      BY <2>3, <3>1
    <3>3. f[i + 1] = Fold(f[i], v[i + 1]) /\ g[i + 1] = Fold(g[i], w[i + 1])
      BY <1>1, <2>1, <2>2, <2>3, <3>2 DEF TranscribedBy
    <3>4. QED
      BY <2>1, <3>1, <3>2, <3>3
  <2>6. 0..n \subseteq S
    <3> HIDE DEF S
    <3>1. QED
      BY <2>3, <2>4, <2>5, IntervalInduction
  <2>7. f[n] = g[n]
    BY <2>3, <2>6
  <2>8. n + 1 \in 1..Len(v) /\ (n + 1) - 1 = n
    BY <2>1, <2>3
  <2>9. f[n + 1] = Fold(f[n], v[n + 1])
    BY <2>2, <2>8 DEF TranscribedBy
  <2>10. QED
    BY <1>1, <2>1, <2>2, <2>3, <2>7, <2>9 DEF v
<1>5. QED
  BY <1>3, <1>4

\* Of nothing, nothing is made.
LEMMA TranscribeNothing == Transcribe(<<>>) = EmptyTranscript
<1>1. <<>> \in Seq(Events) /\ Len(<<>>) = 0
  OBVIOUS
<1>2. PICK g : TranscribedBy(<<>>, g) /\ Transcribe(<<>>) = g[0]
  BY <1>1, TranscribeFacts
<1>3. QED
  BY <1>2 DEF TranscribedBy

-----------------------------------------------------------------------------
(* What the events of calls do to a shape.                                 *)

\* A call alone in its message.
CallMessage(e) == [role |-> "assistant", content |-> <<>>, calls |-> <<e>>]

\* The results of calls, one or more.
AddResults(x) == Merge(x, Message("tool", <<>>))

\* Messages are equal when their fields are.
LEMMA SameMessage ==
    ASSUME NEW m \in Messages, NEW k \in Messages,
           m.role = k.role, m.content = k.content, m.calls = k.calls
    PROVE  m = k
BY DEF Messages

\* One message is its role, its content and its calls.
LEMMA MessageFields ==
    ASSUME NEW m \in Messages
    PROVE  /\ m.role \in Roles /\ m.content \in Seq(Nat \cup Calls) /\ m.calls \in Seq(CallEntries)
           /\ m.role # "tool" => Bare(m) = m
BY DEF Messages, Bare

\* Message b is put at the end of the last message.
FusesTo(x, b, y) ==
    LET n == Len(x)
    IN  /\ n \in 1..n /\ n \in Nat /\ Len(y) = n /\ \A i \in 1..(n - 1) : y[i] = x[i]
        /\ y[n].role = x[n].role
        /\ y[n].content = x[n].content \o b.content
        /\ y[n].calls = x[n].calls \o b.calls

\* What the user did not say is put there, or is the next message.
LEMMA MergeCases ==
    ASSUME NEW x \in Seq(Messages), NEW m \in Messages, m.role # "user"
    PROVE  /\ Merge(x, m) \in Seq(Messages)
           /\ Fuses(x, m) => FusesTo(x, Bare(m), Merge(x, m))
           /\ ~Fuses(x, m) => Merge(x, m) = Append(x, Bare(m))
<1> DEFINE y == Merge(x, m)
           n == Len(x)
<1>1. n \in Nat
  OBVIOUS
<1>2. /\ y \in Seq(Messages)
      /\ Fuses(x, m) => /\ n \in 1..n /\ Len(y) = n /\ \A i \in 1..(n - 1) : y[i] = x[i]
                        /\ y[n].role = x[n].role
                        /\ y[n].content = x[n].content \o Bare(m).content
                        /\ y[n].calls = x[n].calls \o Bare(m).calls
      /\ ~Fuses(x, m) => y = Append(x, Bare(m))
  BY MergeFacts
<1> HIDE DEF y
<1>3. Fuses(x, m) => FusesTo(x, Bare(m), y)
  BY <1>1, <1>2 DEF FusesTo
<1>4. QED
  BY <1>2, <1>3 DEF y

\* A message that takes a call is merged as before, and then the call is.
LEMMA MergeCall ==
    ASSUME NEW z \in Seq(Messages), NEW m \in Messages, NEW k \in Messages, NEW e \in CallEntries,
           m.role = "assistant", k.role = m.role, k.content = m.content,
           k.calls = Append(m.calls, e)
    PROVE  Merge(z, k) = Merge(Merge(z, m), CallMessage(e))
<1> DEFINE c == CallMessage(e)
           y == Merge(z, m)
           v == Merge(z, k)
           w == Merge(y, c)
           n == Len(y)
<1>1. c \in Messages /\ c.role = "assistant" /\ c.content = <<>> /\ c.calls = <<e>>
  BY DEF CallMessage, Messages, Roles
<1>2. Bare(c) = c /\ Bare(m) = m /\ Bare(k) = k
  BY <1>1, MessageFields
<1>3. "assistant" # "user"
  OBVIOUS
<1>4. y \in Seq(Messages) /\ v \in Seq(Messages)
  BY MergeFacts
<1>5. /\ Fuses(z, m) => FusesTo(z, m, y) /\ FusesTo(z, k, v)
      /\ ~Fuses(z, m) => y = Append(z, m) /\ v = Append(z, k)
  <2>1. Fuses(z, k) <=> Fuses(z, m)
    BY DEF Fuses
  <2>2. /\ Fuses(z, m) => FusesTo(z, m, y)
        /\ ~Fuses(z, m) => y = Append(z, m)
    BY <1>2, <1>3, MergeCases
  <2>3. /\ Fuses(z, k) => FusesTo(z, k, v)
        /\ ~Fuses(z, k) => v = Append(z, k)
    BY <1>2, <1>3, MergeCases
  <2>4. QED
    BY <2>1, <2>2, <2>3
<1>6. /\ n \in 1..n /\ n \in Nat /\ y[n].role = "assistant" /\ y[n] \in Messages
      /\ v[n] \in Messages /\ Len(v) = n /\ \A i \in 1..(n - 1) : v[i] = y[i]
      /\ v[n].role = "assistant" /\ v[n].content = y[n].content
      /\ v[n].calls = Append(y[n].calls, e)
  <2> HIDE DEF y, v, c
  <2>1. CASE Fuses(z, m)
    <3> DEFINE p == Len(z)
    <3>1. /\ p \in 1..p /\ n = p /\ \A i \in 1..(p - 1) : y[i] = z[i]
          /\ y[p].role = z[p].role /\ y[p].content = z[p].content \o m.content
          /\ y[p].calls = z[p].calls \o m.calls
      BY <1>5, <2>1 DEF FusesTo
    <3>2. /\ Len(v) = p /\ \A i \in 1..(p - 1) : v[i] = z[i]
          /\ v[p].role = z[p].role /\ v[p].content = z[p].content \o k.content
          /\ v[p].calls = z[p].calls \o k.calls
      BY <1>5, <2>1 DEF FusesTo
    <3>3. z[p].role = "assistant" /\ z[p] \in Messages
      BY <2>1, <3>1 DEF Fuses
    <3>4. z[p].calls \o Append(m.calls, e) = Append(z[p].calls \o m.calls, e)
      <4>1. z[p].calls \in Seq(CallEntries) /\ m.calls \in Seq(CallEntries)
        BY <3>3, MessageFields
      <4>2. \A a, b \in Seq(CallEntries) : a \o Append(b, e) = Append(a \o b, e)
        BY ConcatAppend
      <4>3. QED
        BY <4>1, <4>2
    <3> HIDE DEF p
    <3>5. y[n] \in Messages /\ v[n] \in Messages
      BY <1>4, <3>1, <3>2
    <3>6. QED
      BY <3>1, <3>2, <3>3, <3>4, <3>5
  <2>2. CASE ~Fuses(z, m)
    <3>1. y = Append(z, m) /\ v = Append(z, k)
      BY <1>5, <2>2
    <3>2. /\ n = Len(z) + 1 /\ Len(v) = n /\ y[n] = m /\ v[n] = k /\ Len(z) \in Nat
          /\ \A i \in 1..Len(z) : y[i] = z[i] /\ v[i] = z[i]
      BY <3>1, AppendFacts
    <3>3. QED
      BY <3>2
  <2>3. QED
    BY <2>1, <2>2
<1> HIDE DEF y, v
<1>7. Fuses(y, c)
  BY <1>1, <1>6 DEF Fuses, n
<1> HIDE DEF c
<1>8. /\ w \in Seq(Messages) /\ Len(w) = n /\ \A i \in 1..(n - 1) : w[i] = y[i]
      /\ w[n].role = y[n].role /\ w[n].content = y[n].content \o <<>>
      /\ w[n].calls = y[n].calls \o <<e>>
  <2>1. w \in Seq(Messages) /\ FusesTo(y, c, w)
    BY <1>1, <1>2, <1>3, <1>4, <1>7, MergeCases
  <2> HIDE DEF w
  <2>2. QED
    BY <1>1, <2>1 DEF FusesTo
<1>9. w[n].content = y[n].content /\ w[n].calls = Append(y[n].calls, e) /\ w[n] \in Messages
  <2>1. y[n].content \in Seq(Nat \cup Calls) /\ y[n].calls \in Seq(CallEntries)
    BY <1>6, MessageFields
  <2>2. y[n].content \o <<>> = y[n].content /\ y[n].calls \o <<e>> = Append(y[n].calls, e)
    BY <2>1, ConcatFacts, ConcatAppend
  <2> HIDE DEF w, n
  <2>3. w[n] \in Messages
    BY <1>6, <1>8
  <2>4. QED
    BY <1>8, <2>2, <2>3
<1> HIDE DEF w, n
<1>10. v[n] = w[n]
  BY <1>6, <1>8, <1>9, SameMessage
<1>11. \A i \in 1..n : v[i] = w[i]
  BY <1>6, <1>8, <1>10
<1>12. v = w
  BY <1>4, <1>6, <1>8, <1>11, SameSequence
<1>13. QED
  BY <1>12 DEF v, w, y, c

\* The next call is taken by the last message if it is the assistant's, or by
\* a message of its own.
TakesCall(ms, r, e) ==
    LET i == IF ms # <<>> /\ ms[Len(ms)].role = "assistant" THEN Len(ms) ELSE Len(ms) + 1
    IN  /\ SaysNothing(ms, r) /\ OtherCalls(ms, r, i) /\ Len(r) = i
        /\ r[i].role = "assistant" /\ r[i].calls = Append(CallsOf(ms, i), e)

\* Either way the shape is that of one more call.
LEMMA TakesShape ==
    ASSUME NEW ms \in Seq(Messages), NEW r, NEW e \in CallEntries, TakesCall(ms, r, e)
    PROVE  Shape(r) = Merge(Shape(ms), CallMessage(e))
<1> DEFINE n == Len(ms)
<1>1. n \in Nat /\ DOMAIN ms = 1..n /\ r \in Seq(Messages) /\ Len(r) \in Nat /\ DOMAIN r = 1..Len(r)
  BY DEF TakesCall, SaysNothing
<1>2. \A i \in 1..n : ms[i] \in Messages
  OBVIOUS
<1>3. \A i \in 1..Len(r) : r[i] \in Messages
  BY <1>1
<1>4. CASE ms # <<>> /\ ms[n].role = "assistant"
  <2>1. /\ Len(r) = n /\ OtherCalls(ms, r, n) /\ r[n].role = "assistant" /\ n \in 1..n
        /\ r[n].calls = Append(ms[n].calls, e) /\ SaysNothing(ms, r)
    BY <1>1, <1>4 DEF TakesCall, CallsOf
  <2>2. PICK z \in Seq(Messages) : \A q \in Seq(Messages) :
              Len(q) = n /\ (\A i \in 1..(n - 1) : q[i] = ms[i]) =>
                  Shape(q) = Merge(z, q[n])
    BY <1>4, ShapeLast
  <2> HIDE DEF n
  <2>3. \A i \in 1..(n - 1) : r[i] = ms[i]
    <3>1. SUFFICES ASSUME NEW i \in 1..(n - 1)
                   PROVE  r[i] = ms[i]
      OBVIOUS
    <3>2. i \in 1..n /\ i \in 1..Len(r) /\ i # n
      BY <1>1, <2>1, <3>1
    <3>3. r[i].role = ms[i].role /\ r[i].content = ms[i].content /\ r[i].calls = ms[i].calls
      BY <1>1, <2>1, <3>2 DEF SaysNothing, OtherCalls
    <3>4. QED
      BY <1>2, <1>3, <3>2, <3>3, SameMessage
  <2>4. Shape(r) = Merge(z, r[n]) /\ Shape(ms) = Merge(z, ms[n])
    <3>1. Len(ms) = n
      BY DEF n
    <3>2. QED
      BY <1>1, <2>1, <2>2, <2>3, <3>1
  <2>5. r[n].content = ms[n].content
    BY <1>1, <2>1 DEF SaysNothing
  <2>6. QED
    BY <1>2, <1>3, <1>4, <2>1, <2>4, <2>5, MergeCall
<1>5. CASE ~(ms # <<>> /\ ms[n].role = "assistant")
  <2>1. /\ Len(r) = n + 1 /\ OtherCalls(ms, r, n + 1) /\ r[n + 1].role = "assistant"
        /\ r[n + 1].calls = Append(CallsOf(ms, n + 1), e) /\ SaysNothing(ms, r)
    BY <1>1, <1>5 DEF TakesCall
  <2>2. n + 1 \notin 1..n /\ n + 1 \in 1..(n + 1) /\ \A i \in 1..n : i \in 1..(n + 1) /\ i # n + 1
    BY <1>1
  <2> HIDE DEF n
  <2>3. \A i \in 1..n : r[i] = ms[i]
    <3>1. SUFFICES ASSUME NEW i \in 1..n
                   PROVE  r[i] = ms[i]
      OBVIOUS
    <3>2. r[i].role = ms[i].role /\ r[i].content = ms[i].content /\ r[i].calls = ms[i].calls
      BY <1>1, <2>1, <2>2, <3>1 DEF SaysNothing, OtherCalls
    <3>3. QED
      BY <1>2, <1>3, <2>1, <2>2, <3>1, <3>2, SameMessage
  <2>4. r[n + 1] = CallMessage(e)
    <3>1. r[n + 1].calls = <<e>>
      <4>1. CallsOf(ms, n + 1) = <<>>
        BY <1>1, <2>2 DEF CallsOf
      <4>2. Append(<<>>, e) = <<e>>
        OBVIOUS
      <4>3. QED
        BY <2>1, <4>1, <4>2
    <3>2. r[n + 1].content = <<>>
      BY <1>1, <2>1, <2>2 DEF SaysNothing, Silent
    <3>3. r[n + 1] \in Messages
      BY <1>3, <2>1, <2>2
    <3>4. CallMessage(e) \in Messages
      BY DEF CallMessage, Messages, Roles
    <3>5. /\ CallMessage(e).role = "assistant" /\ CallMessage(e).content = <<>>
          /\ CallMessage(e).calls = <<e>>
      BY DEF CallMessage
    <3>6. QED
      BY <2>1, <3>1, <3>2, <3>3, <3>4, <3>5, SameMessage
  <2>5. Len(r) = Len(ms) + 1 /\ \A i \in 1..Len(ms) : r[i] = ms[i]
    BY <2>1, <2>3 DEF n
  <2>6. Shape(r) = Merge(Shape(ms), r[Len(r)])
    BY <1>1, <2>5, ShapeExtends
  <2>7. QED
    BY <2>1, <2>4, <2>6
<1>6. QED
  BY <1>4, <1>5

\* The accumulator puts a call there, and finds it there.
LEMMA AttachTakes ==
    ASSUME NEW acc \in Transcripts, NEW call \in Calls
    PROVE  LET r == AttachCall(acc, call)
               n == Len(r.messages)
           IN  /\ TakesCall(acc.messages, r.messages, Entry(call, Nil))
               /\ call \in DOMAIN r.where /\ r.where[call].message = n
               /\ r.where[call].index = Len(CallsOf(acc.messages, n)) + 1
<1> DEFINE ms == acc.messages
           x  == Message("assistant", <<>>)
           xs == IF Trailing(acc, "assistant") THEN ms ELSE Append(ms, x)
           i  == Len(xs)
           y  == [xs[i] EXCEPT !.calls = Append(@, Entry(call, Nil))]
           at == [message |-> i, index |-> Len(xs[i].calls) + 1]
           r  == AttachCall(acc, call)
<1>1. ms \in Seq(Messages) /\ x \in Messages /\ x.role = "assistant"
  BY DEF Transcripts, Message, Messages, Roles
<1>2. Trailing(acc, "assistant") <=> ms # <<>> /\ ms[Len(ms)].role = "assistant"
  BY DEF Trailing, Last
<1>3. /\ xs \in Seq(Messages) /\ i \in 1..i /\ xs[i].role = "assistant"
      /\ i = IF ms # <<>> /\ ms[Len(ms)].role = "assistant" THEN Len(ms) ELSE Len(ms) + 1
  <2>1. CASE Trailing(acc, "assistant")
    <3>1. xs = ms
      BY <2>1
    <3> HIDE DEF xs, ms
    <3>2. QED
      BY <1>1, <1>2, <2>1, <3>1
  <2>2. CASE ~Trailing(acc, "assistant")
    <3>1. xs = Append(ms, x)
      BY <2>2
    <3> HIDE DEF xs, ms, x
    <3>2. /\ xs \in Seq(Messages) /\ Len(xs) = Len(ms) + 1 /\ xs[Len(ms) + 1] = x /\ Len(ms) \in Nat
      BY <1>1, <3>1, AppendFacts
    <3>3. QED
      BY <1>1, <1>2, <2>2, <3>2
  <2>3. QED
    BY <2>1, <2>2
<1>4. Last(xs) = xs[i]
  BY DEF Last
<1>5. r = [acc EXCEPT !.messages = [xs EXCEPT ![i] = y], !.where = Bind(acc.where, call, at)]
  BY <1>4 DEF AttachCall, Entry
<1> HIDE DEF xs, y, at
<1>6. r.messages = [xs EXCEPT ![i] = y] /\ r.where = Bind(acc.where, call, at)
  BY <1>5 DEF Transcripts
<1>7. y.role = "assistant"
  <2>1. xs[i] \in Messages
    BY <1>3
  <2>2. QED
    BY <1>3, <2>1 DEF y, Messages
<1> HIDE DEF r
<1>8. Len(r.messages) = i /\ r.messages[i].role = "assistant"
  <2>1. Len(xs) = i /\ DOMAIN xs = 1..i
    BY <1>3
  <2> HIDE DEF i
  <2>2. QED
    BY <1>3, <1>6, <1>7, <2>1
<1>9. call \in DOMAIN r.where /\ r.where[call] = at
  BY <1>6 DEF Bind
<1>10. PICK j : Joins(acc, r, call, j)
  BY AttachCallFacts DEF r
<1>11. r.where[call] = [message |-> j, index |-> Len(CallsOf(acc.messages, j)) + 1]
  BY <1>10 DEF Joins, Bind
<1>12. i = j
  BY <1>9, <1>11 DEF at
<1> HIDE DEF i
<1>13. TakesCall(acc.messages, r.messages, Entry(call, Nil))
  BY <1>3, <1>8, <1>10, <1>12 DEF TakesCall, Joins, ms
<1>14. QED
  BY <1>8, <1>9, <1>11, <1>12, <1>13 DEF r

\* A call is begun, with arguments if there are any.
Begin(acc, call, x) ==
    IF x = Nil THEN AttachCall(acc, call) ELSE SetArgs(AttachCall(acc, call), call, x)

\* The shape is that of one more call with these arguments.
LEMMA BeginShape ==
    ASSUME NEW acc \in Transcripts, NEW call \in Calls, NEW x \in Inputs
    PROVE  Shape(Begin(acc, call, x).messages)
               = Merge(Shape(acc.messages), CallMessage(Entry(call, x)))
<1> DEFINE ms == acc.messages
           a == AttachCall(acc, call)
           n == Len(a.messages)
           r == SetArgs(a, call, x)
           e == Entry(call, Nil)
           f == Entry(call, x)
<1>1. a \in Transcripts /\ r \in Transcripts
  BY AttachCallType, SetArgsType
<1>2. /\ TakesCall(ms, a.messages, e)
      /\ call \in DOMAIN a.where /\ a.where[call].message = n
      /\ a.where[call].index = Len(CallsOf(ms, n)) + 1
  BY AttachTakes
<1>3. e \in CallEntries /\ f \in CallEntries /\ e.call = call
  BY DEF Entry, CallEntries, Inputs
<1>4. ms \in Seq(Messages) /\ a.messages \in Seq(Messages) /\ r.messages \in Seq(Messages)
  BY <1>1 DEF Transcripts
<1>5. CASE x = Nil
  <2> HIDE DEF a
  <2>1. Shape(a.messages) = Merge(Shape(ms), CallMessage(e))
    BY <1>2, <1>3, <1>4, TakesShape
  <2>2. Begin(acc, call, x) = a
    BY <1>5 DEF Begin, a
  <2>3. QED
    BY <1>5, <2>1, <2>2
<1>6. CASE x # Nil
  <2>1. Argues(a, r, call, x)
    BY <1>1, SetArgsFacts
  <2> DEFINE cs == CallsOf(ms, n)
             j == Len(cs) + 1
  <2>2. /\ SaysNothing(ms, a.messages) /\ OtherCalls(ms, a.messages, n)
        /\ a.messages[n].role = "assistant" /\ a.messages[n].calls = Append(cs, e)
        /\ n = IF ms # <<>> /\ ms[Len(ms)].role = "assistant" THEN Len(ms) ELSE Len(ms) + 1
    <3> HIDE DEF a, e
    <3>1. QED
      BY <1>2 DEF TakesCall
  <2>3. n \in 1..n /\ n \in Nat /\ DOMAIN a.messages = 1..n
    <3>1. Len(ms) \in Nat /\ (ms # <<>> => Len(ms) > 0)
      BY <1>4
    <3>2. n > 0 /\ n \in Nat
      <4> HIDE DEF n, ms
      <4>1. QED
        BY <2>2, <3>1
    <3> HIDE DEF a
    <3>3. DOMAIN a.messages = 1..n
      BY <1>4
    <3>4. QED
      BY <3>2, <3>3
  <2>4. cs \in Seq(CallEntries)
    <3>1. n \in DOMAIN ms => ms[n] \in Messages
      BY <1>4
    <3> HIDE DEF n, ms
    <3>2. QED
      BY <3>1, MessageFields DEF CallsOf
  <2>5. /\ j \in DOMAIN Append(cs, e) /\ Append(cs, e)[j] = e
        /\ [Append(cs, e) EXCEPT ![j] = f] = Append(cs, f)
    <3> HIDE DEF cs, e, f
    <3>1. /\ Append(cs, e) \in Seq(CallEntries) /\ Append(cs, f) \in Seq(CallEntries)
          /\ Len(Append(cs, e)) = j /\ Len(Append(cs, f)) = j
          /\ Append(cs, e)[j] = e /\ Append(cs, f)[j] = f /\ j \in 1..j
          /\ \A k \in 1..Len(cs) : Append(cs, e)[k] = cs[k] /\ Append(cs, f)[k] = cs[k]
          /\ \A k \in 1..j : k = j \/ k \in 1..Len(cs)
      BY <1>3, <2>4, AppendFacts
    <3> DEFINE q == [Append(cs, e) EXCEPT ![j] = f]
    <3>2. /\ q \in Seq(CallEntries) /\ Len(q) = j /\ q[j] = f
          /\ \A k \in 1..Len(cs) : q[k] = Append(cs, e)[k]
      <4>0. \A s \in Seq(CallEntries) : s \in [1..Len(s) -> CallEntries]
        OBVIOUS
      <4>1. Append(cs, e) \in [1..j -> CallEntries]
        BY <3>1, <4>0
      <4> HIDE DEF j
      <4>2. q \in [1..j -> CallEntries] /\ q[j] = f /\ j \in Nat
        BY <1>3, <3>1, <4>1
      <4>3. q \in Seq(CallEntries) /\ Len(q) = j
        <5> HIDE DEF q
        <5>1. QED
          BY <4>2
      <4>4. \A k \in 1..Len(cs) : k \in 1..j /\ k # j
        BY <2>4 DEF j
      <4>5. \A k \in 1..Len(cs) : q[k] = Append(cs, e)[k]
        BY <4>1, <4>4
      <4>6. QED
        BY <4>2, <4>3, <4>5
    <3> HIDE DEF q, j
    <3>3. \A k \in 1..j : q[k] = Append(cs, f)[k]
      BY <3>1, <3>2
    <3>4. q = Append(cs, f)
      BY <3>1, <3>2, <3>3, SameSequence
    <3>5. QED
      BY <3>1, <3>4 DEF q
  <2> HIDE DEF a, cs, r, e, f
  <2>6. /\ SaysNothing(a.messages, r.messages) /\ DOMAIN r.messages = DOMAIN a.messages
        /\ OtherCalls(a.messages, r.messages, n)
        /\ r.messages[n].calls = Append(cs, f)
    <3>1. f = Entry(Append(cs, e)[j].call, x)
      BY <1>3, <2>5 DEF f
    <3>2. /\ SaysNothing(a.messages, r.messages) /\ DOMAIN r.messages = DOMAIN a.messages
          /\ OtherCalls(a.messages, r.messages, n)
          /\ n \in DOMAIN a.messages /\ j \in DOMAIN a.messages[n].calls =>
                r.messages[n].calls =
                    [a.messages[n].calls EXCEPT ![j] = Entry(a.messages[n].calls[j].call, x)]
      BY <1>2, <2>1 DEF Argues, cs
    <3> HIDE DEF n, j
    <3>3. QED
      BY <2>2, <2>3, <2>5, <3>1, <3>2
  <2>7. Len(r.messages) = n
    BY <1>4, <2>3, <2>6
  <2> HIDE DEF n, j, ms
  <2>8. SaysNothing(ms, r.messages) /\ OtherCalls(ms, r.messages, n)
        /\ r.messages[n].role = "assistant"
    <3>1. DOMAIN ms \subseteq DOMAIN a.messages /\ Len(ms) <= Len(r.messages)
      <4>1. Len(ms) \in Nat /\ DOMAIN ms = 1..Len(ms) /\ Len(a.messages) = n
            /\ Len(ms) <= Len(a.messages)
        BY <1>4, <2>2 DEF SaysNothing, n
      <4>2. QED
        BY <2>3, <2>7, <4>1
    <3>2. /\ \A m \in DOMAIN a.messages : /\ r.messages[m].role = a.messages[m].role
                                          /\ r.messages[m].content = a.messages[m].content
          /\ \A m \in DOMAIN ms : /\ a.messages[m].role = ms[m].role
                                  /\ a.messages[m].content = ms[m].content
          /\ \A m \in DOMAIN a.messages \ DOMAIN ms : Silent(a.messages[m])
      BY <2>2, <2>6 DEF SaysNothing
    <3>3. QED
      BY <1>4, <2>2, <2>3, <2>6, <3>1, <3>2 DEF SaysNothing, OtherCalls, Silent
  <2>9. TakesCall(ms, r.messages, f)
    BY <2>2, <2>6, <2>7, <2>8 DEF TakesCall, cs
  <2>10. Shape(r.messages) = Merge(Shape(ms), CallMessage(f))
    BY <1>3, <1>4, <2>9, TakesShape
  <2>11. Begin(acc, call, x) = r
    BY <1>6 DEF Begin, r, a
  <2>12. QED
    BY <2>10, <2>11 DEF ms, f
<1>7. QED
  BY <1>5, <1>6

\* A result is the first of several, or one more of them.
LEMMA ResultShape ==
    ASSUME NEW acc \in Transcripts, NEW call \in Calls
    PROVE  Shape(AddResult(acc, call).messages) = AddResults(Shape(acc.messages))
<1> DEFINE ms == acc.messages
           t == Message("tool", <<call>>)
           r == AddResult(acc, call)
<1>1. ms \in Seq(Messages) /\ t \in Messages
  BY DEF Transcripts, Message, Messages, Roles
<1>2. r.messages = Append(ms, t)
  BY ResultFacts DEF Results
<1> HIDE DEF ms, r
<1>3. /\ r.messages \in Seq(Messages) /\ Len(r.messages) = Len(ms) + 1
      /\ r.messages[Len(ms) + 1] = t /\ \A i \in 1..Len(ms) : r.messages[i] = ms[i]
  BY <1>1, <1>2, AppendFacts
<1>4. Shape(r.messages) = Merge(Shape(ms), t)
  BY <1>1, <1>3, ShapeExtends
<1>5. Merge(Shape(ms), t) = AddResults(Shape(ms))
  BY DEF AddResults, Merge, Bare, Message
<1>6. QED
  BY <1>4, <1>5 DEF ms, r

\* Where there are results one more makes no difference.
LEMMA ResultsTwice ==
    ASSUME NEW x \in Seq(Messages)
    PROVE  AddResults(x) \in Seq(Messages) /\ AddResults(AddResults(x)) = AddResults(x)
<1> DEFINE t == Message("tool", <<>>)
           y == Merge(x, t)
           z == Merge(y, t)
           n == Len(y)
<1>1. t \in Messages /\ Bare(t) = t /\ t.role = "tool" /\ t.content = <<>> /\ t.calls = <<>>
  BY DEF Message, Messages, Roles, Bare
<1> HIDE DEF t
<1>2. /\ y \in Seq(Messages)
      /\ Fuses(x, t) => FusesTo(x, t, y)
      /\ ~Fuses(x, t) => y = Append(x, t)
  BY <1>1, MergeCases
<1> HIDE DEF y
<1>3. n \in 1..n /\ n \in Nat /\ y[n].role = "tool"
  <2>1. CASE Fuses(x, t)
    BY <1>1, <1>2, <2>1 DEF FusesTo, Fuses
  <2>2. CASE ~Fuses(x, t)
    <3>1. n = Len(x) + 1 /\ y[n] = t /\ Len(x) \in Nat
      BY <1>1, <1>2, <2>2, AppendFacts
    <3>2. QED
      BY <1>1, <3>1
  <2>3. QED
    BY <2>1, <2>2
<1>4. Fuses(y, t)
  BY <1>1, <1>3 DEF Fuses
<1>5. z \in Seq(Messages) /\ FusesTo(y, t, z)
  BY <1>1, <1>2, <1>4, MergeCases
<1> HIDE DEF z
<1>6. /\ Len(z) = n /\ \A i \in 1..(n - 1) : z[i] = y[i]
      /\ z[n].role = y[n].role /\ z[n].content = y[n].content \o <<>>
      /\ z[n].calls = y[n].calls \o <<>>
  BY <1>1, <1>5 DEF FusesTo
<1> HIDE DEF n
<1>7. z[n] \in Messages /\ y[n] \in Messages
  BY <1>2, <1>3, <1>5, <1>6 DEF n
<1>8. y[n].content \o <<>> = y[n].content /\ y[n].calls \o <<>> = y[n].calls
  BY <1>7, MessageFields, ConcatFacts
<1>9. z[n] = y[n]
  BY <1>6, <1>7, <1>8, SameMessage
<1>10. \A i \in 1..n : z[i] = y[i]
  BY <1>3, <1>6, <1>9
<1>11. z = y
  BY <1>2, <1>5, <1>6, <1>10, SameSequence DEF n
<1>12. QED
  BY <1>2, <1>11 DEF AddResults, z, y, t

-----------------------------------------------------------------------------
(* What a chunk does to a shape.                                           *)

\* Nothing is said after message k.
LastSpoken(x, k) ==
    /\ k \in DOMAIN x /\ x[k].content # <<>>
    /\ \A j \in DOMAIN x : j > k => x[j].content = <<>>

\* It is said where the last chunk was.
Utters(x, y, c) == \E k : LastSpoken(x, k) /\ Adds(x, y, k, c)

\* There is one way to go on.
LEMMA UttersOnce ==
    ASSUME NEW x \in Seq(Messages), NEW y, NEW z, NEW c, Utters(x, y, c), Utters(x, z, c)
    PROVE  y = z
<1>1. PICK k : LastSpoken(x, k) /\ Adds(x, y, k, c)
  BY DEF Utters
<1>2. PICK j : LastSpoken(x, j) /\ Adds(x, z, j, c)
  BY DEF Utters
<1>3. DOMAIN x = 1..Len(x) /\ Len(x) \in Nat
  OBVIOUS
<1>4. k = j
  BY <1>1, <1>2, <1>3 DEF LastSpoken
<1>5. y \in Seq(Messages) /\ z \in Seq(Messages) /\ Len(y) = Len(x) /\ Len(z) = Len(x)
      /\ k \in 1..Len(x)
  BY <1>1, <1>2, <1>3 DEF Adds, LastSpoken
<1>6. y[k] \in Messages /\ z[k] \in Messages
  BY <1>5
<1>7. y[k] = z[k]
  <2>1. y[k].role = z[k].role /\ y[k].content = z[k].content /\ y[k].calls = z[k].calls
    BY <1>1, <1>2, <1>4 DEF Adds, LastSpoken
  <2>2. QED
    BY <1>6, <2>1, SameMessage
<1>8. \A i \in 1..Len(x) : y[i] = z[i]
  BY <1>1, <1>2, <1>3, <1>4, <1>7 DEF Adds
<1>9. QED
  BY <1>5, <1>8, SameSequence

\* A silent message leaves it where it was.
LEMMA SilentMerge ==
    ASSUME NEW x \in Seq(Messages), NEW y, NEW c \in Nat, Utters(x, y, c),
           NEW m \in Messages, Silent(m)
    PROVE  Utters(Merge(x, m), Merge(y, m), c)
<1> DEFINE b == Bare(m)
           u == Merge(x, m)
           v == Merge(y, m)
           n == Len(x)
<1>1. PICK k : LastSpoken(x, k) /\ Adds(x, y, k, c)
  BY DEF Utters
<1>2. /\ DOMAIN x = 1..n /\ n \in Nat /\ k \in 1..n /\ n \in 1..n
      /\ y \in Seq(Messages) /\ Len(y) = n /\ DOMAIN y = 1..n
      /\ \A j \in 1..n : y[j].role = x[j].role
      /\ \A j \in 1..n : x[j] \in Messages /\ y[j] \in Messages
  <2>1. DOMAIN x = 1..n /\ n \in Nat /\ \A j \in 1..n : x[j] \in Messages
    OBVIOUS
  <2> HIDE DEF n
  <2>2. y \in Seq(Messages) /\ Len(y) = n /\ k \in 1..n
    BY <1>1, <2>1 DEF Adds, LastSpoken, n
  <2>3. DOMAIN y = 1..n /\ \A j \in 1..n : y[j] \in Messages
    BY <2>2
  <2>4. \A j \in 1..n : y[j].role = x[j].role
    BY <1>1, <2>1, <2>2 DEF Adds
  <2>5. n \in 1..n
    BY <2>1, <2>2
  <2>6. QED
    BY <2>1, <2>2, <2>3, <2>4, <2>5
<1>3. CASE m.role = "user"
  <2>1. u = x /\ v = y
    BY <1>2, <1>3, MergeFacts
  <2>2. QED
    BY <2>1
<1>4. CASE m.role # "user"
  <2>1. b \in Messages /\ b.content = <<>>
    <3>1. b \in Messages
      BY MergeFacts
    <3>2. b.content = <<>>
      BY DEF Silent, Bare, Message
    <3>3. QED
      BY <3>1, <3>2
  <2>2. Fuses(x, m) <=> Fuses(y, m)
    <3>1. x # <<>> /\ y # <<>>
      BY <1>2
    <3>2. QED
      BY <1>2, <3>1 DEF Fuses
  <2>3. /\ u \in Seq(Messages)
        /\ Fuses(x, m) => FusesTo(x, b, u)
        /\ ~Fuses(x, m) => u = Append(x, b)
    BY <1>4, MergeCases
  <2>4. /\ v \in Seq(Messages)
        /\ Fuses(y, m) => FusesTo(y, b, v)
        /\ ~Fuses(y, m) => v = Append(y, b)
    BY <1>2, <1>4, MergeCases
  <2> HIDE DEF u, v, b, n
  <2>5. CASE Fuses(x, m)
    <3>1. /\ Len(u) = n /\ \A j \in 1..(n - 1) : u[j] = x[j]
          /\ u[n].role = x[n].role /\ u[n].content = x[n].content \o <<>>
          /\ u[n].calls = x[n].calls \o b.calls
      BY <2>1, <2>3, <2>5 DEF FusesTo, n
    <3>2. /\ Len(v) = n /\ \A j \in 1..(n - 1) : v[j] = y[j]
          /\ v[n].role = y[n].role /\ v[n].content = y[n].content \o <<>>
          /\ v[n].calls = y[n].calls \o b.calls
      BY <1>2, <2>1, <2>2, <2>4, <2>5 DEF FusesTo
    <3>3. x[n].content \o <<>> = x[n].content /\ y[n].content \o <<>> = y[n].content
      BY <1>2, MessageFields, ConcatFacts
    <3>4. u[n] \in Messages /\ v[n] \in Messages /\ DOMAIN u = 1..n /\ DOMAIN v = 1..n
      BY <1>2, <2>3, <2>4, <3>1, <3>2
    <3>5. \A j \in 1..n : j = n \/ j \in 1..(n - 1)
      BY <1>2
    <3>6. \A j \in 1..n : u[j].content = x[j].content /\ v[j].content = y[j].content
                          /\ u[j].role = x[j].role /\ v[j].role = y[j].role
      BY <3>1, <3>2, <3>3, <3>5
    <3>7. LastSpoken(u, k)
      BY <1>1, <1>2, <3>4, <3>6 DEF LastSpoken
    <3>8. \A j \in 1..n : j # k => v[j] = u[j]
      <4>1. SUFFICES ASSUME NEW j \in 1..n, j # k
                     PROVE  v[j] = u[j]
        OBVIOUS
      <4>2. y[j] = x[j]
        BY <1>1, <1>2, <4>1 DEF Adds
      <4>3. CASE j # n
        BY <3>1, <3>2, <3>5, <4>1, <4>2, <4>3
      <4>4. CASE j = n
        <5>1. y[n] = x[n]
          BY <4>2, <4>4
        <5>2. v[n].role = u[n].role /\ v[n].content = u[n].content /\ v[n].calls = u[n].calls
          BY <3>1, <3>2, <5>1
        <5>3. v[n] = u[n]
          BY <3>4, <5>2, SameMessage
        <5>4. QED
          BY <4>4, <5>3
      <4>5. QED
        BY <4>3, <4>4
    <3>9. v[k].role = u[k].role /\ v[k].calls = u[k].calls
          /\ v[k].content = Append(u[k].content, c)
      <4>1. /\ y[k].role = x[k].role /\ y[k].calls = x[k].calls
            /\ y[k].content = Append(x[k].content, c)
        BY <1>1 DEF Adds
      <4>2. v[k].calls = u[k].calls
        <5>1. CASE k = n
          BY <3>1, <3>2, <4>1, <5>1
        <5>2. CASE k # n
          BY <1>2, <3>1, <3>2, <3>5, <4>1, <5>2
        <5>3. QED
          BY <5>1, <5>2
      <4>3. QED
        BY <1>2, <3>6, <4>1, <4>2
    <3>10. Adds(u, v, k, c)
      BY <2>4, <3>1, <3>2, <3>4, <3>8, <3>9 DEF Adds
    <3>11. QED
      BY <3>7, <3>10 DEF Utters, u, v
  <2>6. CASE ~Fuses(x, m)
    <3>1. u = Append(x, b) /\ v = Append(y, b)
      BY <2>2, <2>3, <2>4, <2>6
    <3>2. /\ Len(u) = n + 1 /\ DOMAIN u = 1..(n + 1) /\ u[n + 1] = b
          /\ \A j \in 1..n : u[j] = x[j]
      BY <2>1, <3>1, AppendFacts DEF n
    <3>3. /\ Len(v) = n + 1 /\ v[n + 1] = b /\ \A j \in 1..n : v[j] = y[j]
      BY <1>2, <2>1, <3>1, AppendFacts
    <3>4. \A j \in 1..(n + 1) : j = n + 1 \/ j \in 1..n
      BY <1>2
    <3>5. k \in 1..(n + 1) /\ k # n + 1
      BY <1>2
    <3>6. LastSpoken(u, k)
      BY <1>1, <1>2, <2>1, <3>2, <3>4, <3>5 DEF LastSpoken
    <3>7. Adds(u, v, k, c)
      BY <1>1, <1>2, <2>4, <3>2, <3>3, <3>4 DEF Adds
    <3>8. QED
      BY <3>6, <3>7 DEF Utters, u, v
  <2>7. QED
    BY <2>5, <2>6
<1>5. QED
  BY <1>3, <1>4

\* So it is where a chunk is added to the last message that says something.
LEMMA SpokenMerge ==
    ASSUME NEW z \in Seq(Messages), NEW m \in Messages, NEW k \in Messages, NEW c \in Nat,
           m.role \notin {"user", "tool"}, m.content # <<>>,
           k.role = m.role, k.calls = m.calls, k.content = Append(m.content, c)
    PROVE  Utters(Merge(z, m), Merge(z, k), c)
<1> DEFINE u == Merge(z, m)
           v == Merge(z, k)
           n == Len(u)
<1>1. Bare(m) = m /\ Bare(k) = k /\ m.role # "user" /\ k.role # "user"
  BY MessageFields
<1>2. /\ u \in Seq(Messages)
      /\ Fuses(z, m) => FusesTo(z, m, u)
      /\ ~Fuses(z, m) => u = Append(z, m)
  BY <1>1, MergeCases
<1>3. /\ v \in Seq(Messages)
      /\ Fuses(z, k) => FusesTo(z, k, v)
      /\ ~Fuses(z, k) => v = Append(z, k)
  BY <1>1, MergeCases
<1>4. Fuses(z, k) <=> Fuses(z, m)
  BY DEF Fuses
<1>5. m.content \in Seq(Nat \cup Calls) /\ c \in Nat \cup Calls
  BY MessageFields
<1> HIDE DEF u, v
<1>6. /\ n \in 1..n /\ n \in Nat /\ Len(v) = n /\ \A j \in 1..(n - 1) : v[j] = u[j]
      /\ v[n].role = u[n].role /\ v[n].calls = u[n].calls
      /\ v[n].content = Append(u[n].content, c) /\ u[n].content # <<>>
  <2>1. CASE Fuses(z, m)
    <3> DEFINE p == Len(z)
    <3>1. /\ p \in 1..p /\ p \in Nat /\ n = p /\ \A j \in 1..(p - 1) : u[j] = z[j]
          /\ u[p].role = z[p].role /\ u[p].content = z[p].content \o m.content
          /\ u[p].calls = z[p].calls \o m.calls
      BY <1>2, <2>1 DEF FusesTo
    <3>2. /\ Len(v) = p /\ \A j \in 1..(p - 1) : v[j] = z[j]
          /\ v[p].role = z[p].role /\ v[p].content = z[p].content \o k.content
          /\ v[p].calls = z[p].calls \o k.calls
      BY <1>3, <1>4, <2>1 DEF FusesTo
    <3> HIDE DEF p
    <3>3. z[p].content \in Seq(Nat \cup Calls)
      <4>1. z[p] \in Messages
        BY <3>1 DEF p
      <4>2. QED
        BY <4>1, MessageFields
    <3>4. \A a, b \in Seq(Nat \cup Calls) :
              /\ a \o Append(b, c) = Append(a \o b, c)
              /\ b # <<>> => a \o b # <<>>
      <4>1. \A a, b \in Seq(Nat \cup Calls) : a \o Append(b, c) = Append(a \o b, c)
        BY <1>5, ConcatAppend
      <4>2. \A a, b \in Seq(Nat \cup Calls) : b # <<>> => a \o b # <<>>
        OBVIOUS
      <4>3. QED
        BY <4>1, <4>2
    <3>5. /\ z[p].content \o k.content = Append(z[p].content \o m.content, c)
          /\ z[p].content \o m.content # <<>>
      BY <1>5, <3>3, <3>4
    <3>6. QED
      BY <3>1, <3>2, <3>5
  <2>2. CASE ~Fuses(z, m)
    <3>1. u = Append(z, m) /\ v = Append(z, k)
      BY <1>2, <1>3, <1>4, <2>2
    <3>2. /\ n = Len(z) + 1 /\ Len(v) = n /\ u[n] = m /\ v[n] = k /\ Len(z) \in Nat
          /\ \A j \in 1..Len(z) : u[j] = z[j] /\ v[j] = z[j]
      BY <3>1, AppendFacts
    <3>3. QED
      BY <3>2
  <2>3. QED
    BY <2>1, <2>2
<1>7. DOMAIN u = 1..n /\ DOMAIN v = 1..n
  BY <1>2, <1>3, <1>6
<1> HIDE DEF n
<1>8. \A j \in 1..n : j = n \/ j \in 1..(n - 1)
  BY <1>6
<1>9. LastSpoken(u, n)
  BY <1>6, <1>7 DEF LastSpoken
<1>10. Adds(u, v, n, c)
  BY <1>3, <1>6, <1>7, <1>8 DEF Adds
<1>11. QED
  BY <1>9, <1>10 DEF Utters, u, v

\* Chunk c is said in message i of ms, the last one that says anything.
LEMMA UtterShape ==
    ASSUME NEW ms \in Seq(Messages), NEW r, NEW i, NEW c \in Nat, LastSaid(ms, i),
           ms[i].role # "user", ms[i].content # <<>>, Adds(ms, r, i, c)
    PROVE  Utters(Shape(ms), Shape(r), c)
<1> DEFINE n == Len(ms)
<1>1. /\ n \in Nat /\ DOMAIN ms = 1..n /\ i \in 1..n /\ i \in Nat /\ r \in Seq(Messages)
      /\ Len(r) = n /\ \A j \in 1..n : ms[j] \in Messages /\ r[j] \in Messages
  <2>1. n \in Nat /\ DOMAIN ms = 1..n /\ \A j \in 1..n : ms[j] \in Messages
    OBVIOUS
  <2> HIDE DEF n
  <2>2. i \in 1..n /\ r \in Seq(Messages) /\ DOMAIN r = 1..n
    BY <2>1 DEF LastSaid, Adds
  <2>3. Len(r) = n /\ \A j \in 1..n : r[j] \in Messages
    BY <2>1, <2>2
  <2>4. QED
    BY <2>1, <2>2, <2>3
<1>2. PICK g : ShapedBy(ms, g) /\ Shape(ms) = g[n]
  BY ShapeFacts
<1>3. PICK f : ShapedBy(r, f) /\ Shape(r) = f[Len(r)]
  BY <1>1, ShapeFacts
<1>4. \A j \in 1..n : /\ g[j] = Merge(g[j - 1], ms[j]) /\ f[j] = Merge(f[j - 1], r[j])
                      /\ g[j - 1] \in Seq(Messages) /\ f[j - 1] \in Seq(Messages)
  <2>1. \A j \in 1..n : j - 1 \in 0..n
    BY <1>1
  <2>2. n = Len(ms)
    OBVIOUS
  <2> HIDE DEF n
  <2>3. QED
    BY <1>1, <1>2, <1>3, <2>1, <2>2 DEF ShapedBy
<1> HIDE DEF n
<1>5. /\ \A j \in 1..n : j # i => r[j] = ms[j]
      /\ \A j \in 1..n : j > i => Silent(ms[j])
      /\ r[i].role = ms[i].role /\ r[i].calls = ms[i].calls
      /\ r[i].content = Append(ms[i].content, c) /\ ms[i].role # "tool"
  BY <1>1 DEF Adds, LastSaid
<1>6. f[i - 1] = g[i - 1]
  <2> DEFINE p == i - 1
  <2>1. p \in Nat /\ p <= n /\ \A j \in 1..p : j \in 1..n /\ j # i
    BY <1>1
  <2> HIDE DEF p
  <2>2. \A j \in 1..p : r[j] = ms[j]
    BY <1>5, <2>1
  <2>3. p <= Len(ms) /\ p <= Len(r) /\ Len(ms) \in Nat /\ Len(r) \in Nat
    BY <1>1, <2>1 DEF n
  <2>4. f[p] = g[p]
    BY <1>2, <1>3, <2>1, <2>2, <2>3, SamePrefix
  <2>5. QED
    BY <2>4 DEF p
<1> DEFINE S == {j \in 0..n : j >= i => Utters(g[j], f[j], c)}
<1>7. 0 \in S
  BY <1>1
<1>8. \A j \in 0..n : j \in S /\ j < n => j + 1 \in S
  <2>1. SUFFICES ASSUME NEW j \in 0..n, j >= i => Utters(g[j], f[j], c), j < n, j + 1 >= i
                 PROVE  Utters(g[j + 1], f[j + 1], c)
    BY <1>1
  <2>2. j + 1 \in 1..n /\ (j + 1) - 1 = j
    BY <1>1, <2>1
  <2>3. /\ g[j + 1] = Merge(g[j], ms[j + 1]) /\ f[j + 1] = Merge(f[j], r[j + 1])
        /\ g[j] \in Seq(Messages)
    BY <1>4, <2>2
  <2>4. CASE j + 1 = i
    <3>1. f[j] = g[j]
      BY <1>6, <2>2, <2>4
    <3>2. Utters(Merge(g[j], ms[i]), Merge(g[j], r[i]), c)
      BY <1>1, <1>5, <2>3, SpokenMerge
    <3>3. QED
      BY <2>3, <2>4, <3>1, <3>2
  <2>5. CASE j + 1 # i
    <3>1. j >= i /\ j + 1 > i
      BY <1>1, <2>1, <2>5
    <3>2. r[j + 1] = ms[j + 1] /\ Silent(ms[j + 1]) /\ ms[j + 1] \in Messages
      BY <1>1, <1>5, <2>2, <2>5, <3>1
    <3>3. QED
      BY <2>1, <2>3, <3>1, <3>2, SilentMerge
  <2>6. QED
    BY <2>4, <2>5
<1>9. 0..n \subseteq S
  <2> HIDE DEF S
  <2>1. QED
    BY <1>1, <1>7, <1>8, IntervalInduction
<1>10. Utters(g[n], f[n], c)
  BY <1>1, <1>9
<1>11. QED
  BY <1>1, <1>2, <1>3, <1>10

\* What the user says is not in the shape.
LEMMA UserShape ==
    ASSUME NEW acc \in Transcripts, NEW c \in Nat
    PROVE  Shape(AddUserText(acc, c).messages) = Shape(acc.messages)
<1> DEFINE ms == acc.messages
           l == Len(ms)
           r == AddUserText(acc, c)
<1>1. ms \in Seq(Messages) /\ r \in Transcripts /\ r.messages \in Seq(Messages)
  BY AddUserTextType DEF Transcripts
<1>2. CASE Trailing(acc, "user")
  <2> DEFINE x == [ms[l] EXCEPT !.content = Append(ms[l].content, c)]
             y == [ms EXCEPT ![l] = x]
  <2>1. l \in 1..l /\ l \in DOMAIN ms /\ ms[l].role = "user" /\ l \in Nat /\ ms # <<>>
    BY <1>1, <1>2 DEF Trailing, Last
  <2>2. r = [acc EXCEPT !.messages = y]
    BY <1>2 DEF AddUserText
  <2>3. ms[l] \in Messages
    BY <1>1, <2>1, MessageFacts
  <2>4. x.role = "user" /\ x \in Messages
    <3>1. ms[l].content \in Seq(Nat \cup Calls) /\ c \in Nat \cup Calls
      BY <2>3, MessageFields
    <3>2. Append(ms[l].content, c) \in Seq(Nat \cup Calls)
      BY <3>1
    <3>3. QED
      BY <2>1, <2>3, <3>2 DEF Messages
  <2> HIDE DEF x
  <2>5. Len(y) = l /\ y[l] = x /\ (\A k \in 1..(l - 1) : y[k] = ms[k]) /\ y \in Seq(Messages)
    <3> HIDE DEF ms
    <3>1. QED
      BY <1>1, <2>1, <2>4
  <2> HIDE DEF y, r
  <2>6. r.messages = y
    BY <2>2 DEF Transcripts
  <2>7. PICK z \in Seq(Messages) : \A q \in Seq(Messages) :
            Len(q) = l /\ (\A i \in 1..(l - 1) : q[i] = ms[i]) => Shape(q) = Merge(z, q[l])
    BY <1>1, <2>1, ShapeLast
  <2>8. Shape(ms) = Merge(z, ms[l]) /\ Shape(y) = Merge(z, y[l])
    BY <1>1, <2>5, <2>7
  <2>9. Merge(z, ms[l]) = z /\ Merge(z, x) = z
    BY <2>1, <2>4 DEF Merge
  <2>10. QED
    BY <2>5, <2>6, <2>8, <2>9 DEF ms, r
<1>3. CASE ~Trailing(acc, "user")
  <2> DEFINE x == Message("user", <<c>>)
             y == Append(ms, x)
  <2>1. r = [acc EXCEPT !.messages = y]
    BY <1>3 DEF AddUserText
  <2>2. x \in Messages /\ x.role = "user"
    BY DEF Message, Messages, Roles
  <2> HIDE DEF x, ms, r
  <2>3. /\ y \in Seq(Messages) /\ Len(y) = Len(ms) + 1 /\ y[Len(ms) + 1] = x
        /\ \A i \in 1..Len(ms) : y[i] = ms[i]
    BY <1>1, <2>2, AppendFacts
  <2> HIDE DEF y
  <2>4. r.messages = y
    BY <2>1 DEF Transcripts
  <2>5. Shape(y) = Merge(Shape(ms), x)
    BY <1>1, <2>3, ShapeExtends
  <2>6. Merge(Shape(ms), x) = Shape(ms)
    BY <2>2 DEF Merge
  <2>7. QED
    BY <2>4, <2>5, <2>6 DEF ms, r
<1>4. QED
  BY <1>2, <1>3

\* The message that is open, if any, is one that was begun with a chunk.
Voiced(acc, id, role) ==
    /\ OpenAt(acc, id, role)
    /\ id # Nil => acc.messages[acc.opened[id]].content # <<>>

\* A chunk of it is said where the last chunk was,
LEMMA SayFold ==
    ASSUME NEW acc \in Transcripts, NEW kind \in ChunkKinds, NEW id \in Nat \cup {Nil},
           id # Nil, Voiced(acc, id, RoleOf(kind)), NEW c \in Nat
    PROVE  LET r == Fold(acc, ChunkEvent(kind, id, c))
           IN  /\ Voiced(r, id, RoleOf(kind))
               /\ Utters(Shape(acc.messages), Shape(r.messages), c)
<1> DEFINE r == Fold(acc, ChunkEvent(kind, id, c))
           i == acc.opened[id]
           ms == acc.messages
<1>1. /\ id \in DOMAIN acc.opened /\ LastSaid(ms, i) /\ ms[i].role = RoleOf(kind)
      /\ ms[i].content # <<>> /\ kind \in {"text", "thought"}
  BY DEF Voiced, OpenAt, ChunkKinds
<1>2. i \in DOMAIN ms /\ ms \in Seq(Messages)
  BY <1>1 DEF LastSaid, Transcripts
<1>3. Adds(ms, r.messages, i, c) /\ r.opened = acc.opened
  BY <1>1, <1>2, ContentFold
<1>4. RoleOf(kind) # "user"
  BY <1>1 DEF RoleOf
<1> HIDE DEF r, i, ms
<1>5. Utters(Shape(ms), Shape(r.messages), c)
  BY <1>1, <1>2, <1>3, <1>4, UtterShape
<1>6. LastSaid(r.messages, i) /\ r.messages[i].role = ms[i].role /\ r.messages[i].content # <<>>
  <2>1. ms[i] \in Messages
    BY <1>2
  <2>2. Append(ms[i].content, c) # <<>>
    <3>1. ms[i].content \in Seq(Nat \cup Calls)
      BY <2>1, MessageFields
    <3>2. QED
      BY <3>1
  <2>3. i \in Nat /\ \A m \in DOMAIN ms : m \in Nat
    BY <1>2
  <2>4. \A m \in DOMAIN ms : m > i => r.messages[m] = ms[m]
    BY <1>2, <1>3, <2>3 DEF Adds
  <2>5. QED
    BY <1>1, <1>2, <1>3, <2>2, <2>4 DEF Adds, LastSaid
<1>7. Voiced(r, id, RoleOf(kind))
  BY <1>1, <1>3, <1>6 DEF Voiced, OpenAt, i
<1>8. QED
  BY <1>5, <1>7 DEF r, ms

\* ... and one that begins a message is the content of that.
LEMMA OpenSayFold ==
    ASSUME NEW acc \in Transcripts, NEW kind \in ChunkKinds, NEW id \in Nat, NEW c \in Nat,
           NEW start, start = IF kind = "text" THEN "textStart" ELSE "thoughtStart"
    PROVE  LET a == Fold(acc, FrameEvent(start, id))
               r == Fold(a, ChunkEvent(kind, id, c))
           IN  /\ Voiced(r, id, RoleOf(kind))
               /\ Shape(r.messages)
                      = Merge(Shape(acc.messages), Message(RoleOf(kind), <<c>>))
<1> DEFINE a == Fold(acc, FrameEvent(start, id))
           r == Fold(a, ChunkEvent(kind, id, c))
           ms == acc.messages
           role == RoleOf(kind)
           l == Len(ms) + 1
           x == Message(role, <<>>)
           y == Message(role, <<c>>)
<1>1. /\ kind \in {"text", "thought"} /\ start \in {"textStart", "thoughtStart"}
      /\ RoleOf(start) = role /\ role \in {"assistant", "reasoning"}
  BY DEF ChunkKinds, RoleOf
<1>2. /\ x \in Messages /\ y \in Messages /\ ms \in Seq(Messages)
      /\ x.role = role /\ y.role = role /\ x.content = <<>> /\ y.content = <<c>>
      /\ x.calls = y.calls
  BY <1>1 DEF Message, Messages, Roles, Transcripts
<1>3. a.messages = Append(ms, x) /\ a.opened = Bind(acc.opened, id, l) /\ a \in Transcripts
  <2>1. a = OpenMessage(acc, role, id)
    BY <1>1 DEF Fold, FrameEvent
  <2>2. a \in Transcripts
    BY <1>1, <2>1, OpenMessageType DEF Roles
  <2>3. QED
    BY <2>1, <2>2 DEF OpenMessage, Transcripts
<1>4. id \in DOMAIN a.opened /\ a.opened[id] = l
  BY <1>3 DEF Bind
<1> HIDE DEF x, y, ms, role, a
<1>5. /\ a.messages \in Seq(Messages) /\ Len(a.messages) = l /\ DOMAIN a.messages = 1..l
      /\ a.messages[l] = x /\ \A m \in 1..Len(ms) : a.messages[m] = ms[m]
      /\ Len(ms) \in Nat /\ l \in 1..l /\ \A m \in 1..Len(ms) : m \in 1..l /\ m # l
  BY <1>2, <1>3, AppendFacts
<1>6. Adds(a.messages, r.messages, l, c) /\ r.opened = a.opened
  <2>1. id \in Nat \cup {Nil} /\ a \in Transcripts /\ kind \in {"text", "thought"}
    BY <1>1, <1>3
  <2>2. a.opened[id] \in DOMAIN a.messages
    BY <1>4, <1>5
  <2>3. Adds(a.messages, r.messages, a.opened[id], c) /\ r.opened = a.opened
    BY <1>4, <2>1, <2>2, ContentFold
  <2>4. QED
    BY <1>4, <2>3
<1> HIDE DEF r
<1>7. /\ r.messages \in Seq(Messages) /\ DOMAIN r.messages = 1..l
      /\ \A m \in 1..Len(ms) : r.messages[m] = ms[m]
  BY <1>5, <1>6 DEF Adds
<1>8. Len(r.messages) = l
  BY <1>5, <1>7
<1>9. r.messages[l] = y
  <2>1. r.messages[l] \in Messages
    BY <1>5, <1>7
  <2>2. Append(<<>>, c) = <<c>>
    OBVIOUS
  <2>3. r.messages[l].role = y.role /\ r.messages[l].calls = y.calls /\ r.messages[l].content = y.content
    BY <1>2, <1>5, <1>6, <2>2 DEF Adds
  <2>4. QED
    BY <1>2, <2>1, <2>3, SameMessage
<1>10. Shape(r.messages) = Merge(Shape(ms), y)
  BY <1>2, <1>7, <1>8, <1>9, ShapeExtends
<1>11. Voiced(r, id, role)
  <2>1. LastSaid(r.messages, l)
    BY <1>1, <1>2, <1>5, <1>7, <1>9 DEF LastSaid
  <2>2. y.content # <<>>
    BY <1>2
  <2>3. QED
    BY <1>2, <1>4, <1>6, <1>9, <2>1, <2>2 DEF Voiced, OpenAt
<1>12. QED
  BY <1>10, <1>11 DEF r, a, ms, role, y

-----------------------------------------------------------------------------
(* What has been read of a bridge: the snapshot of a replay, or what the   *)
(* client makes of the streams of a live session.                          *)

Read(b) == IF b.sink = "replay" THEN b.acc ELSE Transcribe(b.wire)

Reading(b) == Shape(Read(b).messages)

\* Both are transcripts.
LEMMA ReadType ==
    ASSUME NEW b \in Bridges
    PROVE  /\ Read(b) \in Transcripts /\ Read(b).messages \in Seq(Messages)
           /\ Reading(b) \in Seq(Messages)
<1>1. b.wire \in Seq(Events) /\ b.acc \in Transcripts
  BY DEF Bridges
<1>2. Read(b) \in Transcripts
  BY <1>1, TranscribeGrows DEF Read
<1>3. Read(b).messages \in Seq(Messages)
  BY <1>2 DEF Transcripts
<1>4. QED
  BY <1>2, <1>3, ShapeType DEF Reading

\* An event is read if somebody is told it.
LEMMA ReadTold ==
    ASSUME NEW b \in Bridges, NEW r, NEW e \in Events, SameReader(b, r), Told(b, r, e)
    PROVE  Read(r) = IF Listens(b) THEN Fold(Read(b), e) ELSE Read(b)
<1>1. b.wire \in Seq(Events)
  BY DEF Bridges
<1>2. CASE b.sink = "replay"
  BY <1>2 DEF Read, SameReader, Told, AccAfter, Listens
<1>3. CASE b.sink = "run"
  <2>1. r.wire = Append(b.wire, e) /\ r.sink # "replay"
    BY <1>3 DEF Told, WireAfter, SameReader
  <2>2. Transcribe(r.wire) = Fold(Transcribe(b.wire), e)
    BY <1>1, <2>1, TranscribeGrows
  <2>3. QED
    BY <1>3, <2>1, <2>2 DEF Read, Listens
<1>4. CASE b.sink \notin {"run", "replay"}
  BY <1>4 DEF Read, SameReader, Told, WireAfter, Listens
<1>5. QED
  BY <1>2, <1>3, <1>4

\* Where nothing is told, nothing is read.
LEMMA ReadSame ==
    ASSUME NEW b, NEW r, SameReader(b, r), SameOut(b, r)
    PROVE  Read(r) = Read(b) /\ Reading(r) = Reading(b)
BY DEF SameReader, SameOut, Read, Reading

\* The events of runs, and the ends of messages, leave what has been read.
LEMMA ReadOther ==
    ASSUME NEW b \in Bridges, NEW r, SameReader(b, r)
    PROVE  /\ \A t \in Nat, kind \in {"runStarted", "runFinished", "runError", "interrupt"} :
                 Told(b, r, RunEvent(kind, t)) => Read(r).messages = Read(b).messages
           /\ \A id \in Nat \cup {Nil}, kind \in {"textEnd", "thoughtEnd"} :
                 Told(b, r, FrameEvent(kind, id)) => Read(r).messages = Read(b).messages
<1>1. Read(b) \in Transcripts
  BY ReadType
<1>2. ASSUME NEW t \in Nat, NEW kind \in {"runStarted", "runFinished", "runError", "interrupt"},
             Told(b, r, RunEvent(kind, t))
      PROVE  Read(r).messages = Read(b).messages
  <2>1. RunEvent(kind, t) \in Events
    BY RunEventFacts
  <2>2. Read(r) = IF Listens(b) THEN Fold(Read(b), RunEvent(kind, t)) ELSE Read(b)
    BY <1>2, <2>1, ReadTold
  <2>3. Fold(Read(b), RunEvent(kind, t)) = Read(b)
    BY <1>1, OtherFold
  <2>4. QED
    BY <2>2, <2>3
<1>3. ASSUME NEW id \in Nat \cup {Nil}, NEW kind \in {"textEnd", "thoughtEnd"},
             Told(b, r, FrameEvent(kind, id))
      PROVE  Read(r).messages = Read(b).messages
  <2>1. FrameEvent(kind, id) \in Events
    BY FrameEventFacts
  <2>2. Read(r) = IF Listens(b) THEN Fold(Read(b), FrameEvent(kind, id)) ELSE Read(b)
    BY <1>3, <2>1, ReadTold
  <2>3. Fold(Read(b), FrameEvent(kind, id)).messages = Read(b).messages
    BY <1>1, OtherFold
  <2>4. QED
    BY <2>2, <2>3
<1>4. QED
  BY <1>2, <1>3

\* Nothing more is read of a bridge.
SameRead(b, r) == Read(r).messages = Read(b).messages /\ Reading(r) = Reading(b)

\* Closing what is open leaves it as it was,
LEMMA SameReadCloses ==
    ASSUME NEW b \in Bridges, NEW r
    PROVE  /\ ClosesReasoning(b, r) => SameRead(b, r)
           /\ ClosesMessage(b, r) => SameRead(b, r)
           /\ Silences(b, r) => SameRead(b, r)
<1>1. ASSUME NEW a \in Bridges, NEW m, ClosesReasoning(a, m)
      PROVE  m \in Bridges /\ SameRead(a, m)
  <2>1. SameReader(a, m) /\ m \in Bridges
    BY <1>1 DEF ClosesReasoning, SameRun, SameReader
  <2>2. a.reasoning \in Nat \cup {Nil}
    BY DEF Bridges
  <2>3. SameOut(a, m) \/ Told(a, m, FrameEvent("thoughtEnd", a.reasoning))
    BY <1>1 DEF ClosesReasoning
  <2>4. QED
    BY <2>1, <2>2, <2>3, ReadSame, ReadOther DEF SameRead, Reading
<1>2. ASSUME NEW a \in Bridges, NEW m, ClosesMessage(a, m)
      PROVE  m \in Bridges /\ SameRead(a, m)
  <2>1. SameReader(a, m) /\ m \in Bridges
    BY <1>2 DEF ClosesMessage, SameRun, SameReader
  <2>2. a.message \in Nat \cup {Nil}
    BY DEF Bridges
  <2>3. SameOut(a, m) \/ Told(a, m, FrameEvent("textEnd", a.message))
    BY <1>2 DEF ClosesMessage
  <2>4. QED
    BY <2>1, <2>2, <2>3, ReadSame, ReadOther DEF SameRead, Reading
<1>3. ASSUME Silences(b, r)
      PROVE  SameRead(b, r)
  <2>1. PICK m \in Bridges : ClosesReasoning(b, m) /\ ClosesMessage(m, r)
    BY <1>3 DEF Silences
  <2>2. SameRead(b, m) /\ SameRead(m, r)
    BY <1>1, <1>2, <2>1
  <2>3. QED
    BY <2>2 DEF SameRead
<1>4. QED
  BY <1>1, <1>2, <1>3

\* ... and so do the start, the suspension and the continuation of a run.
LEMMA SameReadRuns ==
    ASSUME NEW b \in Bridges, NEW r
    PROVE  /\ b.sink # "replay" =>
                 /\ \A t \in Nat : Starts(b, r, t) => SameRead(b, r)
                 /\ Attaches(b, r) => SameRead(b, r)
                 /\ Suspends(b, r) => SameRead(b, r)
           /\ \A t \in Nat, kind \in {"runFinished", "runError", "interrupt"}, sink \in Sinks :
                 Leaves(b, r, RunEvent(kind, t), sink) /\ SameReader(b, r) => SameRead(b, r)
<1>1. ASSUME NEW t \in Nat, b.sink # "replay", r.sink = "run",
             r.wire = Append(b.wire, RunEvent("runStarted", t))
      PROVE  SameRead(b, r)
  <2>1. RunEvent("runStarted", t) \in Events /\ b.wire \in Seq(Events) /\ Read(b) \in Transcripts
    BY RunEventFacts, ReadType DEF Bridges
  <2>2. Transcribe(r.wire) = Fold(Transcribe(b.wire), RunEvent("runStarted", t))
    BY <1>1, <2>1, TranscribeGrows
  <2>3. Fold(Read(b), RunEvent("runStarted", t)) = Read(b)
    BY <2>1, OtherFold
  <2>4. Read(r) = Read(b)
    BY <1>1, <2>2, <2>3 DEF Read
  <2>5. QED
    BY <2>4 DEF SameRead, Reading
<1>2. ASSUME NEW a \in Bridges, NEW t \in Nat, NEW kind \in {"runFinished", "runError", "interrupt"},
             NEW sink, Leaves(a, r, RunEvent(kind, t), sink), SameReader(a, r)
      PROVE  SameRead(a, r)
  BY <1>2, ReadOther DEF Leaves, SameRead, Reading
<1>3. ASSUME b.sink # "replay", Suspends(b, r)
      PROVE  SameRead(b, r)
  <2>1. PICK m \in Bridges : Silences(b, m) /\ Leaves(m, r, RunEvent("interrupt", b.turn), "none")
    BY <1>3 DEF Suspends
  <2>2. SameRead(b, m)
    BY <2>1, SameReadCloses
  <2>3. SameReader(m, r) /\ b.turn \in Nat
    BY <1>3, <2>1 DEF Silences, ClosesReasoning, ClosesMessage, SameRun, Leaves, SameReader, Bridges
  <2>4. SameRead(m, r)
    BY <1>2, <2>1, <2>3
  <2>5. QED
    BY <2>2, <2>4 DEF SameRead
<1>4. b.turn \in Nat
  BY DEF Bridges
<1>5. QED
  BY <1>1, <1>2, <1>3, <1>4 DEF Starts, Attaches

-----------------------------------------------------------------------------
(* The message that is open.                                               *)

\* The bridges whose open message, one of those begun, is the last in which
\* something was said.
Poised ==
    {b \in Bridges : /\ Nil \in {b.message, b.reasoning}
                     /\ Voiced(Read(b), b.message, "assistant")
                     /\ Voiced(Read(b), b.reasoning, "reasoning")
                     /\ \A id \in {b.message, b.reasoning} : id # Nil => id < b.fresh}

\* Where none is open there is nothing to say of it.
LEMMA PoisedQuiet ==
    ASSUME NEW b \in Bridges, b.message = Nil, b.reasoning = Nil
    PROVE  b \in Poised
BY DEF Poised, Voiced, OpenAt

\* Where nothing is said, it stays the last.
LEMMA StaysVoiced ==
    ASSUME NEW acc \in Transcripts, NEW r, SaysNothing(acc.messages, r.messages),
           r.opened = acc.opened, NEW id, NEW role, Voiced(acc, id, role)
    PROVE  Voiced(r, id, role)
<1>1. OpenAt(r, id, role)
  BY StaysOpen DEF Voiced
<1>2. id # Nil => r.messages[acc.opened[id]].content = acc.messages[acc.opened[id]].content
  BY DEF Voiced, OpenAt, LastSaid, SaysNothing
<1>3. QED
  BY <1>1, <1>2 DEF Voiced

\* No event of a call changes that.
LEMMA PoisedCalls == CallsStayIn(Poised)
<1>1. ASSUME NEW b \in Poised, NEW r \in Bridges, CallStep(b, r)
      PROVE  r \in Poised
  <2>1. b \in Bridges /\ SameReader(b, r) /\ SameFrames(b, r)
    BY <1>1 DEF Poised, CallStep, SameRun, SameReader
  <2>2. Read(b) \in Transcripts
    BY <2>1, ReadType
  <2>3. \A id, role : Voiced(Read(b), id, role) => Voiced(Read(r), id, role)
    <3>1. CASE SameOut(b, r)
      BY <2>1, <3>1, ReadSame
    <3>2. CASE \E e \in Events : e.kind \in CallKinds /\ Told(b, r, e)
      <4>1. PICK e \in Events : e.kind \in CallKinds /\ Told(b, r, e)
        BY <3>2
      <4>2. Read(r) = IF Listens(b) THEN Fold(Read(b), e) ELSE Read(b)
        BY <2>1, <4>1, ReadTold
      <4>3. /\ SaysNothing(Read(b).messages, Fold(Read(b), e).messages)
            /\ Fold(Read(b), e).opened = Read(b).opened
        BY <2>2, <4>1, CallFold
      <4>4. \A id, role : Voiced(Read(b), id, role) => Voiced(Fold(Read(b), e), id, role)
        BY <2>2, <4>3, StaysVoiced
      <4>5. QED
        BY <4>2, <4>4
    <3>3. QED
      BY <1>1, <3>1, <3>2 DEF CallStep
  <2>4. QED
    BY <2>1, <2>3 DEF Poised, SameFrames
<1>2. QED
  BY <1>1 DEF CallsStayIn, Poised

\* Nor does closing what is open.
LEMMA PoisedCloses ==
    ASSUME NEW b \in Poised, NEW r
    PROVE  /\ ClosesReasoning(b, r) => r \in Poised
           /\ ClosesMessage(b, r) => r \in Poised
           /\ Silences(b, r) => r \in Poised
<1>1. ASSUME NEW a \in Poised, NEW m, ClosesReasoning(a, m)
      PROVE  m \in Poised
  <2>1. CASE a.message = Nil
    BY <1>1, <2>1, PoisedQuiet DEF ClosesReasoning
  <2>2. CASE a.message # Nil
    <3>1. a.reasoning = Nil
      BY <2>2 DEF Poised
    <3>2. /\ SameReader(a, m) /\ SameOut(a, m) /\ m.fresh = a.fresh
          /\ m.message = a.message /\ m.reasoning = a.reasoning
      BY <1>1, <3>1 DEF ClosesReasoning, SameRun, SameReader
    <3>3. Read(m) = Read(a)
      BY <3>2, ReadSame
    <3>4. QED
      BY <1>1, <3>2, <3>3 DEF Poised, ClosesReasoning
  <2>3. QED
    BY <2>1, <2>2
<1>2. ASSUME NEW a \in Poised, NEW m, ClosesMessage(a, m)
      PROVE  m \in Poised
  <2>1. CASE a.reasoning = Nil
    BY <1>2, <2>1, PoisedQuiet DEF ClosesMessage
  <2>2. CASE a.reasoning # Nil
    <3>1. a.message = Nil
      BY <2>2 DEF Poised
    <3>2. /\ SameReader(a, m) /\ SameOut(a, m) /\ m.fresh = a.fresh
          /\ m.message = a.message /\ m.reasoning = a.reasoning
      BY <1>2, <3>1 DEF ClosesMessage, SameRun, SameReader
    <3>3. Read(m) = Read(a)
      BY <3>2, ReadSame
    <3>4. QED
      BY <1>2, <3>2, <3>3 DEF Poised, ClosesMessage
  <2>3. QED
    BY <2>1, <2>2
<1>3. QED
  BY <1>1, <1>2 DEF Silences

-----------------------------------------------------------------------------
(* A chunk, as it is read.                                                 *)

MessageOf(b, kind) == IF kind = "text" THEN b.message ELSE b.reasoning

\* It is said where the last one was if its message is open, or else it is the
\* content of the next message; on a stream, it is the last event.
Voices(b, r, kind, n) ==
    LET id == MessageOf(b, kind)
        l  == Len(r.wire)
    IN  /\ r \in Poised /\ SameRun(b, r) /\ SameCalls(b, r)
        /\ MessageOf(r, kind) = IF id = Nil THEN b.fresh ELSE id
        /\ r.fresh = IF id = Nil THEN b.fresh + 1 ELSE b.fresh
        /\ IF id = Nil THEN Reading(r) = Merge(Reading(b), Message(RoleOf(kind), <<n>>))
           ELSE Utters(Reading(b), Reading(r), n)
        /\ b.sink = "run" =>
              l \in DOMAIN r.wire /\ r.wire[l] = ChunkEvent(kind, MessageOf(r, kind), n)

\* What is said to the message that is open,
LEMMA VoicesOn ==
    ASSUME NEW b \in Poised, Listens(b), NEW kind \in ChunkKinds, NEW n \in Nat, NEW r,
           MessageOf(b, kind) # Nil, Says(b, r, ChunkEvent(kind, MessageOf(b, kind), n))
    PROVE  Voices(b, r, kind, n)
<1> DEFINE id == MessageOf(b, kind)
           e == ChunkEvent(kind, id, n)
<1>1. b \in Bridges /\ kind \in {"text", "thought"} /\ id \in Nat \cup {Nil}
  BY DEF Poised, ChunkKinds, Bridges, MessageOf
<1>2. e \in Events
  BY <1>1, ChunkEventFacts
<1>3. /\ Voiced(Read(b), id, RoleOf(kind)) /\ Read(b) \in Transcripts
      /\ MessageOf(b, IF kind = "text" THEN "thought" ELSE "text") = Nil
  BY <1>1, ReadType DEF Poised, MessageOf, RoleOf
<1>4. /\ SameReader(b, r) /\ Told(b, r, e) /\ r \in Bridges
      /\ SameRun(b, r) /\ SameCalls(b, r) /\ SameFrames(b, r)
  BY DEF Says, SameRun, SameReader
<1>5. Read(r) = Fold(Read(b), e)
  BY <1>1, <1>2, <1>4, ReadTold
<1>6. Voiced(Read(r), id, RoleOf(kind)) /\ Utters(Reading(b), Reading(r), n)
  BY <1>1, <1>3, <1>5, SayFold DEF Reading
<1>7. r.message = b.message /\ r.reasoning = b.reasoning /\ r.fresh = b.fresh
  BY <1>4 DEF SameFrames
<1>8. r \in Poised
  BY <1>1, <1>3, <1>4, <1>6, <1>7 DEF Poised, MessageOf, RoleOf, Voiced, OpenAt
<1>9. b.sink = "run" => Len(r.wire) \in DOMAIN r.wire /\ r.wire[Len(r.wire)] = e
  <2>1. b.wire \in Seq(Events)
    BY <1>1 DEF Bridges
  <2>2. b.sink = "run" => r.wire = Append(b.wire, e)
    BY <1>4 DEF Told, WireAfter
  <2> HIDE DEF e
  <2>3. QED
    BY <1>2, <2>1, <2>2, WireFacts
<1>10. MessageOf(r, kind) = id
  BY <1>7 DEF MessageOf
<1>11. QED
  BY <1>4, <1>6, <1>7, <1>8, <1>9, <1>10 DEF Voices

\* ... and what is said to one that is begun for it, where none was open.
LEMMA VoicesFirst ==
    ASSUME NEW b \in Bridges, Listens(b), NEW kind \in ChunkKinds, NEW n \in Nat,
           NEW m \in Bridges, NEW r, b.message = Nil, b.reasoning = Nil,
           SameRun(b, m), SameCalls(b, m), m.fresh = b.fresh + 1,
           m.message = IF kind = "text" THEN b.fresh ELSE Nil,
           m.reasoning = IF kind = "text" THEN Nil ELSE b.fresh,
           NEW start, start = (IF kind = "text" THEN "textStart" ELSE "thoughtStart"),
           Told(b, m, FrameEvent(start, b.fresh)),
           Says(m, r, ChunkEvent(kind, b.fresh, n))
    PROVE  Voices(b, r, kind, n)
<1> DEFINE id == b.fresh
           s == FrameEvent(start, id)
           e == ChunkEvent(kind, id, n)
<1>1. /\ kind \in {"text", "thought"} /\ id \in Nat /\ Nil \notin Nat /\ id # Nil
      /\ start \in {"textStart", "thoughtStart"} /\ id \in Nat \cup {Nil}
  BY ConstantsAssumption DEF ChunkKinds, Bridges
<1>2. e \in Events /\ s \in Events
  BY <1>1, ChunkEventFacts, FrameEventFacts
<1>3. /\ SameReader(b, m) /\ SameReader(m, r) /\ Told(m, r, e) /\ r \in Bridges /\ Listens(m)
      /\ SameRun(b, r) /\ SameCalls(b, r) /\ SameFrames(m, r)
  BY DEF Says, SameRun, SameReader, Listens, SameCalls
<1>4. Read(m) = Fold(Read(b), s)
  BY <1>2, <1>3, ReadTold
<1>5. Read(r) = Fold(Read(m), e)
  BY <1>2, <1>3, ReadTold
<1>6. Read(b) \in Transcripts
  BY ReadType
<1>7. /\ Voiced(Read(r), id, RoleOf(kind))
      /\ Reading(r) = Merge(Reading(b), Message(RoleOf(kind), <<n>>))
  BY <1>1, <1>4, <1>5, <1>6, OpenSayFold DEF Reading
<1>8. r.message = m.message /\ r.reasoning = m.reasoning /\ r.fresh = id + 1
  BY <1>3 DEF SameFrames
<1>9. r \in Poised
  BY <1>1, <1>3, <1>7, <1>8 DEF Poised, RoleOf, Voiced, OpenAt
<1>10. b.sink = "run" => Len(r.wire) \in DOMAIN r.wire /\ r.wire[Len(r.wire)] = e
  <2>1. m.wire \in Seq(Events)
    BY DEF Bridges
  <2>2. b.sink = "run" => r.wire = Append(m.wire, e)
    BY <1>3 DEF Told, WireAfter, SameRun
  <2> HIDE DEF e
  <2>3. QED
    BY <1>2, <2>1, <2>2, WireFacts
<1>11. MessageOf(r, kind) = id /\ MessageOf(b, kind) = Nil
  BY <1>8 DEF MessageOf
<1>12. QED
  BY <1>3, <1>7, <1>8, <1>9, <1>10, <1>11 DEF Voices

\* A text delta is read so,
LEMMA TextVoices ==
    ASSUME NEW b \in Poised, Listens(b), NEW n \in Nat
    PROVE  Voices(b, TextDelta(b, n), "text", n)
<1> DEFINE m == CloseReasoning(b)
           o == OpenText(m)
           r == TextDelta(b, n)
<1>1. b \in Bridges /\ r = SayText(o, n) /\ "text" \in ChunkKinds
  BY DEF Poised, TextDelta, ChunkKinds
<1>2. ClosesReasoning(b, m) /\ m \in Bridges
  BY <1>1, CloseReasoningFacts DEF ClosesReasoning
<1>3. OpensText(m, o) /\ o \in Bridges
  BY <1>2, OpenTextFacts DEF OpensText
<1>4. Says(o, r, ChunkEvent("text", o.message, n))
  BY <1>1, <1>3, SayFacts
<1> SUFFICES Voices(b, r, "text", n)
  OBVIOUS
<1> HIDE DEF r, o, m
<1>5. CASE b.message # Nil
  <2>1. b.reasoning = Nil
    BY <1>5 DEF Poised
  <2>2. /\ SameRun(b, o) /\ SameFrames(b, o) /\ SameCalls(b, o) /\ SameOut(b, o)
    BY <1>2, <1>3, <1>5, <2>1 DEF ClosesReasoning, OpensText, SameRun, SameFrames, SameCalls, SameOut
  <2>3. Says(b, r, ChunkEvent("text", b.message, n))
    BY <1>4, <2>2 DEF Says, SameRun, SameFrames, SameCalls, SameOut, Told, WireAfter, AccAfter
  <2>4. MessageOf(b, "text") = b.message
    BY DEF MessageOf
  <2>5. QED
    BY <1>1, <1>5, <2>3, <2>4, VoicesOn
<1>6. CASE b.message = Nil
  <2>1. /\ m.message = Nil /\ m.reasoning = Nil /\ m.fresh = b.fresh /\ Listens(m)
        /\ SameRun(b, m) /\ SameCalls(b, m) /\ SameRead(b, m)
    BY <1>1, <1>2, <1>6, SameReadCloses DEF ClosesReasoning, SameRun, Listens
  <2>2. /\ o.message = m.fresh /\ o.fresh = m.fresh + 1 /\ o.reasoning = Nil
        /\ SameRun(m, o) /\ SameCalls(m, o)
        /\ Told(m, o, FrameEvent("textStart", m.fresh))
    BY <1>3, <2>1 DEF OpensText
  <2>3. Voices(m, r, "text", n)
    BY <1>1, <1>2, <1>3, <1>4, <2>1, <2>2, VoicesFirst
  <2>4. MessageOf(b, "text") = Nil /\ MessageOf(m, "text") = Nil
    BY <1>6, <2>1 DEF MessageOf
  <2>5. QED
    BY <2>1, <2>3, <2>4 DEF Voices, SameRun, SameCalls, SameRead
<1>7. QED
  BY <1>5, <1>6

\* ... and so is a thought delta.
LEMMA ThoughtVoices ==
    ASSUME NEW b \in Poised, Listens(b), NEW n \in Nat
    PROVE  Voices(b, ThoughtDelta(b, n), "thought", n)
<1> DEFINE o == OpenThought(b)
           r == ThoughtDelta(b, n)
<1>1. b \in Bridges /\ r = SayThought(o, n) /\ "thought" \in ChunkKinds
  BY DEF Poised, ThoughtDelta, ChunkKinds
<1>2. OpensThought(b, o) /\ o \in Bridges
  BY <1>1, OpenThoughtFacts
<1>3. Says(o, r, ChunkEvent("thought", o.reasoning, n))
  BY <1>1, <1>2, SayFacts
<1> SUFFICES Voices(b, r, "thought", n)
  OBVIOUS
<1> HIDE DEF r, o
<1>4. CASE b.reasoning # Nil
  <2>1. MessageOf(b, "thought") = b.reasoning /\ o = b
    BY <1>2, <1>4 DEF MessageOf, OpensThought
  <2>2. QED
    BY <1>1, <1>3, <1>4, <2>1, VoicesOn
<1>5. CASE b.reasoning = Nil
  <2>1. PICK m \in Bridges :
           /\ ClosesMessage(b, m)
           /\ SameRun(m, o) /\ SameCalls(m, o)
           /\ o.message = m.message /\ o.reasoning = m.fresh /\ o.fresh = m.fresh + 1
           /\ Told(m, o, FrameEvent("thoughtStart", m.fresh))
    BY <1>2, <1>5 DEF OpensThought
  <2>2. /\ m.message = Nil /\ m.reasoning = Nil /\ m.fresh = b.fresh /\ Listens(m)
        /\ SameRun(b, m) /\ SameCalls(b, m) /\ SameRead(b, m)
    BY <1>1, <1>5, <2>1, SameReadCloses DEF ClosesMessage, SameRun, Listens
  <2>3. Voices(m, r, "thought", n)
    BY <1>1, <1>2, <1>3, <2>1, <2>2, VoicesFirst
  <2>4. MessageOf(b, "thought") = Nil /\ MessageOf(m, "thought") = Nil
    BY <1>5, <2>2 DEF MessageOf
  <2>5. QED
    BY <2>2, <2>3, <2>4 DEF Voices, SameRun, SameCalls, SameRead
<1>6. QED
  BY <1>4, <1>5

-----------------------------------------------------------------------------
(* The events of calls, as they are read.                                  *)

\* Handlers of tool calls keep the run and the frames.
Beside(b) == {y \in Bridges : SameRun(b, y) /\ SameFrames(b, y)}

\* No event of a call disturbs these.
LEMMA BesideCalls ==
    ASSUME NEW b \in Bridges
    PROVE  b \in Beside(b) /\ CallsStayIn(Beside(b))
<1>1. ASSUME NEW a \in Beside(b), NEW r \in Bridges, CallStep(a, r)
      PROVE  r \in Beside(b)
  BY <1>1 DEF Beside, CallStep, SameRun, SameFrames
<1>2. QED
  BY <1>1 DEF Beside, CallsStayIn, SameRun, SameFrames

\* START and what arguments there are begin a call,
LEMMA StartRead ==
    ASSUME NEW b \in Bridges, Listens(b), NEW c \in Calls, NEW x \in Inputs,
           c \notin b.argsSent, NEW m \in Bridges, SameRun(b, m), m.argsSent = b.argsSent,
           Told(b, m, CallEvent("callStart", c)), NEW r, ShowsArgs(m, r, c, x)
    PROVE  /\ Reading(r) = Merge(Reading(b), CallMessage(Entry(c, x)))
           /\ r \in Bridges /\ SameRun(b, r) /\ r.pending = m.pending /\ r.open = m.open
           /\ \A d : d \in r.argsSent => d \in b.argsSent \/ d = c
<1>1. /\ CallEvent("callStart", c) \in Events /\ ArgsEvent(c, x) \in Events
      /\ Read(b) \in Transcripts
  BY CallEventFacts, ReadType
<1>2. SameReader(b, m) /\ Listens(m)
  BY DEF SameReader, SameRun, Listens
<1>3. Read(m) = AttachCall(Read(b), c)
  <2>1. Read(m) = Fold(Read(b), CallEvent("callStart", c))
    BY <1>1, <1>2, ReadTold
  <2>2. QED
    BY <2>1 DEF Fold, CallEvent
<1>4. CASE x = Nil
  <2>1. r = m
    BY <1>4 DEF ShowsArgs
  <2>2. Read(r) = Begin(Read(b), c, x)
    BY <1>3, <1>4, <2>1 DEF Begin
  <2>3. QED
    BY <1>1, <2>1, <2>2, BeginShape DEF Reading
<1>5. CASE x # Nil
  <2>1. /\ r \in Bridges /\ SameRun(m, r) /\ r.pending = m.pending /\ r.open = m.open
        /\ r.argsSent = m.argsSent \cup {c} /\ Told(m, r, ArgsEvent(c, x))
    BY <1>5 DEF ShowsArgs
  <2>2. Read(r) = Fold(Read(m), ArgsEvent(c, x))
    BY <1>1, <1>2, <2>1, ReadTold DEF SameReader, SameRun
  <2>3. Read(r) = Begin(Read(b), c, x)
    BY <1>3, <1>5, <2>2 DEF Begin, Fold, ArgsEvent
  <2>4. QED
    BY <1>1, <2>1, <2>3, BeginShape DEF Reading, SameRun
<1>6. QED
  BY <1>4, <1>5

\* ... END and RESULT add to the results.
LEMMA EndRead ==
    ASSUME NEW b \in Bridges, Listens(b), NEW c \in Calls, NEW r, EmitsEnd(b, r, c)
    PROVE  /\ Reading(r) = AddResults(Reading(b))
           /\ r \in Bridges /\ SameRun(b, r) /\ SameFrames(b, r) /\ SameCalls(b, r)
<1>1. PICK m \in Bridges : /\ Says(b, m, CallEvent("callEnd", c))
                           /\ Says(m, r, CallEvent("callResult", c))
  BY DEF EmitsEnd
<1>2. CallEvent("callEnd", c) \in Events /\ CallEvent("callResult", c) \in Events
  BY CallEventFacts
<1>3. SameReader(b, m) /\ SameReader(m, r) /\ Listens(m)
  BY <1>1 DEF Says, SameRun, SameReader, Listens
<1>4. Read(m) = Read(b)
  <2>1. Read(m) = Fold(Read(b), CallEvent("callEnd", c))
    BY <1>1, <1>2, <1>3, ReadTold DEF Says
  <2>2. QED
    BY <2>1 DEF Fold, CallEvent
<1>5. Read(r) = AddResult(Read(b), c)
  <2>1. Read(r) = Fold(Read(m), CallEvent("callResult", c))
    BY <1>1, <1>2, <1>3, ReadTold DEF Says
  <2>2. QED
    BY <1>4, <2>1 DEF Fold, CallEvent
<1>6. Read(b) \in Transcripts
  BY ReadType
<1>7. Reading(r) = AddResults(Reading(b))
  BY <1>5, <1>6, ResultShape DEF Reading
<1>8. QED
  BY <1>1, <1>7 DEF Says, SameRun, SameFrames, SameCalls

\* A call that waits is begun with the arguments that it is given.
LEMMA ShowRead ==
    ASSUME NEW b \in Bridges, Listens(b), NEW c \in Calls, NEW x \in Inputs,
           IsPending(b, c), c \notin b.argsSent
    PROVE  LET r == ShowArgs(ShowCall(b, c), c, x)
           IN  /\ Reading(r) = Merge(Reading(b), CallMessage(Entry(c, x)))
               /\ r \in Bridges /\ SameRun(b, r)
               /\ r.pending = RemoveAt(b.pending, PendingAt(b, c))
               /\ r.open = b.open \cup {c}
<1> DEFINE m == ShowCall(b, c)
           r == ShowArgs(m, c, x)
<1>1. Shows(b, m, c)
  BY ShowCallFacts
<1>2. m \in Bridges
  BY <1>1 DEF Shows
<1>3. ShowsArgs(m, r, c, x)
  BY <1>2, ShowArgsFacts
<1> HIDE DEF m, r
<1>4. /\ Reading(r) = Merge(Reading(b), CallMessage(Entry(c, x)))
      /\ r \in Bridges /\ SameRun(b, r) /\ r.pending = m.pending /\ r.open = m.open
  BY <1>1, <1>2, <1>3, StartRead DEF Shows
<1>5. QED
  BY <1>1, <1>4 DEF Shows, r, m

\* A call that is open is ended.
LEMMA EndCallRead ==
    ASSUME NEW b \in Bridges, Listens(b), NEW c \in Calls, c \in b.open
    PROVE  LET r == EndCall(b, c)
           IN  /\ Reading(r) = AddResults(Reading(b))
               /\ r.pending = b.pending /\ r.open = b.open \ {c}
<1> DEFINE r == EndCall(b, c)
<1>1. EndsCall(b, r, c)
  BY EndCallFacts
<1> HIDE DEF r
<1>2. PICK m \in Bridges :
         /\ EmitsEnd(b, m, c)
         /\ SameRun(m, r) /\ SameFrames(m, r) /\ SameOut(m, r)
         /\ r.pending = m.pending /\ r.open = m.open \ {c}
  BY <1>1 DEF EndsCall
<1>3. Reading(m) = AddResults(Reading(b)) /\ SameCalls(b, m)
  BY <1>2, EndRead
<1>4. Reading(r) = Reading(m)
  BY <1>2, ReadSame DEF SameRun, SameReader
<1>5. QED
  BY <1>2, <1>3, <1>4 DEF SameCalls, r

-----------------------------------------------------------------------------
(* Two bridges of which the same is read: a live one and one of a replay.  *)

\* The same is read of them, and the same calls wait and are open.
Level(b, r) == Reading(b) = Reading(r) /\ b.pending = r.pending /\ b.open = r.open

\* The call waits, or has been begun with arguments.
Active(b, c) ==
    \/ IsPending(b, c) /\ c \notin b.argsSent
    \/ ~IsPending(b, c) /\ c \in b.open /\ c \in b.argsSent

\* A new call is queued by both,
LEMMA LevelToolCall ==
    ASSUME NEW b \in Bridges, NEW r \in Bridges, Level(b, r), NEW c \in Calls,
           NEW input \in {"initial", Nil}
    PROVE  /\ Level(ToolCall(b, c, input), ToolCall(r, c, input))
           /\ \A y \in {b, r} : /\ ToolCall(y, c, input).message = Nil
                                /\ ToolCall(y, c, input).reasoning = Nil
<1>1. ASSUME NEW y \in Bridges
      PROVE  LET q == ToolCall(y, c, input)
             IN  /\ Reading(q) = Reading(y) /\ q.open = y.open
                 /\ q.pending = Append(y.pending, [call |-> c, input |-> input])
                 /\ q.message = Nil /\ q.reasoning = Nil
  <2> DEFINE m == CloseMessage(CloseReasoning(y))
             q == ToolCall(y, c, input)
  <2>1. Silences(y, m)
    BY SilenceFacts
  <2>2. Queues(m, q, c, input)
    BY ToolCallFacts
  <2> HIDE DEF m, q
  <2>3. SameRead(y, m) /\ SameCalls(y, m) /\ m.message = Nil /\ m.reasoning = Nil
    BY <2>1, SameReadCloses DEF Silences, ClosesReasoning, ClosesMessage, SameCalls
  <2>4. Reading(q) = Reading(m)
    BY <2>2, ReadSame DEF Queues, SameRun, SameReader
  <2>5. QED
    BY <2>2, <2>3, <2>4 DEF Queues, SameRead, SameCalls, SameFrames, q
<1>2. QED
  BY <1>1 DEF Level

\* ... one that waits for both is begun by both,
LEMMA LevelShow ==
    ASSUME NEW b \in Bridges, NEW r \in Bridges, Level(b, r), Listens(b), Listens(r),
           NEW c \in Calls, NEW x \in Inputs,
           IsPending(b, c), c \notin b.argsSent, c \notin r.argsSent
    PROVE  LET y == ShowArgs(ShowCall(b, c), c, x)
               z == ShowArgs(ShowCall(r, c), c, x)
           IN  /\ Level(y, z) /\ c \in y.open /\ c \in z.open
               /\ y \in Bridges /\ z \in Bridges /\ Listens(y) /\ Listens(z)
<1>1. IsPending(r, c) /\ PendingAt(r, c) = PendingAt(b, c)
  BY DEF Level, IsPending, PendingAt
<1> DEFINE y == ShowArgs(ShowCall(b, c), c, x)
           z == ShowArgs(ShowCall(r, c), c, x)
<1>2. /\ Reading(y) = Merge(Reading(b), CallMessage(Entry(c, x))) /\ y \in Bridges
      /\ SameRun(b, y) /\ y.pending = RemoveAt(b.pending, PendingAt(b, c))
      /\ y.open = b.open \cup {c}
  BY ShowRead
<1>3. /\ Reading(z) = Merge(Reading(r), CallMessage(Entry(c, x))) /\ z \in Bridges
      /\ SameRun(r, z) /\ z.pending = RemoveAt(r.pending, PendingAt(r, c))
      /\ z.open = r.open \cup {c}
  BY <1>1, ShowRead
<1> HIDE DEF y, z
<1>4. Level(y, z)
  BY <1>1, <1>2, <1>3 DEF Level
<1>5. QED
  BY <1>2, <1>3, <1>4 DEF SameRun, Listens, y, z

\* ... and one that is open is ended by both.
LEMMA LevelEnd ==
    ASSUME NEW b \in Bridges, NEW r \in Bridges, Level(b, r), Listens(b), Listens(r),
           NEW c \in Calls, c \in b.open
    PROVE  Level(EndCall(b, c), EndCall(r, c))
<1>1. c \in r.open
  BY DEF Level
<1>2. /\ Reading(EndCall(b, c)) = AddResults(Reading(b))
      /\ EndCall(b, c).pending = b.pending /\ EndCall(b, c).open = b.open \ {c}
  BY EndCallRead
<1>3. /\ Reading(EndCall(r, c)) = AddResults(Reading(r))
      /\ EndCall(r, c).pending = r.pending /\ EndCall(r, c).open = r.open \ {c}
  BY <1>1, EndCallRead
<1>4. QED
  BY <1>2, <1>3 DEF Level

\* The updates of a call that is active for both.
LEMMA LevelUpdates ==
    ASSUME NEW b \in Bridges, NEW r \in Bridges, Level(b, r), Listens(b), Listens(r),
           NEW c \in Calls, Active(b, c), Active(r, c), NEW input \in Inputs
    PROVE  /\ input # Nil => Level(Progress(b, c, input), Progress(r, c, input))
           /\ Level(Completed(b, c, input), Completed(r, c, input))
<1>1. IsPending(r, c) <=> IsPending(b, c)
  BY DEF Level, IsPending
<1>2. CASE IsPending(b, c)
  <2>1. c \notin b.argsSent /\ c \notin r.argsSent
    BY <1>1, <1>2 DEF Active
  <2>2. PendingInput(r, c) = PendingInput(b, c)
    BY DEF Level, PendingInput, PendingAt
  <2> DEFINE x == Or(input, PendingInput(b, c))
  <2>3. x \in Inputs
    BY <1>2, PendingAtFacts DEF Or, Inputs
  <2>4. input # Nil => /\ Progress(b, c, input) = ShowArgs(ShowCall(b, c), c, input)
                       /\ Progress(r, c, input) = ShowArgs(ShowCall(r, c), c, input)
    BY <1>1, <1>2, <2>1 DEF Progress
  <2>5. /\ Completed(b, c, input) = EndCall(ShowArgs(ShowCall(b, c), c, x), c)
        /\ Completed(r, c, input) = EndCall(ShowArgs(ShowCall(r, c), c, x), c)
    BY <1>1, <1>2, <2>2 DEF Completed
  <2> HIDE DEF x
  <2>6. \A i \in Inputs :
           LET y == ShowArgs(ShowCall(b, c), c, i)
               z == ShowArgs(ShowCall(r, c), c, i)
           IN  Level(y, z) /\ Level(EndCall(y, c), EndCall(z, c))
    <3>1. TAKE i \in Inputs
    <3> DEFINE y == ShowArgs(ShowCall(b, c), c, i)
               z == ShowArgs(ShowCall(r, c), c, i)
    <3>2. /\ Level(y, z) /\ c \in y.open
          /\ y \in Bridges /\ z \in Bridges /\ Listens(y) /\ Listens(z)
      BY <1>2, <2>1, <3>1, LevelShow
    <3> HIDE DEF y, z
    <3>3. Level(EndCall(y, c), EndCall(z, c))
      BY <3>2, LevelEnd
    <3>4. QED
      BY <3>2, <3>3 DEF y, z
  <2>7. QED
    BY <2>3, <2>4, <2>5, <2>6
<1>3. CASE ~IsPending(b, c)
  <2>1. c \in b.open /\ c \in b.argsSent /\ c \in r.argsSent
    BY <1>1, <1>3 DEF Active
  <2>2. Progress(b, c, input) = b /\ Progress(r, c, input) = r
    BY <2>1 DEF Progress
  <2>3. Completed(b, c, input) = EndCall(b, c) /\ Completed(r, c, input) = EndCall(r, c)
    BY <1>1, <1>3 DEF Completed
  <2>4. QED
    BY <2>1, <2>2, <2>3, LevelEnd
<1>4. QED
  BY <1>2, <1>3

-----------------------------------------------------------------------------
(* The end of a run, as it is read.                                        *)

\* No call waits twice, or after its arguments were shown.
Ready(b) == Distinct(b) /\ \A c \in Calls : IsPending(b, c) => c \notin b.argsSent

\* Both show the calls that wait,
LEMMA LevelFlush ==
    ASSUME NEW b \in Bridges, NEW r \in Bridges, Level(b, r), Listens(b), Listens(r),
           Ready(b), Ready(r)
    PROVE  Level(FlushPending(b), FlushPending(r))
<1> DEFINE p == b.pending
           n == Len(p)
<1>1. r.pending = p /\ p \in Seq(PendingCalls) /\ n \in Nat /\ Reading(b) = Reading(r)
      /\ b.open = r.open
  BY DEF Level, Bridges
<1>2. PICK g : FlushedBy(b, g) /\ Clears(g[n], FlushPending(b))
  BY FlushPendingFacts
<1>3. PICK f : FlushedBy(r, f) /\ Clears(f[n], FlushPending(r))
  BY <1>1, FlushPendingFacts
<1> DEFINE Same(i) ==
              /\ SameRun(b, g[i]) /\ SameRun(r, f[i])
              /\ Reading(g[i]) = Reading(f[i]) /\ g[i].open = f[i].open
              /\ \A j \in i + 1 .. n : p[j].call \notin g[i].argsSent /\ p[j].call \notin f[i].argsSent
           S == {i \in 0..n : Same(i)}
<1>4. \A j \in 1..n : /\ p[j].call \in Calls /\ p[j].input \in Inputs
                      /\ p[j].call \notin b.argsSent /\ p[j].call \notin r.argsSent
                      /\ \A i \in 1..n : p[i].call = p[j].call => i = j
  <2>1. ASSUME NEW j \in 1..n
        PROVE  /\ p[j].call \in Calls /\ p[j].input \in Inputs
               /\ p[j].call \notin b.argsSent /\ p[j].call \notin r.argsSent
    <3>1. p[j].call \in Calls /\ p[j].input \in Inputs
      BY <2>1, PendingTypes
    <3>2. j \in DOMAIN p
      BY <1>1, <2>1
    <3>3. IsPending(b, p[j].call) /\ IsPending(r, p[j].call)
      BY <1>1, <3>2 DEF IsPending
    <3>4. QED
      BY <3>1, <3>3 DEF Ready
  <2>2. DOMAIN p = 1..n
    BY <1>1
  <2>3. QED
    BY <2>1, <2>2 DEF Ready, Distinct
<1>5. g[0] = b /\ f[0] = r
  BY <1>2, <1>3 DEF FlushedBy
<1>6. 0 \in S
  BY <1>1, <1>4, <1>5 DEF SameRun
<1>7. ASSUME NEW i \in 0..n, i \in S, i < n
      PROVE  i + 1 \in S
  <2> DEFINE k == i + 1
             c == p[k].call
             x == p[k].input
  <2>1. k \in 1..n /\ k - 1 = i /\ i \in Nat
    BY <1>1, <1>7
  <2>2. c \in Calls /\ x \in Inputs
    BY <1>4, <2>1
  <2>3. g[i] \in Bridges /\ f[i] \in Bridges
    BY <1>1, <1>2, <1>3 DEF FlushedBy
  <2>4. PICK y \in Bridges : Opens(g[i], y, c) /\ ShowsArgs(y, g[k], c, x)
    BY <1>2, <2>1 DEF FlushedBy
  <2>5. PICK z \in Bridges : Opens(f[i], z, c) /\ ShowsArgs(z, f[k], c, x)
    BY <1>1, <1>3, <2>1 DEF FlushedBy
  <2>6. /\ SameRun(b, g[i]) /\ SameRun(r, f[i]) /\ Listens(g[i]) /\ Listens(f[i])
        /\ c \notin g[i].argsSent /\ c \notin f[i].argsSent
        /\ Reading(g[i]) = Reading(f[i]) /\ g[i].open = f[i].open
    BY <1>7, <2>1 DEF SameRun, Listens
  <2> HIDE DEF c, x
  <2>7. /\ Reading(g[k]) = Merge(Reading(g[i]), CallMessage(Entry(c, x)))
        /\ SameRun(g[i], g[k]) /\ g[k].open = y.open
        /\ \A d : d \in g[k].argsSent => d \in g[i].argsSent \/ d = c
    <3>1. QED
      BY <2>2, <2>3, <2>4, <2>6, StartRead DEF Opens
  <2>8. /\ Reading(f[k]) = Merge(Reading(f[i]), CallMessage(Entry(c, x)))
        /\ SameRun(f[i], f[k]) /\ f[k].open = z.open
        /\ \A d : d \in f[k].argsSent => d \in f[i].argsSent \/ d = c
    <3>1. QED
      BY <2>2, <2>3, <2>5, <2>6, StartRead DEF Opens
  <2>9. g[k].open = f[k].open
    BY <2>4, <2>5, <2>6, <2>7, <2>8 DEF Opens
  <2>10. \A j \in k + 1 .. n : p[j].call # c /\ j \in i + 1 .. n
    BY <1>1, <1>4, <2>1 DEF c
  <2>11. \A j \in k + 1 .. n : p[j].call \notin g[k].argsSent /\ p[j].call \notin f[k].argsSent
    BY <1>7, <2>7, <2>8, <2>10
  <2>12. SameRun(b, g[k]) /\ SameRun(r, f[k])
    BY <2>6, <2>7, <2>8 DEF SameRun
  <2>13. k \in 0..n
    BY <1>1, <2>1
  <2>14. QED
    BY <2>6, <2>7, <2>8, <2>9, <2>11, <2>12, <2>13
<1>8. 0..n \subseteq S
  <2> HIDE DEF S, n
  <2>1. QED
    BY <1>1, <1>6, <1>7, IntervalInduction
<1>9. Reading(g[n]) = Reading(f[n]) /\ g[n].open = f[n].open
  BY <1>1, <1>8
<1>10. Reading(FlushPending(b)) = Reading(g[n]) /\ Reading(FlushPending(r)) = Reading(f[n])
  BY <1>2, <1>3, ReadSame DEF Clears, SameRun, SameReader
<1>11. QED
  BY <1>2, <1>3, <1>9, <1>10 DEF Clears, Level

\* ... which is nothing where none does.
LEMMA FlushNothing ==
    ASSUME NEW b \in Bridges, b.pending = <<>>
    PROVE  Reading(FlushPending(b)) = Reading(b) /\ FlushPending(b).open = b.open
<1>1. PICK g : FlushedBy(b, g) /\ Clears(g[Len(b.pending)], FlushPending(b))
  BY FlushPendingFacts
<1>2. Len(b.pending) = 0
  OBVIOUS
<1>3. g[0] = b
  BY <1>1 DEF FlushedBy
<1>4. Clears(b, FlushPending(b))
  BY <1>1, <1>2, <1>3
<1>5. QED
  BY <1>4, ReadSame DEF Clears, SameRun, SameReader

\* The calls that are open are ended, in whatever order.
LEMMA EndsRead ==
    ASSUME NEW b \in Bridges, Listens(b), NEW rank \in Ranks
    PROVE  Reading(EndCalls(b, rank)) =
               IF b.open = {} THEN Reading(b) ELSE AddResults(Reading(b))
<1> DEFINE n == Len(rank)
           x == Reading(b)
<1>1. /\ rank \in Seq(Calls) /\ n \in Nat /\ \A i \in 1..n : rank[i] \in Calls
      /\ \A c \in Calls : \E i \in 1..n : rank[i] = c
  BY RankFacts
<1>2. PICK g : EndedBy(b, rank, g) /\ ForgetsOpen(g[n], EndCalls(b, rank))
  BY <1>1, EndCallsFacts
<1> DEFINE Met(i) == \E j \in 1..i : rank[j] \in b.open
           Ended(i) == /\ SameRun(b, g[i])
                       /\ Met(i) => Reading(g[i]) = AddResults(x)
                       /\ ~Met(i) => Reading(g[i]) = x
           S == {i \in 0..n : Ended(i)}
<1>3. x \in Seq(Messages)
  BY ReadType
<1>4. 0 \in S
  <2>1. 1..0 = {}
    OBVIOUS
  <2>2. g[0] = b
    BY <1>2 DEF EndedBy
  <2>3. QED
    BY <1>1, <2>1, <2>2 DEF SameRun
<1>5. ASSUME NEW i \in 0..n, i \in S, i < n
      PROVE  i + 1 \in S
  <2> DEFINE k == i + 1
             c == rank[k]
  <2>1. k \in 1..n /\ k - 1 = i /\ k \in 0..n /\ 1..k = 1..i \cup {k}
    <3>1. i \in Nat /\ i < n
      BY <1>1, <1>5
    <3>2. k \in 1..n /\ k - 1 = i /\ k \in 0..n
      BY <1>1, <3>1
    <3>3. 1..(i + 1) = 1..i \cup {i + 1}
      BY <3>1
    <3>4. QED
      BY <3>2, <3>3
  <2>2. c \in Calls /\ g[i] \in Bridges
    BY <1>1, <1>2, <2>1 DEF EndedBy
  <2>3. EndsStep(b, g[i], g[k], c)
    BY <1>2, <2>1 DEF EndedBy
  <2>4. SameRun(b, g[i]) /\ Listens(g[i]) /\ Ended(i)
    BY <1>5 DEF SameRun, Listens
  <2>5. Met(k) <=> Met(i) \/ c \in b.open
    BY <2>1
  <2>6. CASE c \in b.open
    <3>1. EmitsEnd(g[i], g[k], c)
      BY <2>3, <2>6 DEF EndsStep
    <3> HIDE DEF c, k
    <3>2. Reading(g[k]) = AddResults(Reading(g[i])) /\ SameRun(g[i], g[k])
      BY <2>2, <2>4, <3>1, EndRead
    <3>3. Reading(g[k]) = AddResults(x)
      BY <1>3, <2>4, <3>2, ResultsTwice
    <3>4. QED
      BY <2>1, <2>4, <2>5, <2>6, <3>2, <3>3 DEF SameRun, k
  <2>7. CASE c \notin b.open
    <3>1. g[k] = g[i]
      BY <2>3, <2>7 DEF EndsStep
    <3>2. QED
      BY <2>1, <2>4, <2>5, <2>7, <3>1
  <2>8. QED
    BY <2>6, <2>7
<1>6. 0..n \subseteq S
  <2> HIDE DEF S, n
  <2>1. QED
    BY <1>1, <1>4, <1>5, IntervalInduction
<1>7. Ended(n)
  BY <1>1, <1>6
<1>8. Met(n) <=> b.open # {}
  <2>1. b.open \subseteq Calls
    BY DEF Bridges
  <2>2. QED
    BY <1>1, <2>1
<1>9. Reading(EndCalls(b, rank)) = Reading(g[n])
  BY <1>2, ReadSame DEF ForgetsOpen, SameRun, SameReader
<1>10. QED
  BY <1>7, <1>8, <1>9

\* Nothing is open, and no call waits.
AtRest(b) == b.message = Nil /\ b.reasoning = Nil /\ b.pending = <<>> /\ b.open = {}

\* What is read of the end of a run is the end of its calls.
LEMMA EndedRead ==
    ASSUME NEW b \in Bridges, NEW r, NEW rank \in Ranks,
           NEW kind \in {"runFinished", "runError"}, Ends(b, r, rank, kind)
    PROVE  /\ r \in Bridges /\ AtRest(r)
           /\ \E m \in Bridges : /\ SameRead(b, m) /\ SameCalls(b, m) /\ SameRun(b, m)
                                 /\ Reading(r) = Reading(CloseCalls(m, rank))
<1> DEFINE sink == IF b.sink = "run" THEN "ended" ELSE b.sink
<1>1. PICK m \in Bridges :
         Silences(b, m) /\ Leaves(CloseCalls(m, rank), r, RunEvent(kind, b.turn), sink)
  BY DEF Ends
<1> DEFINE q == CloseCalls(m, rank)
<1>2. /\ SameRead(b, m) /\ SameCalls(b, m) /\ SameRun(b, m)
      /\ m.message = Nil /\ m.reasoning = Nil
  BY <1>1, SameReadCloses
     DEF Silences, ClosesReasoning, ClosesMessage, SameCalls, SameRun
<1>3. rank \in Seq(Calls) /\ b.turn \in Nat /\ sink \in Sinks
  BY RankFacts DEF Bridges, Sinks
<1>4. q \in Bridges /\ SameRun(m, q) /\ SameFrames(m, q) /\ q.pending = <<>> /\ q.open = {}
  BY <1>3, CloseCallsFacts
<1>5. SameReader(q, r)
  BY <1>1, <1>2, <1>4 DEF Leaves, SameRun, SameReader
<1> HIDE DEF q
<1>6. Leaves(q, r, RunEvent(kind, b.turn), sink)
  BY <1>1 DEF q
<1> HIDE DEF sink
<1>7. SameRead(q, r)
  BY <1>3, <1>4, <1>5, <1>6, SameReadRuns
<1>8. r \in Bridges /\ AtRest(r)
  BY <1>2, <1>4, <1>6 DEF Leaves, SameFrames, SameCalls, AtRest
<1>9. QED
  BY <1>2, <1>7, <1>8 DEF SameRead, q

\* Of two bridges of which the same is read it still is after both ends,
LEMMA LevelEnds ==
    ASSUME NEW b \in Bridges, NEW r \in Bridges, Level(b, r), Listens(b), Listens(r),
           Ready(b), Ready(r), NEW kind \in {"runFinished", "runError"}
    PROVE  \A rank1, rank2 \in Ranks : \A b1, r1 :
              Ends(b, b1, rank1, kind) /\ Ends(r, r1, rank2, kind) => Reading(b1) = Reading(r1)
<1> SUFFICES ASSUME NEW rank1 \in Ranks, NEW rank2 \in Ranks, NEW b1, NEW r1,
                    Ends(b, b1, rank1, kind), Ends(r, r1, rank2, kind)
             PROVE  Reading(b1) = Reading(r1)
  OBVIOUS
<1>1. PICK m \in Bridges : /\ SameRead(b, m) /\ SameCalls(b, m) /\ SameRun(b, m)
                           /\ Reading(b1) = Reading(CloseCalls(m, rank1))
  BY EndedRead
<1>2. PICK n \in Bridges : /\ SameRead(r, n) /\ SameCalls(r, n) /\ SameRun(r, n)
                           /\ Reading(r1) = Reading(CloseCalls(n, rank2))
  BY EndedRead
<1>3. Listens(m) /\ Listens(n) /\ Level(m, n)
  BY <1>1, <1>2 DEF Listens, SameRun, Level, SameRead, SameCalls
<1>4. Ready(m) /\ Ready(n)
  BY <1>1, <1>2 DEF Ready, Distinct, IsPending, SameCalls
<1>5. Level(FlushPending(m), FlushPending(n))
  BY <1>3, <1>4, LevelFlush
<1>6. \A y \in Bridges : FlushPending(y) \in Bridges /\ SameRun(y, FlushPending(y))
  BY BesideCalls, FlushPendingStays DEF Beside
<1>7. Listens(FlushPending(m)) /\ Listens(FlushPending(n))
  BY <1>3, <1>6 DEF Listens, SameRun
<1>8. /\ Reading(CloseCalls(m, rank1))
             = IF FlushPending(m).open = {} THEN Reading(FlushPending(m))
               ELSE AddResults(Reading(FlushPending(m)))
      /\ Reading(CloseCalls(n, rank2))
             = IF FlushPending(n).open = {} THEN Reading(FlushPending(n))
               ELSE AddResults(Reading(FlushPending(n)))
  BY <1>6, <1>7, EndsRead DEF CloseCalls
<1>9. QED
  BY <1>1, <1>2, <1>5, <1>8 DEF Level

\* ... and the end of a run changes nothing where nothing is left to end, or
\* nobody listens.
LEMMA QuietEnd ==
    ASSUME NEW b \in Bridges, AtRest(b) \/ ~Listens(b), NEW r, NEW rank \in Ranks,
           NEW kind \in {"runFinished", "runError"}, Ends(b, r, rank, kind)
    PROVE  Reading(r) = Reading(b)
<1>1. PICK m \in Bridges : /\ SameRead(b, m) /\ SameCalls(b, m) /\ SameRun(b, m)
                           /\ Reading(r) = Reading(CloseCalls(m, rank))
  BY EndedRead
<1>2. rank \in Seq(Calls)
  BY RankFacts
<1>3. CASE ~Listens(b)
  <2>1. SameOut(m, CloseCalls(m, rank))
    BY <1>1, <1>2, <1>3, ClosingUnseen DEF Listens, SameRun
  <2>2. SameReader(m, CloseCalls(m, rank))
    BY <1>2, CloseCallsFacts DEF SameRun, SameReader
  <2>3. Reading(CloseCalls(m, rank)) = Reading(m)
    BY <2>1, <2>2, ReadSame
  <2>4. QED
    BY <1>1, <2>3 DEF SameRead
<1>4. CASE AtRest(b) /\ Listens(b)
  <2> DEFINE q == FlushPending(m)
  <2>1. m.pending = <<>> /\ m.open = {} /\ Listens(m)
    BY <1>1, <1>4 DEF AtRest, SameCalls, Listens, SameRun
  <2>2. q \in Bridges /\ SameRun(m, q)
    BY BesideCalls, FlushPendingStays DEF Beside
  <2>3. Reading(q) = Reading(m) /\ q.open = {}
    BY <2>1, FlushNothing
  <2> HIDE DEF q
  <2>4. Reading(EndCalls(q, rank)) = Reading(q)
    BY <2>1, <2>2, <2>3, EndsRead DEF Listens, SameRun
  <2>5. CloseCalls(m, rank) = EndCalls(q, rank)
    BY DEF CloseCalls, q
  <2>6. QED
    BY <1>1, <2>3, <2>4, <2>5 DEF SameRead
<1>5. QED
  BY <1>3, <1>4

-----------------------------------------------------------------------------
(* What has been told stays told.                                          *)

\* The bridges that come after a: they have told more, and begun more messages.
After(a) ==
    {b \in Bridges : /\ a.fresh <= b.fresh
                     /\ Len(a.wire) <= Len(b.wire)
                     /\ \A i \in DOMAIN a.wire : b.wire[i] = a.wire[i]}

\* One more event,
LEMMA AfterStep ==
    ASSUME NEW a \in Bridges, NEW b \in After(a), NEW r \in Bridges,
           r.fresh = b.fresh \/ r.fresh = b.fresh + 1,
           r.wire = b.wire \/ \E e \in Events : r.wire = Append(b.wire, e)
    PROVE  r \in After(a)
<1>1. /\ a.fresh \in Nat /\ b.fresh \in Nat /\ a.fresh <= b.fresh /\ Len(a.wire) <= Len(b.wire)
      /\ a.wire \in Seq(Events) /\ b.wire \in Seq(Events)
      /\ \A i \in DOMAIN a.wire : b.wire[i] = a.wire[i]
  BY DEF After, Bridges
<1>2. a.fresh <= r.fresh
  BY <1>1
<1>3. Len(a.wire) <= Len(r.wire) /\ \A i \in DOMAIN a.wire : r.wire[i] = a.wire[i]
  <2>1. CASE r.wire = b.wire
    BY <1>1, <2>1
  <2>2. CASE \E e \in Events : r.wire = Append(b.wire, e)
    <3>1. PICK e \in Events : r.wire = Append(b.wire, e)
      BY <2>2
    <3>2. Len(r.wire) = Len(b.wire) + 1 /\ \A i \in 1..Len(b.wire) : r.wire[i] = b.wire[i]
      BY <1>1, <3>1, AppendFacts
    <3>3. DOMAIN a.wire \subseteq 1..Len(b.wire)
      BY <1>1
    <3>4. QED
      BY <1>1, <3>2, <3>3
  <2>3. QED
    BY <2>1, <2>2
<1>4. QED
  BY <1>2, <1>3 DEF After

\* ... if it is told at all,
LEMMA AfterTold ==
    ASSUME NEW a \in Bridges, NEW b \in After(a), NEW r \in Bridges,
           r.fresh = b.fresh \/ r.fresh = b.fresh + 1,
           SameOut(b, r) \/ \E e \in Events : Told(b, r, e)
    PROVE  r \in After(a)
BY AfterStep DEF SameOut, Told, WireAfter

\* ... as by the handlers of tool calls,
LEMMA AfterCalls ==
    ASSUME NEW a \in Bridges
    PROVE  a \in After(a) /\ CallsStayIn(After(a))
<1>1. ASSUME NEW b \in After(a), NEW r \in Bridges, CallStep(b, r)
      PROVE  r \in After(a)
  BY <1>1, AfterTold DEF CallStep, SameFrames
<1>2. a \in After(a)
  <2>1. a.fresh \in Nat /\ a.wire \in Seq(Events)
    BY DEF Bridges
  <2>2. QED
    BY <2>1 DEF After
<1>3. QED
  BY <1>1, <1>2 DEF After, CallsStayIn

\* ... when frames are opened or closed,
LEMMA AfterFrames ==
    ASSUME NEW a \in Bridges, NEW b \in After(a), NEW r
    PROVE  /\ ClosesReasoning(b, r) => r \in After(a)
           /\ ClosesMessage(b, r) => r \in After(a)
           /\ OpensText(b, r) => r \in After(a)
           /\ OpensThought(b, r) => r \in After(a)
<1>1. \A kind \in {"textStart", "textEnd", "thoughtStart", "thoughtEnd"}, id \in Nat \cup {Nil} :
         FrameEvent(kind, id) \in Events
  BY FrameEventFacts
<1>2. \A x \in Bridges : /\ x.message \in Nat \cup {Nil} /\ x.reasoning \in Nat \cup {Nil}
                         /\ x.fresh \in Nat \cup {Nil}
  BY DEF Bridges
<1>3. b \in Bridges
  BY DEF After
<1>4. ClosesReasoning(b, r) => r \in After(a)
  BY <1>1, <1>2, <1>3, AfterTold DEF ClosesReasoning
<1>5. \A x : ClosesMessage(b, x) => x \in After(a)
  BY <1>1, <1>2, <1>3, AfterTold DEF ClosesMessage
<1>6. OpensText(b, r) => r \in After(a)
  BY <1>1, <1>2, <1>3, AfterTold DEF OpensText, SameFrames
<1>7. ASSUME OpensThought(b, r)
      PROVE  r \in After(a)
  <2>1. CASE b.reasoning # Nil
    BY <1>7, <2>1 DEF OpensThought
  <2>2. CASE b.reasoning = Nil
    <3>1. PICK m \in Bridges :
             /\ ClosesMessage(b, m) /\ r \in Bridges /\ r.fresh = m.fresh + 1
             /\ Told(m, r, FrameEvent("thoughtStart", m.fresh))
      BY <1>7, <2>2 DEF OpensThought
    <3>2. m \in After(a)
      BY <1>5, <3>1
    <3>3. QED
      BY <1>1, <1>2, <3>1, <3>2, AfterTold
  <2>3. QED
    BY <2>1, <2>2
<1>8. QED
  BY <1>4, <1>5, <1>6, <1>7

\* ... when runs start, are suspended, go on and end,
LEMMA AfterRuns ==
    ASSUME NEW a \in Bridges, NEW b \in After(a), NEW r, NEW rank \in Seq(Calls)
    PROVE  /\ Silences(b, r) => r \in After(a)
           /\ \A t \in Nat : Starts(b, r, t) => r \in After(a)
           /\ Attaches(b, r) => r \in After(a)
           /\ Suspends(b, r) => r \in After(a)
           /\ \A kind \in {"runFinished", "runError"} : Ends(b, r, rank, kind) => r \in After(a)
<1>1. \A kind \in {"runStarted", "runFinished", "runError", "interrupt"}, t \in Nat :
         RunEvent(kind, t) \in Events
  BY RunEventFacts
<1>2. b \in Bridges /\ b.turn \in Nat
  BY DEF After, Bridges
<1>3. \A x : Silences(b, x) => x \in After(a)
  BY AfterFrames DEF Silences
<1>4. \A t \in Nat : Starts(b, r, t) => r \in After(a)
  BY <1>1, AfterStep DEF Starts
<1>5. Attaches(b, r) => r \in After(a)
  BY <1>1, <1>2, AfterStep DEF Attaches
<1>6. \A sink : \A x \in After(a), kind \in {"runFinished", "runError", "interrupt"} :
         Leaves(x, r, RunEvent(kind, b.turn), sink) => r \in After(a)
  BY <1>1, <1>2, AfterTold DEF Leaves, SameFrames
<1>7. Suspends(b, r) => r \in After(a)
  BY <1>3, <1>6 DEF Suspends
<1>8. ASSUME NEW kind \in {"runFinished", "runError"}, Ends(b, r, rank, kind)
      PROVE  r \in After(a)
  <2>1. PICK m \in Bridges :
           /\ Silences(b, m)
           /\ Leaves(CloseCalls(m, rank), r, RunEvent(kind, b.turn),
                     IF b.sink = "run" THEN "ended" ELSE b.sink)
    BY <1>8 DEF Ends
  <2>2. CloseCalls(m, rank) \in After(a)
    BY <1>3, <2>1, AfterCalls, CallHandlersStay
  <2>3. QED
    BY <1>6, <2>1, <2>2
<1>9. QED
  BY <1>3, <1>4, <1>5, <1>7, <1>8

\* ... and by every update.
LEMMA AfterHandlers ==
    ASSUME NEW a \in Bridges, NEW n \in Nat
    PROVE  /\ TextDelta(a, n) \in After(a) /\ ThoughtDelta(a, n) \in After(a)
           /\ \A call \in Calls, input \in {"initial", Nil} : ToolCall(a, call, input) \in After(a)
           /\ \A call \in Calls, input \in Inputs :
                 Progress(a, call, input) \in After(a) /\ Completed(a, call, input) \in After(a)
<1>1. a \in After(a) /\ CallsStayIn(After(a)) /\ \A b \in After(a) : b \in Bridges
  BY AfterCalls DEF After
<1>2. \A r : \A b \in After(a), e \in Events : Says(b, r, e) => r \in After(a)
  BY AfterTold DEF Says, SameFrames
<1>3. TextDelta(a, n) \in After(a)
  <2> DEFINE m == CloseReasoning(a)
             o == OpenText(m)
  <2>1. m \in After(a)
    BY <1>1, CloseReasoningFacts, AfterFrames
  <2> HIDE DEF m
  <2>2. o \in After(a)
    BY <1>1, <2>1, OpenTextFacts, AfterFrames
  <2> HIDE DEF o
  <2>3. Says(o, SayText(o, n), ChunkEvent("text", o.message, n))
    BY <1>1, <2>2, SayFacts
  <2>4. ChunkEvent("text", o.message, n) \in Events
    <3>1. o.message \in Nat \cup {Nil}
      BY <1>1, <2>2 DEF Bridges
    <3>2. QED
      BY <3>1, ChunkEventFacts
  <2>5. SayText(o, n) \in After(a)
    BY <1>2, <2>2, <2>3, <2>4
  <2>6. QED
    BY <2>5 DEF TextDelta, o, m
<1>4. ThoughtDelta(a, n) \in After(a)
  <2> DEFINE o == OpenThought(a)
  <2>1. o \in After(a)
    BY <1>1, OpenThoughtFacts, AfterFrames
  <2> HIDE DEF o
  <2>2. Says(o, SayThought(o, n), ChunkEvent("thought", o.reasoning, n))
    BY <1>1, <2>1, SayFacts
  <2>3. ChunkEvent("thought", o.reasoning, n) \in Events
    <3>1. o.reasoning \in Nat \cup {Nil}
      BY <1>1, <2>1 DEF Bridges
    <3>2. QED
      BY <3>1, ChunkEventFacts
  <2>4. SayThought(o, n) \in After(a)
    BY <1>2, <2>1, <2>2, <2>3
  <2>5. QED
    BY <2>4 DEF ThoughtDelta, o
<1>5. ASSUME NEW call \in Calls, NEW input \in {"initial", Nil}
      PROVE  ToolCall(a, call, input) \in After(a)
  <2> DEFINE m == CloseMessage(CloseReasoning(a))
  <2>1. m \in After(a)
    <3>1. Silences(a, m) /\ <<>> \in Seq(Calls)
      BY SilenceFacts
    <3>2. QED
      BY <1>1, <3>1, AfterRuns
  <2>2. Queues(m, ToolCall(a, call, input), call, input)
    BY ToolCallFacts
  <2> HIDE DEF m
  <2>3. QED
    BY <1>1, <2>1, <2>2, AreCallSteps
<1>6. QED
  BY <1>1, <1>3, <1>4, <1>5, CallHandlersStay

\* So does every step.
LEMMA AfterAction ==
    ASSUME TypeInv, Stepped
    PROVE  bridge' \in After(bridge)
<1>1. /\ bridge \in Bridges /\ turn \in Nat /\ history \in Seq(Records)
      /\ "later" \in Inputs /\ Nil \in Inputs /\ <<>> \in Seq(Calls)
  BY ConstantsAssumption DEF TypeInv, Inputs
<1>2. bridge \in After(bridge) /\ Len(history) + 1 \in Nat
  BY <1>1, AfterCalls
<1>3. \A rank \in Ranks : rank \in Seq(Calls)
  BY RankFacts
<1>4. CASE Idles \/ Missed
  BY <1>2, <1>4 DEF Idles, Missed
<1>5. CASE Prompted \/ Suspended \/ Resumed
  <2>1. CASE Prompted
    <3>1. turn' \in Nat /\ Starts(bridge, bridge', turn')
      BY <1>1, <2>1 DEF Prompted
    <3>2. QED
      BY <1>1, <1>2, <3>1, AfterRuns
  <2>2. CASE Suspended \/ Resumed
    BY <1>1, <1>2, <2>2, AfterRuns DEF Suspended, Resumed
  <2>3. QED
    BY <1>5, <2>1, <2>2
<1>6. CASE Spoke
  BY <1>1, <1>2, <1>6, AfterHandlers DEF Spoke, Handled
<1>7. ASSUME NEW c \in Calls, NEW i \in {"initial", Nil}, Called(c, i)
      PROVE  bridge' \in After(bridge)
  BY <1>1, <1>2, <1>7, AfterHandlers DEF Called, Handled
<1>8. ASSUME NEW c \in Calls, Progressed(c)
      PROVE  bridge' \in After(bridge)
  BY <1>1, <1>2, <1>8, AfterHandlers DEF Progressed, Handled
<1>9. ASSUME NEW c \in Calls, NEW i \in {"later", Nil}, Finished(c, i)
      PROVE  bridge' \in After(bridge)
  BY <1>1, <1>2, <1>9, AfterHandlers DEF Finished, Handled
<1>10. ASSUME NEW rank \in Ranks, NEW kind \in {"runFinished", "runError"},
              TurnEnded(rank) \/ Closed(rank, kind)
       PROVE  bridge' \in After(bridge)
  BY <1>1, <1>2, <1>3, <1>10, AfterRuns DEF TurnEnded, Closed
<1>11. QED
  BY <1>4, <1>5, <1>6, <1>7, <1>8, <1>9, <1>10 DEF Stepped

-----------------------------------------------------------------------------
(* Histories that a live session shows as a replay does.                   *)

\* The last turn has not been ended by the agent.
Cut(h) == h # <<>> /\ h[Len(h)].kind # "turnEnd"

\* An agent that works on a turn has not ended it yet; it has when its last
\* prompt is about to be answered.
PhaseInv ==
    /\ phase \in {"working", "waiting"} => Cut(history)
    /\ phase = "closing" => ~Cut(history)

\* The last record tells which.
LEMMA CutLast ==
    ASSUME NEW h \in Seq(Records), NEW u \in Records
    PROVE  Cut(Append(h, u)) <=> u.kind # "turnEnd"
<1>1. Append(h, u)[Len(Append(h, u))] = u /\ Append(h, u) # <<>>
  BY HistoryFacts
<1>2. QED
  BY <1>1 DEF Cut

\* It is invariant.
LEMMA PhaseAlways == Spec => [](HistoryInv /\ PhaseInv)
<1>1. Init => PhaseInv
  BY DEF Init, PhaseInv
<1>2. HistoryInv /\ PhaseInv /\ [Next]_vars => PhaseInv'
  <2>1. SUFFICES ASSUME TypeInv, PhaseInv, [Next]_vars
                 PROVE  PhaseInv'
    BY DEF HistoryInv
  <2>2. history \in Seq(Records) /\ turn \in Nat /\ turn + 1 \in Nat
    BY <2>1, ConstantsAssumption DEF TypeInv
  <2>3. ASSUME NEW u \in AgentUpdates \cup {Plain("user")}, NEW t \in Nat,
               history' = Recorded(u, t)
        PROVE  Cut(history') <=> u.kind # "turnEnd"
    <3>1. PICK e \in Records : history' = Append(history, e) /\ e.kind = u.kind
      BY <2>1, <2>3, StepRecords
    <3>2. QED
      BY <2>2, <3>1, CutLast
  <2>4. CASE Prompt
    <3>1. history' = Recorded(Plain("user"), turn + 1) /\ phase' = "working"
          /\ Plain("user").kind = "user"
      BY <2>4 DEF Prompt, Plain
    <3>2. QED
      BY <2>2, <2>3, <3>1 DEF PhaseInv
  <2>5. CASE Update
    <3>1. PICK u \in NextUpdates : history' = Recorded(u, turn)
      BY <2>5 DEF Update
    <3>2. u \in AgentUpdates /\ u.kind # "turnEnd"
      BY <3>1 DEF AgentUpdates, NextUpdates, Plain
    <3>3. phase' = phase /\ phase \in {"working", "waiting"}
      BY <2>5 DEF Update
    <3>4. QED
      BY <2>2, <2>3, <3>1, <3>2, <3>3 DEF PhaseInv
  <2>6. CASE SendTurnEnd
    <3>1. history' = Recorded(Plain("turnEnd"), turn) /\ phase' = "closing"
          /\ Plain("turnEnd") \in AgentUpdates /\ Plain("turnEnd").kind = "turnEnd"
      BY <2>6, HandledUpdates DEF SendTurnEnd, Plain
    <3>2. QED
      BY <2>2, <2>3, <3>1 DEF PhaseInv
  <2>7. CASE \/ PromptReturns \/ PromptFails \/ RequestPermission \/ Resume \/ Expire
             \/ UNCHANGED vars
    <3>1. /\ history' = history
          /\ phase' \in {"working", "waiting"} => phase \in {"working", "waiting"}
          /\ phase' = "closing" => phase = "closing"
      BY <2>7 DEF PromptReturns, PromptFails, RequestPermission, Resume, Expire, vars
    <3>2. QED
      BY <2>1, <3>1 DEF PhaseInv
  <2>8. QED
    BY <2>1, <2>4, <2>5, <2>6, <2>7 DEF Next
<1>3. QED
  BY <1>1, <1>2, HistoryAlways, PTL DEF Spec

\* Unsplit, of any wire and history.
UnsplitIn(w, h) ==
    \A i, j \in DOMAIN w :
        (/\ i < j
         /\ w[i].kind \in ChunkKinds /\ w[j].kind = w[i].kind
         /\ \A k \in w[i].chunk .. w[j].chunk :
                h[k].kind \in {w[i].kind, "progress", "completed"})
        => w[i].id = w[j].id

\* Every turn is marked, no update was dropped and no message was split.
Faithful(w, h) ==
    /\ Marked(h)
    /\ \A i \in DOMAIN h : h[i].kind # "user" => h[i].attached
    /\ UnsplitIn(w, h)

\* h is how v begins.
BeginsAs(v, h) == Len(h) <= Len(v) /\ \A i \in DOMAIN h : v[i] = h[i]

\* A step that adds to the history adds to its end.
LEMMA HistoryGrows ==
    ASSUME TypeInv, Stepped
    PROVE  history' \in Seq(Records) /\ BeginsAs(history', history)
<1>1. history \in Seq(Records) /\ turn \in Nat /\ turn + 1 \in Nat /\ "later" \in Inputs
  BY ConstantsAssumption DEF TypeInv, Inputs
<1>2. ASSUME history' = history
      PROVE  BeginsAs(history', history)
  BY <1>1, <1>2 DEF BeginsAs
<1>3. ASSUME NEW u \in AgentUpdates \cup {Plain("user")}, NEW t \in Nat,
             history' = Recorded(u, t)
      PROVE  BeginsAs(history', history)
  <2>1. PICK e \in Records : history' = Append(history, e)
    BY <1>3, StepRecords
  <2>2. /\ Len(history') = Len(history) + 1 /\ Len(history) \in Nat
        /\ \A i \in DOMAIN history : history'[i] = history[i]
    BY <1>1, <2>1, HistoryFacts
  <2>3. QED
    BY <2>2 DEF BeginsAs
<1>4. history' \in Seq(Records)
  BY TypeStep DEF TypeInv
<1>5. CASE Idles \/ Suspended \/ Resumed
           \/ \E rank \in Ranks, kind \in {"runFinished", "runError"} : Closed(rank, kind)
  BY <1>2, <1>4, <1>5 DEF Idles, Suspended, Resumed, Closed
<1>6. CASE Prompted
  BY <1>1, <1>3, <1>4, <1>6 DEF Prompted
<1>7. CASE Missed
  BY <1>1, <1>3, <1>4, <1>7 DEF Missed
<1>8. CASE Spoke
  BY <1>1, <1>3, <1>4, <1>8, HandledUpdates DEF Spoke, Handled
<1>9. ASSUME NEW c \in Calls, NEW i \in {"initial", Nil}, Called(c, i)
      PROVE  BeginsAs(history', history)
  BY <1>1, <1>3, <1>9, HandledUpdates DEF Called, Handled
<1>10. ASSUME NEW c \in Calls, Progressed(c)
       PROVE  BeginsAs(history', history)
  BY <1>1, <1>3, <1>10, HandledUpdates DEF Progressed, Handled
<1>11. ASSUME NEW c \in Calls, NEW i \in {"later", Nil}, Finished(c, i)
       PROVE  BeginsAs(history', history)
  BY <1>1, <1>3, <1>11, HandledUpdates DEF Finished, Handled
<1>12. ASSUME NEW rank \in Ranks, TurnEnded(rank)
       PROVE  BeginsAs(history', history)
  BY <1>1, <1>3, <1>12, HandledUpdates DEF TurnEnded
<1>13. QED
  BY <1>4, <1>5, <1>6, <1>7, <1>8, <1>9, <1>10, <1>11, <1>12 DEF Stepped

\* What was told of h in order.
LEMMA ChunkInHistory ==
    ASSUME NEW w, NEW h \in Seq(Records), InOrder(w, h), NEW i \in DOMAIN w,
           w[i].kind \in ChunkKinds
    PROVE  w[i].chunk \in 1..Len(h)
BY DEF InOrder, ChunksOf

\* A session that is faithful was so before.
LEMMA FaithfulBefore ==
    ASSUME NEW a \in Bridges, NEW b \in After(a), NEW h \in Seq(Records), NEW v \in Seq(Records),
           InOrder(a.wire, h), BeginsAs(v, h), Faithful(b.wire, v)
    PROVE  Faithful(a.wire, h)
<1>1. /\ Len(h) \in Nat /\ Len(v) \in Nat /\ DOMAIN h = 1..Len(h) /\ DOMAIN v = 1..Len(v)
      /\ Len(h) <= Len(v) /\ \A i \in 1..Len(h) : v[i] = h[i]
  BY DEF BeginsAs
<1>2. Marked(h)
  BY <1>1 DEF Faithful, Marked
<1>3. \A i \in DOMAIN h : h[i].kind # "user" => h[i].attached
  BY <1>1 DEF Faithful
<1>4. UnsplitIn(a.wire, h)
  <2>1. SUFFICES ASSUME NEW i \in DOMAIN a.wire, NEW j \in DOMAIN a.wire, i < j,
                        a.wire[i].kind \in ChunkKinds, a.wire[j].kind = a.wire[i].kind,
                        \A k \in a.wire[i].chunk .. a.wire[j].chunk :
                           h[k].kind \in {a.wire[i].kind, "progress", "completed"}
                 PROVE  a.wire[i].id = a.wire[j].id
    BY DEF UnsplitIn
  <2>2. /\ a.wire \in Seq(Events) /\ b.wire \in Seq(Events) /\ Len(a.wire) <= Len(b.wire)
        /\ b.wire[i] = a.wire[i] /\ b.wire[j] = a.wire[j]
    BY <2>1 DEF After, Bridges
  <2>3. i \in DOMAIN b.wire /\ j \in DOMAIN b.wire
    BY <2>1, <2>2
  <2>4. a.wire[i].chunk \in 1..Len(h) /\ a.wire[j].chunk \in 1..Len(h)
    BY <2>1, ChunkInHistory
  <2>5. \A k \in a.wire[i].chunk .. a.wire[j].chunk : v[k] = h[k]
    BY <1>1, <2>4
  <2>6. /\ b.wire[i].kind \in ChunkKinds /\ b.wire[j].kind = b.wire[i].kind
        /\ \A k \in b.wire[i].chunk .. b.wire[j].chunk :
              v[k].kind \in {b.wire[i].kind, "progress", "completed"}
    BY <2>1, <2>2, <2>5
  <2>7. UnsplitIn(b.wire, v)
    BY DEF Faithful
  <2>8. b.wire[i].id = b.wire[j].id
    BY <2>1, <2>3, <2>6, <2>7 DEF UnsplitIn
  <2>9. QED
    BY <2>2, <2>8
<1>5. QED
  BY <1>2, <1>3, <1>4 DEF Faithful

\* The last chunk of this kind was told in a message that was begun, and
\* nothing came after it but the updates of calls.
Traced(b, h, kind) ==
    \E i \in DOMAIN b.wire :
        /\ b.wire[i].kind = kind /\ b.wire[i].id \in Nat /\ b.wire[i].id < b.fresh
        /\ \A k \in b.wire[i].chunk .. Len(h) : h[k].kind \in {kind, "progress", "completed"}

\* So it is with more told, and more updates of calls.
LEMMA TracedStays ==
    ASSUME NEW a \in Bridges, NEW b \in After(a), NEW h \in Seq(Records), NEW kind \in ChunkKinds,
           InOrder(a.wire, h), Traced(a, h, kind)
    PROVE  /\ Traced(b, h, kind)
           /\ \A u \in Records : u.kind \in {"progress", "completed"} =>
                 Traced(b, Append(h, u), kind)
<1>1. PICK i \in DOMAIN a.wire :
         /\ a.wire[i].kind = kind /\ a.wire[i].id \in Nat /\ a.wire[i].id < a.fresh
         /\ \A k \in a.wire[i].chunk .. Len(h) : h[k].kind \in {kind, "progress", "completed"}
  BY DEF Traced
<1>2. /\ a.wire \in Seq(Events) /\ b.wire \in Seq(Events) /\ Len(a.wire) <= Len(b.wire)
      /\ a.fresh \in Nat /\ b.fresh \in Nat /\ a.fresh <= b.fresh /\ b.wire[i] = a.wire[i]
  BY DEF After, Bridges
<1>3. i \in DOMAIN b.wire /\ b.wire[i].id < b.fresh
  BY <1>1, <1>2
<1>4. Traced(b, h, kind)
  BY <1>1, <1>2, <1>3 DEF Traced
<1>5. ASSUME NEW u \in Records, u.kind \in {"progress", "completed"}
      PROVE  Traced(b, Append(h, u), kind)
  <2> DEFINE v == Append(h, u)
             n == Len(h)
  <2>1. Len(v) = n + 1 /\ v[n + 1] = u /\ n \in Nat /\ \A k \in 1..n : v[k] = h[k]
    BY AppendFacts
  <2>2. a.wire[i].chunk \in 1..n
    BY <1>1, ChunkInHistory
  <2> DEFINE at == a.wire[i].chunk
  <2>3. ASSUME NEW k \in at .. Len(v)
        PROVE  v[k].kind \in {kind, "progress", "completed"}
    <3> HIDE DEF v, n, at
    <3>1. at \in 1..n /\ k \in at..(n + 1)
      BY <2>1, <2>2, <2>3 DEF at
    <3>2. k \in at..n \/ k = n + 1
      BY <2>1, <3>1
    <3>3. k \in at..n => v[k] = h[k] /\ h[k].kind \in {kind, "progress", "completed"}
      BY <1>1, <2>1, <3>1 DEF at, n
    <3>4. QED
      BY <1>5, <2>1, <3>2, <3>3
  <2> HIDE DEF v
  <2>4. Traced(b, v, kind)
    BY <1>1, <1>2, <1>3, <2>3 DEF Traced
  <2>5. QED
    BY <2>4 DEF v
<1>6. QED
  BY <1>4, <1>5

\* A chunk that is told in a message begun for it was split from the last one.
LEMMA Torn ==
    ASSUME NEW b \in Bridges, b.sink = "run", NEW h \in Seq(Records), InOrder(b.wire, h),
           NEW kind \in ChunkKinds, Traced(b, h, kind), MessageOf(b, kind) = Nil,
           NEW r \in After(b), Voices(b, r, kind, Len(h) + 1),
           NEW u \in Records, u.kind = kind
    PROVE  ~UnsplitIn(r.wire, Append(h, u))
<1> DEFINE v == Append(h, u)
           n == Len(h)
           l == Len(r.wire)
<1>1. PICK i \in DOMAIN b.wire :
         /\ b.wire[i].kind = kind /\ b.wire[i].id \in Nat /\ b.wire[i].id < b.fresh
         /\ \A k \in b.wire[i].chunk .. Len(h) : h[k].kind \in {kind, "progress", "completed"}
  BY DEF Traced
<1>2. /\ b.wire \in Seq(Events) /\ r.wire \in Seq(Events) /\ Len(b.wire) <= Len(r.wire)
      /\ r.wire[i] = b.wire[i] /\ b.fresh \in Nat
  BY DEF After, Bridges
<1>3. i \in DOMAIN r.wire /\ i <= l /\ i \in Nat /\ l \in Nat
  BY <1>1, <1>2
<1>4. l \in DOMAIN r.wire /\ r.wire[l] = ChunkEvent(kind, b.fresh, n + 1)
  BY DEF Voices
<1>5. r.wire[l].kind = kind /\ r.wire[l].id = b.fresh /\ r.wire[l].chunk = n + 1
  BY <1>4 DEF ChunkEvent
<1>6. Len(v) = n + 1 /\ v[n + 1] = u /\ n \in Nat /\ \A k \in 1..n : v[k] = h[k]
  BY AppendFacts
<1>7. b.wire[i].chunk \in 1..n
  BY <1>1, ChunkInHistory
<1> DEFINE at == b.wire[i].chunk
<1> HIDE DEF v, n, l
<1>8. i < l
  <2>1. i # l
    BY <1>2, <1>5, <1>6, <1>7
  <2>2. QED
    BY <1>3, <2>1
<1>9. ASSUME NEW k \in at .. n + 1
      PROVE  v[k].kind \in {kind, "progress", "completed"}
  <2> HIDE DEF at
  <2>1. at \in 1..n
    BY <1>7 DEF at
  <2>2. k \in at..n \/ k = n + 1
    BY <1>6, <1>9, <2>1
  <2>3. k \in at..n => v[k] = h[k] /\ h[k].kind \in {kind, "progress", "completed"}
    BY <1>1, <1>6, <2>1 DEF at, n
  <2>4. QED
    BY <1>6, <2>2, <2>3
<1>10. ASSUME UnsplitIn(r.wire, v)
       PROVE  FALSE
  <2>1. r.wire[i].id = r.wire[l].id
    BY <1>1, <1>2, <1>3, <1>4, <1>5, <1>8, <1>9, <1>10 DEF UnsplitIn
  <2>2. QED
    BY <1>1, <1>2, <1>5, <2>1
<1>11. QED
  BY <1>10 DEF v

-----------------------------------------------------------------------------
(* A replay, one record at a time.                                         *)

\* A replay is the replay without its last record, and that record.
LEMMA LoadedShrinks ==
    ASSUME NEW h \in Seq(Records), NEW u \in Records, NEW rank, NEW g,
           LoadedBy(Append(h, u), rank, g)
    PROVE  \E f : /\ LoadedBy(h, rank, f)
                  /\ g[Len(Append(h, u))] = SessionUpdate(f[Len(h)], u, Len(h) + 1, rank)
<1> DEFINE v == Append(h, u)
           n == Len(h)
           f == [i \in 0..n |-> g[i]]
<1>1. Len(v) = n + 1 /\ n \in Nat /\ v[n + 1] = u /\ \A i \in 1..n : v[i] = h[i]
  BY AppendFacts
<1>2. LoadedBy(v, rank, g)
  OBVIOUS
<1>3. SUFFICES /\ LoadedBy(h, rank, f)
               /\ g[Len(v)] = SessionUpdate(f[n], u, n + 1, rank)
  OBVIOUS
<1> HIDE DEF v
<1>4. /\ g \in [0..(n + 1) -> Bridges] /\ g[0] = NewReplay
      /\ \A i \in 1..(n + 1) : g[i] = SessionUpdate(g[i - 1], v[i], i, rank)
  BY <1>1, <1>2 DEF LoadedBy
<1>5. f \in [0..n -> Bridges] /\ f[0] = NewReplay /\ f[n] = g[n]
  BY <1>1, <1>4
<1>6. ASSUME NEW i \in 1..n
      PROVE  f[i] = SessionUpdate(f[i - 1], h[i], i, rank)
  <2>1. i \in 1..(n + 1) /\ i \in 0..n /\ i - 1 \in 0..n /\ v[i] = h[i]
    BY <1>1, <1>6
  <2>2. f[i] = g[i] /\ f[i - 1] = g[i - 1]
    BY <2>1
  <2>3. QED
    BY <1>4, <2>1, <2>2
<1>7. n + 1 \in 1..(n + 1) /\ (n + 1) - 1 = n
  BY <1>1
<1>8. g[n + 1] = SessionUpdate(f[n], u, n + 1, rank)
  BY <1>1, <1>4, <1>5, <1>7
<1>9. QED
  BY <1>1, <1>5, <1>6, <1>8 DEF LoadedBy

\* What the user says is not in the shape, and leaves what is at rest.
LEMMA UserRead ==
    ASSUME NEW b \in Bridges, b.sink = "replay", AtRest(b), NEW n \in Nat
    PROVE  LET r == UserChunk(b, n)
           IN  r \in Bridges /\ AtRest(r) /\ Reading(r) = Reading(b)
<1> DEFINE r == UserChunk(b, n)
<1>1. CloseReasoning(b) = b
  BY DEF CloseReasoning, AtRest
<1>2. r = [b EXCEPT !.acc = AddUserText(b.acc, n)]
  BY <1>1 DEF UserChunk
<1>3. r \in Bridges
  BY UserUntouched
<1>4. /\ r.sink = b.sink /\ r.message = b.message /\ r.reasoning = b.reasoning
      /\ r.pending = b.pending /\ r.open = b.open /\ r.acc = AddUserText(b.acc, n)
  BY <1>2 DEF Bridges
<1> HIDE DEF r
<1>5. Shape(r.acc.messages) = Shape(b.acc.messages)
  BY <1>4, UserShape DEF Bridges
<1>6. AtRest(r) /\ Reading(r) = Reading(b)
  BY <1>4, <1>5 DEF AtRest, Reading, Read
<1>7. QED
  BY <1>3, <1>6 DEF r

\* What a step that records an update adds to the history and to a replay.
LEMMA LoadedBefore ==
    ASSUME HistoryInv, ProtocolInv, NEW u \in AgentUpdates \cup {Plain("user")}, NEW t \in Nat,
           history' = Recorded(u, t), NEW rank \in Ranks, NEW g, LoadedBy(history', rank, g)
    PROVE  \E f, e :
              LET n == Len(history)
              IN  /\ LoadedBy(history, rank, f) /\ Replays(f[n], history)
                  /\ e \in Records /\ history' = Append(history, e)
                  /\ e.kind = u.kind /\ e.call = u.call /\ e.input = u.input
                  /\ e.attached = (bridge.sink = "run")
                  /\ g[Len(history')] = SessionUpdate(f[n], e, n + 1, rank)
                  /\ n \in Nat
<1>1. history \in Histories /\ history \in Seq(Records) /\ KeepsProtocol(history)
  BY DEF HistoryInv, TypeInv, ProtocolInv
<1>2. PICK e \in Records :
        /\ history' = Append(history, e)
        /\ e.kind = u.kind /\ e.call = u.call /\ e.input = u.input
        /\ e.attached = (bridge.sink = "run")
  BY StepRecords DEF HistoryInv
<1>3. PICK f : /\ LoadedBy(history, rank, f)
               /\ g[Len(history')] = SessionUpdate(f[Len(history)], e, Len(history) + 1, rank)
  BY <1>1, <1>2, LoadedShrinks
<1>4. Replays(f[Len(history)], history)
  BY <1>1, <1>3, ReplaysLoaded
<1>5. QED
  BY <1>1, <1>2, <1>3, <1>4

-----------------------------------------------------------------------------
(* The calls of a session none of whose updates was dropped.               *)

\* No update of a call was dropped.
AllFollowed(h) == \A i \in DOMAIN h : h[i].kind # "user" => h[i].attached

\* The user's records are about no call.
LEMMA FollowedCalls ==
    ASSUME NEW h, KeepsProtocol(h), AllFollowed(h), NEW c \in Calls
    PROVE  FollowedIn(h, c)
BY ConstantsAssumption DEF FollowedIn, AllFollowed, KeepsProtocol, Follows

\* A call that goes on is active for the live bridge,
LEMMA LiveActive ==
    ASSUME CallsIInv, ProtocolInv, AllFollowed(history), phase = "working",
           NEW c \in Calls, Running(c)
    PROVE  Active(bridge, c)
<1>1. FollowedIn(history, c)
  BY FollowedCalls DEF ProtocolInv
<1>2. PICK k : StartsAt(history, c, k) /\ history[k].turn = turn
  BY RunningFacts
<1>3. CallOK(bridge, history, c, turn, FALSE)
  BY DEF CallsIInv, CallsInv
<1>4. ~CompletedIn(history, c)
  BY <1>1, <1>3, NotCompleted
<1>5. bridge.sink \in {"run", "none"}
  BY DEF CallsIInv, HoldsInv, FramesInv, TypeInv, SinkFits
<1>6. PICK x \in Inputs, s \in Nat :
         /\ s <= turn /\ TurnIs(history, c, s)
         /\ Stands(bridge, history, c, x, s, turn, FALSE)
  BY <1>1, <1>2, <1>3 DEF CallOK, Stage, StartedIn
<1>7. s = turn
  BY <1>2, <1>6 DEF TurnIs, StartsAt
<1>8. Waits(bridge, c, x) \/ Runs(bridge, c, x)
  BY <1>4, <1>5, <1>6, <1>7 DEF Stands
<1>9. QED
  BY <1>8 DEF Waits, Runs, Begun, Active

\* ... and none that waits has been shown;
LEMMA LiveReady ==
    ASSUME CallsIInv, ProtocolInv, AllFollowed(history)
    PROVE  Ready(bridge)
<1>1. Holds(bridge, Started)
  BY DEF CallsIInv, HoldsInv
<1>2. SUFFICES ASSUME NEW c \in Calls, IsPending(bridge, c)
               PROVE  c \notin bridge.argsSent
  BY <1>1 DEF Ready, Holds
<1>3. StartedIn(history, c)
  BY <1>1, <1>2 DEF Holds, Started, IsStarted, StartedIn, StartsAt
<1>4. FollowedIn(history, c)
  BY FollowedCalls DEF ProtocolInv
<1>5. CallOK(bridge, history, c, turn, phase = "idle")
  BY DEF CallsIInv, CallsInv
<1>6. PICK x \in Inputs, s \in Nat : Stands(bridge, history, c, x, s, turn, phase = "idle")
  BY <1>3, <1>4, <1>5 DEF CallOK, Stage
<1>7. QED
  BY <1>2, <1>6 DEF Stands, Waits, Runs, Begun, Done, Lost

\* ... the same of a replay.
LEMMA LoadedCalls ==
    ASSUME NEW b, NEW h, Replays(b, h)
    PROVE  /\ Ready(b)
           /\ \A c \in Calls : MayGoOn(h, c) => Active(b, c)
<1>1. Holds(b, StartedCalls(h)) /\ \A c \in Calls : ReplayStage(b, h, c)
  BY DEF Replays
<1>2. ASSUME NEW c \in Calls, IsPending(b, c)
      PROVE  c \notin b.argsSent
  <2>1. StartedIn(h, c)
    BY <1>1, <1>2 DEF Holds, StartedCalls
  <2>2. ReplayStage(b, h, c)
    BY <1>1
  <2>3. QED
    BY <1>2, <2>1, <2>2 DEF ReplayStage, Waits, Runs, Begun, Done
<1>3. ASSUME NEW c \in Calls, MayGoOn(h, c)
      PROVE  Active(b, c)
  <2>1. StartedIn(h, c)
    BY <1>3, GoesOnStarted
  <2>2. ReplayStage(b, h, c)
    BY <1>1
  <2>3. QED
    BY <1>3, <2>1, <2>2 DEF ReplayStage, Waits, Runs, Begun, Active
<1>4. QED
  BY <1>1, <1>2, <1>3 DEF Ready, Holds

-----------------------------------------------------------------------------
(* The live bridge and one of a replay of its history.                     *)

\* What is open live is open in the replay, and that was said last.
SpeaksOn(b, r, h) ==
    \A kind \in ChunkKinds :
        /\ MessageOf(b, kind) # Nil => MessageOf(r, kind) # Nil
        /\ MessageOf(r, kind) # Nil => Traced(b, h, kind)

\* While a turn goes on the same is read of both and the same calls wait or
\* are open; between turns the replay is at rest.
Matches(b, r, h) ==
    IF Cut(h) THEN b \in Poised /\ r \in Poised /\ Level(b, r) /\ SpeaksOn(b, r, h)
    ELSE Reading(b) = Reading(r) /\ AtRest(r)

\* Where no message is open there is none to speak on.
LEMMA SpeaksOfNothing ==
    ASSUME NEW b, NEW r, b.message = Nil, b.reasoning = Nil, NEW h,
           (r.message = Nil /\ r.reasoning = Nil)
              \/ \A kind \in ChunkKinds : MessageOf(r, kind) # Nil => Traced(b, h, kind)
    PROVE  SpeaksOn(b, r, h)
BY DEF SpeaksOn, MessageOf

\* A chunk that both are given.
LEMMA MatchChunk ==
    ASSUME NEW b \in Bridges, b.sink = "run", NEW r \in Bridges, NEW h \in Seq(Records),
           Cut(h), Matches(b, r, h), InOrder(b.wire, h), NEW kind \in ChunkKinds,
           NEW u \in Records, u.kind = kind, NEW y \in After(b),
           Voices(b, y, kind, Len(h) + 1), NEW z, Voices(r, z, kind, Len(h) + 1),
           UnsplitIn(y.wire, Append(h, u))
    PROVE  Matches(y, z, Append(h, u))
<1> DEFINE v == Append(h, u)
           n == Len(h) + 1
<1>1. /\ Level(b, r) /\ SpeaksOn(b, r, h)
      /\ Reading(b) \in Seq(Messages)
  BY ReadType DEF Matches
<1>2. /\ y \in Poised /\ z \in Poised /\ SameCalls(b, y) /\ SameCalls(r, z)
      /\ y \in Bridges /\ z \in Bridges
  BY DEF Voices, Poised
<1>3. MessageOf(b, kind) = Nil <=> MessageOf(r, kind) = Nil
  <2>1. MessageOf(b, kind) = Nil => ~Traced(b, h, kind)
    BY Torn
  <2>2. QED
    BY <1>1, <2>1 DEF SpeaksOn
<1>4. Reading(y) = Reading(z)
  <2>1. CASE MessageOf(b, kind) = Nil
    BY <1>1, <1>3, <2>1 DEF Voices, Level
  <2>2. CASE MessageOf(b, kind) # Nil
    <3>1. Utters(Reading(b), Reading(y), n) /\ Utters(Reading(b), Reading(z), n)
      BY <1>1, <1>3, <2>2 DEF Voices, Level
    <3>2. QED
      BY <1>1, <3>1, UttersOnce
  <2>3. QED
    BY <2>1, <2>2
<1>5. Level(y, z)
  BY <1>1, <1>2, <1>4 DEF Level, SameCalls
<1>6. MessageOf(y, kind) \in Nat /\ MessageOf(z, kind) \in Nat
  BY <1>2 DEF Voices, Bridges, MessageOf
<1>7. Len(v) = n /\ v[n] = u /\ n \in Nat /\ Cut(v)
  BY AppendFacts, CutLast DEF ChunkKinds
<1>8. Traced(y, v, kind)
  <2> DEFINE l == Len(y.wire)
  <2>1. l \in DOMAIN y.wire /\ y.wire[l] = ChunkEvent(kind, MessageOf(y, kind), n)
    BY DEF Voices
  <2>2. /\ y.wire[l].kind = kind /\ y.wire[l].id = MessageOf(y, kind)
        /\ y.wire[l].chunk = n
    BY <2>1 DEF ChunkEvent
  <2>3. MessageOf(y, kind) < y.fresh
    BY <1>2, <1>6, ConstantsAssumption DEF Poised, MessageOf
  <2> HIDE DEF v, n, l
  <2>4. \A k \in n .. n : k = n
    BY <1>7
  <2>5. \A k \in y.wire[l].chunk .. Len(v) : v[k].kind \in {kind, "progress", "completed"}
    BY <1>7, <2>2, <2>4
  <2>6. QED
    BY <1>6, <2>1, <2>2, <2>3, <2>5 DEF Traced
<1>9. SpeaksOn(y, z, v)
  <2>1. SUFFICES ASSUME NEW other \in ChunkKinds, other # kind
                 PROVE  MessageOf(y, other) = Nil /\ MessageOf(z, other) = Nil
    <3> HIDE DEF v
    <3>1. MessageOf(z, kind) # Nil
      BY <1>6, ConstantsAssumption
    <3>2. QED
      BY <1>8, <2>1, <3>1 DEF SpeaksOn
  <2>2. Nil \notin Nat
    BY ConstantsAssumption
  <2>3. QED
    BY <1>2, <1>6, <2>1, <2>2 DEF Poised, MessageOf, ChunkKinds
<1>10. QED
  BY <1>2, <1>5, <1>7, <1>9 DEF Matches

\* A call that starts in both.
LEMMA MatchStart ==
    ASSUME NEW b \in Bridges, NEW r \in Bridges, NEW h \in Seq(Records),
           Cut(h), Matches(b, r, h), NEW c \in Calls, NEW input \in {"initial", Nil},
           NEW u \in Records, u.kind = "toolCall"
    PROVE  Matches(ToolCall(b, c, input), ToolCall(r, c, input), Append(h, u))
<1> DEFINE y == ToolCall(b, c, input)
           z == ToolCall(r, c, input)
           v == Append(h, u)
<1>1. Level(b, r)
  BY DEF Matches
<1>2. /\ Level(y, z) /\ y.message = Nil /\ y.reasoning = Nil
      /\ z.message = Nil /\ z.reasoning = Nil
  BY <1>1, LevelToolCall
<1>3. y \in Bridges /\ z \in Bridges
  BY HandlersKeepRun, 0 \in Nat
<1>4. Cut(v)
  BY CutLast
<1> HIDE DEF y, z, v
<1>5. y \in Poised /\ z \in Poised
  BY <1>2, <1>3, PoisedQuiet
<1>6. SpeaksOn(y, z, v)
  BY <1>2, SpeaksOfNothing
<1>7. Matches(y, z, v)
  BY <1>2, <1>4, <1>5, <1>6 DEF Matches
<1>8. QED
  BY <1>7 DEF y, z, v

\* An update that both handle and that leaves the frames as they were.
LEMMA MatchBeside ==
    ASSUME NEW b \in Bridges, NEW r \in Bridges, NEW h \in Seq(Records),
           Cut(h), Matches(b, r, h), InOrder(b.wire, h),
           NEW u \in Records, u.kind \in {"progress", "completed"},
           NEW y \in After(b), NEW z, Level(y, z),
           y \in Poised, z \in Poised, SameFrames(b, y), SameFrames(r, z)
    PROVE  Matches(y, z, Append(h, u))
<1>1. SpeaksOn(b, r, h)
  BY DEF Matches
<1>2. Cut(Append(h, u))
  BY CutLast
<1>3. \A kind \in ChunkKinds : Traced(b, h, kind) => Traced(y, Append(h, u), kind)
  BY TracedStays
<1>4. \A kind \in ChunkKinds :
         MessageOf(y, kind) = MessageOf(b, kind) /\ MessageOf(z, kind) = MessageOf(r, kind)
  BY DEF SameFrames, MessageOf
<1>5. SpeaksOn(y, z, Append(h, u))
  BY <1>1, <1>3, <1>4 DEF SpeaksOn
<1>6. QED
  BY <1>2, <1>5 DEF Matches

\* The updates of a call that goes on in both.
LEMMA MatchUpdates ==
    ASSUME NEW b \in Bridges, b.sink = "run", NEW r \in Bridges, r.sink = "replay",
           NEW h \in Seq(Records), Cut(h), Matches(b, r, h), InOrder(b.wire, h),
           NEW c \in Calls, Active(b, c), Active(r, c), NEW input \in Inputs, NEW u \in Records
    PROVE  /\ u.kind = "progress" /\ input # Nil =>
                 Matches(Progress(b, c, input), Progress(r, c, input), Append(h, u))
           /\ u.kind = "completed" =>
                 Matches(Completed(b, c, input), Completed(r, c, input), Append(h, u))
<1>1. Level(b, r) /\ b \in Poised /\ r \in Poised
  BY DEF Matches
<1>2. /\ input # Nil => Level(Progress(b, c, input), Progress(r, c, input))
      /\ Level(Completed(b, c, input), Completed(r, c, input))
  BY <1>1, LevelUpdates DEF Listens
<1>3. ASSUME NEW m \in Poised
      PROVE  /\ Progress(m, c, input) \in Poised /\ Completed(m, c, input) \in Poised
             /\ SameFrames(m, Progress(m, c, input)) /\ SameFrames(m, Completed(m, c, input))
  <2>1. m \in Bridges
    BY <1>3 DEF Poised
  <2>2. m \in Beside(m) /\ CallsStayIn(Beside(m))
    BY <2>1, BesideCalls
  <2>3. Progress(m, c, input) \in Beside(m) /\ Completed(m, c, input) \in Beside(m)
    BY <2>2, CallHandlersStay
  <2>4. Progress(m, c, input) \in Poised /\ Completed(m, c, input) \in Poised
    BY <1>3, PoisedCalls, CallHandlersStay
  <2>5. QED
    BY <2>3, <2>4 DEF Beside
<1>4. Progress(b, c, input) \in After(b) /\ Completed(b, c, input) \in After(b)
  BY AfterHandlers, 0 \in Nat
<1>5. QED
  BY <1>1, <1>2, <1>3, <1>4, MatchBeside

\* A run that is suspended, or goes on: nothing is recorded.
LEMMA MatchRuns ==
    ASSUME NEW b \in Bridges, b.sink # "replay", NEW r, NEW h \in Seq(Records), Cut(h),
           Matches(b, r, h), InOrder(b.wire, h), NEW y \in After(b),
           Suspends(b, y) \/ Attaches(b, y)
    PROVE  Matches(y, r, h)
<1>1. Level(b, r) /\ r \in Poised /\ SpeaksOn(b, r, h)
  BY DEF Matches
<1>2. y \in Bridges /\ y.message = Nil /\ y.reasoning = Nil /\ SameCalls(b, y)
  <2>1. ASSUME Suspends(b, y)
        PROVE  y \in Bridges /\ y.message = Nil /\ y.reasoning = Nil /\ SameCalls(b, y)
    <3>1. PICK m \in Bridges :
            Silences(b, m) /\ Leaves(m, y, RunEvent("interrupt", b.turn), "none")
      BY <2>1 DEF Suspends
    <3>2. SameCalls(b, m) /\ m.message = Nil /\ m.reasoning = Nil
      BY <3>1 DEF Silences, ClosesReasoning, ClosesMessage, SameCalls
    <3>3. QED
      BY <3>1, <3>2 DEF Leaves, SameFrames, SameCalls
  <2>2. QED
    BY <2>1 DEF Attaches
<1>3. Reading(y) = Reading(b)
  BY SameReadRuns DEF SameRead
<1>4. Level(y, r)
  BY <1>1, <1>2, <1>3 DEF Level, SameCalls
<1>5. \A kind \in ChunkKinds : MessageOf(r, kind) # Nil => Traced(y, h, kind)
  BY <1>1, TracedStays DEF SpeaksOn
<1>6. SpeaksOn(y, r, h)
  BY <1>2, <1>5, SpeaksOfNothing
<1>7. QED
  BY <1>1, <1>2, <1>4, <1>6, PoisedQuiet DEF Matches

\* A prompt, where the replay is at rest.
LEMMA MatchPrompt ==
    ASSUME NEW b \in Bridges, b.sink # "replay", NEW r \in Bridges, r.sink = "replay",
           NEW h \in Seq(Records), ~Cut(h), Matches(b, r, h),
           NEW t \in Nat, NEW y, Starts(b, y, t), NEW n \in Nat,
           NEW u \in Records, u.kind = "user"
    PROVE  Matches(y, UserChunk(r, n), Append(h, u))
<1> DEFINE z == UserChunk(r, n)
           v == Append(h, u)
<1>1. Reading(b) = Reading(r) /\ AtRest(r)
  BY DEF Matches
<1>2. z \in Bridges /\ AtRest(z) /\ Reading(z) = Reading(r)
  BY <1>1, UserRead
<1>3. Reading(y) = Reading(b)
  BY SameReadRuns DEF SameRead
<1>4. y \in Bridges /\ AtRest(y)
  BY DEF Starts, AtRest
<1>5. Cut(v)
  BY CutLast
<1> HIDE DEF z, v
<1>6. Level(y, z)
  BY <1>1, <1>2, <1>3, <1>4 DEF Level, AtRest
<1>7. y \in Poised /\ z \in Poised
  BY <1>2, <1>4, PoisedQuiet DEF AtRest
<1>8. SpeaksOn(y, z, v)
  BY <1>2, <1>4, SpeaksOfNothing DEF AtRest
<1>9. Matches(y, z, v)
  BY <1>5, <1>6, <1>7, <1>8 DEF Matches
<1>10. QED
  BY <1>9 DEF z, v

\* The end of a turn.
LEMMA MatchTurnEnd ==
    ASSUME NEW b \in Bridges, b.sink = "run", NEW r \in Bridges, r.sink = "replay",
           NEW h \in Seq(Records), Cut(h), Matches(b, r, h), Ready(b), Ready(r),
           NEW rank1 \in Ranks, NEW rank2 \in Ranks,
           NEW y, Ends(b, y, rank1, "runFinished"),
           NEW u \in Records, u.kind = "turnEnd"
    PROVE  Matches(y, FinishRun(r, rank2), Append(h, u))
<1> DEFINE z == FinishRun(r, rank2)
<1>1. Level(b, r)
  BY DEF Matches
<1>2. Ends(r, z, rank2, "runFinished")
  BY EndRunFacts, RankFacts
<1> HIDE DEF z
<1>3. Reading(y) = Reading(z)
  <2>1. Listens(b) /\ Listens(r)
    BY DEF Listens
  <2>2. \A kind \in {"runFinished", "runError"}, p, q \in Ranks : \A a, m :
           Ends(b, a, p, kind) /\ Ends(r, m, q, kind) => Reading(a) = Reading(m)
    BY <1>1, <2>1, LevelEnds
  <2>3. QED
    BY <1>2, <2>2
<1>4. AtRest(z)
  BY <1>2, EndedRead
<1>5. ~Cut(Append(h, u))
  BY CutLast
<1>6. Matches(y, z, Append(h, u))
  BY <1>3, <1>4, <1>5 DEF Matches
<1>7. QED
  BY <1>6 DEF z

-----------------------------------------------------------------------------
(* They match in every state of a session that is faithful.                *)

\* Between turns this is said of the histories whose last turn is marked.
MatchInv ==
    Faithful(bridge.wire, history) /\ (phase = "idle" => ~Cut(history))
    => \A rank \in Ranks : \A g :
          LoadedBy(history, rank, g) => Matches(bridge, g[Len(history)], history)

\* What holds of every state, besides.
SessionInv == CallsIInv /\ OrderInv /\ HistoryInv /\ ProtocolInv /\ PhaseInv

\* A prompt that is marked follows the end of a turn, if anything.
LEMMA MarkedPrompt ==
    ASSUME NEW h \in Seq(Records), NEW u \in Records, u.kind = "user", Marked(Append(h, u))
    PROVE  ~Cut(h)
<1> DEFINE v == Append(h, u)
           n == Len(h)
<1>1. n \in Nat /\ DOMAIN v = 1..(n + 1) /\ v[n + 1] = u /\ \A i \in 1..n : v[i] = h[i]
  BY AppendFacts
<1>2. h # <<>> => n \in 1..n /\ n + 1 # 1
  OBVIOUS
<1>3. Marked(v)
  OBVIOUS
<1> HIDE DEF v, n
<1>4. ASSUME h # <<>>
      PROVE  h[n].kind = "turnEnd"
  <2>1. n \in 1..n /\ n + 1 \in DOMAIN v \ {1} /\ (n + 1) - 1 = n
    BY <1>1, <1>2, <1>4
  <2>2. v[n].kind = "turnEnd"
    BY <1>1, <1>3, <2>1 DEF Marked
  <2>3. QED
    BY <1>1, <2>1, <2>2
<1>5. QED
  BY <1>4 DEF Cut, n

\* Given the record of u, a replay that matches matches again.
MatchesAgain(u, rank) ==
    LET n == Len(history)
    IN  \A r, e :
           (/\ r \in Bridges /\ r.sink = "replay" /\ Replays(r, history)
            /\ Matches(bridge, r, history)
            /\ e \in Records /\ history' = Append(history, e)
            /\ e.kind = u.kind /\ e.call = u.call /\ e.input = u.input)
           => Matches(bridge', SessionUpdate(r, e, n + 1, rank), history')

\* If so, they match after the step that records it.
LEMMA MatchRecord ==
    ASSUME SessionInv, NEW u \in AgentUpdates \cup {Plain("user")}, NEW t \in Nat,
           history' = Recorded(u, t), NEW rank \in Ranks, NEW g, LoadedBy(history', rank, g),
           \A f : LoadedBy(history, rank, f) => Matches(bridge, f[Len(history)], history),
           MatchesAgain(u, rank)
    PROVE  Matches(bridge', g[Len(history')], history')
<1>1. PICK f, e :
         LET n == Len(history)
         IN  /\ LoadedBy(history, rank, f) /\ Replays(f[n], history)
             /\ e \in Records /\ history' = Append(history, e)
             /\ e.kind = u.kind /\ e.call = u.call /\ e.input = u.input
             /\ e.attached = (bridge.sink = "run")
             /\ g[Len(history')] = SessionUpdate(f[n], e, n + 1, rank)
             /\ n \in Nat
  BY LoadedBefore DEF SessionInv
<1> DEFINE r == f[Len(history)]
<1>2. Matches(bridge, r, history) /\ r \in Bridges /\ r.sink = "replay" /\ Replays(r, history)
  BY <1>1 DEF Replays
<1> HIDE DEF r
<1>3. Matches(bridge', SessionUpdate(r, e, Len(history) + 1, rank), history')
  BY <1>1, <1>2 DEF MatchesAgain
<1>4. QED
  BY <1>1, <1>3 DEF r

\* Every step keeps them matched.
LEMMA MatchStep ==
    ASSUME SessionInv, MatchInv, Stepped
    PROVE  MatchInv'
<1> DEFINE n == Len(history)
<1>1. SUFFICES ASSUME Faithful(bridge.wire, history)', phase' = "idle" => ~Cut(history'),
                      NEW rank \in Ranks, NEW g, LoadedBy(history', rank, g)
               PROVE  Matches(bridge', g[Len(history')], history')
  BY DEF MatchInv
<1>2. /\ bridge \in Bridges /\ bridge.sink # "replay" /\ TypeInv
      /\ history \in Seq(Records) /\ n \in Nat /\ n + 1 \in Nat
      /\ turn \in Nat /\ turn + 1 \in Nat /\ InOrder(bridge.wire, history)
  <2>1. TypeInv /\ bridge \in Ordered(history)
    BY DEF SessionInv, OrderInv
  <2>2. bridge.sink # "replay"
    BY <2>1 DEF TypeInv, SinkFits
  <2>3. turn \in Nat /\ history \in Seq(Records) /\ bridge \in Bridges
    BY <2>1, ConstantsAssumption DEF TypeInv
  <2>4. QED
    BY <2>1, <2>2, <2>3 DEF Ordered
<1>3. bridge' \in After(bridge) /\ history' \in Seq(Records) /\ BeginsAs(history', history)
  BY <1>2, AfterAction, HistoryGrows
<1>4. Faithful(bridge'.wire, history')
  BY <1>1
<1>5. Faithful(bridge.wire, history)
  BY <1>2, <1>3, <1>4, FaithfulBefore
<1>6. AllFollowed(history) /\ UnsplitIn(bridge'.wire, history') /\ Marked(history')
      /\ AllFollowed(history')
  BY <1>4, <1>5 DEF Faithful, AllFollowed
<1>7. ASSUME phase = "idle" => ~Cut(history)
      PROVE  \A f : LoadedBy(history, rank, f) => Matches(bridge, f[n], history)
  BY <1>5, <1>7 DEF MatchInv
<1>8. /\ phase \in {"working", "waiting"} => Cut(history)
      /\ phase = "closing" => ~Cut(history)
  BY DEF SessionInv, PhaseInv
<1> HIDE DEF n
<1>9. CASE Idles
  <2>1. bridge' = bridge /\ history' = history /\ (phase = "idle" => phase' = "idle")
    BY <1>9 DEF Idles
  <2>2. QED
    BY <1>1, <1>7, <2>1 DEF n
<1>10. CASE Prompted
  <2>1. /\ Starts(bridge, bridge', turn + 1) /\ history' = Recorded(Plain("user"), turn + 1)
        /\ bridge.sink # "run"
    BY <1>10 DEF Prompted
  <2>2. ~Cut(history)
    <3>1. PICK e \in Records : history' = Append(history, e) /\ e.kind = "user"
      BY <1>2, <2>1, StepRecords DEF Plain
    <3>2. QED
      BY <1>2, <1>6, <3>1, MarkedPrompt
  <2>3. MatchesAgain(Plain("user"), rank)
    <3>1. SUFFICES ASSUME NEW r \in Bridges, r.sink = "replay", Matches(bridge, r, history),
                          NEW e \in Records, history' = Append(history, e), e.kind = "user"
                   PROVE  Matches(bridge', SessionUpdate(r, e, n + 1, rank), history')
      BY DEF MatchesAgain, Plain, n
    <3>2. SessionUpdate(r, e, n + 1, rank) = UserChunk(r, n + 1)
      BY <3>1 DEF SessionUpdate
    <3>3. QED
      BY <1>2, <2>1, <2>2, <3>1, <3>2, MatchPrompt
  <2>4. QED
    BY <1>1, <1>2, <1>7, <2>1, <2>2, <2>3, MatchRecord DEF n
<1>11. CASE Missed
  <2>1. PICK u \in AgentUpdates : history' = Recorded(u, turn)
    BY <1>11 DEF Missed
  <2>2. PICK e \in Records :
          history' = Append(history, e) /\ e.kind = u.kind /\ e.attached = (bridge.sink = "run")
    BY <1>2, <2>1, StepRecords
  <2>3. bridge.sink = "none" /\ u.kind # "user"
    BY <1>11 DEF Missed, AgentUpdates, NextUpdates, Plain
  <2>4. n + 1 \in DOMAIN history' /\ history'[n + 1] = e
    BY <1>2, <2>2, HistoryFacts DEF n
  <2>5. QED
    BY <1>6, <2>2, <2>3, <2>4 DEF AllFollowed
<1>12. CASE Spoke
  <2>1. ASSUME NEW kind \in ChunkKinds, Handled(Plain(kind), bridge'),
               Voices(bridge, bridge', kind, n + 1),
               \A r \in Poised : r.sink = "replay" =>
                  \A e \in Records : e.kind = kind =>
                     Voices(r, SessionUpdate(r, e, n + 1, rank), kind, n + 1)
        PROVE  Matches(bridge', g[Len(history')], history')
    <3>1. /\ history' = Recorded(Plain(kind), turn) /\ bridge.sink = "run" /\ Cut(history)
          /\ Plain(kind) \in AgentUpdates /\ phase = "working"
      BY <1>8, <2>1, HandledUpdates DEF Handled, ChunkKinds
    <3>2. MatchesAgain(Plain(kind), rank)
      <4>1. SUFFICES ASSUME NEW r \in Bridges, r.sink = "replay", Matches(bridge, r, history),
                            NEW e \in Records, history' = Append(history, e), e.kind = kind
                     PROVE  Matches(bridge', SessionUpdate(r, e, n + 1, rank), history')
        BY DEF MatchesAgain, Plain, n
      <4>2. r \in Poised
        BY <3>1, <4>1 DEF Matches
      <4> DEFINE z == SessionUpdate(r, e, n + 1, rank)
      <4>3. Voices(r, z, kind, n + 1)
        BY <2>1, <4>1, <4>2
      <4> HIDE DEF z
      <4>4. Matches(bridge', z, Append(history, e))
        BY <1>2, <1>3, <1>6, <2>1, <3>1, <4>1, <4>3, MatchChunk DEF n
      <4>5. QED
        BY <4>1, <4>4 DEF z
    <3>3. QED
      BY <1>1, <1>2, <1>7, <3>1, <3>2, MatchRecord DEF n
  <2>2. phase = "working" /\ bridge.sink = "run" /\ Cut(history)
    BY <1>8, <1>12 DEF Spoke, Handled
  <2>3. bridge \in Poised
    <3>1. \E f : LoadedBy(history, rank, f)
      BY ReplayFacts, RankFacts DEF SessionInv, HistoryInv
    <3>2. QED
      BY <1>7, <2>2, <3>1 DEF Matches
  <2>4. CASE Handled(Plain("text"), TextDelta(bridge, Len(history) + 1))
    <3>1. bridge' = TextDelta(bridge, n + 1) /\ Handled(Plain("text"), bridge')
      BY <2>4 DEF Handled, n
    <3>2. Voices(bridge, bridge', "text", n + 1)
      BY <1>2, <2>2, <2>3, <3>1, TextVoices DEF Listens
    <3>3. ASSUME NEW r \in Poised, r.sink = "replay", NEW e \in Records, e.kind = "text"
          PROVE  Voices(r, SessionUpdate(r, e, n + 1, rank), "text", n + 1)
      <4>1. SessionUpdate(r, e, n + 1, rank) = TextDelta(r, n + 1)
        BY <3>3 DEF SessionUpdate
      <4>2. QED
        BY <1>2, <3>3, <4>1, TextVoices DEF Listens
    <3>4. QED
      BY <2>1, <3>1, <3>2, <3>3 DEF ChunkKinds
  <2>5. CASE Handled(Plain("thought"), ThoughtDelta(bridge, Len(history) + 1))
    <3>1. bridge' = ThoughtDelta(bridge, n + 1) /\ Handled(Plain("thought"), bridge')
      BY <2>5 DEF Handled, n
    <3>2. Voices(bridge, bridge', "thought", n + 1)
      BY <1>2, <2>2, <2>3, <3>1, ThoughtVoices DEF Listens
    <3>3. ASSUME NEW r \in Poised, r.sink = "replay", NEW e \in Records, e.kind = "thought"
          PROVE  Voices(r, SessionUpdate(r, e, n + 1, rank), "thought", n + 1)
      <4>1. SessionUpdate(r, e, n + 1, rank) = ThoughtDelta(r, n + 1)
        BY <3>3 DEF SessionUpdate
      <4>2. QED
        BY <1>2, <3>3, <4>1, ThoughtVoices DEF Listens
    <3>4. QED
      BY <2>1, <3>1, <3>2, <3>3 DEF ChunkKinds
  <2>6. QED
    BY <1>12, <2>4, <2>5 DEF Spoke
<1>13. ASSUME NEW c \in Calls, NEW i \in {"initial", Nil}, Called(c, i)
       PROVE  Matches(bridge', g[Len(history')], history')
  <2>1. /\ history' = Recorded(StartOfCall(c, i), turn) /\ bridge' = ToolCall(bridge, c, i)
        /\ StartOfCall(c, i) \in AgentUpdates /\ Cut(history) /\ phase = "working"
    BY <1>8, <1>13, HandledUpdates DEF Called, Handled
  <2>2. MatchesAgain(StartOfCall(c, i), rank)
    <3>1. SUFFICES ASSUME NEW r \in Bridges, r.sink = "replay", Matches(bridge, r, history),
                          NEW e \in Records, history' = Append(history, e),
                          e.kind = "toolCall", e.call = c, e.input = i
                   PROVE  Matches(bridge', SessionUpdate(r, e, n + 1, rank), history')
      BY DEF MatchesAgain, StartOfCall, n
    <3>2. SessionUpdate(r, e, n + 1, rank) = ToolCall(r, c, i)
      BY <3>1 DEF SessionUpdate
    <3>3. QED
      BY <1>2, <1>13, <2>1, <3>1, <3>2, MatchStart
  <2>3. QED
    BY <1>1, <1>2, <1>7, <2>1, <2>2, MatchRecord DEF n
<1>14. ASSUME NEW c \in Calls, Running(c), phase = "working", NEW u \in AgentUpdates, u.call = c,
              u.kind \in {"progress", "completed"}
       PROVE  Active(bridge, c) /\ \A r : Replays(r, history) => Active(r, c)
  <2>1. Active(bridge, c)
    BY <1>6, <1>14, LiveActive DEF SessionInv
  <2>2. MayGoOn(history, c)
    BY <1>2, <1>14, NextFollows DEF SessionInv, Follows
  <2>3. QED
    BY <2>1, <2>2, LoadedCalls
<1>15. ASSUME NEW c \in Calls, Progressed(c)
       PROVE  Matches(bridge', g[Len(history')], history')
  <2>1. /\ history' = Recorded(ProgressOfCall(c), turn) /\ bridge' = Progress(bridge, c, "later")
        /\ ProgressOfCall(c) \in AgentUpdates /\ Cut(history) /\ phase = "working"
        /\ Running(c) /\ bridge.sink = "run"
    BY <1>8, <1>15, HandledUpdates DEF Progressed, Handled
  <2>2. Active(bridge, c) /\ \A r : Replays(r, history) => Active(r, c)
    BY <1>14, <1>15, <2>1 DEF ProgressOfCall
  <2>3. "later" \in Inputs /\ "later" # Nil
    BY ConstantsAssumption DEF Inputs
  <2>4. MatchesAgain(ProgressOfCall(c), rank)
    <3>1. SUFFICES ASSUME NEW r \in Bridges, r.sink = "replay", Replays(r, history),
                          Matches(bridge, r, history),
                          NEW e \in Records, history' = Append(history, e),
                          e.kind = "progress", e.call = c, e.input = "later"
                   PROVE  Matches(bridge', SessionUpdate(r, e, n + 1, rank), history')
      BY DEF MatchesAgain, ProgressOfCall, n
    <3>2. SessionUpdate(r, e, n + 1, rank) = Progress(r, c, "later")
      BY <3>1 DEF SessionUpdate
    <3>3. QED
      BY <1>2, <1>15, <2>1, <2>2, <2>3, <3>1, <3>2, MatchUpdates
  <2>5. QED
    BY <1>1, <1>2, <1>7, <2>1, <2>4, MatchRecord DEF n
<1>16. ASSUME NEW c \in Calls, NEW i \in {"later", Nil}, Finished(c, i)
       PROVE  Matches(bridge', g[Len(history')], history')
  <2>1. /\ history' = Recorded(EndOfCall(c, i), turn) /\ bridge' = Completed(bridge, c, i)
        /\ EndOfCall(c, i) \in AgentUpdates /\ Cut(history) /\ phase = "working"
        /\ Running(c) /\ bridge.sink = "run"
    BY <1>8, <1>16, HandledUpdates DEF Finished, Handled
  <2>2. Active(bridge, c) /\ \A r : Replays(r, history) => Active(r, c)
    BY <1>14, <1>16, <2>1 DEF EndOfCall
  <2>3. i \in Inputs
    BY <1>16 DEF Inputs
  <2>4. MatchesAgain(EndOfCall(c, i), rank)
    <3>1. SUFFICES ASSUME NEW r \in Bridges, r.sink = "replay", Replays(r, history),
                          Matches(bridge, r, history),
                          NEW e \in Records, history' = Append(history, e),
                          e.kind = "completed", e.call = c, e.input = i
                   PROVE  Matches(bridge', SessionUpdate(r, e, n + 1, rank), history')
      BY DEF MatchesAgain, EndOfCall, n
    <3>2. SessionUpdate(r, e, n + 1, rank) = Completed(r, c, i)
      BY <3>1 DEF SessionUpdate
    <3>3. QED
      BY <1>2, <1>16, <2>1, <2>2, <2>3, <3>1, <3>2, MatchUpdates
  <2>5. QED
    BY <1>1, <1>2, <1>7, <2>1, <2>4, MatchRecord DEF n
<1>17. ASSUME NEW p \in Ranks, TurnEnded(p)
       PROVE  Matches(bridge', g[Len(history')], history')
  <2>1. /\ history' = Recorded(Plain("turnEnd"), turn) /\ Ends(bridge, bridge', p, "runFinished")
        /\ Plain("turnEnd") \in AgentUpdates /\ Cut(history) /\ phase = "working"
        /\ bridge.sink = "run"
    BY <1>8, <1>17, HandledUpdates DEF TurnEnded
  <2>2. Ready(bridge)
    BY <1>6, LiveReady DEF SessionInv
  <2>3. MatchesAgain(Plain("turnEnd"), rank)
    <3>1. SUFFICES ASSUME NEW r \in Bridges, r.sink = "replay", Replays(r, history),
                          Matches(bridge, r, history),
                          NEW e \in Records, history' = Append(history, e), e.kind = "turnEnd"
                   PROVE  Matches(bridge', SessionUpdate(r, e, n + 1, rank), history')
      BY DEF MatchesAgain, Plain, n
    <3>2. SessionUpdate(r, e, n + 1, rank) = FinishRun(r, rank)
      BY <3>1 DEF SessionUpdate, TurnEnd
    <3>3. Ready(r)
      BY <3>1, LoadedCalls
    <3>4. QED
      BY <1>1, <1>2, <1>17, <2>1, <2>2, <3>1, <3>2, <3>3, MatchTurnEnd
  <2>4. QED
    BY <1>1, <1>2, <1>7, <2>1, <2>3, MatchRecord DEF n
<1>18. ASSUME NEW p \in Ranks, NEW kind \in {"runFinished", "runError"}, Closed(p, kind)
       PROVE  Matches(bridge', g[Len(history')], history')
  <2>1. /\ Ends(bridge, bridge', p, kind) /\ history' = history /\ phase' = "idle"
        /\ phase # "idle"
    BY <1>18 DEF Closed
  <2>2. ~Cut(history) /\ phase = "closing"
    BY <1>1, <1>2, <1>8, <2>1 DEF TypeInv
  <2>3. ~Listens(bridge)
    BY <1>2, <2>2 DEF TypeInv, SinkFits, Listens
  <2>4. Reading(bridge') = Reading(bridge)
    BY <1>2, <1>18, <2>1, <2>3, QuietEnd
  <2>5. Matches(bridge, g[n], history)
    BY <1>1, <1>7, <2>1, <2>2
  <2>6. QED
    BY <2>1, <2>2, <2>4, <2>5 DEF Matches, n
<1>19. CASE Suspended \/ Resumed
  <2>1. /\ Suspends(bridge, bridge') \/ Attaches(bridge, bridge')
        /\ history' = history /\ phase \in {"working", "waiting"}
    BY <1>19 DEF Suspended, Resumed
  <2>2. Matches(bridge, g[n], history) /\ Cut(history)
    BY <1>1, <1>7, <1>8, <2>1
  <2>3. QED
    BY <1>2, <1>3, <2>1, <2>2, MatchRuns DEF n
<1>20. QED
  BY <1>9, <1>10, <1>11, <1>12, <1>13, <1>15, <1>16, <1>17, <1>18, <1>19 DEF Stepped

\* Before the first prompt nothing has been read of either.
LEMMA MatchAtFirst == Init => MatchInv
<1>1. SUFFICES ASSUME Init, NEW rank \in Ranks, NEW g, LoadedBy(history, rank, g)
               PROVE  Matches(bridge, g[Len(history)], history)
  BY DEF MatchInv
<1>2. history = <<>> /\ Len(history) = 0 /\ ~Cut(history) /\ g[0] = NewReplay
  BY <1>1 DEF Init, LoadedBy, Cut
<1>3. /\ NewReplay.sink = "replay" /\ AtRest(NewReplay)
      /\ NewReplay.acc = EmptyTranscript /\ bridge.sink # "replay" /\ bridge.wire = <<>>
  BY <1>1 DEF Init, NewReplay, NewBridge, AtRest
<1>4. Reading(bridge) = Reading(NewReplay)
  BY <1>3, TranscribeNothing DEF Reading, Read
<1>5. QED
  BY <1>2, <1>3, <1>4 DEF Matches

\* They always match.
LEMMA MatchAlways == Spec => [](SessionInv /\ MatchInv)
<1>1. SessionInv /\ MatchInv /\ [Next]_vars => MatchInv'
  BY NextCases, MatchStep DEF SessionInv, HistoryInv
<1>2. CallsIInv /\ OrderInv /\ (HistoryInv /\ ProtocolInv) /\ (HistoryInv /\ PhaseInv) => SessionInv
  BY DEF SessionInv
<1>3. QED
  BY <1>1, <1>2, MatchAtFirst, CallsAlways, OrderAlways, ProtocolAlways, PhaseAlways, PTL DEF Spec

\* Live and replay converge: of a session whose turns are all marked, none of
\* whose updates was dropped and none of whose messages was split by an
\* interrupt, a client has read, up to how messages are cut, what it is shown
\* when it loads the session again.
THEOREM LiveMatchesLoaded == Spec => []LiveMatchesReplay
<1>1. SessionInv /\ MatchInv => LiveMatchesReplay
  <2>1. SUFFICES ASSUME SessionInv, MatchInv, phase = "idle", TurnsMarked,
                        history # <<>> => Last(history).kind = "turnEnd",
                        \A i \in DOMAIN history : history[i].kind # "user" => history[i].attached,
                        Unsplit, NEW rank \in Ranks
                 PROVE  Shape(Transcribe(bridge.wire).messages) = Shape(Replay(history, rank))
    BY DEF LiveMatchesReplay
  <2>2. Faithful(bridge.wire, history) /\ ~Cut(history)
    BY <2>1 DEF Faithful, UnsplitIn, Unsplit, Marked, TurnsMarked, Cut, Last
  <2>3. /\ history \in Histories /\ KeepsProtocol(history) /\ rank \in Seq(Calls)
        /\ bridge.sink # "replay"
    BY <2>1, RankFacts DEF SessionInv, HistoryInv, ProtocolInv, TypeInv, SinkFits
  <2>4. PICK g : /\ LoadedBy(history, rank, g)
                 /\ Replay(history, rank) = FinishRun(g[Len(history)], rank).acc.messages
    BY <2>3, ReplayFacts
  <2> DEFINE r == g[Len(history)]
             z == FinishRun(r, rank)
  <2>5. r \in Bridges /\ r.sink = "replay"
    BY <2>1, <2>3, <2>4, ReplaysLoaded DEF Replays
  <2>6. Reading(bridge) = Reading(r) /\ AtRest(r)
    BY <2>1, <2>2, <2>4 DEF MatchInv, Matches
  <2>7. Ends(r, z, rank, "runFinished")
    BY <2>3, <2>5, EndRunFacts
  <2>8. Replay(history, rank) = z.acc.messages
    BY <2>4
  <2> HIDE DEF r, z
  <2>9. z.sink = "replay"
    BY <2>3, <2>5, <2>7, EndedRun
  <2>10. Reading(z) = Reading(r)
    BY <2>1, <2>5, <2>6, <2>7, QuietEnd
  <2>11. QED
    BY <2>3, <2>6, <2>8, <2>9, <2>10 DEF Reading, Read
<1>2. QED
  BY <1>1, MatchAlways, PTL
=============================================================================
