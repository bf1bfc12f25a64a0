------------------------------ MODULE HistoryProofs ------------------------------
(***************************************************************************)
(* Proofs about the messages of the requests: whatever was aborted, stored *)
(* stub by stub, folded, or resumed after a crash, what is sent is what a  *)
(* provider accepts.  The invariant says of the history and of the store   *)
(* that no result stands anywhere but in the round of its call and that no *)
(* id was given twice, and of what is missing that it is the end of one    *)
(* round, the last: that is what a repair puts back.                       *)
(***************************************************************************)
EXTENDS SessionProofs

-----------------------------------------------------------------------------
(* Sequences of sequences, joined. *)

\* F[k] joins the first k.
Joins(F, ss, n) == F[0] = <<>> /\ \A k \in 1..n : F[k] = F[k - 1] \o ss[k]

LEMMA Joinable ==
  ASSUME NEW A, NEW ss \in Seq(Seq(A))
  PROVE  \E F : Joins(F, ss, Len(ss))
  <1> DEFINE L == Len(ss)
             Good(m) == \E F : Joins(F, ss, m)
             S == {m \in 0..L : Good(m)}
  <1>0. L \in Nat
    OBVIOUS
  <1>1. Good(0)
    <2> DEFINE F == [i \in 0..0 |-> <<>>]
    <2>1. Joins(F, ss, 0)
      BY DEF Joins
    <2> QED BY <2>1
  <1>2. ASSUME NEW m \in 0..(L - 1), Good(m) PROVE Good(m + 1)
    <2>1. PICK F : Joins(F, ss, m)
      BY <1>2
    <2>0. PICK new : new = F[m] \o ss[m + 1]
      OBVIOUS
    <2> DEFINE G == [i \in 0..(m + 1) |-> IF i = m + 1 THEN new ELSE F[i]]
    <2>2. m \in Nat
      BY <1>0
    <2>3. G[m + 1] = new /\ \A i \in 0..m : G[i] = F[i]
      BY <2>2
    <2> HIDE DEF G
    <2>4. Joins(G, ss, m + 1)
      <3>1. G[0] = <<>>
        BY <2>1, <2>2, <2>3 DEF Joins
      <3>2. ASSUME NEW k \in 1..(m + 1) PROVE G[k] = G[k - 1] \o ss[k]
        <4>1. CASE k = m + 1
          <5>1. m \in 0..m /\ k - 1 = m
            BY <2>2, <4>1
          <5>2. G[k] = new /\ G[k - 1] = F[m]
            BY <2>3, <4>1, <5>1
          <5> QED BY <2>0, <4>1, <5>2
        <4>2. CASE k \in 1..m
          <5>1. k \in 0..m /\ k - 1 \in 0..m
            BY <2>2, <4>2
          <5>2. G[k] = F[k] /\ G[k - 1] = F[k - 1]
            BY <2>3, <5>1
          <5>3. F[k] = F[k - 1] \o ss[k]
            BY <2>1, <4>2 DEF Joins
          <5> QED BY <5>2, <5>3
        <4>3. k = m + 1 \/ k \in 1..m
          BY <2>2
        <4> QED BY <4>1, <4>2, <4>3
      <3> QED BY <3>1, <3>2 DEF Joins
    <2> QED BY <2>4
  <1> HIDE DEF Good
  <1>3. \A m \in 0..L : m \in S
    <2>1. 0 \in S /\ \A m \in 0..(L - 1) : m \in S => m + 1 \in S
      BY <1>0, <1>1, <1>2
    <2> HIDE DEF S, L
    <2> QED BY <1>0, <2>1, UpTo
  <1> QED BY <1>0, <1>3 DEF Good

\* FlattenSeq as it is defined.
Flattens(N, ss) ==
    N = [i \in 1..Len(ss) |-> IF i = 1 THEN ss[i] ELSE N[i - 1] \o ss[i]]

LEMMA Joined ==
  ASSUME NEW A, NEW ss \in Seq(Seq(A))
  PROVE  \E F : /\ Joins(F, ss, Len(ss))
                /\ Context!FlattenSeq(ss) = F[Len(ss)]
                /\ \A k \in 0..Len(ss) : F[k] \in Seq(A)
  <1> DEFINE L == Len(ss)
             N == CHOOSE N : Flattens(N, ss)
             F == [i \in 0..L |-> IF i = 0 THEN <<>> ELSE N[i]]
  <1>0. L \in Nat /\ \A k \in 1..L : ss[k] \in Seq(A)
    OBVIOUS
  <1>1. \E M : Flattens(M, ss)
    <2>1. PICK G : Joins(G, ss, L)
      BY Joinable
    <2> DEFINE M == [i \in 1..L |-> G[i]]
    <2>2. ASSUME NEW i \in 1..L PROVE M[i] = IF i = 1 THEN ss[i] ELSE M[i - 1] \o ss[i]
      <3>1. G[i] = G[i - 1] \o ss[i] /\ G[0] = <<>> /\ M[i] = G[i]
        BY <2>1 DEF Joins
      <3>2. \A z \in Seq(A) : <<>> \o z = z
        OBVIOUS
      <3>3. i = 1 => G[i] = ss[i]
        <4> SUFFICES ASSUME i = 1 PROVE G[1] = ss[1]
          OBVIOUS
        <4>1. G[1 - 1] = <<>> /\ G[1] = G[1 - 1] \o ss[1] /\ ss[1] \in Seq(A)
          BY <1>0, <3>1
        <4> QED BY <3>2, <4>1
      <3>4. i # 1 => M[i - 1] = G[i - 1]
        BY <1>0
      <3> QED BY <3>1, <3>3, <3>4
    <2>3. M = [i \in 1..L |-> M[i]]
      OBVIOUS
    <2> HIDE DEF M
    <2>4. Flattens(M, ss)
      BY <2>2, <2>3 DEF Flattens
    <2> QED BY <2>4
  <1>2. Flattens(N, ss)
    BY <1>1
  <1>3. ss # <<>> => Context!FlattenSeq(ss) = N[L]
    BY <1>0 DEF Context!FlattenSeq, Flattens
  <1> HIDE DEF N
  <1>4. Joins(F, ss, L)
    <2>1. F[0] = <<>> /\ \A i \in 1..L : F[i] = N[i]
      BY <1>0
    <2>2. ASSUME NEW k \in 1..L PROVE F[k] = F[k - 1] \o ss[k]
      <3>1. N[k] = IF k = 1 THEN ss[k] ELSE N[k - 1] \o ss[k]
        BY <1>2 DEF Flattens
      <3>2. \A z \in Seq(A) : <<>> \o z = z
        OBVIOUS
      <3>3. k # 1 => k - 1 \in 1..L
        BY <1>0
      <3> HIDE DEF F, L
      <3>4. CASE k = 1
        <4>1. F[k - 1] = <<>> /\ F[k] = ss[k] /\ ss[k] \in Seq(A)
          BY <1>0, <2>1, <3>1, <3>4
        <4> QED BY <3>2, <4>1
      <3>5. CASE k # 1
        BY <2>1, <3>1, <3>3, <3>5
      <3> QED BY <3>4, <3>5
    <2> QED BY <2>1, <2>2 DEF Joins
  <1>5. Context!FlattenSeq(ss) = F[L]
    <2>1. CASE ss = <<>>
      <3>1. L = 0 /\ F[0] = <<>>
        BY <2>1
      <3>2. Context!FlattenSeq(ss) = ss
        BY <2>1 DEF Context!FlattenSeq
      <3> QED BY <2>1, <3>1, <3>2
    <2>2. CASE ss # <<>>
      <3>1. L \in 1..L
        BY <2>2
      <3> QED BY <1>3, <2>2, <3>1
    <2> QED BY <2>1, <2>2
  <1> HIDE DEF F
  <1>6. \A k \in 0..L : F[k] \in Seq(A)
    <2> DEFINE S == {k \in 0..L : F[k] \in Seq(A)}
    <2>1. 0 \in S
      <3>1. <<>> \in Seq(A)
        OBVIOUS
      <3>2. 0 \in 0..L /\ F[0] = <<>>
        BY <1>0, <1>4 DEF Joins
      <3> QED BY <3>1, <3>2
    <2> HIDE DEF L
    <2>2. \A m \in 0..(L - 1) : m \in S => m + 1 \in S
      <3> SUFFICES ASSUME NEW m \in 0..(L - 1), m \in S PROVE m + 1 \in S
        OBVIOUS
      <3>1. m + 1 \in 1..L /\ m + 1 \in 0..L /\ (m + 1) - 1 = m
        BY <1>0
      <3>2. F[m + 1] = F[(m + 1) - 1] \o ss[m + 1]
        BY <1>4, <3>1 DEF Joins
      <3>3. F[m] \in Seq(A) /\ ss[m + 1] \in Seq(A)
        BY <1>0, <3>1
      <3>4. F[m + 1] \in Seq(A)
        BY <3>1, <3>2, <3>3
      <3> QED BY <3>1, <3>4
    <2> HIDE DEF S
    <2>3. \A k \in 0..L : k \in S
      BY <1>0, <2>1, <2>2, UpTo
    <2> QED BY <2>3 DEF S
  <1> QED BY <1>4, <1>5, <1>6

\* What holds of the first k, joined, and of one more, holds of all.
LEMMA JoinStep ==
  ASSUME NEW F, NEW ss, NEW n \in Nat, Joins(F, ss, n), NEW k \in 1..n
  PROVE  F[k] = F[k - 1] \o ss[k]
  BY DEF Joins


-----------------------------------------------------------------------------
(* Histories: rounds, the results they lack, and where the task stands. *)

Messages == Seq(Context!Message)

\* Only the assistant calls.
Roles(h) == \A i \in DOMAIN h : h[i].calls # <<>> => h[i].role = "assistant"

\* The results from i to j are of one run.
Run(h, i, j) == \A m \in (i + 1)..j : h[m].role = "tool"

\* j is the result of the call of message i that it stands behind.
ResultOf(h, i, j) ==
    /\ j - i \in DOMAIN h[i].calls /\ h[j] = Context!Tool(h[i].calls[j - i])
    /\ Run(h, i, j)

\* No result stands anywhere else.
Placed(h) ==
    \A j \in DOMAIN h : h[j].role = "tool" => \E i \in 1..(j - 1) : ResultOf(h, i, j)

\* No two calls have one id, and none one above w.
Fresh(h, w) ==
    /\ \A i \in DOMAIN h : \A k \in DOMAIN h[i].calls : h[i].calls[k] <= w
    /\ \A i, j \in DOMAIN h : \A k \in DOMAIN h[i].calls : \A l \in DOMAIN h[j].calls :
         h[i].calls[k] = h[j].calls[l] => i = j /\ k = l

Rounds(h, w) == Roles(h) /\ Placed(h) /\ Fresh(h, w)

\* The last message is of round i, whose calls from there on are "rest".
Owed(h, i, rest) ==
    /\ Len(h) - i + Len(rest) = Len(h[i].calls)
    /\ Run(h, i, Len(h))
    /\ \A n \in DOMAIN rest : rest[n] = h[i].calls[Len(h) - i + n]
Owes(h, rest) == rest # <<>> => \E i \in DOMAIN h : Owed(h, i, rest)

\* Each call has its result, but those in "rest".
HasResult(h, i, k) == i + k <= Len(h) /\ h[i + k] = Context!Tool(h[i].calls[k])
IsDue(h, i, k, rest) ==
    i + k - Len(h) \in DOMAIN rest /\ rest[i + k - Len(h)] = h[i].calls[k]
Due(h, rest) ==
    \A i \in DOMAIN h : \A k \in DOMAIN h[i].calls : HasResult(h, i, k) \/ IsDue(h, i, k, rest)

Results(rest) == [n \in DOMAIN rest |-> Context!Tool(rest[n])]

\* The request of the user has nothing before it but the system prompt.
First(h) == IF h[1] = Context!System THEN 2 ELSE 1
Headed(h) == First(h) \in DOMAIN h /\ h[First(h)] = Context!User(TRUE)

LEMMA ToolIs ==
  /\ \A c : Context!Tool(c).role = "tool" /\ Context!Tool(c).calls = <<>> /\ Context!Tool(c).answers = c
  /\ \A c \in Nat : Context!Tool(c) \in Context!Message
  BY DEF Context!Tool, Context!Message

LEMMA OthersAre ==
  /\ Context!System.role = "system" /\ Context!System.calls = <<>>
  /\ Context!System \in Context!Message
  /\ \A b : Context!User(b).role = "user" /\ Context!User(b).calls = <<>>
  /\ \A b \in BOOLEAN : Context!User(b) \in Context!Message
  /\ \A ids : Context!Assistant(ids).role = "assistant" /\ Context!Assistant(ids).calls = ids
  /\ \A ids \in Seq(Nat) : Context!Assistant(ids) \in Context!Message
  BY DEF Context!System, Context!User, Context!Assistant, Context!Message, Context!NoId

LEMMA MessageIs ==
  ASSUME NEW h \in Messages, NEW i \in DOMAIN h
  PROVE  /\ i \in Nat /\ i >= 1 /\ i <= Len(h)
         /\ h[i] \in Context!Message /\ h[i].calls \in Seq(Nat)
         /\ h[i].role \in {"system", "user", "assistant", "tool"}
         /\ Len(h[i].calls) \in Nat /\ DOMAIN h[i].calls = 1..Len(h[i].calls)
  <1>1. i \in Nat /\ i >= 1 /\ i <= Len(h) /\ h[i] \in Context!Message
    BY DEF Messages
  <1>2. h[i].calls \in Seq(Nat) /\ h[i].role \in {"system", "user", "assistant", "tool"}
    BY <1>1 DEF Context!Message
  <1>3. \A s \in Seq(Nat) : Len(s) \in Nat /\ DOMAIN s = 1..Len(s)
    OBVIOUS
  <1> QED BY <1>1, <1>2, <1>3

\* An assistant's message is no result, and a result calls nothing.
LEMMA CallersCall ==
  ASSUME NEW h, Roles(h), NEW i \in DOMAIN h
  PROVE  /\ h[i].role = "tool" => h[i].calls = <<>>
         /\ \A k \in DOMAIN h[i].calls : h[i].role = "assistant" /\ h[i].calls # <<>>
  BY DEF Roles

\* The history, and one message more.
LEMMA Appending ==
  ASSUME NEW h \in Messages, NEW m \in Context!Message, NEW g, g = Append(h, m)
  PROVE  /\ g \in Messages /\ Len(g) = Len(h) + 1 /\ g[Len(h) + 1] = m
         /\ \A i \in DOMAIN h : i \in DOMAIN g /\ g[i] = h[i]
         /\ \A i \in DOMAIN g : i \in DOMAIN h \/ i = Len(h) + 1
         /\ DOMAIN g = 1..(Len(h) + 1) /\ DOMAIN h = 1..Len(h) /\ Len(h) \in Nat
  BY DEF Messages

\* A run and a result stay what they are with messages behind them.
LEMMA RunStays ==
  ASSUME NEW h, NEW g, NEW n \in Nat, \A x \in 1..n : g[x] = h[x],
         NEW i \in Nat, NEW j \in 1..n, i >= 1, i < j
  PROVE  ResultOf(g, i, j) <=> ResultOf(h, i, j)
  BY DEF ResultOf, Run

\* The calls of m have ids of their own, up to v.
Novel(h, m, v) ==
    /\ \A l \in DOMAIN m.calls : m.calls[l] <= v
    /\ \A k, l \in DOMAIN m.calls : m.calls[k] = m.calls[l] => k = l
    /\ \A i \in DOMAIN h : \A k \in DOMAIN h[i].calls : \A l \in DOMAIN m.calls :
         h[i].calls[k] # m.calls[l]

\* One more message that is no result: it owes what it calls for.
LEMMA SayRounds ==
  ASSUME NEW h \in Messages, NEW m \in Context!Message, NEW w \in Nat, NEW v \in Nat, w <= v,
         Rounds(h, w), m.role # "tool", m.calls # <<>> => m.role = "assistant", Novel(h, m, v)
  PROVE  Rounds(Append(h, m), v)
  <1> DEFINE g == Append(h, m)
  <1>1. /\ g \in Messages /\ Len(g) = Len(h) + 1 /\ g[Len(h) + 1] = m
        /\ \A i \in DOMAIN h : i \in DOMAIN g /\ g[i] = h[i]
        /\ \A i \in DOMAIN g : i \in DOMAIN h \/ i = Len(h) + 1
        /\ DOMAIN g = 1..(Len(h) + 1) /\ DOMAIN h = 1..Len(h) /\ Len(h) \in Nat
    BY Appending
  <1> HIDE DEF g
  <1>2. Roles(g)
    BY <1>1 DEF Roles, Rounds
  <1>3. Placed(g)
    <2> SUFFICES ASSUME NEW j \in DOMAIN g, g[j].role = "tool"
                 PROVE  \E i \in 1..(j - 1) : ResultOf(g, i, j)
      BY DEF Placed
    <2>1. j \in DOMAIN h /\ h[j].role = "tool" /\ j \in 1..Len(h)
      BY <1>1
    <2>2. PICK i \in 1..(j - 1) : ResultOf(h, i, j)
      BY <2>1 DEF Placed, Rounds
    <2>3. i \in Nat /\ i >= 1 /\ i < j
      BY <1>1, <2>1
    <2>4. \A x \in 1..Len(h) : g[x] = h[x]
      BY <1>1
    <2>5. ResultOf(g, i, j)
      BY <1>1, <2>1, <2>2, <2>3, <2>4, RunStays
    <2> QED BY <2>5
  <1>4. Fresh(g, v)
    <2>1. \A i \in DOMAIN h : h[i].calls \in Seq(Nat) /\ \A k \in DOMAIN h[i].calls : h[i].calls[k] \in Nat /\ h[i].calls[k] <= w
      BY MessageIs DEF Rounds, Fresh
    <2>2. m.calls \in Seq(Nat) /\ \A k \in DOMAIN m.calls : m.calls[k] \in Nat
      BY DEF Context!Message
    <2>3. ASSUME NEW i \in DOMAIN g, NEW k \in DOMAIN g[i].calls PROVE g[i].calls[k] <= v
      <3>1. CASE i \in DOMAIN h
        BY <1>1, <2>1, <3>1
      <3>2. CASE i = Len(h) + 1
        BY <1>1, <3>2 DEF Novel
      <3> QED BY <1>1, <3>1, <3>2
    <2>4. ASSUME NEW i \in DOMAIN g, NEW j \in DOMAIN g,
                 NEW k \in DOMAIN g[i].calls, NEW l \in DOMAIN g[j].calls,
                 g[i].calls[k] = g[j].calls[l]
          PROVE  i = j /\ k = l
      <3>1. CASE i \in DOMAIN h /\ j \in DOMAIN h
        BY <1>1, <2>4, <3>1 DEF Rounds, Fresh
      <3>2. CASE i = Len(h) + 1 /\ j = Len(h) + 1
        BY <1>1, <2>4, <3>2 DEF Novel
      <3>3. CASE i \in DOMAIN h /\ j = Len(h) + 1
        <4>1. h[i].calls[k] # m.calls[l]
          BY <1>1, <3>3 DEF Novel
        <4>2. h[i].calls[k] = m.calls[l]
          BY <1>1, <2>4, <3>3
        <4> QED BY <4>1, <4>2
      <3>4. CASE i = Len(h) + 1 /\ j \in DOMAIN h
        <4>1. h[j].calls[l] # m.calls[k]
          BY <1>1, <3>4 DEF Novel
        <4>2. h[j].calls[l] = m.calls[k]
          BY <1>1, <2>4, <3>4
        <4> QED BY <4>1, <4>2
      <3> QED BY <1>1, <3>1, <3>2, <3>3, <3>4
    <2> QED BY <2>3, <2>4 DEF Fresh
  <1> QED BY <1>2, <1>3, <1>4 DEF Rounds, g

LEMMA SayOwes ==
  ASSUME NEW h \in Messages, NEW m \in Context!Message
  PROVE  Owes(Append(h, m), m.calls)
  <1> DEFINE g == Append(h, m)
  <1>1. /\ g \in Messages /\ Len(g) = Len(h) + 1 /\ g[Len(h) + 1] = m
        /\ \A i \in DOMAIN h : i \in DOMAIN g /\ g[i] = h[i]
        /\ \A i \in DOMAIN g : i \in DOMAIN h \/ i = Len(h) + 1
        /\ DOMAIN g = 1..(Len(h) + 1) /\ DOMAIN h = 1..Len(h) /\ Len(h) \in Nat
    BY Appending
  <1> HIDE DEF g
  <1>2. m.calls \in Seq(Nat) /\ DOMAIN m.calls = 1..Len(m.calls) /\ Len(m.calls) \in Nat
    BY DEF Context!Message
  <1>3. Owed(g, Len(h) + 1, m.calls)
    BY <1>1, <1>2 DEF Owed, Run
  <1>4. Owes(g, m.calls)
    BY <1>1, <1>3 DEF Owes
  <1> QED BY <1>4 DEF g

LEMMA SayDue ==
  ASSUME NEW h \in Messages, NEW m \in Context!Message, Due(h, <<>>)
  PROVE  Due(Append(h, m), m.calls) /\ Owes(Append(h, m), m.calls)
  <1> DEFINE g == Append(h, m)
  <1>1. /\ g \in Messages /\ Len(g) = Len(h) + 1 /\ g[Len(h) + 1] = m
        /\ \A i \in DOMAIN h : i \in DOMAIN g /\ g[i] = h[i]
        /\ \A i \in DOMAIN g : i \in DOMAIN h \/ i = Len(h) + 1
        /\ DOMAIN g = 1..(Len(h) + 1) /\ DOMAIN h = 1..Len(h) /\ Len(h) \in Nat
    BY Appending
  <1> HIDE DEF g
  <1>2. m.calls \in Seq(Nat) /\ DOMAIN m.calls = 1..Len(m.calls) /\ Len(m.calls) \in Nat
    BY DEF Context!Message
  <1>3. Due(g, m.calls)
    <2> SUFFICES ASSUME NEW i \in DOMAIN g, NEW k \in DOMAIN g[i].calls
                 PROVE  HasResult(g, i, k) \/ IsDue(g, i, k, m.calls)
      BY DEF Due
    <2>1. CASE i \in DOMAIN h
      <3>1. DOMAIN <<>> = {}
        OBVIOUS
      <3>2. k \in DOMAIN h[i].calls /\ k \in Nat /\ k >= 1 /\ i \in Nat
        BY <1>1, <2>1, MessageIs
      <3>3. HasResult(h, i, k)
        BY <2>1, <3>1, <3>2 DEF Due, IsDue
      <3>4. HasResult(g, i, k)
        BY <1>1, <2>1, <3>2, <3>3 DEF HasResult
      <3> QED BY <3>4
    <2>2. CASE i = Len(h) + 1
      <3>1. k \in DOMAIN m.calls /\ k \in Nat /\ i + k - Len(g) = k
        BY <1>1, <1>2, <2>2
      <3> QED BY <1>1, <2>2, <3>1 DEF IsDue
    <2> QED BY <1>1, <2>1, <2>2
  <1> QED BY <1>3, SayOwes DEF g

\* The next result of the last round.
LEMMA AnswerRounds ==
  ASSUME NEW h \in Messages, NEW w \in Nat, Rounds(h, w),
         NEW rest \in Seq(Nat), rest # <<>>, Owes(h, rest)
  PROVE  /\ Rounds(Append(h, Context!Tool(Head(rest))), w)
         /\ Owes(Append(h, Context!Tool(Head(rest))), Tail(rest))
  <1> DEFINE m == Context!Tool(Head(rest))
             g == Append(h, m)
  <1>0. /\ Head(rest) = rest[1] /\ Head(rest) \in Nat /\ Len(rest) \in Nat /\ Len(rest) >= 1
        /\ Tail(rest) \in Seq(Nat) /\ Len(Tail(rest)) = Len(rest) - 1
        /\ \A n \in DOMAIN Tail(rest) : n \in Nat /\ n >= 1 /\ n + 1 \in DOMAIN rest /\ Tail(rest)[n] = rest[n + 1]
        /\ 1 \in DOMAIN rest
    OBVIOUS
  <1>1. m \in Context!Message /\ m.role = "tool" /\ m.calls = <<>>
    BY <1>0, ToolIs
  <1>2. /\ g \in Messages /\ Len(g) = Len(h) + 1 /\ g[Len(h) + 1] = m
        /\ \A i \in DOMAIN h : i \in DOMAIN g /\ g[i] = h[i]
        /\ \A i \in DOMAIN g : i \in DOMAIN h \/ i = Len(h) + 1
        /\ DOMAIN g = 1..(Len(h) + 1) /\ DOMAIN h = 1..Len(h) /\ Len(h) \in Nat
    BY <1>1, Appending
  <1>3. PICK i \in DOMAIN h : Owed(h, i, rest)
    BY DEF Owes
  <1>4. /\ i \in Nat /\ i >= 1 /\ i <= Len(h) /\ Len(h[i].calls) \in Nat
        /\ DOMAIN h[i].calls = 1..Len(h[i].calls)
    BY MessageIs
  <1>5. /\ Len(h) - i + Len(rest) = Len(h[i].calls)
        /\ \A x \in (i + 1)..Len(h) : h[x].role = "tool"
        /\ \A n \in DOMAIN rest : rest[n] = h[i].calls[Len(h) - i + n]
    BY <1>3 DEF Owed, Run
  <1>m. m = Context!Tool(rest[1])
    BY <1>0
  <1> HIDE DEF g, m
  <1>6. ResultOf(g, i, Len(h) + 1)
    <2>a. Len(h) \in Nat /\ g[i] = h[i]
      BY <1>2
    <2>b. Len(h) - i + 1 = Len(h) + 1 - i /\ Len(h) + 1 - i \in DOMAIN h[i].calls
      BY <1>0, <1>4, <1>5, <2>a
    <2>c. rest[1] = h[i].calls[Len(h) - i + 1]
      BY <1>0, <1>5
    <2>1. Len(h) + 1 - i \in DOMAIN h[i].calls /\ rest[1] = h[i].calls[Len(h) + 1 - i] /\ g[i] = h[i]
      BY <2>a, <2>b, <2>c
    <2>2. ASSUME NEW x \in (i + 1)..(Len(h) + 1) PROVE g[x].role = "tool"
      <3>1. x \in (i + 1)..Len(h) \/ x = Len(h) + 1
        BY <1>2, <1>4
      <3>2. x \in (i + 1)..Len(h) => x \in DOMAIN h
        BY <1>2, <1>4
      <3> QED BY <1>1, <1>2, <1>5, <3>1, <3>2
    <2> QED BY <1>2, <1>m, <2>1, <2>2 DEF ResultOf, Run
  <1>7. Roles(g)
    BY <1>1, <1>2 DEF Roles, Rounds
  <1>8. Placed(g)
    <2> SUFFICES ASSUME NEW j \in DOMAIN g, g[j].role = "tool"
                 PROVE  \E p \in 1..(j - 1) : ResultOf(g, p, j)
      BY DEF Placed
    <2>1. CASE j \in DOMAIN h
      <3>1. h[j].role = "tool" /\ j \in 1..Len(h)
        BY <1>2, <2>1
      <3>2. PICK p \in 1..(j - 1) : ResultOf(h, p, j)
        BY <2>1, <3>1 DEF Placed, Rounds
      <3>3. p \in Nat /\ p >= 1 /\ p < j
        BY <1>2, <3>1
      <3>4. \A x \in 1..Len(h) : g[x] = h[x]
        BY <1>2
      <3>5. ResultOf(g, p, j)
        BY <1>2, <3>1, <3>2, <3>3, <3>4, RunStays
      <3> QED BY <3>5
    <2>2. CASE j = Len(h) + 1
      <3>1. i \in 1..(j - 1)
        BY <1>2, <1>4, <2>2
      <3> QED BY <1>6, <2>2, <3>1
    <2> QED BY <1>2, <2>1, <2>2
  <1>9. Fresh(g, w)
    <2>1. \A p \in DOMAIN g : \A k \in DOMAIN g[p].calls : p \in DOMAIN h /\ g[p] = h[p]
      <3>1. DOMAIN <<>> = {}
        OBVIOUS
      <3> QED BY <1>1, <1>2, <3>1
    <2> QED BY <2>1 DEF Fresh, Rounds
  <1>10. Owed(g, i, Tail(rest))
    <2>1. g[i] = h[i] /\ Len(g) - i + Len(Tail(rest)) = Len(g[i].calls)
      BY <1>0, <1>2, <1>4, <1>5
    <2>2. Run(g, i, Len(g))
      BY <1>2, <1>6 DEF ResultOf
    <2>3. ASSUME NEW n \in DOMAIN Tail(rest) PROVE Tail(rest)[n] = g[i].calls[Len(g) - i + n]
      <3>1. Tail(rest)[n] = rest[n + 1] /\ n + 1 \in DOMAIN rest /\ n \in Nat
        BY <1>0
      <3>2. rest[n + 1] = h[i].calls[Len(h) - i + (n + 1)]
        BY <1>5, <3>1
      <3>3. Len(h) - i + (n + 1) = Len(g) - i + n
        BY <1>2, <1>4, <3>1
      <3> QED BY <2>1, <3>1, <3>2, <3>3
    <2> QED BY <2>1, <2>2, <2>3 DEF Owed
  <1>11. Owes(g, Tail(rest))
    BY <1>2, <1>10 DEF Owes
  <1> QED BY <1>7, <1>8, <1>9, <1>11 DEF Rounds, g, m

LEMMA AnswerDue ==
  ASSUME NEW h \in Messages, NEW rest \in Seq(Nat), rest # <<>>, Due(h, rest)
  PROVE  Due(Append(h, Context!Tool(Head(rest))), Tail(rest))
  <1> DEFINE m == Context!Tool(Head(rest))
             g == Append(h, m)
  <1>0. /\ Head(rest) = rest[1] /\ Head(rest) \in Nat /\ Len(rest) \in Nat /\ Len(rest) >= 1
        /\ DOMAIN rest = 1..Len(rest) /\ DOMAIN Tail(rest) = 1..(Len(rest) - 1)
        /\ \A n \in DOMAIN Tail(rest) : Tail(rest)[n] = rest[n + 1]
    OBVIOUS
  <1>1. m \in Context!Message /\ m.calls = <<>>
    BY <1>0, ToolIs
  <1>2. /\ g \in Messages /\ Len(g) = Len(h) + 1 /\ g[Len(h) + 1] = m
        /\ \A i \in DOMAIN h : i \in DOMAIN g /\ g[i] = h[i]
        /\ \A i \in DOMAIN g : i \in DOMAIN h \/ i = Len(h) + 1
        /\ DOMAIN g = 1..(Len(h) + 1) /\ DOMAIN h = 1..Len(h) /\ Len(h) \in Nat
    BY <1>1, Appending
  <1>m. m = Context!Tool(rest[1])
    BY <1>0
  <1> HIDE DEF g, m
  <1>3. Due(g, Tail(rest))
    <2> SUFFICES ASSUME NEW i \in DOMAIN g, NEW k \in DOMAIN g[i].calls
                 PROVE  HasResult(g, i, k) \/ IsDue(g, i, k, Tail(rest))
      BY DEF Due
    <2>1. i \in DOMAIN h /\ g[i] = h[i]
      <3>1. DOMAIN <<>> = {}
        OBVIOUS
      <3> QED BY <1>1, <1>2, <3>1
    <2>2. i \in Nat /\ k \in Nat /\ i >= 1 /\ k >= 1 /\ i <= Len(h)
      BY <2>1, MessageIs
    <2>3. HasResult(h, i, k) \/ IsDue(h, i, k, rest)
      BY <2>1 DEF Due
    <2>4. CASE HasResult(h, i, k)
      <3>1. i + k \in DOMAIN h /\ h[i + k] = Context!Tool(h[i].calls[k])
        BY <1>2, <2>2, <2>4 DEF HasResult
      <3> QED BY <1>2, <2>1, <2>2, <3>1 DEF HasResult
    <2>5. CASE IsDue(h, i, k, rest)
      <3>1. i + k - Len(h) \in 1..Len(rest) /\ rest[i + k - Len(h)] = h[i].calls[k]
        BY <1>0, <2>5 DEF IsDue
      <3>2. CASE i + k - Len(h) = 1
        <4>0. Len(h) \in Nat
          BY <1>2
        <4>1. i + k = Len(h) + 1
          BY <2>2, <3>2, <4>0
        <4> QED BY <1>2, <1>m, <2>1, <3>1, <3>2, <4>1 DEF HasResult
      <3>3. CASE i + k - Len(h) # 1
        <4>1. i + k - Len(g) \in DOMAIN Tail(rest) /\ (i + k - Len(g)) + 1 = i + k - Len(h)
          BY <1>0, <1>2, <2>2, <3>1, <3>3
        <4>2. Tail(rest)[i + k - Len(g)] = rest[i + k - Len(h)]
          BY <1>0, <4>1
        <4> QED BY <2>1, <3>1, <4>1, <4>2 DEF IsDue
      <3> QED BY <3>2, <3>3
    <2> QED BY <2>3, <2>4, <2>5
  <1> QED BY <1>3 DEF g, m

\* All results that are owed, one after the other.
LEMMA ResultsAre ==
  ASSUME NEW rest \in Seq(Nat)
  PROVE  /\ Results(rest) \in Messages /\ Len(Results(rest)) = Len(rest)
         /\ DOMAIN Results(rest) = DOMAIN rest
         /\ \A n \in DOMAIN rest : Results(rest)[n] = Context!Tool(rest[n])
  <1>1. DOMAIN rest = 1..Len(rest) /\ Len(rest) \in Nat /\ \A n \in DOMAIN rest : rest[n] \in Nat
    OBVIOUS
  <1>2. \A n \in DOMAIN rest : Results(rest)[n] = Context!Tool(rest[n]) /\ Results(rest)[n] \in Context!Message
    BY <1>1, ToolIs DEF Results
  <1>3. DOMAIN Results(rest) = DOMAIN rest
    BY DEF Results
  <1>4. Results(rest) = [n \in 1..Len(rest) |-> Results(rest)[n]]
    BY <1>1 DEF Results
  <1>5. Results(rest) \in [1..Len(rest) -> Context!Message]
    BY <1>1, <1>2, <1>4
  <1>6. Results(rest) \in Seq(Context!Message) /\ Len(Results(rest)) = Len(rest)
    BY <1>1, <1>5
  <1> QED BY <1>2, <1>3, <1>6 DEF Messages

\* Answering one at a time.
LEMMA AnswerAll ==
  ASSUME NEW h \in Messages, NEW w \in Nat, Rounds(h, w),
         NEW rest \in Seq(Nat), Owes(h, rest), Due(h, rest)
  PROVE  /\ h \o Results(rest) \in Messages
         /\ Rounds(h \o Results(rest), w) /\ Due(h \o Results(rest), <<>>)
  <1> DEFINE r == Results(rest)
             g == h \o r
             N == Len(h)
  <1>0. /\ rest = <<>> => r = <<>>
        /\ DOMAIN rest = 1..Len(rest) /\ Len(rest) \in Nat /\ DOMAIN <<>> = {}
        /\ \A n \in DOMAIN rest : rest[n] \in Nat
    <2>1. r \in Messages /\ Len(r) = Len(rest)
      BY ResultsAre
    <2>2. \A z \in Seq(Context!Message) : Len(z) = 0 => z = <<>>
      OBVIOUS
    <2> HIDE DEF r
    <2>3. rest = <<>> => r = <<>>
      BY <2>1, <2>2 DEF Messages
    <2> QED BY <2>3
  <1>1. /\ r \in Messages /\ Len(r) = Len(rest) /\ DOMAIN r = DOMAIN rest
        /\ \A n \in DOMAIN rest : r[n] = Context!Tool(rest[n]) /\ r[n].role = "tool" /\ r[n].calls = <<>>
    BY ResultsAre, ToolIs
  <1> HIDE DEF r
  <1>2. /\ g \in Messages /\ Len(g) = N + Len(rest) /\ DOMAIN g = 1..(N + Len(rest)) /\ N \in Nat
        /\ DOMAIN h = 1..N
        /\ \A x \in 1..N : g[x] = h[x]
        /\ \A x \in 1..Len(rest) : g[N + x] = r[x]
        /\ \A x \in DOMAIN g : x \in 1..N \/ (x - N \in DOMAIN rest /\ x = N + (x - N))
    <2>1. N \in Nat /\ DOMAIN h = 1..N /\ h \in Seq(Context!Message) /\ r \in Seq(Context!Message)
      BY <1>1 DEF Messages
    <2>2. g \in Seq(Context!Message) /\ Len(g) = N + Len(rest)
      <3>1. \A y, z \in Seq(Context!Message) :
              y \o z \in Seq(Context!Message) /\ Len(y \o z) = Len(y) + Len(z)
        OBVIOUS
      <3> QED BY <1>1, <2>1, <3>1
    <2>3. DOMAIN g = 1..(N + Len(rest))
      BY <1>0, <2>1, <2>2
    <2>4. \A x \in 1..N : g[x] = h[x]
      BY <1>0, <1>1, <2>1
    <2>5. ASSUME NEW x \in 1..Len(rest) PROVE g[N + x] = r[x]
      <3>1. N + x \in 1..(N + Len(rest)) /\ N + x > N /\ (N + x) - N = x
        BY <1>0, <2>1
      <3> QED BY <1>1, <2>1, <3>1
    <2> HIDE DEF g, N
    <2>6. ASSUME NEW x \in DOMAIN g, x \notin 1..N PROVE x - N \in DOMAIN rest /\ x = N + (x - N)
      BY <1>0, <2>1, <2>3, <2>6
    <2> QED BY <2>1, <2>2, <2>3, <2>4, <2>5, <2>6 DEF Messages
  <1>3. \A x \in DOMAIN g : x \in DOMAIN h \/ (x - N \in DOMAIN rest /\ g[x] = Context!Tool(rest[x - N]) /\ g[x].role = "tool" /\ g[x].calls = <<>>)
    <2> SUFFICES ASSUME NEW x \in DOMAIN g, x \notin DOMAIN h
                 PROVE  x - N \in DOMAIN rest /\ g[x] = r[x - N]
      BY <1>1
    <2>1. x - N \in 1..Len(rest) /\ x = N + (x - N)
      BY <1>0, <1>2
    <2>2. g[N + (x - N)] = r[x - N]
      BY <1>2, <2>1
    <2> QED BY <1>0, <2>1, <2>2
  <1> HIDE DEF g, N
  <1>4. \A x \in DOMAIN g : \A k \in DOMAIN g[x].calls : x \in DOMAIN h /\ g[x] = h[x]
    BY <1>0, <1>2, <1>3
  <1>5. Roles(g)
    <2> SUFFICES ASSUME NEW x \in DOMAIN g, g[x].calls # <<>> PROVE g[x].role = "assistant"
      BY DEF Roles
    <2>1. x \in DOMAIN h /\ g[x] = h[x]
      BY <1>2, <1>3
    <2> QED BY <2>1 DEF Roles, Rounds
  <1>6. Fresh(g, w)
    BY <1>4 DEF Fresh, Rounds
  <1>7. Placed(g)
    <2> SUFFICES ASSUME NEW j \in DOMAIN g, g[j].role = "tool"
                 PROVE  \E p \in 1..(j - 1) : ResultOf(g, p, j)
      BY DEF Placed
    <2>1. CASE j \in DOMAIN h
      <3>1. h[j].role = "tool" /\ j \in 1..N
        BY <1>2, <2>1
      <3>2. PICK p \in 1..(j - 1) : ResultOf(h, p, j)
        BY <2>1, <3>1 DEF Placed, Rounds
      <3>3. p \in Nat /\ p >= 1 /\ p < j
        BY <1>2, <3>1
      <3>5. ResultOf(g, p, j)
        BY <1>2, <3>1, <3>2, <3>3, RunStays
      <3> QED BY <3>5
    <2>2. CASE j \notin DOMAIN h
      <3>1. j - N \in DOMAIN rest /\ g[j] = Context!Tool(rest[j - N]) /\ rest # <<>>
        BY <1>0, <1>3, <2>2
      <3>2. PICK i \in DOMAIN h : Owed(h, i, rest)
        BY <3>1 DEF Owes
      <3>3. /\ i \in Nat /\ i >= 1 /\ i <= N /\ Len(h[i].calls) \in Nat
            /\ DOMAIN h[i].calls = 1..Len(h[i].calls)
        BY MessageIs DEF N
      <3>4. /\ N - i + Len(rest) = Len(h[i].calls)
            /\ \A x \in (i + 1)..N : h[x].role = "tool"
            /\ rest[j - N] = h[i].calls[N - i + (j - N)]
        BY <3>1, <3>2 DEF Owed, Run, N
      <3>n. N \in Nat /\ g[i] = h[i]
        BY <1>2, <3>3
      <3>j. j \in Nat /\ j - N \in 1..Len(rest)
        BY <1>0, <1>2, <3>1
      <3>5. N - i + (j - N) = j - i /\ j > N /\ j - i \in 1..Len(h[i].calls) /\ i \in 1..(j - 1)
        <4>1. Len(rest) \in Nat /\ Len(h[i].calls) \in Nat /\ i >= 1 /\ i <= N /\ i \in Nat
          BY <3>3
        <4>2. PICK k : k = j - N
          OBVIOUS
        <4>3. k \in Nat /\ k >= 1 /\ k <= Len(rest) /\ j = N + k
          BY <3>n, <3>j, <4>1, <4>2
        <4>4. PICK d \in Nat : d = N - i
          BY <3>n, <4>1
        <4>5. d + Len(rest) = Len(h[i].calls) /\ N = i + d
          BY <3>n, <3>4, <4>1, <4>4
        <4>6. j - i = d + k /\ j > N /\ i <= j - 1
          BY <3>n, <4>1, <4>3, <4>5, SMTT(30)
        <4>7. d + k <= Len(h[i].calls) /\ d + k >= 1
          BY <4>1, <4>3, <4>5
        <4> QED BY <3>n, <3>j, <4>1, <4>2, <4>4, <4>6, <4>7
      <3>6. i \in 1..(j - 1) /\ j - i \in DOMAIN g[i].calls /\ g[j] = Context!Tool(g[i].calls[j - i])
        BY <3>1, <3>3, <3>4, <3>5, <3>n
      <3>7. ASSUME NEW x \in (i + 1)..j PROVE g[x].role = "tool"
        <4>0. j \in 1..(N + Len(rest))
          BY <1>2
        <4>1. x \in DOMAIN g
          <5>1. x \in 1..(N + Len(rest))
            BY <1>0, <3>n, <3>3, <4>0
          <5> QED BY <1>2, <5>1
        <4>2. x \in DOMAIN h => x \in (i + 1)..N /\ g[x] = h[x]
          BY <1>2, <3>3
        <4> QED BY <1>3, <3>4, <4>1, <4>2
      <3> QED BY <3>6, <3>7 DEF ResultOf, Run
    <2> QED BY <2>1, <2>2
  <1>8. Due(g, <<>>)
    <2> SUFFICES ASSUME NEW i \in DOMAIN g, NEW k \in DOMAIN g[i].calls PROVE HasResult(g, i, k)
      BY DEF Due
    <2>1. i \in DOMAIN h /\ g[i] = h[i]
      BY <1>4
    <2>2. i \in Nat /\ k \in Nat /\ i >= 1 /\ k >= 1 /\ i <= N
      BY <2>1, MessageIs DEF N
    <2>3. HasResult(h, i, k) \/ IsDue(h, i, k, rest)
      BY <2>1 DEF Due
    <2>4. CASE HasResult(h, i, k)
      <3>1. i + k \in 1..N /\ h[i + k] = Context!Tool(h[i].calls[k])
        BY <1>2, <2>2, <2>4 DEF HasResult, N
      <3> QED BY <1>0, <1>2, <2>1, <2>2, <3>1 DEF HasResult
    <2>5. CASE IsDue(h, i, k, rest)
      <3>1. i + k - N \in 1..Len(rest) /\ rest[i + k - N] = h[i].calls[k]
        BY <1>0, <2>5 DEF IsDue, N
      <3>2. N + (i + k - N) = i + k /\ i + k <= Len(g)
        BY <1>0, <1>2, <2>2, <3>1
      <3>3. g[N + (i + k - N)] = Context!Tool(rest[i + k - N])
        BY <1>0, <1>1, <1>2, <3>1
      <3> QED BY <2>1, <3>1, <3>2, <3>3 DEF HasResult
    <2> QED BY <2>3, <2>4, <2>5
  <1> QED BY <1>2, <1>5, <1>6, <1>7, <1>8 DEF Rounds, g, r

-----------------------------------------------------------------------------
(* The repair: what stands behind a run of results. *)

\* What a call list holds from its o-th call on.
Rest(cs, o) == [n \in 1..(Len(cs) - o) |-> cs[o + n]]

\* The caller of message k: the last that is no result.
Caller(h, k, i) == i \in 1..k /\ h[i].role # "tool" /\ Run(h, i, k)

LEMMA CallerIs ==
  ASSUME NEW h \in Messages, Roles(h), Placed(h), NEW k \in DOMAIN h
  PROVE  \E i \in DOMAIN h : Caller(h, k, i) /\ k - i <= Len(h[i].calls)
  <1>1. k \in Nat /\ k >= 1 /\ k <= Len(h) /\ Len(h[k].calls) \in Nat
    BY MessageIs
  <1>2. CASE h[k].role # "tool"
    <2>1. Caller(h, k, k)
      BY <1>1, <1>2 DEF Caller, Run
    <2> QED BY <1>1, <2>1
  <1>3. CASE h[k].role = "tool"
    <2>1. PICK i \in 1..(k - 1) : ResultOf(h, i, k)
      BY <1>3 DEF Placed
    <2>2. i \in DOMAIN h
      BY <1>1 DEF Messages
    <2>3. k - i \in DOMAIN h[i].calls /\ Run(h, i, k)
      BY <2>1 DEF ResultOf
    <2>4. h[i].role # "tool"
      BY <2>2, <2>3, CallersCall
    <2>5. Len(h[i].calls) \in Nat /\ DOMAIN h[i].calls = 1..Len(h[i].calls)
      BY <2>2, MessageIs
    <2>6. Caller(h, k, i) /\ k - i <= Len(h[i].calls)
      BY <1>1, <2>3, <2>4, <2>5 DEF Caller
    <2> QED BY <2>2, <2>6
  <1> QED BY <1>2, <1>3

\* There is one only.
LEMMA OneCaller ==
  ASSUME NEW h, NEW k \in Nat, NEW i, NEW j, Caller(h, k, i),
         j \in 1..k, h[j].role # "tool", Run(h, j, k)
  PROVE  i = j
  <1>1. i \in 1..k /\ h[i].role # "tool" /\ Run(h, i, k)
    BY DEF Caller
  <1>2. ~(i < j)
    <2>1. i < j => j \in (i + 1)..k
      BY <1>1
    <2> QED BY <1>1, <2>1 DEF Run
  <1>3. ~(j < i)
    <2>1. j < i => i \in (j + 1)..k
      BY <1>1
    <2> QED BY <1>1, <2>1 DEF Run
  <1> QED BY <1>1, <1>2, <1>3

\* Where the run behind a message ends.
EndsAt(h, i, k) == k \in i..Len(h) /\ Run(h, i, k) /\ (k = Len(h) \/ h[k + 1].role # "tool")

LEMMA RunEnds ==
  ASSUME NEW h \in Messages, NEW i \in DOMAIN h
  PROVE  EndsAt(h, i, Context!RunEnd(h, i))
  <1>1. i \in Nat /\ i >= 1 /\ i <= Len(h) /\ Len(h) \in Nat
    BY MessageIs DEF Messages
  <1> DEFINE S == {k \in i..Len(h) : k = Len(h) \/ h[k + 1].role # "tool"}
  <1>2. S \in SUBSET Nat /\ Len(h) \in S
    BY <1>1
  <1> HIDE DEF S
  <1>3. PICK k \in S : \A x \in S : k <= x
    BY <1>2, Least
  <1>4. k \in i..Len(h) /\ (k = Len(h) \/ h[k + 1].role # "tool")
    BY <1>3 DEF S
  <1>5. Run(h, i, k)
    <2> SUFFICES ASSUME NEW m \in (i + 1)..k PROVE h[m].role = "tool"
      BY DEF Run
    <2>1. m - 1 \in i..Len(h) /\ m - 1 < k /\ (m - 1) + 1 = m /\ m - 1 # Len(h)
      BY <1>1, <1>4
    <2>2. m - 1 \notin S
      BY <1>1, <1>3, <1>4, <2>1
    <2> QED BY <2>1, <2>2 DEF S
  <1>6. EndsAt(h, i, k)
    BY <1>4, <1>5 DEF EndsAt
  <1>7. Context!RunEnd(h, i) = CHOOSE x \in i..Len(h) : Run(h, i, x) /\ (x = Len(h) \/ h[x + 1].role # "tool")
    BY DEF Context!RunEnd, Run
  <1>8. \E x \in i..Len(h) : Run(h, i, x) /\ (x = Len(h) \/ h[x + 1].role # "tool")
    BY <1>6 DEF EndsAt
  <1> QED BY <1>7, <1>8 DEF EndsAt

LEMMA OneEnd ==
  ASSUME NEW h \in Messages, NEW i \in DOMAIN h, NEW k, NEW l, EndsAt(h, i, k), EndsAt(h, i, l)
  PROVE  k = l
  <1>1. i \in Nat /\ i >= 1 /\ i <= Len(h) /\ Len(h) \in Nat
    BY MessageIs DEF Messages
  <1>2. /\ k \in i..Len(h) /\ l \in i..Len(h) /\ Run(h, i, k) /\ Run(h, i, l)
        /\ (k = Len(h) \/ h[k + 1].role # "tool") /\ (l = Len(h) \/ h[l + 1].role # "tool")
    BY DEF EndsAt
  <1>3. ~(k < l)
    <2>1. k < l => k + 1 \in (i + 1)..l /\ k # Len(h)
      BY <1>1, <1>2
    <2> QED BY <1>2, <2>1 DEF Run
  <1>4. ~(l < k)
    <2>1. l < k => l + 1 \in (i + 1)..k /\ l # Len(h)
      BY <1>1, <1>2
    <2> QED BY <1>2, <2>1 DEF Run
  <1> QED BY <1>1, <1>2, <1>3, <1>4

\* The calls that get a stub are those behind the run.
LEMMA StubOrNot ==
  ASSUME NEW h \in Messages, NEW w \in Nat, Rounds(h, w), NEW i \in DOMAIN h, NEW k, EndsAt(h, i, k),
         h[i].calls # <<>>, NEW n \in DOMAIN h[i].calls
  PROVE  Context!Unanswered(h, i, h[i].calls[n]) <=> n > k - i
  <1> DEFINE c == h[i].calls[n]
  <1>0. /\ i \in Nat /\ i >= 1 /\ i <= Len(h) /\ Len(h) \in Nat /\ DOMAIN h = 1..Len(h)
        /\ Len(h[i].calls) \in Nat /\ DOMAIN h[i].calls = 1..Len(h[i].calls) /\ n \in Nat /\ n >= 1
    BY MessageIs DEF Messages
  <1>1. k \in i..Len(h) /\ Run(h, i, k) /\ (k = Len(h) \/ h[k + 1].role # "tool")
    BY DEF EndsAt
  <1>k. k \in Nat /\ i <= k /\ k <= Len(h)
    <2>1. \A a, b \in Nat : \A x \in a..b : x \in Nat /\ a <= x /\ x <= b
      OBVIOUS
    <2> QED BY <1>0, <1>1, <2>1
  <1>2. h[i].role # "tool"
    BY CallersCall DEF Rounds
  <1>3. CASE n <= k - i
    <2>1. i + n \in DOMAIN h /\ i + n \in (i + 1)..k
      BY <1>0, <1>k, <1>3
    <2>2. h[i + n].role = "tool"
      BY <1>1, <2>1 DEF Run
    <2>3. PICK p \in 1..((i + n) - 1) : ResultOf(h, p, i + n)
      BY <2>1, <2>2 DEF Rounds, Placed
    <2>4. p \in DOMAIN h /\ (i + n) - p \in DOMAIN h[p].calls /\ Run(h, p, i + n)
          /\ h[i + n] = Context!Tool(h[p].calls[(i + n) - p])
      BY <1>0, <2>1, <2>3 DEF ResultOf
    <2>5. Roles(h)
      BY DEF Rounds
    <2>6. h[p].role # "tool"
      BY <2>4, <2>5, CallersCall
    <2>7. Caller(h, i + n, i)
      <3>1. i \in 1..(i + n) /\ \A x \in (i + 1)..(i + n) : x \in (i + 1)..k
        BY <1>0, <1>k, <1>3
      <3> QED BY <1>1, <1>2, <3>1 DEF Caller, Run
    <2>8. i = p
      BY <1>0, <2>3, <2>4, <2>6, <2>7, OneCaller
    <2>9. h[i + n].answers = c
      <3>1. (i + n) - i = n
        BY <1>0
      <3> QED BY <2>4, <2>8, <3>1, ToolIs
    <2>10. c \in Context!Answered(h)
      BY <2>1, <2>2, <2>9 DEF Context!Answered
    <2>11. ~(n > k - i)
      BY <1>0, <1>k, <1>3
    <2> QED BY <2>10, <2>11 DEF Context!Unanswered
  <1>4. CASE n > k - i
    <2>1. ASSUME c \in Context!Answered(h) PROVE FALSE
      <3>1. PICK j \in DOMAIN h : h[j].role = "tool" /\ h[j].answers = c
        BY <2>1 DEF Context!Answered
      <3>2. PICK p \in 1..(j - 1) : ResultOf(h, p, j)
        BY <3>1 DEF Rounds, Placed
      <3>3. p \in DOMAIN h /\ j - p \in DOMAIN h[p].calls /\ Run(h, p, j)
            /\ h[j] = Context!Tool(h[p].calls[j - p])
        BY <1>0, <3>2 DEF ResultOf
      <3>4. h[p].calls[j - p] = h[i].calls[n]
        BY <3>1, <3>3, ToolIs
      <3>5. p = i /\ j - p = n
        BY <3>3, <3>4 DEF Rounds, Fresh
      <3>6. j = i + n /\ j \in 1..Len(h)
        BY <1>0, <3>5
      <3>7. k + 1 \in (i + 1)..j /\ k # Len(h)
        <4>1. k < i + n /\ i + n <= Len(h)
          BY <1>0, <1>k, <1>4, <3>6
        <4>2. j = i + n
          BY <3>6
        <4>3. \A x, y, z, v \in Nat : x <= y /\ y < z /\ z <= v => y + 1 \in (x + 1)..z /\ y # v
          OBVIOUS
        <4>4. j \in Nat /\ k < j /\ j <= Len(h)
          BY <1>0, <4>1, <4>2
        <4> QED BY <1>0, <1>k, <4>3, <4>4
      <3>8. h[k + 1].role = "tool"
        BY <3>3, <3>5, <3>7 DEF Run
      <3> QED BY <1>1, <3>7, <3>8
    <2>2. ASSUME NEW j \in 1..(i - 1), c \in Context!ToSet(h[j].calls) PROVE FALSE
      <3>1. j \in DOMAIN h /\ j # i
        BY <1>0
      <3>2. PICK l \in DOMAIN h[j].calls : h[j].calls[l] = c
        BY <2>2 DEF Context!ToSet
      <3> QED BY <3>1, <3>2 DEF Rounds, Fresh
    <2>3. Context!Unanswered(h, i, c)
      BY <2>1, <2>2 DEF Context!Unanswered
    <2> QED BY <1>4, <2>3
  <1>5. k - i \in Int
    BY <1>0, <1>k
  <1> QED BY <1>0, <1>3, <1>4, <1>5

LEMMA RestIs ==
  ASSUME NEW cs \in Seq(Nat), NEW o \in Nat, o <= Len(cs)
  PROVE  /\ Rest(cs, o) \in Seq(Nat) /\ Len(Rest(cs, o)) = Len(cs) - o
         /\ DOMAIN Rest(cs, o) = 1..(Len(cs) - o)
         /\ \A n \in 1..(Len(cs) - o) : Rest(cs, o)[n] = cs[o + n]
         /\ Len(cs) - o \in Nat
  <1>1. Len(cs) \in Nat /\ Len(cs) - o \in Nat
    OBVIOUS
  <1>2. \A n \in 1..(Len(cs) - o) : Rest(cs, o)[n] = cs[o + n] /\ cs[o + n] \in Nat
    BY <1>1 DEF Rest
  <1>3. Rest(cs, o) \in [1..(Len(cs) - o) -> Nat]
    BY <1>2 DEF Rest
  <1>4. /\ Rest(cs, o) \in Seq(Nat) /\ Len(Rest(cs, o)) = Len(cs) - o
        /\ DOMAIN Rest(cs, o) = 1..(Len(cs) - o)
    BY <1>1, <1>3, FunIsSeq
  <1> QED BY <1>1, <1>2, <1>4

\* The stubs of a message, joined: none up to the run, then one by one.
LEMMA StubsForIs ==
  ASSUME NEW h \in Messages, NEW w \in Nat, Rounds(h, w), NEW i \in DOMAIN h, NEW k, EndsAt(h, i, k),
         h[i].calls # <<>>, k - i <= Len(h[i].calls)
  PROVE  Context!StubsFor(h, i) = Results(Rest(h[i].calls, k - i))
  <1> DEFINE cs == h[i].calls
             o == k - i
             ss == [n \in DOMAIN cs |->
                     IF Context!Unanswered(h, i, cs[n]) THEN <<Context!Tool(cs[n])>> ELSE <<>>]
             r == Results(Rest(cs, o))
  <1>0. /\ i \in Nat /\ Len(h) \in Nat /\ cs \in Seq(Nat) /\ Len(cs) \in Nat /\ DOMAIN cs = 1..Len(cs)
    BY MessageIs DEF Messages
  <1>k. k \in Nat /\ i <= k
    <2>1. \A a, b \in Nat : \A x \in a..b : x \in Nat /\ a <= x
      OBVIOUS
    <2> QED BY <1>0, <2>1 DEF EndsAt
  <1>o. o \in Nat /\ o <= Len(cs)
    BY <1>0, <1>k
  <1>1. \A n \in DOMAIN cs : Context!Unanswered(h, i, cs[n]) <=> n > o
    BY StubOrNot
  <1>2. /\ r \in Messages /\ Len(r) = Len(cs) - o /\ \A n \in 1..(Len(cs) - o) : r[n] = Context!Tool(cs[o + n])
    <2>1. /\ Rest(cs, o) \in Seq(Nat) /\ Len(Rest(cs, o)) = Len(cs) - o
          /\ DOMAIN Rest(cs, o) = 1..(Len(cs) - o)
          /\ \A n \in 1..(Len(cs) - o) : Rest(cs, o)[n] = cs[o + n]
      BY <1>0, <1>o, RestIs
    <2> QED BY <2>1, ResultsAre
  <1>3. \A n \in 1..Len(cs) : ss[n] = IF n > o THEN <<Context!Tool(cs[n])>> ELSE <<>>
    BY <1>0, <1>1
  <1>4. \A n \in 1..Len(cs) : cs[n] \in Nat /\ Context!Tool(cs[n]) \in Context!Message
    BY <1>0, ToolIs
  <1>5. ss \in Seq(Seq(Context!Message)) /\ Len(ss) = Len(cs)
    <2>1. \A n \in 1..Len(cs) : ss[n] \in Seq(Context!Message)
      <3>1. <<>> \in Seq(Context!Message) /\ \A x \in Context!Message : <<x>> \in Seq(Context!Message)
        OBVIOUS
      <3> QED BY <1>3, <1>4, <3>1
    <2>2. ss \in [1..Len(cs) -> Seq(Context!Message)]
      BY <1>0, <2>1
    <2> HIDE DEF ss
    <2> QED BY <1>0, <2>2, SMTT(30)
  <1>6. Context!StubsFor(h, i) = Context!FlattenSeq(ss)
    BY DEF Context!StubsFor
  <1> HIDE DEF ss, r, o
  <1>7. PICK F : /\ Joins(F, ss, Len(ss))
                 /\ Context!FlattenSeq(ss) = F[Len(ss)]
                 /\ \A x \in 0..Len(ss) : F[x] \in Seq(Context!Message)
    BY <1>5, Joined
  <1> DEFINE Upto(n) == IF n <= o THEN 0 ELSE n - o
             Good(n) == /\ Len(F[n]) = Upto(n)
                        /\ \A x \in 1..Upto(n) : F[n][x] = Context!Tool(cs[o + x])
             S == {n \in 0..Len(cs) : Good(n)}
  <1>8. Good(0)
    BY <1>7, <1>o DEF Joins
  <1>9. ASSUME NEW n \in 0..(Len(cs) - 1), Good(n) PROVE Good(n + 1)
    <2>1. n \in Nat /\ n + 1 \in 1..Len(ss) /\ n + 1 \in 1..Len(cs) /\ (n + 1) - 1 = n /\ n \in 0..Len(ss)
      BY <1>0, <1>5, SMTT(30)
    <2>2. F[n + 1] = F[n] \o ss[n + 1]
      BY <1>7, <2>1 DEF Joins
    <2>3. F[n] \in Seq(Context!Message)
      BY <1>7, <2>1
    <2>4. CASE n + 1 <= o
      <3>0. ~(n + 1 > o)
        BY <1>o, <2>1, <2>4
      <3>1. ss[n + 1] = <<>>
        BY <1>3, <2>1, <3>0
      <3>2. \A z \in Seq(Context!Message) : z \o <<>> = z
        OBVIOUS
      <3>3. F[n + 1] = F[n]
        BY <2>2, <2>3, <3>1, <3>2
      <3>4. Upto(n) = 0 /\ Upto(n + 1) = 0
        BY <1>o, <2>1, <2>4
      <3> QED BY <1>9, <3>3, <3>4
    <2>5. CASE n + 1 > o
      <3>1. PICK t : t = Context!Tool(cs[n + 1])
        OBVIOUS
      <3>2. ss[n + 1] = <<t>> /\ t \in Context!Message
        BY <1>3, <1>4, <2>1, <2>5, <3>1
      <3>3. F[n + 1] = F[n] \o <<t>>
        BY <2>2, <3>2
      <3>4. Upto(n) = n - o /\ Upto(n + 1) = (n - o) + 1 /\ n - o \in Nat
        BY <1>o, <2>1, <2>5
      <3>5. \A z \in Seq(Context!Message) : /\ Len(z \o <<t>>) = Len(z) + 1
                                            /\ (z \o <<t>>)[Len(z) + 1] = t
                                            /\ \A x \in 1..Len(z) : (z \o <<t>>)[x] = z[x]
        BY <3>2
      <3>6. /\ Len(F[n + 1]) = Len(F[n]) + 1 /\ F[n + 1][Len(F[n]) + 1] = t
            /\ \A x \in 1..Len(F[n]) : F[n + 1][x] = F[n][x]
        BY <2>3, <3>3, <3>5
      <3>7. Len(F[n]) = n - o /\ \A x \in 1..(n - o) : F[n][x] = Context!Tool(cs[o + x])
        BY <1>9, <3>4
      <3>8. ASSUME NEW x \in 1..((n - o) + 1) PROVE F[n + 1][x] = Context!Tool(cs[o + x])
        <4>1. CASE x \in 1..(n - o)
          BY <3>6, <3>7, <4>1
        <4>2. CASE x = (n - o) + 1
          <5>1. o + x = n + 1
            BY <1>o, <2>1, <4>2
          <5> QED BY <3>1, <3>6, <3>7, <4>2, <5>1
        <4>3. x \in 1..(n - o) \/ x = (n - o) + 1
          BY <3>4
        <4> QED BY <4>1, <4>2, <4>3
      <3> HIDE DEF Upto
      <3> QED BY <3>4, <3>6, <3>7, <3>8
    <2> QED BY <1>o, <2>1, <2>4, <2>5
  <1> HIDE DEF Good
  <1>10. \A n \in 0..Len(cs) : n \in S
    <2>1. 0 \in S /\ \A n \in 0..(Len(cs) - 1) : n \in S => n + 1 \in S
      BY <1>0, <1>8, <1>9
    <2> HIDE DEF S, cs
    <2> QED BY <1>0, <2>1, UpTo
  <1>11. Good(Len(cs))
    BY <1>0, <1>10
  <1>12. Upto(Len(cs)) = Len(cs) - o
    BY <1>0, <1>o
  <1> HIDE DEF Upto
  <1>13. /\ F[Len(cs)] \in Seq(Context!Message) /\ Len(F[Len(cs)]) = Len(cs) - o
         /\ \A x \in 1..(Len(cs) - o) : F[Len(cs)][x] = Context!Tool(cs[o + x])
    BY <1>0, <1>5, <1>7, <1>11, <1>12 DEF Good
  <1>14. F[Len(cs)] = r
    <2>1. \A y, z \in Seq(Context!Message) :
            Len(y) = Len(z) /\ (\A x \in 1..Len(y) : y[x] = z[x]) => y = z
      OBVIOUS
    <2>2. r \in Seq(Context!Message) /\ \A x \in 1..(Len(cs) - o) : F[Len(cs)][x] = r[x]
      BY <1>2, <1>13 DEF Messages
    <2>3. Len(F[Len(cs)]) = Len(r)
      BY <1>2, <1>13
    <2> HIDE DEF cs
    <2> QED BY <1>13, <2>1, <2>2, <2>3
  <1> QED BY <1>5, <1>6, <1>7, <1>14 DEF r, o

\* Behind message k there is nothing to repair as long as its run goes on,
\* and then what its caller still lacks.
LEMMA StubsAfterIs ==
  ASSUME NEW h \in Messages, NEW w \in Nat, Rounds(h, w), NEW k \in DOMAIN h,
         NEW i \in DOMAIN h, Caller(h, k, i), k - i <= Len(h[i].calls)
  PROVE  Context!StubsAfter(h, k) =
           IF k < Len(h) /\ h[k + 1].role = "tool" THEN <<>> ELSE Results(Rest(h[i].calls, k - i))
  <1> DEFINE round == {x \in 1..k : h[x].calls # <<>> /\ Context!RunEnd(h, x) = k}
  <1>0. /\ i \in Nat /\ k \in Nat /\ 1 <= i /\ i <= k /\ k <= Len(h) /\ Len(h) \in Nat
        /\ DOMAIN h = 1..Len(h) /\ h[i].calls \in Seq(Nat) /\ Len(h[i].calls) \in Nat
    <2>1. \A x, y \in Nat : x \in 1..y => 1 <= x /\ x <= y
      OBVIOUS
    <2> QED BY <2>1, MessageIs DEF Messages, Caller
  <1>1. \A x \in 1..k : x \in DOMAIN h /\ EndsAt(h, x, Context!RunEnd(h, x))
    BY <1>0, RunEnds
  <1>2. Context!StubsAfter(h, k) =
          IF round = {} THEN <<>> ELSE Context!StubsFor(h, CHOOSE x \in round : TRUE)
    BY DEF Context!StubsAfter
  <1>3. ASSUME NEW x \in round PROVE x = i /\ h[i].calls # <<>> /\ EndsAt(h, i, k)
    <2>1. x \in 1..k /\ x \in DOMAIN h /\ h[x].calls # <<>> /\ EndsAt(h, x, k)
      BY <1>1
    <2>2. h[x].role # "tool"
      BY <2>1, CallersCall DEF Rounds
    <2>3. Run(h, x, k)
      BY <2>1 DEF EndsAt
    <2>4. i = x
      BY <1>0, <2>1, <2>2, <2>3, OneCaller
    <2> QED BY <2>1, <2>4
  <1>4. CASE k < Len(h) /\ h[k + 1].role = "tool"
    <2>1. round = {}
      <3>1. ~EndsAt(h, i, k)
        BY <1>0, <1>4 DEF EndsAt
      <3> HIDE DEF round
      <3> QED BY <1>3, <3>1
    <2> QED BY <1>2, <1>4, <2>1
  <1>5. CASE ~(k < Len(h) /\ h[k + 1].role = "tool")
    <2>1. EndsAt(h, i, k)
      BY <1>0, <1>5 DEF EndsAt, Caller
    <2>2. CASE h[i].calls = <<>>
      <3>1. round = {}
        <4> HIDE DEF round
        <4> QED BY <1>3, <2>2
      <3>2. k - i = 0 /\ Len(h[i].calls) = 0
        BY <1>0, <2>2
      <3>3. Rest(h[i].calls, k - i) \in Seq(Nat) /\ Len(Rest(h[i].calls, k - i)) = 0
        <4>1. 0 \in Nat /\ 0 <= Len(h[i].calls) /\ Len(h[i].calls) - 0 = 0
          BY <3>2
        <4>2. Rest(h[i].calls, 0) \in Seq(Nat) /\ Len(Rest(h[i].calls, 0)) = Len(h[i].calls) - 0
          BY <1>0, <4>1, RestIs
        <4> QED BY <3>2, <4>1, <4>2
      <3>4. Results(Rest(h[i].calls, k - i)) \in Messages /\ Len(Results(Rest(h[i].calls, k - i))) = 0
        BY <3>3, ResultsAre
      <3>5. \A z \in Seq(Context!Message) : Len(z) = 0 => z = <<>>
        OBVIOUS
      <3>6. Results(Rest(h[i].calls, k - i)) = <<>>
        BY <3>4, <3>5 DEF Messages
      <3> QED BY <1>2, <1>5, <3>1, <3>6
    <2>3. CASE h[i].calls # <<>>
      <3>1. Context!RunEnd(h, i) = k
        <4>1. EndsAt(h, i, Context!RunEnd(h, i))
          BY RunEnds
        <4> QED BY <2>1, <4>1, OneEnd
      <3>2. i \in round
        BY <1>0, <2>3, <3>1
      <3>3. round = {i}
        <4> HIDE DEF round
        <4> QED BY <1>3, <3>2
      <3> HIDE DEF round
      <3>4. (CHOOSE x \in round : TRUE) = i
        BY <3>3
      <3>5. Context!StubsFor(h, i) = Results(Rest(h[i].calls, k - i))
        BY <2>1, <2>3, StubsForIs
      <3>6. round # {}
        BY <3>2
      <3> QED BY <1>2, <1>5, <3>4, <3>5, <3>6
    <2> QED BY <2>2, <2>3
  <1> QED BY <1>4, <1>5

\* What a history owes after message k, when its run goes on.
Lacks(h, k, i) ==
    IF k < Len(h) /\ h[k + 1].role = "tool" THEN Rest(h[i].calls, k - i) ELSE <<>>

\* The calls of g are calls of the first k messages of h.
Below(g, h, k) ==
    \A x \in DOMAIN g : g[x].calls # <<>> => \E y \in 1..k : g[x].calls = h[y].calls

\* The first k messages of h, repaired, are g.
Repaired(g, h, k, w) ==
    /\ g \in Messages /\ Rounds(g, w) /\ Below(g, h, k)
    /\ k = 0 => Due(g, <<>>)
    /\ k # 0 => \E i \in DOMAIN h : /\ Caller(h, k, i) /\ k - i <= Len(h[i].calls)
                                    /\ Due(g, Lacks(h, k, i)) /\ Owes(g, Lacks(h, k, i))

\* A message that is no result is new to what stood before it.
LEMMA NewCall ==
  ASSUME NEW h \in Messages, NEW w \in Nat, Rounds(h, w), NEW k \in Nat, k + 1 \in DOMAIN h,
         NEW g, Below(g, h, k)
  PROVE  Novel(g, h[k + 1], w)
  <1> DEFINE m == h[k + 1]
  <1>1. \A l \in DOMAIN m.calls : m.calls[l] <= w
    BY DEF Rounds, Fresh
  <1>2. \A x, l \in DOMAIN m.calls : m.calls[x] = m.calls[l] => x = l
    BY DEF Rounds, Fresh
  <1>3. ASSUME NEW i \in DOMAIN g, NEW x \in DOMAIN g[i].calls, NEW l \in DOMAIN m.calls,
               g[i].calls[x] = m.calls[l]
        PROVE  FALSE
    <2>1. DOMAIN <<>> = {}
      OBVIOUS
    <2>2. PICK y \in 1..k : g[i].calls = h[y].calls
      BY <2>1 DEF Below
    <2>3. y \in DOMAIN h /\ y # k + 1
      BY DEF Messages
    <2>4. h[y].calls[x] = h[k + 1].calls[l] /\ x \in DOMAIN h[y].calls
      BY <1>3, <2>2
    <2> QED BY <2>3, <2>4 DEF Rounds, Fresh
  <1> QED BY <1>1, <1>2, <1>3 DEF Novel

LEMMA RestAll ==
  ASSUME NEW cs \in Seq(Nat)
  PROVE  Rest(cs, 0) = cs
  <1>1. Len(cs) \in Nat /\ Len(cs) - 0 = Len(cs)
    OBVIOUS
  <1>2. /\ Rest(cs, 0) \in Seq(Nat) /\ Len(Rest(cs, 0)) = Len(cs) - 0
        /\ \A n \in 1..(Len(cs) - 0) : Rest(cs, 0)[n] = cs[0 + n]
    BY <1>1, RestIs, 0 \in Nat, 0 <= Len(cs)
  <1>3. \A n \in 1..Len(cs) : Rest(cs, 0)[n] = cs[n]
    BY <1>1, <1>2
  <1>4. Len(Rest(cs, 0)) = Len(cs) /\ \A n \in 1..Len(Rest(cs, 0)) : Rest(cs, 0)[n] = cs[n]
    BY <1>1, <1>2, <1>3
  <1> QED BY <1>2, <1>4, SameSeq

LEMMA RestTail ==
  ASSUME NEW cs \in Seq(Nat), NEW o \in Nat, o < Len(cs)
  PROVE  /\ Rest(cs, o) \in Seq(Nat) /\ Rest(cs, o) # <<>> /\ Head(Rest(cs, o)) = cs[o + 1]
         /\ Tail(Rest(cs, o)) = Rest(cs, o + 1)
  <1> DEFINE r == Rest(cs, o)
             t == Rest(cs, o + 1)
  <1>1. Len(cs) \in Nat /\ o + 1 <= Len(cs) /\ o <= Len(cs) /\ o + 1 \in Nat
    OBVIOUS
  <1>2. /\ r \in Seq(Nat) /\ Len(r) = Len(cs) - o
        /\ \A n \in 1..(Len(cs) - o) : r[n] = cs[o + n]
    BY <1>1, RestIs
  <1>3. /\ t \in Seq(Nat) /\ Len(t) = Len(cs) - (o + 1)
        /\ \A n \in 1..(Len(cs) - (o + 1)) : t[n] = cs[(o + 1) + n]
    BY <1>1, RestIs
  <1> HIDE DEF r, t
  <1>4. r # <<>> /\ Head(r) = r[1] /\ r[1] = cs[o + 1]
    BY <1>1, <1>2
  <1>5. Tail(r) \in Seq(Nat) /\ Len(Tail(r)) = Len(r) - 1 /\ \A n \in 1..(Len(r) - 1) : Tail(r)[n] = r[n + 1]
    BY <1>1, <1>2, <1>4
  <1>6. ASSUME NEW n \in 1..(Len(cs) - (o + 1)) PROVE Tail(r)[n] = t[n]
    <2>1. n \in 1..(Len(r) - 1) /\ n + 1 \in 1..(Len(cs) - o) /\ o + (n + 1) = (o + 1) + n
      BY <1>1, <1>2
    <2> QED BY <1>2, <1>3, <1>5, <2>1
  <1>7. Len(Tail(r)) = Len(t)
    BY <1>1, <1>2, <1>3, <1>5
  <1>8. \A n \in 1..Len(Tail(r)) : Tail(r)[n] = t[n]
    BY <1>1, <1>3, <1>6, <1>7
  <1>9. Tail(r) = t
    BY <1>3, <1>5, <1>7, <1>8, SameSeq
  <1> QED BY <1>2, <1>4, <1>9 DEF r, t

\* One message more, before its stubs.
LEMMA RepairedMessage ==
  ASSUME NEW h \in Messages, NEW w \in Nat, Rounds(h, w), NEW k \in Nat, k + 1 \in DOMAIN h,
         NEW g, Repaired(g, h, k, w)
  PROVE  \E i \in DOMAIN h :
           /\ Caller(h, k + 1, i) /\ (k + 1) - i <= Len(h[i].calls)
           /\ Append(g, h[k + 1]) \in Messages /\ Rounds(Append(g, h[k + 1]), w)
           /\ Below(Append(g, h[k + 1]), h, k + 1)
           /\ Rest(h[i].calls, (k + 1) - i) \in Seq(Nat)
           /\ Due(Append(g, h[k + 1]), Rest(h[i].calls, (k + 1) - i))
           /\ Owes(Append(g, h[k + 1]), Rest(h[i].calls, (k + 1) - i))
  <1> DEFINE m == h[k + 1]
             a == Append(g, m)
  <1>0. /\ g \in Messages /\ Rounds(g, w) /\ Below(g, h, k) /\ k + 1 \in Nat
        /\ Len(h) \in Nat /\ DOMAIN h = 1..Len(h) /\ k + 1 <= Len(h)
    BY DEF Repaired, Messages
  <1>1. m \in Context!Message /\ m.calls \in Seq(Nat)
    BY MessageIs
  <1>2. PICK i \in DOMAIN h : Caller(h, k + 1, i) /\ (k + 1) - i <= Len(h[i].calls)
    BY <1>0, CallerIs DEF Rounds
  <1>3. /\ i \in Nat /\ i >= 1 /\ h[i].calls \in Seq(Nat) /\ Len(h[i].calls) \in Nat
        /\ h[i].role # "tool" /\ Run(h, i, k + 1) /\ i <= k + 1
    <2>1. i \in Nat /\ i >= 1 /\ h[i].calls \in Seq(Nat) /\ Len(h[i].calls) \in Nat
      BY MessageIs
    <2>2. \A x \in 1..(k + 1) : x <= k + 1
      OBVIOUS
    <2> QED BY <1>2, <2>1, <2>2 DEF Caller
  <1>4. (k + 1) - i \in Nat
    BY <1>0, <1>3
  <1>5. Rest(h[i].calls, (k + 1) - i) \in Seq(Nat)
    BY <1>2, <1>3, <1>4, RestIs
  <1>6. /\ a \in Messages /\ Len(a) = Len(g) + 1 /\ a[Len(g) + 1] = m
        /\ \A x \in DOMAIN g : x \in DOMAIN a /\ a[x] = g[x]
        /\ \A x \in DOMAIN a : x \in DOMAIN g \/ x = Len(g) + 1
        /\ DOMAIN a = 1..(Len(g) + 1) /\ DOMAIN g = 1..Len(g) /\ Len(g) \in Nat
    <2> HIDE DEF m
    <2> QED BY <1>0, <1>1, Appending
  <1> HIDE DEF a
  <1>7. Below(a, h, k + 1)
    <2> SUFFICES ASSUME NEW x \in DOMAIN a, a[x].calls # <<>>
                 PROVE  \E y \in 1..(k + 1) : a[x].calls = h[y].calls
      BY DEF Below
    <2>1. CASE x \in DOMAIN g
      <3>1. PICK y \in 1..k : g[x].calls = h[y].calls
        BY <1>0, <1>6, <2>1 DEF Below
      <3>2. y \in 1..(k + 1) /\ a[x].calls = h[y].calls
        BY <1>6, <2>1, <3>1
      <3> QED BY <3>2
    <2>2. CASE x = Len(g) + 1
      <3>1. k + 1 \in 1..(k + 1)
        OBVIOUS
      <3> QED BY <1>6, <2>2, <3>1
    <2> QED BY <1>6, <2>1, <2>2
  <1>8. CASE m.role # "tool"
    <2>1. i = k + 1
      <3>1. k + 1 \in 1..(k + 1) /\ Run(h, k + 1, k + 1)
        BY DEF Run
      <3> QED BY <1>0, <1>2, <1>8, <3>1, OneCaller
    <2>2. Rest(h[i].calls, (k + 1) - i) = m.calls
      <3>1. (k + 1) - i = 0
        BY <1>3, <2>1
      <3> QED BY <1>1, <2>1, <3>1, RestAll
    <2>3. Due(g, <<>>)
      <3>1. CASE k = 0
        BY <3>1 DEF Repaired
      <3>2. CASE k # 0
        <4>1. \A x : Lacks(h, k, x) = <<>>
          BY <1>8 DEF Lacks
        <4> QED BY <3>2, <4>1 DEF Repaired
      <3> QED BY <3>1, <3>2
    <2>4. Novel(g, m, w) /\ (m.calls # <<>> => m.role = "assistant")
      BY <1>0, NewCall DEF Rounds, Roles
    <2>5. Rounds(Append(g, m), w)
      <3>1. w <= w
        OBVIOUS
      <3> HIDE DEF m
      <3> QED BY <1>0, <1>1, <1>8, <2>4, <3>1, SayRounds
    <2>6. Due(Append(g, m), m.calls) /\ Owes(Append(g, m), m.calls)
      <3> HIDE DEF m
      <3> QED BY <1>0, <1>1, <2>3, SayDue
    <2> QED BY <1>2, <1>5, <1>6, <1>7, <2>2, <2>5, <2>6 DEF a
  <1>9. CASE m.role = "tool"
    <2>1. PICK p \in 1..((k + 1) - 1) : ResultOf(h, p, k + 1)
      BY <1>9 DEF Rounds, Placed
    <2>2. p \in DOMAIN h /\ p \in 1..(k + 1) /\ p \in 1..k
      BY <1>0, <2>1
    <2>3. /\ (k + 1) - p \in DOMAIN h[p].calls /\ m = Context!Tool(h[p].calls[(k + 1) - p])
          /\ Run(h, p, k + 1)
      BY <2>1 DEF ResultOf
    <2>4. h[p].role # "tool"
      BY <2>2, <2>3, CallersCall DEF Rounds
    <2>5. i = p
      BY <1>0, <1>2, <2>2, <2>3, <2>4, OneCaller
    <2>6. k # 0 /\ k \in DOMAIN h
      BY <1>0, <2>2
    <2>7. PICK j \in DOMAIN h : /\ Caller(h, k, j) /\ k - j <= Len(h[j].calls)
                                /\ Due(g, Lacks(h, k, j)) /\ Owes(g, Lacks(h, k, j))
      BY <2>6 DEF Repaired
    <2>8. j = i
      <3>1. i \in 1..k /\ Run(h, i, k)
        <4>1. \A x \in (i + 1)..k : x \in (i + 1)..(k + 1)
          BY <1>3
        <4> QED BY <1>3, <2>2, <2>5, <4>1 DEF Run
      <3> QED BY <1>3, <2>7, <3>1, OneCaller
    <2> DEFINE cs == h[i].calls
               o == k - i
    <2>9. o \in Nat /\ o < Len(cs) /\ o + 1 = (k + 1) - i
      BY <1>2, <1>3, <2>2, <2>5
    <2>10. Lacks(h, k, i) = Rest(cs, o)
      <3>1. k < Len(h)
        BY <1>0
      <3> QED BY <1>9, <3>1 DEF Lacks
    <2>11. m = Context!Tool(cs[o + 1])
      BY <2>3, <2>5, <2>9
    <2> HIDE DEF o, cs, m
    <2>12. /\ Rest(cs, o) \in Seq(Nat) /\ Rest(cs, o) # <<>> /\ Head(Rest(cs, o)) = cs[o + 1]
           /\ Tail(Rest(cs, o)) = Rest(cs, o + 1)
      BY <1>3, <2>9, RestTail DEF cs
    <2>13. Rounds(a, w) /\ Owes(a, Rest(cs, o + 1))
      BY <1>0, <2>7, <2>8, <2>10, <2>11, <2>12, AnswerRounds DEF a
    <2>14. Due(a, Rest(cs, o + 1))
      BY <1>0, <2>7, <2>8, <2>10, <2>11, <2>12, AnswerDue DEF a
    <2> QED BY <1>2, <1>5, <1>6, <1>7, <2>9, <2>13, <2>14 DEF a, m, cs
  <1> QED BY <1>8, <1>9

\* And with its stubs.
LEMMA RepairedStep ==
  ASSUME NEW h \in Messages, NEW w \in Nat, Rounds(h, w), NEW k \in Nat, k + 1 \in DOMAIN h,
         NEW g, Repaired(g, h, k, w)
  PROVE  /\ Repaired(g \o (<<h[k + 1]>> \o Context!StubsAfter(h, k + 1)), h, k + 1, w)
         /\ Context!StubsAfter(h, k + 1) \in Messages
  <1> DEFINE m == h[k + 1]
             a == Append(g, m)
             stubs == Context!StubsAfter(h, k + 1)
             n == k + 1
  <1>0. /\ g \in Messages /\ m \in Context!Message /\ n \in Nat /\ n # 0
        /\ Len(h) \in Nat /\ n <= Len(h) /\ n >= 1
    BY MessageIs DEF Repaired, Messages
  <1>1. PICK i \in DOMAIN h :
           /\ Caller(h, n, i) /\ n - i <= Len(h[i].calls)
           /\ a \in Messages /\ Rounds(a, w) /\ Below(a, h, n)
           /\ Rest(h[i].calls, n - i) \in Seq(Nat)
           /\ Due(a, Rest(h[i].calls, n - i)) /\ Owes(a, Rest(h[i].calls, n - i))
    BY RepairedMessage
  <1>2. stubs = IF n < Len(h) /\ h[n + 1].role = "tool" THEN <<>> ELSE Results(Rest(h[i].calls, n - i))
    BY <1>1, StubsAfterIs
  <1>3. \A z \in Seq(Context!Message) : g \o (<<m>> \o z) = a \o z
    BY <1>0, SMTT(30) DEF Messages
  <1> HIDE DEF m, a, stubs
  <1>4. CASE n < Len(h) /\ h[n + 1].role = "tool"
    <2>1. stubs = <<>> /\ Lacks(h, n, i) = Rest(h[i].calls, n - i)
      BY <1>2, <1>4 DEF Lacks
    <2>2. <<>> \in Messages
      BY DEF Messages
    <2>3. \A z \in Seq(Context!Message) : z \o <<>> = z
      OBVIOUS
    <2>4. g \o (<<m>> \o stubs) = a
      BY <1>1, <1>3, <2>1, <2>2, <2>3 DEF Messages
    <2> HIDE DEF n
    <2>5. Repaired(a, h, n, w)
      BY <1>0, <1>1, <2>1 DEF Repaired
    <2> QED BY <2>1, <2>2, <2>4, <2>5 DEF m, a, stubs, n
  <1>5. CASE ~(n < Len(h) /\ h[n + 1].role = "tool")
    <2> DEFINE rest == Rest(h[i].calls, n - i)
               g2 == a \o Results(rest)
    <2>1. stubs = Results(rest) /\ Lacks(h, n, i) = <<>>
      BY <1>2, <1>5 DEF Lacks
    <2> HIDE DEF rest
    <2>2. g2 \in Messages /\ Rounds(g2, w) /\ Due(g2, <<>>)
      BY <1>1, AnswerAll DEF rest
    <2>3. /\ Results(rest) \in Messages /\ \A x \in DOMAIN Results(rest) : Results(rest)[x].calls = <<>>
      BY <1>1, ResultsAre, ToolIs DEF rest
    <2>4. Below(g2, h, n)
      <3> SUFFICES ASSUME NEW x \in DOMAIN g2, g2[x].calls # <<>>
                   PROVE  x \in DOMAIN a /\ g2[x] = a[x]
        BY <1>1 DEF Below
      <3>1. a \in Seq(Context!Message) /\ Results(rest) \in Seq(Context!Message)
        BY <1>1, <2>3 DEF Messages
      <3>2. x \in DOMAIN a \/ (x - Len(a) \in DOMAIN Results(rest) /\ g2[x] = Results(rest)[x - Len(a)])
        BY <3>1
      <3>3. x \in DOMAIN a => g2[x] = a[x]
        BY <3>1
      <3> QED BY <2>3, <3>2, <3>3
    <2>5. g \o (<<m>> \o stubs) = g2
      BY <1>3, <2>1, <2>3 DEF Messages
    <2>6. Owes(g2, <<>>)
      BY DEF Owes
    <2> HIDE DEF g2, n
    <2>7. Repaired(g2, h, n, w)
      BY <1>0, <1>1, <2>1, <2>2, <2>4, <2>6 DEF Repaired
    <2> QED BY <2>1, <2>3, <2>5, <2>7 DEF m, a, stubs, n
  <1> QED BY <1>4, <1>5

Pieces(h) == [k \in DOMAIN h |-> <<h[k]>> \o Context!StubsAfter(h, k)]

LEMMA PiecesAre ==
  ASSUME NEW h \in Messages, NEW w \in Nat, Rounds(h, w)
  PROVE  /\ Pieces(h) \in Seq(Messages) /\ Len(Pieces(h)) = Len(h)
         /\ \A k \in 1..Len(h) : /\ Context!StubsAfter(h, k) \in Messages
                                 /\ Pieces(h)[k] = <<h[k]>> \o Context!StubsAfter(h, k)
  <1>0. Len(h) \in Nat /\ DOMAIN h = 1..Len(h)
    BY DEF Messages
  <1>1. ASSUME NEW k \in DOMAIN h
        PROVE  Context!StubsAfter(h, k) \in Messages /\ Pieces(h)[k] = <<h[k]>> \o Context!StubsAfter(h, k)
               /\ Pieces(h)[k] \in Messages
    <2>1. PICK i \in DOMAIN h : Caller(h, k, i) /\ k - i <= Len(h[i].calls)
      BY CallerIs DEF Rounds
    <2>2. Context!StubsAfter(h, k) =
            IF k < Len(h) /\ h[k + 1].role = "tool" THEN <<>> ELSE Results(Rest(h[i].calls, k - i))
      BY <2>1, StubsAfterIs
    <2>3. k - i \in Nat /\ h[i].calls \in Seq(Nat)
      <3>1. \A x, y \in Nat : x \in 1..y => y - x \in Nat
        OBVIOUS
      <3> QED BY <2>1, <3>1, MessageIs DEF Caller
    <2>4. Rest(h[i].calls, k - i) \in Seq(Nat)
      BY <2>1, <2>3, RestIs
    <2>5. Results(Rest(h[i].calls, k - i)) \in Messages /\ <<>> \in Messages
      BY <2>4, ResultsAre DEF Messages
    <2>6. Context!StubsAfter(h, k) \in Messages
      BY <2>2, <2>5
    <2>7. Pieces(h)[k] = <<h[k]>> \o Context!StubsAfter(h, k)
      BY DEF Pieces
    <2>8. <<h[k]>> \in Messages
      BY MessageIs DEF Messages
    <2>9. \A y, z \in Messages : y \o z \in Messages
      BY DEF Messages
    <2> QED BY <2>6, <2>7, <2>8, <2>9
  <1>2. DOMAIN Pieces(h) = 1..Len(h) /\ Pieces(h) = [k \in 1..Len(h) |-> Pieces(h)[k]]
    BY <1>0 DEF Pieces
  <1>3. Pieces(h) \in [1..Len(h) -> Messages]
    BY <1>0, <1>1, <1>2
  <1>4. Pieces(h) \in Seq(Messages) /\ Len(Pieces(h)) = Len(h)
    BY <1>0, <1>3, FunIsSeq
  <1> QED BY <1>0, <1>1, <1>4

\* Sequences of A, joined one after the other.
Joining(F, ss, L, A) ==
    /\ Joins(F, ss, L)
    /\ \A k \in 0..L : F[k] \in Seq(A)
    /\ \A k \in 1..L : ss[k] \in Seq(A)

\* What was joined stays in front.
LEMMA JoinFront ==
  ASSUME NEW A, NEW ss, NEW F, NEW L \in Nat, Joining(F, ss, L, A),
         NEW k \in 0..L, NEW x \in 1..Len(F[k])
  PROVE  x \in 1..Len(F[L]) /\ F[L][x] = F[k][x]
  <1> DEFINE S == {n \in 0..(L - k) : x \in 1..Len(F[k + n]) /\ F[k + n][x] = F[k][x]}
  <1>0. k \in Nat /\ L - k \in Nat /\ k + 0 = k /\ k + (L - k) = L /\ 0 \in 0..(L - k) /\ L - k \in 0..(L - k)
    OBVIOUS
  <1>1. 0 \in S
    BY <1>0
  <1>2. \A n \in 0..((L - k) - 1) : n \in S => n + 1 \in S
    <2> SUFFICES ASSUME NEW n \in 0..((L - k) - 1), n \in S PROVE n + 1 \in S
      OBVIOUS
    <2>1. /\ n + 1 \in 0..(L - k) /\ k + n \in 0..L /\ k + (n + 1) \in 1..L
          /\ (k + (n + 1)) - 1 = k + n
      <3>1. n \in Nat /\ n + 1 <= L - k
        BY <1>0
      <3>2. \A a, b, c \in Nat : b + 1 <= c - a => /\ b + 1 \in 0..(c - a) /\ a + b \in 0..c
              /\ a + (b + 1) \in 1..c /\ (a + (b + 1)) - 1 = a + b
        OBVIOUS
      <3> HIDE DEF S
      <3> QED BY <1>0, <3>1, <3>2
    <2>2. F[k + (n + 1)] = F[k + n] \o ss[k + (n + 1)]
      BY <2>1 DEF Joins, Joining
    <2>3. F[k + n] \in Seq(A) /\ ss[k + (n + 1)] \in Seq(A)
      BY <2>1 DEF Joining
    <2>4. x \in 1..Len(F[k + n]) /\ F[k + n][x] = F[k][x]
      OBVIOUS
    <2>5. \A y, z \in Seq(A) : \A v \in 1..Len(y) : v \in 1..Len(y \o z) /\ (y \o z)[v] = y[v]
      OBVIOUS
    <2>6. x \in 1..Len(F[k + (n + 1)]) /\ F[k + (n + 1)][x] = F[k][x]
      BY <2>2, <2>3, <2>4, <2>5
    <2> QED BY <2>1, <2>6
  <1> HIDE DEF S
  <1>3. \A n \in 0..(L - k) : n \in S
    BY <1>0, <1>1, <1>2, UpTo
  <1>4. L - k \in S
    BY <1>0, <1>3
  <1> QED BY <1>0, <1>4 DEF S

\* A repaired history has every result in its place.
LEMMA EnsureIs ==
  ASSUME NEW h \in Messages, NEW w \in Nat, Rounds(h, w)
  PROVE  /\ Context!EnsureIntegrity(h) \in Messages /\ Rounds(Context!EnsureIntegrity(h), w)
         /\ Due(Context!EnsureIntegrity(h), <<>>)
         /\ h = <<>> => Context!EnsureIntegrity(h) = <<>>
         /\ Headed(h) => Headed(Context!EnsureIntegrity(h))
         /\ h # <<>> => Context!EnsureIntegrity(h)[1] = h[1]
  <1> DEFINE E == Context!EnsureIntegrity(h)
             L == Len(h)
  <1>0. L \in Nat /\ DOMAIN h = 1..L /\ (h = <<>> <=> L = 0)
    BY DEF Messages
  <1>1. /\ Pieces(h) \in Seq(Messages) /\ Len(Pieces(h)) = L
        /\ \A k \in 1..L : /\ Context!StubsAfter(h, k) \in Messages
                           /\ Pieces(h)[k] = <<h[k]>> \o Context!StubsAfter(h, k)
    BY PiecesAre
  <1>2. E = Context!FlattenSeq(Pieces(h))
    BY DEF Context!EnsureIntegrity, Pieces
  <1> HIDE DEF E, L
  <1>3. PICK F : /\ Joins(F, Pieces(h), L) /\ E = F[L]
                 /\ \A k \in 0..L : F[k] \in Seq(Context!Message)
    <2>1. Pieces(h) \in Seq(Seq(Context!Message))
      BY <1>1 DEF Messages
    <2> QED BY <1>1, <1>2, <2>1, Joined
  <1> DEFINE S == {k \in 0..L : Repaired(F[k], h, k, w)}
  <1>4. 0 \in S
    <2>1. F[0] = <<>> /\ 0 \in 0..L /\ DOMAIN <<>> = {} /\ <<>> \in Messages
      BY <1>0, <1>3 DEF Joins, Messages
    <2>2. Repaired(<<>>, h, 0, w)
      BY <2>1 DEF Repaired, Rounds, Roles, Placed, Fresh, Below, Due
    <2> QED BY <2>1, <2>2
  <1>5. \A k \in 0..(L - 1) : k \in S => k + 1 \in S
    <2> SUFFICES ASSUME NEW k \in 0..(L - 1), Repaired(F[k], h, k, w)
                 PROVE  k + 1 \in 0..L /\ Repaired(F[k + 1], h, k + 1, w)
      OBVIOUS
    <2>1. k \in Nat /\ k + 1 \in 1..L /\ k + 1 \in 0..L /\ k + 1 \in DOMAIN h /\ (k + 1) - 1 = k
      BY <1>0
    <2>2. F[k + 1] = F[k] \o (<<h[k + 1]>> \o Context!StubsAfter(h, k + 1))
      BY <1>1, <1>3, <2>1 DEF Joins
    <2>3. Repaired(F[k + 1], h, k + 1, w)
      BY <2>1, <2>2, RepairedStep
    <2> QED BY <2>1, <2>3
  <1> HIDE DEF S
  <1>6. \A k \in 0..L : k \in S
    BY <1>0, <1>4, <1>5, UpTo
  <1>7. Repaired(E, h, L, w)
    <2>1. L \in 0..L
      BY <1>0
    <2> QED BY <1>3, <1>6, <2>1 DEF S
  <1>8. Due(E, <<>>)
    <2>1. \A i : Lacks(h, L, i) = <<>>
      BY <1>0 DEF Lacks, L
    <2> QED BY <1>7, <2>1 DEF Repaired
  <1>9. h = <<>> => E = <<>>
    BY <1>0, <1>3 DEF Joins
  <1>p. \A k \in 1..L : Pieces(h)[k] \in Seq(Context!Message)
    BY <1>1 DEF Messages
  <1>j. Joining(F, Pieces(h), L, Context!Message)
    BY <1>3, <1>p DEF Joining
  <1>10. ASSUME h # <<>>
         PROVE  /\ 1 \in 1..Len(E) /\ E[1] = h[1]
                /\ Context!StubsAfter(h, 1) = <<>> /\ L >= 2 => 2 \in 1..Len(E) /\ E[2] = h[2]
    <2>1. 1 \in 1..L /\ 0 \in 0..L /\ 1 \in 0..L /\ 1 - 1 = 0
      BY <1>0, <1>10
    <2>2. h[1] \in Context!Message /\ Context!StubsAfter(h, 1) \in Seq(Context!Message)
      BY <1>0, <1>1, <2>1, MessageIs DEF Messages
    <2>3. F[1] = <<h[1]>> \o Context!StubsAfter(h, 1)
      <3>1. F[1] = F[1 - 1] \o Pieces(h)[1] /\ F[0] = <<>>
        BY <1>3, <2>1 DEF Joins
      <3>2. \A z \in Seq(Context!Message) : <<>> \o z = z
        OBVIOUS
      <3>3. Pieces(h)[1] \in Seq(Context!Message)
        BY <1>p, <2>1
      <3> QED BY <1>1, <2>1, <3>1, <3>2, <3>3
    <2>4. 1 \in 1..Len(F[1]) /\ F[1][1] = h[1]
      BY <2>2, <2>3
    <2>5. 1 \in 1..Len(E) /\ E[1] = h[1]
      BY <1>0, <1>3, <1>j, <2>1, <2>4, JoinFront
    <2>6. ASSUME Context!StubsAfter(h, 1) = <<>>, L >= 2
          PROVE  2 \in 1..Len(E) /\ E[2] = h[2]
      <3>1. 2 \in 1..L /\ 2 \in 0..L /\ 2 - 1 = 1
        BY <1>0, <2>6
      <3>2. F[2] = F[1] \o (<<h[2]>> \o Context!StubsAfter(h, 2))
        BY <1>1, <1>3, <3>1 DEF Joins
      <3>3. F[1] = <<h[1]>>
        <4>1. \A z \in Seq(Context!Message) : z \o <<>> = z
          OBVIOUS
        <4>2. <<h[1]>> \in Seq(Context!Message)
          BY <2>2
        <4> QED BY <2>3, <2>6, <4>1, <4>2
      <3>4. h[2] \in Context!Message /\ Context!StubsAfter(h, 2) \in Seq(Context!Message)
        BY <1>0, <1>1, <3>1, MessageIs DEF Messages
      <3>5. 2 \in 1..Len(F[2]) /\ F[2][2] = h[2]
        BY <2>2, <3>2, <3>3, <3>4
      <3> QED BY <1>0, <1>3, <1>j, <3>1, <3>5, JoinFront
    <2> QED BY <2>5, <2>6
  <1>11. ASSUME Headed(h) PROVE Headed(E)
    <2>1. h # <<>>
      BY <1>0, <1>11 DEF Headed
    <2>e. E \in Seq(Context!Message) /\ DOMAIN E = 1..Len(E)
      BY <1>7 DEF Repaired, Messages
    <2>2. E[1] = h[1] /\ First(E) = First(h) /\ 1 \in DOMAIN E
      BY <1>10, <2>1, <2>e DEF First
    <2>3. CASE h[1] = Context!System
      <3>1. First(h) = 2 /\ h[2] = Context!User(TRUE) /\ 2 \in DOMAIN h /\ 1 \in DOMAIN h
        <4>1. First(h) = 2
          BY <2>3 DEF First
        <4>2. h[2] = Context!User(TRUE) /\ 2 \in DOMAIN h
          BY <1>11, <4>1 DEF Headed
        <4> QED BY <1>0, <4>1, <4>2
      <3>2. h[2].role # "tool" /\ h[1].calls = <<>> /\ h[1].role # "tool"
        BY <2>3, <3>1, OthersAre
      <3>3. Caller(h, 1, 1) /\ 1 - 1 <= Len(h[1].calls) /\ 1 - 1 = 0
        BY <3>2 DEF Caller, Run
      <3>4. ~(1 < Len(h) /\ h[1 + 1].role = "tool")
        BY <3>2
      <3>5. Context!StubsAfter(h, 1) = Results(Rest(h[1].calls, 1 - 1))
        BY <3>1, <3>3, <3>4, StubsAfterIs
      <3>6. <<>> \in Seq(Nat) /\ Rest(h[1].calls, 1 - 1) = <<>>
        <4>1. <<>> \in Seq(Nat)
          OBVIOUS
        <4> QED BY <3>2, <3>3, <4>1, RestAll
      <3>7. Results(<<>>) = <<>>
        <4>1. Results(<<>>) \in Messages /\ Len(Results(<<>>)) = Len(<<>>)
          BY <3>6, ResultsAre
        <4>2. \A z \in Seq(Context!Message) : Len(z) = 0 => z = <<>>
          OBVIOUS
        <4>3. Len(<<>>) = 0
          OBVIOUS
        <4> QED BY <4>1, <4>2, <4>3 DEF Messages
      <3>8. L >= 2
        BY <1>0, <3>1
      <3> QED BY <1>10, <2>1, <2>2, <2>e, <3>1, <3>5, <3>6, <3>7, <3>8 DEF Headed
    <2>4. CASE h[1] # Context!System
      <3>1. First(h) = 1 /\ h[1] = Context!User(TRUE)
        BY <1>11, <2>4 DEF Headed, First
      <3> QED BY <2>2, <3>1 DEF Headed
    <2> QED BY <2>3, <2>4
  <1> QED BY <1>7, <1>8, <1>9, <1>10, <1>11 DEF Repaired, E


\* Behind a message there is nothing to repair, but behind the last.
LEMMA StubsBehind ==
  ASSUME NEW h \in Messages, NEW w \in Nat, Rounds(h, w),
         NEW rest \in Seq(Nat), Due(h, rest), Owes(h, rest), NEW k \in DOMAIN h
  PROVE  Context!StubsAfter(h, k) = IF k = Len(h) THEN Results(rest) ELSE <<>>
  <1>0. k \in Nat /\ k >= 1 /\ k <= Len(h) /\ Len(h) \in Nat /\ DOMAIN h = 1..Len(h)
    BY MessageIs DEF Messages
  <1>1. PICK i \in DOMAIN h : Caller(h, k, i) /\ k - i <= Len(h[i].calls)
    BY CallerIs DEF Rounds
  <1> DEFINE cs == h[i].calls
             o == k - i
  <1>2. /\ cs \in Seq(Nat) /\ Len(cs) \in Nat /\ DOMAIN cs = 1..Len(cs)
        /\ i \in Nat /\ i >= 1 /\ i <= k /\ Run(h, i, k) /\ h[i].role # "tool"
    <2>1. \A x, y \in Nat : x \in 1..y => 1 <= x /\ x <= y
      OBVIOUS
    <2> QED BY <1>0, <1>1, <2>1, MessageIs DEF Caller
  <1>3. o \in Nat /\ o <= Len(cs) /\ i + (o + 1) = k + 1
    BY <1>0, <1>1, <1>2
  <1>4. Context!StubsAfter(h, k) =
          IF k < Len(h) /\ h[k + 1].role = "tool" THEN <<>> ELSE Results(Rest(cs, o))
    BY <1>1, StubsAfterIs
  <1>5. ASSUME o < Len(cs) PROVE HasResult(h, i, o + 1) \/ IsDue(h, i, o + 1, rest)
    BY <1>1, <1>2, <1>3, <1>5 DEF Due
  <1> HIDE DEF o, cs
  <1>6. o = Len(cs) => Results(Rest(cs, o)) = <<>>
    <2> SUFFICES ASSUME o = Len(cs) PROVE Results(Rest(cs, o)) = <<>>
      OBVIOUS
    <2>1. Rest(cs, o) \in Seq(Nat) /\ Len(Rest(cs, o)) = 0
      BY <1>2, <1>3, RestIs
    <2>2. Results(Rest(cs, o)) \in Messages /\ Len(Results(Rest(cs, o))) = 0
      BY <2>1, ResultsAre
    <2>3. \A z \in Seq(Context!Message) : Len(z) = 0 => z = <<>>
      OBVIOUS
    <2> QED BY <2>2, <2>3 DEF Messages
  <1>7. CASE k < Len(h)
    <2>1. o < Len(cs) => h[k + 1].role = "tool"
      <3> SUFFICES ASSUME o < Len(cs) PROVE h[k + 1].role = "tool"
        OBVIOUS
      <3>1. ~IsDue(h, i, o + 1, rest)
        <4>1. ~((k + 1) - Len(h) >= 1)
          BY <1>0, <1>7
        <4>2. \A n \in DOMAIN rest : n >= 1
          OBVIOUS
        <4> QED BY <1>3, <4>1, <4>2, SMTT(30) DEF IsDue
      <3>2. h[i + (o + 1)] = Context!Tool(h[i].calls[o + 1])
        BY <1>5, <3>1 DEF HasResult
      <3> QED BY <1>3, <3>2, ToolIs
    <2>2. o < Len(cs) \/ o = Len(cs)
      BY <1>2, <1>3
    <2>3. k # Len(h)
      BY <1>0, <1>7
    <2> QED BY <1>4, <1>6, <1>7, <2>1, <2>2, <2>3
  <1>8. CASE k = Len(h)
    <2>1. ~(k < Len(h))
      BY <1>0, <1>8
    <2>2. CASE rest = <<>>
      <3>1. Results(rest) = <<>>
        <4>1. rest \in Seq(Nat) /\ Len(rest) = 0
          BY <2>2
        <4>2. Results(rest) \in Messages /\ Len(Results(rest)) = 0
          BY <4>1, ResultsAre
        <4>3. \A z \in Seq(Context!Message) : Len(z) = 0 => z = <<>>
          OBVIOUS
        <4> QED BY <4>2, <4>3 DEF Messages
      <3>2. ~(o < Len(cs))
        <4> SUFFICES ASSUME o < Len(cs) PROVE FALSE
          OBVIOUS
        <4>1. DOMAIN rest = {}
          BY <2>2
        <4>2. ~IsDue(h, i, o + 1, rest)
          BY <4>1 DEF IsDue
        <4>3. ~HasResult(h, i, o + 1)
          <5>1. ~(k + 1 <= Len(h))
            BY <1>0, <1>8
          <5> QED BY <1>3, <5>1 DEF HasResult
        <4> QED BY <1>5, <4>2, <4>3
      <3>3. o = Len(cs)
        <4>1. \A x, y \in Nat : x <= y /\ ~(x < y) => x = y
          OBVIOUS
        <4> QED BY <1>2, <1>3, <3>2, <4>1
      <3> QED BY <1>4, <1>6, <1>8, <2>1, <3>1, <3>3
    <2>3. CASE rest # <<>>
      <3>1. PICK j \in DOMAIN h : Owed(h, j, rest)
        BY <2>3 DEF Owes
      <3>2. /\ j \in Nat /\ j >= 1 /\ j <= Len(h) /\ Len(h[j].calls) \in Nat
            /\ DOMAIN h[j].calls = 1..Len(h[j].calls)
        BY MessageIs
      <3>3. Len(rest) \in Nat /\ Len(rest) >= 1 /\ DOMAIN rest = 1..Len(rest)
        BY <2>3
      <3>4. /\ Len(h) - j + Len(rest) = Len(h[j].calls) /\ Run(h, j, Len(h))
            /\ \A n \in DOMAIN rest : rest[n] = h[j].calls[Len(h) - j + n]
        BY <3>1 DEF Owed
      <3>5. h[j].role # "tool"
        <4>1. 1 \in DOMAIN h[j].calls
          BY <1>0, <3>2, <3>3, <3>4
        <4> QED BY <4>1, CallersCall DEF Rounds
      <3>6. j = i
        <4>1. j \in 1..k /\ Run(h, j, k)
          BY <1>0, <1>8, <3>2, <3>4
        <4> QED BY <1>0, <1>1, <3>5, <4>1, OneCaller
      <3>7. o + Len(rest) = Len(cs) /\ \A n \in DOMAIN rest : rest[n] = cs[o + n]
        BY <1>8, <3>4, <3>6 DEF o, cs
      <3>8. /\ Rest(cs, o) \in Seq(Nat) /\ Len(Rest(cs, o)) = Len(cs) - o
            /\ \A n \in 1..(Len(cs) - o) : Rest(cs, o)[n] = cs[o + n]
        BY <1>2, <1>3, RestIs
      <3>9. Len(cs) - o = Len(rest)
        <4>1. \A x, y, z \in Nat : x + y = z => z - x = y
          OBVIOUS
        <4>2. o + Len(rest) = Len(cs)
          BY <3>7
        <4> QED BY <1>2, <1>3, <3>3, <4>1, <4>2
      <3>10. \A n \in 1..Len(rest) : rest[n] = Rest(cs, o)[n]
        BY <3>3, <3>7, <3>8, <3>9
      <3>11. rest = Rest(cs, o)
        BY <3>8, <3>9, <3>10, SameSeq
      <3> QED BY <1>4, <1>8, <2>1, <3>11
    <2> QED BY <2>2, <2>3
  <1> QED BY <1>0, <1>7, <1>8

\* What the repair stores is what is owed.
LEMMA StubsAre ==
  ASSUME NEW h \in Messages, NEW w \in Nat, Rounds(h, w),
         NEW rest \in Seq(Nat), Due(h, rest), Owes(h, rest)
  PROVE  Context!Stubs(h) = Results(rest)
  <1> DEFINE L == Len(h)
             ss == [k \in DOMAIN h |-> Context!StubsAfter(h, k)]
             r == Results(rest)
  <1>0. L \in Nat /\ DOMAIN h = 1..L
    BY DEF Messages
  <1>1. \A k \in DOMAIN h : Context!StubsAfter(h, k) = IF k = L THEN r ELSE <<>>
    BY StubsBehind
  <1>2. r \in Seq(Context!Message) /\ <<>> \in Seq(Context!Message)
    BY ResultsAre DEF Messages
  <1> HIDE DEF r
  <1>3. ss \in [1..L -> Seq(Context!Message)] /\ \A k \in 1..L : ss[k] = IF k = L THEN r ELSE <<>>
    BY <1>0, <1>1, <1>2
  <1>4. Context!Stubs(h) = Context!FlattenSeq(ss)
    BY DEF Context!Stubs
  <1> HIDE DEF ss, L
  <1>5. ss \in Seq(Seq(Context!Message)) /\ Len(ss) = L
    BY <1>0, <1>3, FunIsSeq
  <1>6. PICK F : /\ Joins(F, ss, L) /\ Context!FlattenSeq(ss) = F[L]
                 /\ \A k \in 0..L : F[k] \in Seq(Context!Message)
    BY <1>5, Joined
  <1>e. \A z \in Seq(Context!Message) : <<>> \o z = z
    OBVIOUS
  <1> DEFINE S == {k \in 0..L : k < L => F[k] = <<>>}
  <1>7. 0 \in S
    BY <1>0, <1>6 DEF Joins
  <1>8. \A k \in 0..(L - 1) : k \in S => k + 1 \in S
    <2> SUFFICES ASSUME NEW k \in 0..(L - 1), k \in S, k + 1 < L PROVE k + 1 \in 0..L /\ F[k + 1] = <<>>
      BY <1>0
    <2>1. k + 1 \in 1..L /\ k + 1 # L /\ k + 1 \in 0..L /\ (k + 1) - 1 = k /\ k < L
      BY <1>0
    <2>2. F[k + 1] = F[(k + 1) - 1] \o ss[k + 1]
      BY <1>6, <2>1, JoinStep, <1>0
    <2>3. ss[k + 1] = <<>> /\ F[k] = <<>>
      BY <1>3, <2>1
    <2> QED BY <1>2, <1>e, <2>1, <2>2, <2>3
  <1> HIDE DEF S
  <1>9. \A k \in 0..L : k \in S
    BY <1>0, <1>7, <1>8, UpTo
  <1>10. CASE L = 0
    <2>1. F[L] = <<>>
      BY <1>6, <1>10 DEF Joins
    <2>2. rest = <<>>
      <3>1. DOMAIN h = {}
        BY <1>0, <1>10
      <3> QED BY <3>1 DEF Owes
    <2>3. r = <<>>
      <3>1. Len(rest) = 0
        BY <2>2
      <3>2. Len(r) = 0
        BY <3>1, ResultsAre DEF r
      <3>3. \A z \in Seq(Context!Message) : Len(z) = 0 => z = <<>>
        OBVIOUS
      <3> QED BY <1>2, <3>2, <3>3
    <2> QED BY <1>4, <1>6, <2>1, <2>3 DEF r
  <1>11. CASE L # 0
    <2>1. L \in 1..L /\ L - 1 \in 0..L /\ L - 1 < L
      BY <1>0, <1>11
    <2>2. F[L] = F[L - 1] \o ss[L]
      BY <1>0, <1>6, <2>1, JoinStep
    <2>3. F[L - 1] = <<>> /\ ss[L] = r
      BY <1>3, <1>9, <2>1 DEF S
    <2> QED BY <1>2, <1>4, <1>6, <1>e, <2>2, <2>3 DEF r
  <1> QED BY <1>10, <1>11

\* A history with nothing due is left alone.
LEMMA EnsureKeeps ==
  ASSUME NEW h \in Messages, NEW w \in Nat, Rounds(h, w), Due(h, <<>>)
  PROVE  Context!EnsureIntegrity(h) = h /\ Context!Stubs(h) = <<>>
  <1> DEFINE L == Len(h)
  <1>0. L \in Nat /\ DOMAIN h = 1..L
    BY DEF Messages
  <1>1. <<>> \in Seq(Nat) /\ Owes(h, <<>>)
    BY DEF Owes
  <1>2. Results(<<>>) = <<>>
    <2>1. Results(<<>>) \in Messages /\ Len(Results(<<>>)) = Len(<<>>)
      BY <1>1, ResultsAre
    <2>2. \A z \in Seq(Context!Message) : Len(z) = 0 => z = <<>>
      OBVIOUS
    <2>3. Len(<<>>) = 0
      OBVIOUS
    <2> QED BY <2>1, <2>2, <2>3 DEF Messages
  <1>3. Context!Stubs(h) = <<>>
    BY <1>1, <1>2, StubsAre
  <1>4. /\ Pieces(h) \in Seq(Messages) /\ Len(Pieces(h)) = L
        /\ \A k \in 1..L : Pieces(h)[k] = <<h[k]>> /\ h[k] \in Context!Message
    <2>1. /\ Pieces(h) \in Seq(Messages) /\ Len(Pieces(h)) = L
          /\ \A k \in 1..L : /\ Context!StubsAfter(h, k) \in Messages
                             /\ Pieces(h)[k] = <<h[k]>> \o Context!StubsAfter(h, k)
      BY PiecesAre
    <2>2. \A k \in 1..L : Context!StubsAfter(h, k) = <<>>
      BY <1>0, <1>1, <1>2, StubsBehind
    <2>3. \A k \in 1..L : h[k] \in Context!Message
      BY <1>0, MessageIs
    <2>4. \A m \in Context!Message : <<m>> \o <<>> = <<m>>
      OBVIOUS
    <2> QED BY <2>1, <2>2, <2>3, <2>4
  <1>5. Context!EnsureIntegrity(h) = Context!FlattenSeq(Pieces(h))
    BY DEF Context!EnsureIntegrity, Pieces
  <1> HIDE DEF L
  <1>6. PICK F : /\ Joins(F, Pieces(h), L) /\ Context!FlattenSeq(Pieces(h)) = F[L]
                 /\ \A k \in 0..L : F[k] \in Seq(Context!Message)
    <2>1. Pieces(h) \in Seq(Seq(Context!Message))
      BY <1>4 DEF Messages
    <2> QED BY <1>4, <2>1, Joined
  <1> DEFINE Good(k) == Len(F[k]) = k /\ \A x \in 1..k : F[k][x] = h[x]
             S == {k \in 0..L : Good(k)}
  <1>7. 0 \in S
    BY <1>0, <1>6 DEF Joins
  <1>8. \A k \in 0..(L - 1) : k \in S => k + 1 \in S
    <2> SUFFICES ASSUME NEW k \in 0..(L - 1), Good(k) PROVE k + 1 \in 0..L /\ Good(k + 1)
      OBVIOUS
    <2>1. k \in Nat /\ k \in 0..L /\ k + 1 \in 1..L /\ k + 1 \in 0..L /\ (k + 1) - 1 = k
      BY <1>0
    <2>2. F[k + 1] = F[(k + 1) - 1] \o Pieces(h)[k + 1]
      BY <1>0, <1>6, <2>1, JoinStep, ZenonT(30)
    <2>3. F[k + 1] = F[k] \o <<h[k + 1]>> /\ F[k] \in Seq(Context!Message) /\ h[k + 1] \in Context!Message
      BY <1>4, <1>6, <2>1, <2>2
    <2>4. \A z \in Seq(Context!Message), m \in Context!Message :
             /\ Len(z \o <<m>>) = Len(z) + 1 /\ (z \o <<m>>)[Len(z) + 1] = m
             /\ \A x \in 1..Len(z) : (z \o <<m>>)[x] = z[x]
      OBVIOUS
    <2>5. /\ Len(F[k + 1]) = k + 1 /\ F[k + 1][k + 1] = h[k + 1]
          /\ \A x \in 1..k : F[k + 1][x] = F[k][x]
      BY <2>3, <2>4
    <2>6. \A x \in 1..(k + 1) : x \in 1..k \/ x = k + 1
      BY <2>1
    <2> QED BY <2>1, <2>5, <2>6
  <1> HIDE DEF Good
  <1>9. \A k \in 0..L : k \in S
    <2> HIDE DEF S
    <2> QED BY <1>0, <1>7, <1>8, UpTo
  <1>10. Good(L) /\ F[L] \in Seq(Context!Message)
    BY <1>0, <1>6, <1>9
  <1>11. F[L] = h
    <2>1. h \in Seq(Context!Message) /\ Len(F[L]) = Len(h) /\ \A x \in 1..Len(F[L]) : F[L][x] = h[x]
      BY <1>10 DEF Good, Messages, L
    <2> QED BY <1>10, <2>1, SameSeq
  <1> QED BY <1>3, <1>5, <1>6, <1>11

-----------------------------------------------------------------------------
(* A new head on a history: the system prompt, or the summary of a fold.   *)

\* No round goes on past message e.
Unbroken(h, e) == \A i \in 1..e : \A n \in DOMAIN h[i].calls : i + n <= e

\* g is h from e + 1 on, behind a messages of which none calls or answers.
Grafted(g, h, a, e) ==
    /\ g \in Messages /\ a \in Nat /\ e \in Nat /\ a <= Len(g) /\ e <= Len(h)
    /\ Len(g) - a = Len(h) - e
    /\ \A x \in 1..a : g[x].role # "tool" /\ g[x].calls = <<>>
    /\ \A x \in 1..(Len(g) - a) : g[a + x] = h[e + x]

LEMMA Transplant ==
  ASSUME NEW h \in Messages, NEW w \in Nat, Rounds(h, w), Due(h, <<>>),
         NEW g, NEW a, NEW e, Grafted(g, h, a, e), Unbroken(h, e)
  PROVE  g \in Messages /\ Rounds(g, w) /\ Due(g, <<>>)
  <1>0. /\ g \in Messages /\ a \in Nat /\ e \in Nat /\ a <= Len(g) /\ e <= Len(h)
        /\ Len(g) \in Nat /\ DOMAIN g = 1..Len(g) /\ Len(h) \in Nat /\ DOMAIN h = 1..Len(h)
        /\ Len(g) - a = Len(h) - e
        /\ \A x \in 1..a : g[x].role # "tool" /\ g[x].calls = <<>>
        /\ \A x \in 1..(Len(g) - a) : g[a + x] = h[e + x]
    BY DEF Grafted, Messages
  <1> DEFINE H(x) == e + (x - a)
             G(y) == a + (y - e)
  <1>1. ASSUME NEW x \in DOMAIN g
        PROVE  x \in 1..a \/ (x > a /\ H(x) \in DOMAIN h /\ H(x) > e /\ g[x] = h[H(x)])
    <2>1. CASE x > a
      <3>1. x - a \in 1..(Len(g) - a) /\ a + (x - a) = x /\ e + (x - a) \in 1..Len(h) /\ e + (x - a) > e
        BY <1>0, <2>1
      <3> QED BY <1>0, <2>1, <3>1
    <2> QED BY <1>0, <2>1
  <1>2. ASSUME NEW y \in DOMAIN h, y > e PROVE G(y) \in DOMAIN g /\ G(y) > a /\ H(G(y)) = y /\ g[G(y)] = h[y]
    <2>1. y - e \in 1..(Len(g) - a) /\ e + (y - e) = y /\ a + (y - e) \in 1..Len(g) /\ a + (y - e) > a
          /\ e + ((a + (y - e)) - a) = y
      BY <1>0, <1>2
    <2> QED BY <1>0, <2>1
  <1>3. DOMAIN <<>> = {}
    OBVIOUS
  <1>4. ASSUME NEW x \in DOMAIN g, g[x].calls # <<>> \/ g[x].role = "tool"
        PROVE  x > a /\ H(x) \in DOMAIN h /\ H(x) > e /\ g[x] = h[H(x)] /\ x \in Nat /\ x <= Len(g)
    BY <1>0, <1>1, <1>4
  <1>5. Roles(g)
    BY <1>4 DEF Roles, Rounds
  <1>6. Placed(g)
    <2> SUFFICES ASSUME NEW j \in DOMAIN g, g[j].role = "tool"
                 PROVE  \E i \in 1..(j - 1) : ResultOf(g, i, j)
      BY DEF Placed
    <2>1. j > a /\ H(j) \in DOMAIN h /\ H(j) > e /\ g[j] = h[H(j)] /\ j \in Nat /\ j <= Len(g)
      BY <1>4
    <2> DEFINE J == H(j)
    <2>2. PICK I \in 1..(J - 1) : ResultOf(h, I, J)
      BY <2>1 DEF Rounds, Placed
    <2>3. /\ J - I \in DOMAIN h[I].calls /\ h[J] = Context!Tool(h[I].calls[J - I])
          /\ Run(h, I, J)
      BY <2>2 DEF ResultOf
    <2>4. J \in Nat /\ J = e + (j - a) /\ J > e /\ J <= Len(h) /\ I \in Nat /\ I >= 1 /\ I < J /\ I \in DOMAIN h
      BY <1>0, <2>1
    <2> HIDE DEF J
    <2>5. I > e
      <3> SUFFICES ASSUME I <= e PROVE FALSE
        BY <1>0, <2>4
      <3>1. I \in 1..e
        BY <1>0, <2>4
      <3>2. I + (J - I) <= e
        BY <2>3, <3>1 DEF Unbroken
      <3> QED BY <1>0, <2>4, <3>2, SMTT(30)
    <2> DEFINE i == G(I)
    <2>6. i \in DOMAIN g /\ i > a /\ g[i] = h[I]
      BY <1>2, <2>4, <2>5
    <2>7. i \in 1..(j - 1) /\ j - i = J - I /\ i \in Nat
      BY <1>0, <2>1, <2>4, <2>5, SMTT(30)
    <2>8. Run(g, i, j)
      <3> SUFFICES ASSUME NEW m \in (i + 1)..j PROVE g[m].role = "tool"
        BY DEF Run
      <3>1. m \in DOMAIN g /\ m > a /\ H(m) \in (I + 1)..J /\ ~(m \in 1..a)
        <4>1. m \in Nat /\ i + 1 <= m /\ m <= j /\ i = a + (I - e)
          BY <2>1, <2>7
        <4> HIDE DEF i
        <4>2. m \in 1..Len(g) /\ m > a /\ e + (m - a) \in (I + 1)..J
          BY <1>0, <2>1, <2>4, <2>5, <4>1, SMTT(30)
        <4> QED BY <1>0, <4>1, <4>2
      <3>2. g[m] = h[H(m)]
        BY <1>1, <3>1
      <3> QED BY <2>3, <3>1, <3>2 DEF Run
    <2> HIDE DEF i
    <2>9. ResultOf(g, i, j)
      BY <2>1, <2>3, <2>6, <2>7, <2>8 DEF ResultOf, J
    <2> QED BY <2>7, <2>9
  <1>7. Fresh(g, w)
    <2>1. ASSUME NEW x \in DOMAIN g, NEW k \in DOMAIN g[x].calls PROVE g[x].calls[k] <= w
      <3>1. H(x) \in DOMAIN h /\ g[x] = h[H(x)]
        BY <1>3, <1>4, <2>1
      <3> HIDE DEF H
      <3> QED BY <3>1 DEF Rounds, Fresh
    <2>2. ASSUME NEW x \in DOMAIN g, NEW y \in DOMAIN g,
                 NEW k \in DOMAIN g[x].calls, NEW l \in DOMAIN g[y].calls,
                 g[x].calls[k] = g[y].calls[l]
          PROVE  x = y /\ k = l
      <3>1. H(x) \in DOMAIN h /\ g[x] = h[H(x)] /\ H(y) \in DOMAIN h /\ g[y] = h[H(y)] /\ x \in Nat /\ y \in Nat
        BY <1>3, <1>4, <2>2
      <3>2. H(x) = H(y) /\ k = l
        <4> HIDE DEF H
        <4> QED BY <2>2, <3>1 DEF Rounds, Fresh
      <3>3. x = y
        BY <1>0, <3>1, <3>2
      <3> QED BY <3>2, <3>3
    <2> QED BY <2>1, <2>2 DEF Fresh
  <1>8. Due(g, <<>>)
    <2> SUFFICES ASSUME NEW x \in DOMAIN g, NEW k \in DOMAIN g[x].calls PROVE HasResult(g, x, k)
      BY DEF Due
    <2>1. x > a /\ H(x) \in DOMAIN h /\ H(x) > e /\ g[x] = h[H(x)] /\ x \in Nat /\ x <= Len(g)
      BY <1>3, <1>4
    <2>2. k \in DOMAIN h[H(x)].calls
      BY <2>1
    <2>3. HasResult(h, H(x), k)
      <3>1. ~IsDue(h, H(x), k, <<>>)
        BY <1>3 DEF IsDue
      <3> HIDE DEF H
      <3> QED BY <2>1, <2>2, <3>1 DEF Due
    <2>4. k \in Nat /\ k >= 1
      <3> HIDE DEF H
      <3> QED BY <2>1, <2>2, MessageIs
    <2>5. H(x) + k <= Len(h) /\ h[H(x) + k] = Context!Tool(h[H(x)].calls[k])
      BY <2>3 DEF HasResult
    <2>6. H(x) + k \in DOMAIN h /\ H(x) + k > e /\ G(H(x) + k) = x + k /\ x + k <= Len(g)
      BY <1>0, <2>1, <2>4, <2>5, SMTT(30)
    <2>7. g[x + k] = h[H(x) + k]
      BY <1>2, <2>6
    <2> HIDE DEF H
    <2> QED BY <2>1, <2>5, <2>6, <2>7 DEF HasResult
  <1> QED BY <1>0, <1>5, <1>6, <1>7, <1>8 DEF Rounds

\* The system prompt in front.
LEMMA WithSystemIs ==
  ASSUME NEW h \in Messages, NEW w \in Nat, Rounds(h, w), Due(h, <<>>)
  PROVE  /\ Context!WithSystem(h) \in Messages /\ Rounds(Context!WithSystem(h), w)
         /\ Due(Context!WithSystem(h), <<>>)
         /\ Headed(h) => Headed(Context!WithSystem(h))
         /\ h \in {<<>>, <<Context!System>>} => Context!WithSystem(h) = <<Context!System>>
  <1> DEFINE s == Context!System
             g == <<s>> \o h
  <1>0. s \in Context!Message /\ s.role = "system" /\ s.calls = <<>>
    BY OthersAre
  <1> HIDE DEF s
  <1>1. g \in Messages /\ Len(g) = Len(h) + 1 /\ g[1] = s /\ \A x \in 1..Len(h) : g[1 + x] = h[0 + x]
    BY <1>0 DEF Messages
  <1>L. Len(h) \in Nat /\ DOMAIN h = 1..Len(h)
    BY DEF Messages
  <1>2. CASE h # <<>> /\ h[1] = s
    <2>1. Context!WithSystem(h) = h
      BY <1>2 DEF Context!WithSystem, s
    <2>2. h \in {<<>>, <<s>>} => h = <<s>>
      BY <1>2
    <2> QED BY <2>1, <2>2 DEF s
  <1>3. CASE ~(h # <<>> /\ h[1] = s)
    <2>1. Context!WithSystem(h) = g
      BY <1>3 DEF Context!WithSystem, s
    <2> HIDE DEF g
    <2>2. Grafted(g, h, 1, 0)
      <3>1. \A x \in 1..1 : g[x].role # "tool" /\ g[x].calls = <<>>
        BY <1>0, <1>1
      <3>2. Len(g) - 1 = Len(h)
        BY <1>1, <1>L
      <3> QED BY <1>1, <1>L, <3>1, <3>2 DEF Grafted
    <2>3. Unbroken(h, 0)
      BY DEF Unbroken
    <2>4. g \in Messages /\ Rounds(g, w) /\ Due(g, <<>>)
      BY <2>2, <2>3, Transplant
    <2>5. Headed(h) => Headed(g)
      <3> SUFFICES ASSUME Headed(h) PROVE Headed(g)
        OBVIOUS
      <3>1. h # <<>>
        BY <1>L DEF Headed
      <3>2. First(h) = 1 /\ First(g) = 2
        BY <1>1, <1>3, <3>1 DEF First, s
      <3>3. 1 \in 1..Len(h) /\ h[1] = Context!User(TRUE)
        BY <1>L, <3>2 DEF Headed
      <3>4. g[2] = h[1] /\ 2 \in DOMAIN g
        <4>1. g[1 + 1] = h[0 + 1]
          BY <1>1, <3>3
        <4>2. 1 + 1 = 2 /\ 0 + 1 = 1 /\ DOMAIN g = 1..Len(g) /\ Len(g) >= 2
          BY <1>1, <1>L, <2>4, <3>3 DEF Messages
        <4> QED BY <4>1, <4>2
      <3> QED BY <3>2, <3>3, <3>4 DEF Headed
    <2>6. h \in {<<>>, <<s>>} => g = <<s>>
      <3>1. h # <<s>>
        BY <1>3
      <3>2. h = <<>> => g = <<s>>
        <4>1. \A m \in Context!Message : <<m>> \o <<>> = <<m>>
          OBVIOUS
        <4> QED BY <1>0, <4>1 DEF g
      <3> QED BY <3>1, <3>2
    <2> QED BY <2>1, <2>4, <2>5, <2>6 DEF s
  <1> QED BY <1>2, <1>3

\* A plan that folds from behind the request to where no round goes on.
Cutting(h, p) ==
    /\ p.start = First(h) /\ p.end \in Nat /\ p.start + 3 <= p.end /\ p.end <= Len(h)
    /\ Unbroken(h, p.end)

LEMMA FirstUserIs ==
  ASSUME NEW h \in Messages, Headed(h)
  PROVE  /\ Context!FoldStart(h) = First(h) /\ First(h) \in {1, 2} /\ h # <<>>
         /\ First(h) = 2 => h[1] = Context!System
  <1> DEFINE U == {i \in DOMAIN h : h[i].role = "user"}
  <1>0. DOMAIN h = 1..Len(h) /\ Len(h) \in Nat
    BY DEF Messages
  <1>1. First(h) \in DOMAIN h /\ h[First(h)].role = "user"
    BY OthersAre DEF Headed
  <1>2. First(h) \in {1, 2} /\ (First(h) = 2 => h[1] = Context!System)
    BY DEF First
  <1>3. First(h) \in U
    BY <1>1
  <1>4. \A i \in U : First(h) <= i
    <2> SUFFICES ASSUME NEW i \in U PROVE First(h) <= i
      OBVIOUS
    <2>1. i = 1 => First(h) = 1
      BY <1>2, OthersAre
    <2> QED BY <1>0, <1>2, <2>1
  <1>5. Context!FoldStart(h) = CHOOSE x \in U : \A y \in U : x <= y
    BY DEF Context!FoldStart, Context!FirstUser, Context!Min
  <1>6. \A x \in U : (\A y \in U : x <= y) => x = First(h)
    BY <1>0, <1>3, <1>4
  <1> HIDE DEF U
  <1>7. Context!FoldStart(h) = First(h)
    BY <1>3, <1>4, <1>5, <1>6
  <1> QED BY <1>0, <1>1, <1>2, <1>7

LEMMA PlanCuts ==
  ASSUME NEW h \in Messages, NEW w \in Nat, Rounds(h, w), Due(h, <<>>), Headed(h),
         Keep \in Nat, Context!MayFold(h),
         NEW p, p = [start |-> Context!FoldStart(h), end |-> Context!FoldEnd(h)]
  PROVE  Cutting(h, p)
  <1> DEFINE s == First(h)
             b == Len(h) - Keep
             e == Context!PushedEnd(h)
             z == Context!FoldEnd(h)
             Stop(k) == k <= Context!FoldStart(h) + 1 \/ h[k].calls = <<>>
  <1>0. Len(h) \in Nat /\ DOMAIN h = 1..Len(h) /\ s \in {1, 2} /\ Context!FoldStart(h) = s
    <2>1. Context!FoldStart(h) = First(h) /\ First(h) \in {1, 2}
      BY FirstUserIs
    <2>2. Len(h) \in Nat /\ DOMAIN h = 1..Len(h)
      BY DEF Messages
    <2> QED BY <2>1, <2>2
  <1>1. Len(h) > Keep + 2 /\ z - s >= 3
    BY <1>0 DEF Context!MayFold
  <1>2. e = IF b <= s THEN b ELSE Context!RunEnd(h, b)
    BY <1>0 DEF Context!PushedEnd
  <1>3. z = IF e <= s THEN e ELSE CHOOSE k \in 1..e : Stop(k) /\ \A j \in (k + 1)..e : ~Stop(j)
    BY <1>0 DEF Context!FoldEnd
  <1>4. b \in 1..Len(h)
    BY <1>0, <1>1
  <1>5. ~(b <= s) /\ ~(e <= s)
    <2>1. e <= s => z = e
      BY <1>3
    <2> HIDE DEF z, e, b, s
    <2>2. b <= s => e = b
      BY <1>2
    <2>3. e <= s => FALSE
      <3> SUFFICES ASSUME e <= s PROVE FALSE
        OBVIOUS
      <3>1. e - s >= 3
        BY <1>1, <2>1
      <3>2. e \in Int
        <4>1. b <= s => e \in Int
          BY <1>4, <2>2
        <4>2. ~(b <= s) => EndsAt(h, b, e)
          BY <1>0, <1>2, <1>4, RunEnds
        <4>3. EndsAt(h, b, e) => e \in Int
          BY <1>4 DEF EndsAt
        <4> QED BY <4>1, <4>2, <4>3
      <3> QED BY <1>0, <3>1, <3>2
    <2> QED BY <2>2, <2>3
  <1>6. EndsAt(h, b, e)
    BY <1>0, <1>2, <1>4, <1>5, RunEnds
  <1> HIDE DEF b
  <1>7. /\ e \in Nat /\ e >= 1 /\ b <= e /\ e <= Len(h) /\ b \in Nat
        /\ Run(h, b, e) /\ (e = Len(h) \/ h[e + 1].role # "tool")
    BY <1>0, <1>4, <1>6 DEF EndsAt
  <1> HIDE DEF e
  <1> DEFINE Last(k) == Stop(k) /\ \A j \in (k + 1)..e : ~Stop(j)
  <1>8. \E k \in 1..e : Last(k)
    <2> DEFINE S == {x \in 0..e : e - x >= 1 /\ Stop(e - x)}
    <2>1. S \in SUBSET Nat /\ e - 1 \in S
      <3>1. e - 1 \in 0..e /\ e - (e - 1) = 1
        BY <1>7
      <3>2. Stop(1)
        BY <1>0
      <3> QED BY <3>1, <3>2
    <2> HIDE DEF S
    <2>2. PICK x \in S : \A y \in S : x <= y
      BY <2>1, Least
    <2>3. x \in Nat /\ x <= e /\ e - x \in 1..e /\ Stop(e - x)
      BY <1>7, <2>2 DEF S
    <2>4. ASSUME NEW j \in ((e - x) + 1)..e, Stop(j) PROVE FALSE
      <3>1. j \in Nat /\ j <= e /\ (e - x) + 1 <= j
        BY <1>7, <2>3
      <3>2. e - j \in 0..e /\ e - (e - j) = j /\ e - j < x /\ j >= 1
        BY <1>7, <2>3, <3>1
      <3>3. e - j \in S
        BY <2>4, <3>2 DEF S
      <3>4. x <= e - j
        BY <2>2, <3>3
      <3> QED BY <1>7, <2>3, <3>1, <3>2, <3>4
    <2> QED BY <2>3, <2>4
  <1>9. z \in 1..e /\ Last(z)
    <2>1. z = CHOOSE k \in 1..e : Last(k)
      BY <1>3, <1>5
    <2> HIDE DEF Last, z
    <2> QED BY <1>8, <2>1
  <1> HIDE DEF z
  <1>10. z \in Nat /\ z >= 1 /\ z <= e /\ h[z].calls = <<>> /\ s + 3 <= z
    <2>1. z \in Nat /\ z >= 1 /\ z <= e
      BY <1>7, <1>9
    <2>2. s + 3 <= z /\ ~(z <= Context!FoldStart(h) + 1)
      BY <1>0, <1>1, <2>1
    <2> QED BY <1>9, <2>1, <2>2
  <1>11. Unbroken(h, z)
    <2>0. \A x \in 1..z : x \in DOMAIN h /\ x \in Nat /\ x >= 1 /\ x <= z
      <3>1. \A x, y, v \in Nat : x <= y /\ y <= v => \A q \in 1..x : q \in 1..v /\ q \in Nat /\ q >= 1 /\ q <= x
        OBVIOUS
      <3> QED BY <1>0, <1>7, <1>10, <3>1
    <2> SUFFICES ASSUME NEW i \in 1..z, NEW n \in DOMAIN h[i].calls, i + n > z PROVE FALSE
      <3>1. \A x \in 1..z : \A y \in DOMAIN h[x].calls : y \in Nat /\ x \in Nat
        BY <2>0, MessageIs
      <3> QED BY <1>10, <3>1 DEF Unbroken
    <2>1. i \in DOMAIN h /\ i \in Nat /\ i >= 1 /\ i <= z
      BY <2>0
    <2>2. n \in Nat /\ n >= 1 /\ n <= Len(h[i].calls) /\ DOMAIN h[i].calls = 1..Len(h[i].calls) /\ Len(h[i].calls) \in Nat
      BY <2>1, MessageIs
    <2>3. i # z
      <3>1. DOMAIN <<>> = {}
        OBVIOUS
      <3> QED BY <1>10, <3>1
    <2> DEFINE m == (z + 1) - i
    <2>4. m \in DOMAIN h[i].calls /\ i + m = z + 1
      BY <1>10, <2>1, <2>2, <2>3
    <2>5. HasResult(h, i, m)
      <3>1. ~IsDue(h, i, m, <<>>)
        <4>1. DOMAIN <<>> = {}
          OBVIOUS
        <4> QED BY <4>1 DEF IsDue
      <3> HIDE DEF m
      <3> QED BY <2>1, <2>4, <3>1 DEF Due
    <2>6. z + 1 <= Len(h) /\ h[z + 1] = Context!Tool(h[i].calls[m])
      BY <2>4, <2>5 DEF HasResult
    <2>7. h[z + 1].role = "tool" /\ h[z + 1].calls = <<>>
      <3> HIDE DEF m
      <3> QED BY <2>6, ToolIs
    <2>8. CASE z = e
      BY <1>7, <1>10, <2>6, <2>7, <2>8
    <2>9. CASE z # e
      <3>1. z + 1 \in (z + 1)..e
        BY <1>7, <1>10, <2>9
      <3> QED BY <1>9, <2>7, <3>1
    <2> QED BY <2>8, <2>9
  <1>12. z <= Len(h)
    BY <1>7, <1>10
  <1>13. p.start = s /\ p.end = z
    BY <1>0 DEF z
  <1> QED BY <1>10, <1>11, <1>12, <1>13 DEF Cutting

\* A folded history still has what it is for, and every result in place.
LEMMA FoldedIs ==
  ASSUME NEW h \in Messages, NEW w \in Nat, Rounds(h, w), Due(h, <<>>), Headed(h),
         NEW p, Cutting(h, p)
  PROVE  /\ Context!Folded(h, p) \in Messages /\ Rounds(Context!Folded(h, p), w)
         /\ Due(Context!Folded(h, p), <<>>) /\ Headed(Context!Folded(h, p))
  <1> DEFINE s == First(h)
             e == p.end
             u == Context!User(FALSE)
             f == SubSeq(h, 1, s)
             t == SubSeq(h, e + 1, Len(h))
             g == (f \o <<u>>) \o t
  <1>0. /\ Len(h) \in Nat /\ DOMAIN h = 1..Len(h) /\ s \in {1, 2} /\ s \in Nat
        /\ (s = 2 => h[1] = Context!System) /\ h[s] = Context!User(TRUE) /\ h # <<>>
        /\ e \in Nat /\ s + 3 <= e /\ e <= Len(h) /\ Unbroken(h, e) /\ p.start = s
    <2>1. Context!FoldStart(h) = First(h) /\ First(h) \in {1, 2} /\ h # <<>>
          /\ (First(h) = 2 => h[1] = Context!System)
      BY FirstUserIs
    <2>2. h[First(h)] = Context!User(TRUE)
      BY DEF Headed
    <2>3. Len(h) \in Nat /\ DOMAIN h = 1..Len(h)
      BY DEF Messages
    <2>4. /\ p.start = First(h) /\ e \in Nat /\ First(h) + 3 <= e /\ e <= Len(h)
          /\ Unbroken(h, e)
      BY DEF Cutting
    <2> QED BY <2>1, <2>2, <2>3, <2>4
  <1>u. u \in Context!Message /\ u.role = "user" /\ u.calls = <<>>
    BY OthersAre
  <1>1. Context!Folded(h, p) = g
    BY <1>0 DEF Context!Folded
  <1> HIDE DEF s, e, u
  <1>2. f \in Seq(Context!Message) /\ Len(f) = s /\ \A x \in 1..s : f[x] = h[x]
    BY <1>0 DEF Messages
  <1>3. /\ t \in Seq(Context!Message) /\ Len(t) = Len(h) - e
        /\ \A x \in 1..(Len(h) - e) : t[x] = h[e + x]
    <2>1. \A y \in Seq(Context!Message), n \in Nat : n <= Len(y) =>
            /\ SubSeq(y, n + 1, Len(y)) \in Seq(Context!Message)
            /\ Len(SubSeq(y, n + 1, Len(y))) = Len(y) - n
            /\ \A x \in 1..(Len(y) - n) : SubSeq(y, n + 1, Len(y))[x] = y[n + x]
      OBVIOUS
    <2> QED BY <1>0, <2>1 DEF Messages
  <1> HIDE DEF f, t
  <1>4. /\ f \o <<u>> \in Seq(Context!Message) /\ Len(f \o <<u>>) = s + 1 /\ (f \o <<u>>)[s + 1] = u
        /\ \A x \in 1..s : (f \o <<u>>)[x] = h[x]
    BY <1>0, <1>2, <1>u
  <1>5. \A y, v \in Seq(Context!Message) :
          /\ y \o v \in Seq(Context!Message) /\ Len(y \o v) = Len(y) + Len(v)
          /\ \A x \in 1..Len(y) : (y \o v)[x] = y[x]
          /\ \A x \in 1..Len(v) : (y \o v)[Len(y) + x] = v[x]
    OBVIOUS
  <1>6. /\ g \in Messages /\ Len(g) = (s + 1) + (Len(h) - e)
        /\ \A x \in 1..(s + 1) : g[x] = (f \o <<u>>)[x]
        /\ \A x \in 1..(Len(h) - e) : g[(s + 1) + x] = h[e + x]
    <2> DEFINE y == f \o <<u>>
    <2>1. y \in Seq(Context!Message) /\ Len(y) = s + 1
      BY <1>4
    <2> HIDE DEF y
    <2>2. /\ y \o t \in Seq(Context!Message) /\ Len(y \o t) = Len(y) + Len(t)
          /\ \A x \in 1..Len(y) : (y \o t)[x] = y[x]
          /\ \A x \in 1..Len(t) : (y \o t)[Len(y) + x] = t[x]
      BY <1>3, <1>5, <2>1
    <2>3. /\ y \o t \in Seq(Context!Message) /\ Len(y \o t) = (s + 1) + (Len(h) - e)
          /\ \A x \in 1..(s + 1) : (y \o t)[x] = y[x]
          /\ \A x \in 1..(Len(h) - e) : (y \o t)[(s + 1) + x] = h[e + x]
      BY <1>3, <2>1, <2>2
    <2> QED BY <2>3 DEF Messages, y
  <1> HIDE DEF g
  <1>7. g[s + 1] = u /\ \A x \in 1..s : g[x] = h[x]
    <2>1. s + 1 \in 1..(s + 1) /\ \A x \in 1..s : x \in 1..(s + 1)
      BY <1>0
    <2> QED BY <1>4, <1>6, <2>1
  <1>8. \A x \in 1..s : h[x].role # "tool" /\ h[x].calls = <<>>
    <2>1. \A x \in 1..s : x = s \/ (s = 2 /\ x = 1)
      BY <1>0
    <2>2. h[s].role = "user" /\ h[s].calls = <<>>
      BY <1>0, OthersAre
    <2>3. s = 2 => h[1].role = "system" /\ h[1].calls = <<>>
      BY <1>0, OthersAre
    <2> QED BY <2>1, <2>2, <2>3
  <1>9. Grafted(g, h, s + 1, e)
    <2>1. \A x \in 1..(s + 1) : g[x].role # "tool" /\ g[x].calls = <<>>
      <3>1. \A x \in 1..(s + 1) : x \in 1..s \/ x = s + 1
        BY <1>0
      <3> QED BY <1>7, <1>8, <1>u, <3>1
    <2>2. Len(g) - (s + 1) = Len(h) - e /\ s + 1 <= Len(g) /\ s + 1 \in Nat
      BY <1>0, <1>6
    <2> QED BY <1>0, <1>6, <2>1, <2>2 DEF Grafted
  <1>10. Rounds(g, w) /\ Due(g, <<>>)
    BY <1>0, <1>9, Transplant
  <1>11. Headed(g)
    <2>1. 1 \in 1..s /\ s \in 1..s /\ s \in DOMAIN g
      BY <1>0, <1>6 DEF Messages
    <2>2. g[1] = h[1] /\ g[s] = h[s]
      BY <1>7, <2>1
    <2>3. First(g) = s
      BY <2>2 DEF First, s
    <2> QED BY <1>0, <2>1, <2>2, <2>3 DEF Headed
  <1> QED BY <1>1, <1>6, <1>10, <1>11

-----------------------------------------------------------------------------
(* The history from turn to turn.                                          *)

LEMMA HeadStays ==
  ASSUME NEW h \in Messages, NEW m \in Context!Message, Headed(h)
  PROVE  Headed(Append(h, m))
  <1> DEFINE g == Append(h, m)
  <1>1. /\ g \in Messages /\ Len(g) = Len(h) + 1 /\ g[Len(h) + 1] = m
        /\ \A i \in DOMAIN h : i \in DOMAIN g /\ g[i] = h[i]
        /\ \A i \in DOMAIN g : i \in DOMAIN h \/ i = Len(h) + 1
        /\ DOMAIN g = 1..(Len(h) + 1) /\ DOMAIN h = 1..Len(h) /\ Len(h) \in Nat
    BY Appending
  <1> HIDE DEF g
  <1>2. First(h) \in DOMAIN h /\ h[First(h)] = Context!User(TRUE)
    BY DEF Headed
  <1>3. 1 \in DOMAIN h
    BY <1>1, <1>2 DEF First
  <1>4. First(g) = First(h)
    BY <1>1, <1>3 DEF First
  <1> QED BY <1>1, <1>2, <1>4 DEF Headed, g

\* One more message that neither calls nor answers.
LEMMA SayPlain ==
  ASSUME NEW h \in Messages, NEW m \in Context!Message, m.calls = <<>>, m.role # "tool",
         NEW w \in Nat, NEW v \in Nat, w <= v, Rounds(h, w)
  PROVE  /\ Append(h, m) \in Messages /\ Rounds(Append(h, m), v)
         /\ Due(h, <<>>) => Due(Append(h, m), <<>>)
         /\ Headed(h) => Headed(Append(h, m))
  <1>1. Novel(h, m, v)
    <2>1. DOMAIN m.calls = {}
      OBVIOUS
    <2> QED BY <2>1 DEF Novel
  <1>2. Rounds(Append(h, m), v)
    BY <1>1, SayRounds
  <1>3. Append(h, m) \in Messages
    BY DEF Messages
  <1>4. Due(h, <<>>) => Due(Append(h, m), m.calls)
    BY SayDue
  <1> QED BY <1>2, <1>3, <1>4, HeadStays

\* The ids given out so far end here.
Given == replies * MaxCalls

Typed ==
    /\ history \in Messages /\ stored \in Messages /\ unsaved \in Messages
    /\ todo \in Seq(Nat) /\ pc \in Context!PC
    /\ replies \in 0..MaxReplies /\ notes \in 0..MaxNotes /\ resumes \in 0..MaxResumes

Ordered == Rounds(history, Given) /\ Rounds(stored, Given)

\* Before the first prompt there is nothing but a system prompt.
Asked ==
    /\ notes = 0 => /\ pc = "idle" /\ history \in {<<>>, <<Context!System>>} /\ stored = <<>>
    /\ notes # 0 => Headed(history) /\ Headed(stored)

Planned ==
    /\ pc \in {"room", "compact"} => Cutting(history, plan)
    /\ pc \notin {"room", "compact"} => plan = Context!NoPlan

\* What is due: nothing between rounds, what is left to do within one, and
\* what was left undone at the end of a turn, in the store stub by stub.
Settled == Due(history, <<>>) /\ todo = <<>> /\ unsaved = <<>>
Answering == Due(history, todo) /\ Owes(history, todo) /\ Owes(stored, todo) /\ unsaved = <<>>
Repairing ==
    /\ todo = <<>>
    /\ \E rest \in Seq(Nat) :
         /\ Owes(stored, rest)
         /\ unsaved = <<>> => Due(history, rest) /\ Owes(history, rest)
         /\ unsaved # <<>> => Due(history, <<>>) /\ unsaved = Results(rest)

InPhase ==
    /\ pc \in {"tools", "result"} => Answering
    /\ pc = "repair" => Repairing
    /\ pc \notin {"tools", "result", "repair"} => Settled

HistoryInv == Typed /\ Ordered /\ Asked /\ Planned /\ InPhase

LEMMA GivenIs ==
  ASSUME Typed
  PROVE  Given \in Nat /\ replies \in Nat /\ MaxCalls \in Nat /\ Given = replies * MaxCalls
         /\ notes \in Nat
  <1>1. MaxCalls \in Nat /\ MaxReplies \in Nat /\ replies \in Nat /\ notes \in Nat
    BY HistoryAssumption DEF Typed
  <1>2. \A a, b \in Nat : a * b \in Nat
    OBVIOUS
  <1> QED BY <1>1, <1>2 DEF Given

LEMMA HistoryInit == Context!Init => HistoryInv
  <1> SUFFICES ASSUME Context!Init PROVE HistoryInv
    OBVIOUS
  <1>1. /\ history = <<Context!System>> /\ pc = "idle" /\ todo = <<>> /\ plan = Context!NoPlan
        /\ stored = <<>> /\ unsaved = <<>> /\ replies = 0 /\ notes = 0 /\ resumes = 0
    BY DEF Context!Init
  <1>2. Typed
    <2>1. <<>> \in Messages /\ \A m \in Context!Message : <<m>> \in Messages
      BY DEF Messages
    <2>2. <<>> \in Seq(Nat) /\ "idle" \in Context!PC
      BY DEF Context!PC
    <2>3. 0 \in 0..MaxReplies /\ 0 \in 0..MaxNotes /\ 0 \in 0..MaxResumes
      BY HistoryAssumption
    <2> QED BY <1>1, <2>1, <2>2, <2>3, OthersAre DEF Typed
  <1>3. Given \in Nat
    BY <1>2, GivenIs
  <1>4. DOMAIN <<>> = {} /\ <<>> \in Messages
    BY DEF Messages
  <1>5. Rounds(<<>>, Given) /\ Due(<<>>, <<>>)
    BY <1>4 DEF Rounds, Roles, Placed, Fresh, Due
  <1>6. Rounds(history, Given) /\ Due(history, <<>>)
    <2>1. Append(<<>>, Context!System) = history
      BY <1>1
    <2>2. Given <= Given
      BY <1>3
    <2>3. Context!System.role # "tool" /\ Context!System.calls = <<>> /\ Context!System \in Context!Message
      BY OthersAre
    <2> QED BY <1>3, <1>4, <1>5, <2>1, <2>2, <2>3, SayPlain
  <1>7. Asked /\ Planned /\ InPhase
    BY <1>1, <1>6 DEF Asked, Planned, InPhase, Settled
  <1> QED BY <1>1, <1>2, <1>5, <1>6, <1>7 DEF HistoryInv, Ordered

LEMMA FirstAsked == Headed(Append(<<Context!System>>, Context!User(TRUE)))
  <1> DEFINE s == Context!System
             m == Context!User(TRUE)
  <1>1. s \in Context!Message /\ m \in Context!Message
    BY OthersAre
  <1> HIDE DEF s, m
  <1>2. \A x, y \in Context!Message : /\ Append(<<x>>, y)[1] = x /\ Append(<<x>>, y)[2] = y
                                      /\ 2 \in DOMAIN Append(<<x>>, y)
    OBVIOUS
  <1> DEFINE g == Append(<<s>>, m)
  <1>3. g[1] = s /\ g[2] = m /\ 2 \in DOMAIN g
    BY <1>1, <1>2
  <1> HIDE DEF g
  <1>4. First(g) = 2
    BY <1>3 DEF First, s
  <1>5. Headed(g)
    BY <1>3, <1>4 DEF Headed, m
  <1> QED BY <1>5 DEF g, s, m

LEMMA PromptKeeps == HistoryInv /\ Context!Prompt => HistoryInv'
  <1> SUFFICES ASSUME HistoryInv, Context!Prompt PROVE HistoryInv'
    OBVIOUS
  <1>1. /\ pc = "idle" /\ notes < MaxNotes /\ notes' = notes + 1 /\ pc' = "loop"
        /\ UNCHANGED <<todo, plan, unsaved, replies, resumes>>
    BY DEF Context!Prompt
  <1>2. PICK h \in {history, Context!WithSystem(history)} :
          LET m == Context!User(\A i \in DOMAIN h : ~h[i].task) IN
          /\ history' = Append(Context!EnsureIntegrity(h), m)
          /\ stored' = stored \o Context!Stubs(h) \o <<m>>
    BY DEF Context!Prompt
  <1> DEFINE t == \A i \in DOMAIN h : ~h[i].task
             m == Context!User(t)
  <1>3. /\ history' = Append(Context!EnsureIntegrity(h), m)
        /\ stored' = stored \o Context!Stubs(h) \o <<m>>
    BY <1>2
  <1>4. Typed /\ Ordered /\ Asked /\ Planned /\ Settled
    BY <1>1 DEF HistoryInv, InPhase
  <1>5. Given \in Nat /\ notes \in Nat /\ Given' = Given
    BY <1>1, <1>4, GivenIs DEF Given
  <1>6. history \in Messages /\ Rounds(history, Given) /\ Due(history, <<>>) /\ stored \in Messages /\ Rounds(stored, Given)
    BY <1>4 DEF Typed, Ordered, Settled
  <1>7. /\ h \in Messages /\ Rounds(h, Given) /\ Due(h, <<>>)
        /\ Headed(history) => Headed(h)
        /\ history \in {<<>>, <<Context!System>>} => h \in {<<>>, <<Context!System>>}
    <2>1. CASE h = history
      BY <1>6, <2>1
    <2>2. CASE h = Context!WithSystem(history)
      BY <1>5, <1>6, <2>2, WithSystemIs
    <2> QED BY <2>1, <2>2
  <1>8. m \in Context!Message /\ m.role # "tool" /\ m.calls = <<>>
    <2>1. t \in BOOLEAN
      OBVIOUS
    <2> HIDE DEF t
    <2> QED BY <2>1, OthersAre
  <1>s. h \in {<<>>, <<Context!System>>} => m = Context!User(TRUE)
    <2> SUFFICES ASSUME h \in {<<>>, <<Context!System>>} PROVE t = TRUE
      OBVIOUS
    <2>1. Context!System.task = FALSE
      BY DEF Context!System
    <2>2. \A i \in DOMAIN h : h[i] = Context!System
      OBVIOUS
    <2> QED BY <2>1, <2>2
  <1> HIDE DEF m, t
  <1>9. history' = Append(h, m) /\ stored' = Append(stored, m)
    <2>1. Context!EnsureIntegrity(h) = h /\ Context!Stubs(h) = <<>>
      BY <1>5, <1>7, EnsureKeeps
    <2>2. \A z \in Messages : z \o <<>> = z /\ \A x \in Context!Message : z \o <<x>> = Append(z, x)
      BY DEF Messages
    <2> QED BY <1>3, <1>6, <1>8, <2>1, <2>2
  <1>10. /\ history' \in Messages /\ Rounds(history', Given) /\ Due(history', <<>>)
         /\ Headed(h) => Headed(history')
         /\ stored' \in Messages /\ Rounds(stored', Given) /\ (Headed(stored) => Headed(stored'))
    <2>1. Given <= Given
      BY <1>5
    <2> QED BY <1>5, <1>6, <1>7, <1>8, <1>9, <2>1, SayPlain
  <1>11. Headed(history') /\ Headed(stored')
    <2>1. CASE notes # 0
      BY <1>4, <1>7, <1>10, <2>1 DEF Asked
    <2>2. CASE notes = 0
      <3>1. h \in {<<>>, <<Context!System>>} /\ stored = <<>> /\ m = Context!User(TRUE)
        BY <1>4, <1>7, <1>s, <2>2 DEF Asked
      <3>2. Context!User(TRUE) # Context!System
        BY DEF Context!User, Context!System
      <3>3. stored' = <<m>> /\ Headed(<<m>>)
        BY <1>8, <1>9, <3>1, <3>2 DEF Headed, First
      <3>4. CASE h = <<>>
        <4>1. \A x : Append(<<>>, x) = <<x>>
          OBVIOUS
        <4> QED BY <1>9, <3>3, <3>4, <4>1
      <3>5. CASE h = <<Context!System>>
        BY <1>9, <3>1, <3>3, <3>5, FirstAsked
      <3> QED BY <3>1, <3>4, <3>5
    <2> QED BY <2>1, <2>2
  <1>12. Typed'
    <2>1. notes' \in 0..MaxNotes /\ "loop" \in Context!PC
      BY <1>1, <1>5, HistoryAssumption DEF Context!PC
    <2> QED BY <1>1, <1>4, <1>10, <2>1 DEF Typed
  <1>13. Ordered' /\ Planned'
    BY <1>1, <1>4, <1>5, <1>10 DEF Ordered, Planned
  <1>14. notes' # 0
    BY <1>1, <1>5
  <1>15. Asked' /\ InPhase'
    BY <1>1, <1>4, <1>10, <1>11, <1>14 DEF Asked, InPhase, Settled
  <1> QED BY <1>12, <1>13, <1>15 DEF HistoryInv

LEMMA NoteKeeps == HistoryInv /\ Context!Note => HistoryInv'
  <1> SUFFICES ASSUME HistoryInv, Context!Note PROVE HistoryInv'
    OBVIOUS
  <1> DEFINE m == Context!User(FALSE)
  <1>1. /\ pc = "idle" /\ notes > 0 /\ notes < MaxNotes /\ notes' = notes + 1
        /\ history' = Append(history, m)
        /\ UNCHANGED <<pc, todo, plan, stored, unsaved, replies, resumes>>
    BY DEF Context!Note
  <1>2. Typed /\ Ordered /\ Asked /\ Planned /\ Settled
    BY <1>1 DEF HistoryInv, InPhase
  <1>3. Given \in Nat /\ Given <= Given /\ notes \in Nat /\ Given' = Given
    BY <1>1, <1>2, GivenIs DEF Given
  <1>4. m \in Context!Message /\ m.role # "tool" /\ m.calls = <<>>
    BY OthersAre
  <1> HIDE DEF m
  <1>5. history \in Messages /\ Rounds(history, Given) /\ Due(history, <<>>) /\ Headed(history) /\ Headed(stored)
    BY <1>1, <1>2, <1>3 DEF Typed, Ordered, Settled, Asked
  <1>6. history' \in Messages /\ Rounds(history', Given) /\ Due(history', <<>>) /\ Headed(history')
    BY <1>1, <1>3, <1>4, <1>5, SayPlain
  <1>7. Typed'
    <2>1. notes' \in 0..MaxNotes
      BY <1>1, <1>3, HistoryAssumption
    <2> QED BY <1>1, <1>2, <1>6, <2>1 DEF Typed
  <1>8. Ordered' /\ Planned'
    BY <1>1, <1>2, <1>3, <1>6 DEF Ordered, Planned
  <1>9. notes' # 0
    BY <1>1, <1>3
  <1>10. Asked' /\ InPhase'
    BY <1>1, <1>2, <1>5, <1>6, <1>9 DEF Asked, InPhase, Settled
  <1> QED BY <1>7, <1>8, <1>10 DEF HistoryInv

LEMMA PlanKeeps == HistoryInv /\ Context!PlanFold => HistoryInv'
  <1> SUFFICES ASSUME HistoryInv, Context!PlanFold PROVE HistoryInv'
    OBVIOUS
  <1>1. /\ (pc = "loop" /\ pc' = "room") \/ (pc = "idle" /\ pc' = "compact")
        /\ Context!MayFold(history)
        /\ plan' = [start |-> Context!FoldStart(history), end |-> Context!FoldEnd(history)]
        /\ UNCHANGED <<history, todo, stored, unsaved, replies, notes, resumes>>
    BY DEF Context!PlanFold
  <1>2. Typed /\ Ordered /\ Asked /\ Settled
    BY <1>1 DEF HistoryInv, InPhase
  <1>3. Given \in Nat /\ notes \in Nat /\ Given' = Given
    BY <1>1, <1>2, GivenIs DEF Given
  <1>4. notes # 0
    <2>1. Len(history) > Keep + 2 /\ Keep \in Nat
      BY <1>1, HistoryAssumption DEF Context!MayFold
    <2>2. Len(<<>>) = 0 /\ Len(<<Context!System>>) = 1
      OBVIOUS
    <2>3. history \notin {<<>>, <<Context!System>>}
      <3>1. Len(history) > 2
        BY <1>2, <2>1 DEF Typed, Messages
      <3>2. PICK n : n = Len(history)
        OBVIOUS
      <3>3. n > 2
        BY <3>1, <3>2
      <3>4. history = <<>> => n = 0
        BY <2>2, <3>2
      <3>5. history = <<Context!System>> => n = 1
        BY <2>2, <3>2
      <3> HIDE DEF Context!System
      <3>6. history # <<>>
        BY <3>3, <3>4
      <3>7. history # <<Context!System>>
        BY <3>3, <3>5
      <3> QED BY <3>6, <3>7
    <2> QED BY <1>2, <2>3 DEF Asked
  <1>5. history \in Messages /\ Rounds(history, Given) /\ Due(history, <<>>) /\ Headed(history)
    BY <1>2, <1>4 DEF Typed, Ordered, Settled, Asked
  <1>6. Cutting(history, plan')
    <2>1. Keep \in Nat
      BY HistoryAssumption
    <2> QED BY <1>1, <1>3, <1>5, <2>1, PlanCuts
  <1>7. Typed' /\ Ordered'
    BY <1>1, <1>2, <1>3 DEF Typed, Ordered, Context!PC
  <1>8. Asked' /\ Planned' /\ InPhase'
    BY <1>1, <1>2, <1>4, <1>6 DEF Asked, Planned, InPhase, Settled
  <1> QED BY <1>7, <1>8 DEF HistoryInv

LEMMA FoldKeeps == HistoryInv /\ Context!Fold => HistoryInv'
  <1> SUFFICES ASSUME HistoryInv, Context!Fold PROVE HistoryInv'
    OBVIOUS
  <1>1. /\ (pc = "room" /\ pc' = "stream") \/ (pc = "compact" /\ pc' = "idle")
        /\ history' = Context!Folded(history, plan) \/ history' = history
        /\ plan' = Context!NoPlan
        /\ UNCHANGED <<todo, stored, unsaved, replies, notes, resumes>>
    BY DEF Context!Fold
  <1>2. Typed /\ Ordered /\ Asked /\ Settled /\ Cutting(history, plan)
    BY <1>1 DEF HistoryInv, InPhase, Planned
  <1>3. Given \in Nat /\ notes \in Nat /\ Given' = Given /\ notes # 0
    BY <1>1, <1>2, GivenIs DEF Given, Asked
  <1>5. history \in Messages /\ Rounds(history, Given) /\ Due(history, <<>>) /\ Headed(history)
    BY <1>2, <1>3 DEF Typed, Ordered, Settled, Asked
  <1>6. history' \in Messages /\ Rounds(history', Given) /\ Due(history', <<>>) /\ Headed(history')
    BY <1>1, <1>2, <1>3, <1>5, FoldedIs
  <1>7. Typed' /\ Ordered'
    BY <1>1, <1>2, <1>3, <1>6 DEF Typed, Ordered, Context!PC
  <1>8. Asked' /\ Planned' /\ InPhase'
    BY <1>1, <1>2, <1>3, <1>6 DEF Asked, Planned, InPhase, Settled
  <1> QED BY <1>7, <1>8 DEF HistoryInv

\* Steps that only move on.
LEMMA MovingKeeps ==
    HistoryInv /\ (Context!Send \/ Context!Overflow \/ Context!NoImage \/ Context!ToolsDone) => HistoryInv'
  <1> SUFFICES ASSUME HistoryInv, Context!Send \/ Context!Overflow \/ Context!NoImage \/ Context!ToolsDone
               PROVE HistoryInv'
    OBVIOUS
  <1>1. UNCHANGED <<history, todo, plan, stored, unsaved, replies, notes, resumes>>
    BY DEF Context!Send, Context!Overflow, Context!NoImage, Context!ToolsDone
  <1>2. \/ pc \in {"loop", "stream"} /\ pc' \in {"loop", "stream"}
        \/ pc = "result" /\ pc' = "tools"
        \/ pc = "tools" /\ todo = <<>> /\ pc' = "loop"
    BY DEF Context!Send, Context!Overflow, Context!NoImage, Context!ToolsDone
  <1>3. Typed' /\ Ordered'
    BY <1>1, <1>2 DEF HistoryInv, Typed, Ordered, Given, Context!PC
  <1>4. Asked' /\ Planned'
    BY <1>1, <1>2 DEF HistoryInv, Asked, Planned
  <1>5. InPhase'
    BY <1>1, <1>2 DEF HistoryInv, InPhase, Settled, Answering
  <1> QED BY <1>3, <1>4, <1>5 DEF HistoryInv

\* The ids of a new reply are above all given out.
LEMMA NewIdsAre ==
  ASSUME FreshIds = TRUE, Typed, Ordered, NEW n \in 1..MaxCalls, replies' = replies + 1,
         NEW h \in Messages, Rounds(h, Given)
  PROVE  /\ Context!NewIds(n) \in Seq(Nat) /\ Context!NewIds(n) # <<>>
         /\ Given' \in Nat /\ Given <= Given'
         /\ Novel(h, Context!Assistant(Context!NewIds(n)), Given')
  <1> DEFINE ids == Context!NewIds(n)
  <1>0. /\ Given \in Nat /\ replies \in Nat /\ MaxCalls \in Nat /\ Given = replies * MaxCalls
        /\ n \in Nat /\ n >= 1 /\ n <= MaxCalls
    BY GivenIs
  <1>1. Given' = Given + MaxCalls
    <2>1. \A a, b \in Nat : (a + 1) * b = a * b + b
      OBVIOUS
    <2> QED BY <1>0, <2>1 DEF Given
  <1>2. ids = [i \in 1..n |-> Given + i]
    BY <1>0 DEF Context!NewIds
  <1> HIDE DEF ids
  <1>3. ids \in [1..n -> Nat]
    BY <1>0, <1>2
  <1>4. ids \in Seq(Nat) /\ DOMAIN ids = 1..n /\ Len(ids) = n
    BY <1>0, <1>3, FunIsSeq
  <1>5. \A i \in 1..n : ids[i] = Given + i
    BY <1>2
  <1>6. ids # <<>>
    BY <1>0, <1>4
  <1>7. Given' \in Nat /\ Given <= Given'
    BY <1>0, <1>1
  <1>8. Context!Assistant(ids).calls = ids
    BY OthersAre
  <1>9. Novel(h, Context!Assistant(ids), Given')
    <2>1. \A l \in 1..n : ids[l] <= Given'
      BY <1>0, <1>1, <1>5
    <2>2. \A k, l \in 1..n : ids[k] = ids[l] => k = l
      BY <1>0, <1>5
    <2>3. ASSUME NEW i \in DOMAIN h, NEW k \in DOMAIN h[i].calls, NEW l \in 1..n
          PROVE  h[i].calls[k] # ids[l]
      <3>1. h[i].calls[k] <= Given
        BY DEF Rounds, Fresh
      <3>2. h[i].calls[k] \in Nat
        BY MessageIs
      <3>3. ids[l] = Given + l /\ l >= 1
        BY <1>5
      <3> QED BY <1>0, <3>1, <3>2, <3>3
    <2> QED BY <1>4, <1>8, <2>1, <2>2, <2>3 DEF Novel
  <1> QED BY <1>4, <1>6, <1>7, <1>9 DEF ids

LEMMA ReplyKeeps == FreshIds = TRUE /\ HistoryInv /\ Context!Reply => HistoryInv'
  <1> SUFFICES ASSUME FreshIds = TRUE, HistoryInv, Context!Reply PROVE HistoryInv'
    OBVIOUS
  <1>1. /\ pc = "stream" /\ replies < MaxReplies /\ replies' = replies + 1 /\ pc' = "tools"
        /\ UNCHANGED <<plan, unsaved, notes, resumes>>
    BY DEF Context!Reply
  <1>2. PICK n \in 1..MaxCalls : /\ Context!Say(Context!Assistant(Context!NewIds(n)))
                                 /\ todo' = Context!NewIds(n)
    BY DEF Context!Reply
  <1> DEFINE m == Context!Assistant(todo')
  <1>3. history' = Append(history, m) /\ stored' = Append(stored, m)
    BY <1>2 DEF Context!Say
  <1>4. Typed /\ Ordered /\ Asked /\ Planned /\ Settled
    BY <1>1 DEF HistoryInv, InPhase
  <1>5. history \in Messages /\ Rounds(history, Given) /\ Due(history, <<>>) /\ stored \in Messages /\ Rounds(stored, Given)
    BY <1>4 DEF Typed, Ordered, Settled
  <1>6. /\ todo' \in Seq(Nat) /\ todo' # <<>> /\ Given' \in Nat /\ Given <= Given'
        /\ Novel(history, m, Given') /\ Novel(stored, m, Given')
    BY <1>1, <1>2, <1>4, <1>5, NewIdsAre
  <1>7. m \in Context!Message /\ m.role = "assistant" /\ m.role # "tool" /\ m.calls = todo'
    BY <1>6, OthersAre DEF Context!Assistant
  <1>8. Given \in Nat /\ notes \in Nat /\ replies \in Nat
    BY <1>4, GivenIs
  <1> HIDE DEF m
  <1>9. Rounds(history', Given') /\ Rounds(stored', Given')
    BY <1>3, <1>5, <1>6, <1>7, <1>8, SayRounds
  <1>10. history' \in Messages /\ stored' \in Messages
    BY <1>3, <1>5, <1>7 DEF Messages
  <1>11. Due(history', todo') /\ Owes(history', todo') /\ Owes(stored', todo')
    BY <1>3, <1>5, <1>7, SayDue, SayOwes
  <1>12. notes # 0 /\ Headed(history) /\ Headed(stored)
    BY <1>1, <1>4 DEF Asked
  <1>13. Headed(history') /\ Headed(stored')
    BY <1>3, <1>5, <1>7, <1>12, HeadStays
  <1>14. Typed'
    <2>1. replies' \in 0..MaxReplies /\ "tools" \in Context!PC
      BY <1>1, <1>8, HistoryAssumption DEF Context!PC
    <2> QED BY <1>1, <1>4, <1>6, <1>10, <2>1 DEF Typed
  <1>15. Ordered'
    BY <1>9 DEF Ordered
  <1>16. Asked' /\ Planned' /\ InPhase'
    BY <1>1, <1>4, <1>11, <1>12, <1>13 DEF Asked, Planned, InPhase, Answering, Settled
  <1> QED BY <1>14, <1>15, <1>16 DEF HistoryInv

LEMMA PlainReplyKeeps == HistoryInv /\ Context!PlainReply => HistoryInv'
  <1> SUFFICES ASSUME HistoryInv, Context!PlainReply PROVE HistoryInv'
    OBVIOUS
  <1> DEFINE a == Context!Assistant(<<>>)
             u == Context!User(FALSE)
  <1>1. /\ pc = "stream" /\ replies < MaxReplies /\ replies' = replies + 1
        /\ stored' = Append(stored, a)
        /\ \/ history' = history \o <<a, u>> /\ pc' = "loop"
           \/ history' = Append(history, a) /\ pc' = "repair"
        /\ UNCHANGED <<todo, plan, unsaved, notes, resumes>>
    BY DEF Context!PlainReply
  <1>2. Typed /\ Ordered /\ Asked /\ Planned /\ Settled
    BY <1>1 DEF HistoryInv, InPhase
  <1>3. /\ history \in Messages /\ Rounds(history, Given) /\ Due(history, <<>>)
        /\ stored \in Messages /\ Rounds(stored, Given)
        /\ notes # 0 /\ Headed(history) /\ Headed(stored)
    BY <1>1, <1>2 DEF Typed, Ordered, Settled, Asked
  <1>4. /\ a \in Context!Message /\ a.role # "tool" /\ a.calls = <<>>
        /\ u \in Context!Message /\ u.role # "tool" /\ u.calls = <<>>
    <2>1. <<>> \in Seq(Nat)
      OBVIOUS
    <2>2. a.role = "assistant"
      BY DEF Context!Assistant
    <2> QED BY <2>1, <2>2, OthersAre
  <1>5. Given \in Nat /\ Given' \in Nat /\ Given <= Given' /\ Given' <= Given' /\ replies \in Nat
    <2>1. Given \in Nat /\ replies \in Nat /\ MaxCalls \in Nat /\ Given = replies * MaxCalls
      BY <1>2, GivenIs
    <2>2. \A x, y \in Nat : (x + 1) * y = x * y + y
      OBVIOUS
    <2>3. Given' = Given + MaxCalls
      BY <1>1, <2>1, <2>2 DEF Given
    <2> QED BY <2>1, <2>3
  <1> HIDE DEF a, u
  <1>6. stored' \in Messages /\ Rounds(stored', Given') /\ Headed(stored')
    BY <1>1, <1>3, <1>4, <1>5, SayPlain
  <1> DEFINE b == Append(history, a)
  <1>7. b \in Messages /\ Rounds(b, Given') /\ Due(b, <<>>) /\ Headed(b)
    BY <1>3, <1>4, <1>5, SayPlain
  <1> HIDE DEF b
  <1>8. history' = Append(b, u) \/ history' = b
    <2>1. \A z \in Messages, x, y \in Context!Message : z \o <<x, y>> = Append(Append(z, x), y)
      BY DEF Messages
    <2> QED BY <1>1, <1>3, <1>4, <2>1 DEF b
  <1>9. history' \in Messages /\ Rounds(history', Given') /\ Due(history', <<>>) /\ Headed(history')
    <2>1. CASE history' = b
      BY <1>7, <2>1
    <2>2. CASE history' = Append(b, u)
      BY <1>4, <1>5, <1>7, <2>2, SayPlain
    <2> QED BY <1>8, <2>1, <2>2
  <1>10. Typed'
    <2>1. replies' \in 0..MaxReplies /\ pc' \in Context!PC
      BY <1>1, <1>5, HistoryAssumption DEF Context!PC
    <2> QED BY <1>1, <1>2, <1>6, <1>9, <2>1 DEF Typed
  <1>11. Ordered' /\ Asked' /\ Planned'
    BY <1>1, <1>2, <1>3, <1>6, <1>9 DEF Ordered, Asked, Planned
  <1>12. pc' = "loop" => Settled'
    BY <1>1, <1>2, <1>9 DEF Settled
  <1>13. pc' = "repair" => Repairing'
    <2>1. <<>> \in Seq(Nat) /\ Owes(stored', <<>>) /\ Owes(history', <<>>)
      BY DEF Owes
    <2>2. todo' = <<>> /\ unsaved' = <<>>
      BY <1>1, <1>2 DEF Settled
    <2> QED BY <1>9, <2>1, <2>2 DEF Repairing
  <1>14. InPhase'
    BY <1>1, <1>12, <1>13 DEF InPhase
  <1> QED BY <1>10, <1>11, <1>14 DEF HistoryInv

LEMMA ResultKeeps == HistoryInv /\ Context!ToolResult => HistoryInv'
  <1> SUFFICES ASSUME HistoryInv, Context!ToolResult PROVE HistoryInv'
    OBVIOUS
  <1> DEFINE m == Context!Tool(Head(todo))
  <1>1. /\ pc = "tools" /\ todo # <<>> /\ todo' = Tail(todo) /\ pc' = "result"
        /\ history' = Append(history, m) /\ stored' = Append(stored, m)
        /\ UNCHANGED <<plan, unsaved, replies, notes, resumes>>
    BY DEF Context!ToolResult, Context!Say
  <1>2. Typed /\ Ordered /\ Asked /\ Planned /\ Answering
    BY <1>1 DEF HistoryInv, InPhase
  <1>3. /\ history \in Messages /\ Rounds(history, Given) /\ Due(history, todo) /\ Owes(history, todo)
        /\ stored \in Messages /\ Rounds(stored, Given) /\ Owes(stored, todo)
        /\ notes # 0 /\ Headed(history) /\ Headed(stored) /\ todo \in Seq(Nat)
    BY <1>1, <1>2 DEF Typed, Ordered, Answering, Asked
  <1>4. Given \in Nat /\ Given' = Given
    BY <1>1, <1>2, GivenIs DEF Given
  <1>5. Head(todo) \in Nat /\ Tail(todo) \in Seq(Nat)
    BY <1>1, <1>3
  <1>6. m \in Context!Message
    BY <1>5, ToolIs
  <1>7. /\ Rounds(history', Given) /\ Owes(history', todo') /\ Due(history', todo')
        /\ Rounds(stored', Given) /\ Owes(stored', todo')
    BY <1>1, <1>3, <1>4, AnswerRounds, AnswerDue
  <1> HIDE DEF m
  <1>8. history' \in Messages /\ stored' \in Messages
    BY <1>1, <1>3, <1>6 DEF Messages
  <1>9. Headed(history') /\ Headed(stored')
    BY <1>1, <1>3, <1>6, HeadStays
  <1>10. Typed'
    <2>1. "result" \in Context!PC
      BY DEF Context!PC
    <2> QED BY <1>1, <1>2, <1>5, <1>8, <2>1 DEF Typed
  <1>11. Ordered' /\ Asked' /\ Planned' /\ InPhase'
    BY <1>1, <1>2, <1>3, <1>4, <1>7, <1>9 DEF Ordered, Asked, Planned, InPhase, Answering
  <1> QED BY <1>10, <1>11 DEF HistoryInv

LEMMA ImageKeeps == Images = "last" /\ HistoryInv /\ Context!Image => HistoryInv'
  <1> SUFFICES ASSUME Images = "last", HistoryInv, Context!Image PROVE HistoryInv'
    OBVIOUS
  <1> DEFINE m == Context!User(FALSE)
  <1>1. /\ pc = "result" /\ todo = <<>> /\ pc' = "tools"
        /\ history' = Append(history, m) /\ stored' = Append(stored, m)
        /\ UNCHANGED <<todo, plan, unsaved, replies, notes, resumes>>
    BY DEF Context!Image, Context!Say
  <1>2. Typed /\ Ordered /\ Asked /\ Planned /\ Answering
    BY <1>1 DEF HistoryInv, InPhase
  <1>3. /\ history \in Messages /\ Rounds(history, Given) /\ Due(history, <<>>)
        /\ stored \in Messages /\ Rounds(stored, Given)
        /\ notes # 0 /\ Headed(history) /\ Headed(stored)
    BY <1>1, <1>2 DEF Typed, Ordered, Answering, Asked
  <1>4. Given \in Nat /\ Given <= Given /\ Given' = Given
    BY <1>1, <1>2, GivenIs DEF Given
  <1>5. m \in Context!Message /\ m.role # "tool" /\ m.calls = <<>>
    BY OthersAre
  <1> HIDE DEF m
  <1>6. /\ history' \in Messages /\ Rounds(history', Given) /\ Due(history', <<>>) /\ Headed(history')
        /\ stored' \in Messages /\ Rounds(stored', Given) /\ Headed(stored')
    BY <1>1, <1>3, <1>4, <1>5, SayPlain
  <1>7. Owes(history', <<>>) /\ Owes(stored', <<>>)
    BY DEF Owes
  <1>8. Typed'
    <2>1. "tools" \in Context!PC
      BY DEF Context!PC
    <2> QED BY <1>1, <1>2, <1>6, <2>1 DEF Typed
  <1>9. Ordered' /\ Asked' /\ Planned' /\ InPhase'
    BY <1>1, <1>2, <1>3, <1>4, <1>6, <1>7 DEF Ordered, Asked, Planned, InPhase, Answering
  <1> QED BY <1>8, <1>9 DEF HistoryInv

LEMMA LeaveKeeps == HistoryInv /\ Context!LeaveLoop => HistoryInv'
  <1> SUFFICES ASSUME HistoryInv, Context!LeaveLoop PROVE HistoryInv'
    OBVIOUS
  <1>1. /\ pc \in {"loop", "stream", "tools"} /\ todo' = <<>> /\ pc' = "repair"
        /\ UNCHANGED <<history, plan, stored, unsaved, replies, notes, resumes>>
    BY DEF Context!LeaveLoop
  <1>2. Typed /\ Ordered /\ Asked /\ Planned
    BY DEF HistoryInv
  <1>3. <<>> \in Seq(Nat) /\ Owes(history, <<>>) /\ Owes(stored, <<>>) /\ todo \in Seq(Nat)
    BY <1>2 DEF Owes, Typed
  <1>4. unsaved = <<>> /\ \E rest \in Seq(Nat) : Owes(stored, rest) /\ Due(history, rest) /\ Owes(history, rest)
    <2>1. CASE pc = "tools"
      <3>1. Answering
        BY <2>1 DEF HistoryInv, InPhase
      <3> QED BY <1>3, <3>1 DEF Answering
    <2>2. CASE pc # "tools"
      <3>1. Settled
        BY <1>1, <2>2 DEF HistoryInv, InPhase
      <3> QED BY <1>3, <3>1 DEF Settled
    <2> QED BY <2>1, <2>2
  <1>5. Repairing'
    BY <1>1, <1>4 DEF Repairing
  <1>6. Typed'
    BY <1>1, <1>2, <1>3 DEF Typed, Context!PC
  <1>7. Ordered' /\ Asked' /\ Planned' /\ InPhase'
    BY <1>1, <1>2, <1>5 DEF Ordered, Given, Asked, Planned, InPhase
  <1> QED BY <1>6, <1>7 DEF HistoryInv

LEMMA RepairKeeps == HistoryInv /\ Context!Repair => HistoryInv'
  <1> SUFFICES ASSUME HistoryInv, Context!Repair PROVE HistoryInv'
    OBVIOUS
  <1>1. /\ pc = "repair" /\ unsaved = <<>>
        /\ history' = Context!EnsureIntegrity(history) /\ unsaved' = Context!Stubs(history)
        /\ pc' = (IF unsaved' = <<>> THEN "idle" ELSE "repair")
        /\ UNCHANGED <<todo, plan, stored, replies, notes, resumes>>
    BY DEF Context!Repair
  <1>2. Typed /\ Ordered /\ Asked /\ Planned /\ Repairing
    BY <1>1 DEF HistoryInv, InPhase
  <1>3. /\ history \in Messages /\ Rounds(history, Given) /\ stored \in Messages /\ Rounds(stored, Given)
        /\ notes # 0 /\ Headed(history) /\ Headed(stored) /\ todo = <<>>
    BY <1>1, <1>2 DEF Typed, Ordered, Asked, Repairing
  <1>4. PICK rest \in Seq(Nat) : Owes(stored, rest) /\ Due(history, rest) /\ Owes(history, rest)
    BY <1>1, <1>2 DEF Repairing
  <1>5. Given \in Nat /\ Given' = Given
    BY <1>1, <1>2, GivenIs DEF Given
  <1>6. history' \in Messages /\ Rounds(history', Given) /\ Due(history', <<>>) /\ Headed(history')
    BY <1>1, <1>3, <1>5, EnsureIs
  <1>7. unsaved' = Results(rest)
    BY <1>1, <1>3, <1>4, <1>5, StubsAre
  <1>8. unsaved' \in Messages
    BY <1>7, ResultsAre
  <1>9. Typed'
    BY <1>1, <1>2, <1>6, <1>8 DEF Typed, Context!PC
  <1>10. pc' = "repair" => Repairing'
    BY <1>1, <1>3, <1>4, <1>6, <1>7 DEF Repairing
  <1>11. pc' = "idle" => Settled'
    BY <1>1, <1>3, <1>6 DEF Settled
  <1>12. Ordered' /\ Asked' /\ Planned' /\ InPhase'
    BY <1>1, <1>2, <1>3, <1>5, <1>6, <1>10, <1>11 DEF Ordered, Asked, Planned, InPhase
  <1> QED BY <1>9, <1>12 DEF HistoryInv

LEMMA SaveKeeps == HistoryInv /\ Context!SaveStub => HistoryInv'
  <1> SUFFICES ASSUME HistoryInv, Context!SaveStub PROVE HistoryInv'
    OBVIOUS
  <1>1. /\ pc = "repair" /\ unsaved # <<>>
        /\ stored' = Append(stored, Head(unsaved)) /\ unsaved' = Tail(unsaved)
        /\ pc' = (IF unsaved' = <<>> THEN "idle" ELSE "repair")
        /\ UNCHANGED <<history, todo, plan, replies, notes, resumes>>
    BY DEF Context!SaveStub
  <1>2. Typed /\ Ordered /\ Asked /\ Planned /\ Repairing
    BY <1>1 DEF HistoryInv, InPhase
  <1>3. /\ stored \in Messages /\ Rounds(stored, Given) /\ Due(history, <<>>)
        /\ notes # 0 /\ Headed(history) /\ Headed(stored) /\ todo = <<>>
    BY <1>1, <1>2 DEF Typed, Ordered, Asked, Repairing
  <1>4. PICK rest \in Seq(Nat) : Owes(stored, rest) /\ unsaved = Results(rest)
    BY <1>1, <1>2 DEF Repairing
  <1>5. Given \in Nat /\ Given' = Given
    BY <1>1, <1>2, GivenIs DEF Given
  <1>6. /\ Results(rest) \in Messages /\ Len(Results(rest)) = Len(rest) /\ DOMAIN Results(rest) = DOMAIN rest
        /\ \A n \in DOMAIN rest : Results(rest)[n] = Context!Tool(rest[n])
    BY ResultsAre
  <1>7. rest # <<>> /\ Len(rest) \in Nat /\ Len(rest) >= 1
    <2>1. Len(unsaved) # 0
      BY <1>1, <1>4, <1>6 DEF Messages
    <2>2. Len(rest) # 0 /\ Len(rest) \in Nat
      BY <1>4, <1>6, <2>1
    <2> QED BY <2>2
  <1>8. Head(unsaved) = Context!Tool(Head(rest)) /\ Head(rest) \in Nat /\ Tail(rest) \in Seq(Nat)
    <2>1. 1 \in DOMAIN rest /\ Head(rest) = rest[1] /\ Head(rest) \in Nat /\ Tail(rest) \in Seq(Nat)
      BY <1>7
    <2>2. Head(unsaved) = unsaved[1]
      BY <1>1, <1>4, <1>6 DEF Messages
    <2> QED BY <1>4, <1>6, <2>1, <2>2
  <1>9. Rounds(stored', Given) /\ Owes(stored', Tail(rest))
    BY <1>1, <1>3, <1>4, <1>5, <1>7, <1>8, AnswerRounds
  <1>10. stored' \in Messages /\ Headed(stored')
    <2>1. Head(unsaved) \in Context!Message
      BY <1>8, ToolIs
    <2>2. stored' \in Messages
      BY <1>1, <1>3, <2>1 DEF Messages
    <2> QED BY <1>1, <1>3, <2>1, <2>2, HeadStays
  <1>11. Tail(unsaved) = Results(Tail(rest)) /\ Tail(unsaved) \in Messages
    <2>1. /\ Results(Tail(rest)) \in Messages /\ Len(Results(Tail(rest))) = Len(Tail(rest))
          /\ DOMAIN Results(Tail(rest)) = DOMAIN Tail(rest)
          /\ \A n \in DOMAIN Tail(rest) : Results(Tail(rest))[n] = Context!Tool(Tail(rest)[n])
      BY <1>8, ResultsAre
    <2>2. Len(Tail(rest)) = Len(rest) - 1 /\ DOMAIN Tail(rest) = 1..(Len(rest) - 1)
          /\ \A n \in 1..(Len(rest) - 1) : Tail(rest)[n] = rest[n + 1] /\ n + 1 \in DOMAIN rest
      BY <1>7
    <2>3. /\ Tail(unsaved) \in Seq(Context!Message) /\ Len(Tail(unsaved)) = Len(rest) - 1
          /\ \A n \in 1..(Len(rest) - 1) : Tail(unsaved)[n] = unsaved[n + 1]
      <3>1. unsaved \in Seq(Context!Message) /\ unsaved # <<>> /\ Len(unsaved) = Len(rest)
        BY <1>1, <1>4, <1>6 DEF Messages
      <3>2. \A z \in Seq(Context!Message) : z # <<>> =>
              /\ Tail(z) \in Seq(Context!Message) /\ Len(Tail(z)) = Len(z) - 1
              /\ \A n \in 1..(Len(z) - 1) : Tail(z)[n] = z[n + 1]
        OBVIOUS
      <3> QED BY <3>1, <3>2
    <2>4. \A n \in 1..Len(Tail(unsaved)) : Tail(unsaved)[n] = Results(Tail(rest))[n]
      BY <1>4, <1>6, <2>1, <2>2, <2>3, ZenonT(30)
    <2>5. Results(Tail(rest)) \in Seq(Context!Message) /\ Len(Tail(unsaved)) = Len(Results(Tail(rest)))
      BY <2>1, <2>2, <2>3 DEF Messages
    <2>6. Tail(unsaved) = Results(Tail(rest))
      BY <2>3, <2>4, <2>5, SameSeq
    <2> QED BY <2>3, <2>6 DEF Messages
  <1>12. Typed'
    BY <1>1, <1>2, <1>10, <1>11 DEF Typed, Context!PC
  <1>13. pc' = "repair" => Repairing'
    <2> SUFFICES ASSUME pc' = "repair" PROVE Repairing'
      OBVIOUS
    <2>1. unsaved' # <<>>
      BY <1>1
    <2>2. todo' = <<>> /\ Due(history', <<>>) /\ unsaved' = Results(Tail(rest))
      BY <1>1, <1>3, <1>11
    <2> QED BY <1>8, <1>9, <2>1, <2>2 DEF Repairing
  <1>14. pc' = "idle" => Settled'
    BY <1>1, <1>3 DEF Settled
  <1>15. Ordered' /\ Asked' /\ Planned' /\ InPhase'
    BY <1>1, <1>2, <1>3, <1>5, <1>9, <1>10, <1>13, <1>14 DEF Ordered, Asked, Planned, InPhase
  <1> QED BY <1>12, <1>15 DEF HistoryInv

LEMMA CrashKeeps == HistoryInv /\ Context!CrashAndResume => HistoryInv'
  <1> SUFFICES ASSUME HistoryInv, Context!CrashAndResume PROVE HistoryInv'
    OBVIOUS
  <1>1. /\ resumes < MaxResumes /\ resumes' = resumes + 1
        /\ history' = Context!EnsureIntegrity(stored)
        /\ pc' = "idle" /\ todo' = <<>> /\ plan' = Context!NoPlan /\ unsaved' = <<>>
        /\ UNCHANGED <<stored, replies, notes>>
    BY DEF Context!CrashAndResume
  <1>2. Typed /\ Ordered /\ Asked
    BY DEF HistoryInv
  <1>3. stored \in Messages /\ Rounds(stored, Given) /\ Given \in Nat /\ Given' = Given
    BY <1>1, <1>2, GivenIs DEF Typed, Ordered, Given
  <1>4. /\ history' \in Messages /\ Rounds(history', Given) /\ Due(history', <<>>)
        /\ stored = <<>> => history' = <<>>
        /\ Headed(stored) => Headed(history')
    BY <1>1, <1>3, EnsureIs
  <1>5. Typed'
    <2>1. resumes' \in 0..MaxResumes /\ "idle" \in Context!PC
      BY <1>1, <1>2, HistoryAssumption DEF Context!PC, Typed
    <2>2. <<>> \in Seq(Nat) /\ <<>> \in Messages
      BY DEF Messages
    <2> QED BY <1>1, <1>2, <1>4, <2>1, <2>2 DEF Typed
  <1>6. Ordered' /\ Asked' /\ Planned' /\ InPhase'
    BY <1>1, <1>2, <1>3, <1>4 DEF Ordered, Asked, Planned, InPhase, Settled
  <1> QED BY <1>5, <1>6 DEF HistoryInv

\* Ids are unique and images only behind the last result.
Providers == FreshIds = TRUE /\ Images = "last"

LEMMA HistoryNext == Providers /\ HistoryInv /\ [Context!Next]_(Context!vars) => HistoryInv'
  <1> SUFFICES ASSUME Providers, HistoryInv, [Context!Next]_(Context!vars) PROVE HistoryInv'
    OBVIOUS
  <1>1. CASE UNCHANGED Context!vars
    <2>1. UNCHANGED <<history, pc, todo, plan, stored, unsaved, replies, notes, resumes>>
      BY <1>1 DEF Context!vars
    <2> QED BY <2>1 DEF HistoryInv, Typed, Ordered, Given, Asked, Planned, InPhase, Settled, Answering, Repairing
  <1> QED BY <1>1, PromptKeeps, NoteKeeps, PlanKeeps, FoldKeeps, MovingKeeps, ReplyKeeps, PlainReplyKeeps,
             ResultKeeps, ImageKeeps, LeaveKeeps, RepairKeeps, SaveKeeps, CrashKeeps
             DEF Context!Next, Providers

\* What the invariant says of a history that is sent.
LEMMA HistoryHolds == HistoryInv => RequestsAreSound
  <1> SUFFICES ASSUME HistoryInv PROVE RequestsAreSound
    OBVIOUS
  <1>0. Typed /\ Ordered /\ Asked /\ Planned
    BY DEF HistoryInv
  <1>1. Context!TypeOK
    <2>1. plan # Context!NoPlan => plan.start + 3 <= plan.end /\ plan.end <= Len(history)
      BY <1>0 DEF Planned, Cutting
    <2> QED BY <1>0, <2>1 DEF Context!TypeOK, Typed, Messages
  <1>2. Context!RequestWellFormed
    <2> SUFFICES ASSUME pc = "stream" PROVE Context!WellFormed(history)
      BY DEF Context!RequestWellFormed
    <2>1. Due(history, <<>>) /\ Placed(history)
      BY <1>0 DEF HistoryInv, InPhase, Settled, Ordered, Rounds
    <2>2. ASSUME NEW i \in DOMAIN history, NEW k \in DOMAIN history[i].calls
          PROVE  i + k <= Len(history) /\ history[i + k] = Context!Tool(history[i].calls[k])
      <3>1. DOMAIN <<>> = {}
        OBVIOUS
      <3> QED BY <2>1, <3>1 DEF Due, IsDue, HasResult
    <2>3. ASSUME NEW j \in DOMAIN history, history[j].role = "tool"
          PROVE  \E i \in 1..(j - 1) : j - i \in DOMAIN history[i].calls
      BY <2>1, <2>3 DEF Placed, ResultOf
    <2> QED BY <2>2, <2>3 DEF Context!WellFormed
  <1>3. Context!TaskStays
    <2> SUFFICES ASSUME pc # "idle" PROVE history[First(history)].task = TRUE
      BY DEF Context!TaskStays, First
    <2>1. history[First(history)] = Context!User(TRUE)
      BY <1>0 DEF Asked, Headed
    <2> QED BY <2>1 DEF Context!User
  <1> QED BY <1>1, <1>2, <1>3 DEF RequestsAreSound

LEMMA ContextAlone == Spec => Context!Spec
  <1>1. Init => Context!Init
    BY DEF Init
  <1>2. [Next]_<<memory, historyVars, journalVars, checkpointVars>> => [Context!Next]_(Context!vars)
    BY DEF Next, historyVars, Context!vars
  <1> QED BY <1>1, <1>2, PTL DEF Spec, Context!Spec

\* Whatever was aborted, repaired, folded or resumed, every request has each
\* result behind its call and the task in it, with a provider whose ids are
\* its own and tools whose images end their round.
THEOREM RequestsAreSoundHolds ==
    ASSUME Providers PROVE Spec => []RequestsAreSound
  <1>1. Context!Init => HistoryInv
    BY HistoryInit
  <1>2. HistoryInv /\ [Context!Next]_(Context!vars) => HistoryInv'
    BY HistoryNext
  <1>3. HistoryInv => RequestsAreSound
    BY HistoryHolds
  <1> QED BY <1>1, <1>2, <1>3, ContextAlone, PTL DEF Context!Spec
==================================================================================
