------------------------- MODULE FirebasePathProofs -------------------------
(***************************************************************************)
(* Theorems about one database path and their proofs, for any devices,     *)
(* values, listeners and bounds.                                           *)
(***************************************************************************)
EXTENDS FirebasePath, FiniteSetTheorems, SequenceTheorems, TLAPS

-----------------------------------------------------------------------------
(* What the queues of the model hold.                                      *)

\* Consuming the oldest element of a non-empty queue.
LEMMA TailType ==
  ASSUME NEW S, NEW Q \in [Clients -> Seq(S)], NEW c \in Clients, Q[c] # <<>>
  PROVE  /\ Head(Q[c]) \in S
         /\ [Q EXCEPT ![c] = Tail(@)] \in [Clients -> Seq(S)]
  BY HeadTailProperties

\* Adding an element at the end of a queue.
LEMMA AppendType ==
  ASSUME NEW S, NEW Q \in [Clients -> Seq(S)], NEW c \in Clients, NEW e \in S
  PROVE  [Q EXCEPT ![c] = Append(@, e)] \in [Clients -> Seq(S)]
  BY AppendProperties

\* The path over some of its values: these are all that is stored, cached,
\* pending, travelling or queued anywhere.
UpOver(V)    == {ListenRequest, ReadRequest} \cup {Put(v) : v \in V}
DownOver(V)  == {Listening, Ok, Rejected} \cup {Data(v) : v \in V}
EventOver(V) == [value : V, to : SUBSET Regs]
KnownOver(V) == {NoValue} \cup V

PathOver(V) ==
  /\ db \in V
  /\ listeners \in SUBSET Clients
  /\ online \in SUBSET Clients
  /\ up \in [Clients -> Seq(UpOver(V))]
  /\ down \in [Clients -> Seq(DownOver(V))]
  /\ cache \in [Clients -> KnownOver(V)]
  /\ pending \in [Clients -> Seq(V)]
  /\ registered \in [Clients -> SUBSET Regs]
  /\ events \in [Clients -> Seq(EventOver(V))]
  /\ unacked \in [Clients -> Int]
  /\ deferred \in [Clients -> Nat]
  /\ budget \in [Budgets -> Nat]

\* The messages are messages, and those that carry a value carry one of
\* these values.
LEMMA MessagesOver ==
  ASSUME NEW V
  PROVE  /\ ListenRequest \in UpOver(V) /\ ReadRequest \in UpOver(V)
         /\ \A v \in V : Put(v) \in UpOver(V) /\ Data(v) \in DownOver(V)
         /\ Ok \in DownOver(V) /\ Rejected \in DownOver(V)
         /\ Listening \in DownOver(V)
         /\ \A m \in UpOver(V) : m.kind = "put" => m.value \in V
         /\ \A m \in DownOver(V) : m.kind = "data" => m.value \in V
  <1>1. /\ ListenRequest.kind # "put" /\ ReadRequest.kind # "put"
        /\ Ok.kind # "data" /\ Rejected.kind # "data" /\ Listening.kind # "data"
    BY DEF ListenRequest, ReadRequest, Listening, Ok, Rejected
  <1>2. \A v : Put(v).value = v /\ Data(v).value = v
    BY DEF Put, Data
  <1>3. \A m \in UpOver(V) : m.kind = "put" => m.value \in V
    BY <1>1, <1>2 DEF UpOver
  <1>4. \A m \in DownOver(V) : m.kind = "data" => m.value \in V
    BY <1>1, <1>2 DEF DownOver
  <1> QED BY <1>3, <1>4 DEF UpOver, DownOver

\* The latest of some pending writes.
LEMMA LastIsOver ==
  ASSUME NEW V, NEW writes \in Seq(V), writes # <<>>
  PROVE  writes[Len(writes)] \in V
  <1>1. Len(writes) \in 1..Len(writes)
    BY EmptySeq, LenProperties
  <1> QED BY <1>1, ElementOfSeq

\* What is shown is one of the values, once anything is known.
LEMMA ViewOver ==
  ASSUME NEW V, PathOver(V), NEW c \in Clients
  PROVE  View(c) \in KnownOver(V)
  <1>1. CASE cache[c] = NoValue \/ pending[c] = <<>>
    BY <1>1 DEF View, PathOver
  <1>2. CASE ~(cache[c] = NoValue \/ pending[c] = <<>>)
    <2>1. pending[c] \in Seq(V) /\ pending[c] # <<>>
      BY <1>2 DEF PathOver
    <2> QED BY <1>2, <2>1, LastIsOver DEF View, KnownOver
  <1> QED BY <1>1, <1>2

\* RaiseChange only queues events.
LEMMA RaiseChangeOver ==
  ASSUME NEW V, PathOver(V), NEW c \in Clients, RaiseChange(c),
         View(c)' # View(c) => View(c)' \in V
  PROVE  events' \in [Clients -> Seq(EventOver(V))]
  <1>1. CASE View(c)' # View(c) /\ registered[c] # {}
    <2>1. [value |-> View(c)', to |-> registered[c]] \in EventOver(V)
      BY <1>1 DEF EventOver, PathOver
    <2> QED BY <1>1, <2>1, AppendType DEF RaiseChange, PathOver
  <1>2. CASE View(c)' = View(c) \/ registered[c] = {}
    BY <1>2 DEF RaiseChange, PathOver
  <1> QED BY <1>1, <1>2

\* Spending from a bound leaves bounds.
LEMMA SpendOver ==
  ASSUME NEW V, PathOver(V), NEW b \in Budgets, Spend(b)
  PROVE  budget' \in [Budgets -> Nat]
  BY DEF Spend, PathOver

\* Parts of a queue, and a queue with a part left out.
LEMMA PartIsOver ==
  ASSUME NEW S, NEW q \in Seq(S), NEW n \in Nat
  PROVE  /\ SubSeq(q, n + 1, Len(q)) \in Seq(S)
         /\ Len(SubSeq(q, n + 1, Len(q))) = IF n <= Len(q) THEN Len(q) - n ELSE 0
         /\ \A i \in 1..(Len(q) - n) : SubSeq(q, n + 1, Len(q))[i] = q[n + i]
  <1>1. Len(q) \in Nat
    BY LenProperties
  <1>2. \A i \in (n+1)..Len(q) : q[i] \in S
    BY <1>1, ElementOfSeq
  <1> QED BY <1>1, <1>2, SubSeqProperties

LEMMA WithoutOne ==
  ASSUME NEW S, NEW q \in Seq(S), NEW a \in Nat, a < Len(q)
  PROVE  Without(q, a + 1, a + 1) \in Seq(S)
  <1>1. Len(q) \in Nat
    BY LenProperties
  <1>2. \A i \in 1..a : q[i] \in S
    BY <1>1, ElementOfSeq
  <1>3. SubSeq(q, 1, a) \in Seq(S)
    BY <1>1, <1>2, SubSeqProperties
  <1>4. SubSeq(q, (a + 1) + 1, Len(q)) \in Seq(S)
    BY PartIsOver
  <1>5. (a + 1) - 1 = a
    OBVIOUS
  <1> QED BY <1>3, <1>4, <1>5, ConcatProperties DEF Without

\* Leaving out the first ones, the first, none.
LEMMA WithoutFirst ==
  ASSUME NEW S, NEW q \in Seq(S), NEW n \in Nat
  PROVE  Without(q, 1, n) = SubSeq(q, n + 1, Len(q))
  <1>1. SubSeq(q, 1, 0) = <<>>
    BY EmptySeq, SubSeqProperties, LenProperties
  <1>2. SubSeq(q, n + 1, Len(q)) \in Seq(S)
    BY PartIsOver
  <1>3. 1 - 1 = 0
    OBVIOUS
  <1> QED BY <1>1, <1>2, <1>3, ConcatEmptySeq DEF Without

LEMMA WithoutHead ==
  ASSUME NEW S, NEW q \in Seq(S), q # <<>>
  PROVE  Without(q, 1, 1) = Tail(q)
  <1>1. Without(q, 1, 1) = SubSeq(q, 1 + 1, Len(q))
    BY WithoutFirst
  <1> QED BY <1>1, TailIsSubSeq

LEMMA WithoutNone ==
  ASSUME NEW S, NEW q \in Seq(S)
  PROVE  Without(q, 1, 0) = q
  <1>1. Without(q, 1, 0) = SubSeq(q, 0 + 1, Len(q))
    BY WithoutFirst
  <1> QED BY <1>1, SubSeqFull

-----------------------------------------------------------------------------
(* No action brings in another value, save a write.                        *)

\* What is queued for one listener.
LEMMA ServeOver ==
  ASSUME NEW V, PathOver(V), NEW c \in Clients, NEW r \in Regs,
         NEW queue \in Seq(EventOver(V))
  PROVE  Serve(queue, c, r) \in Seq(EventOver(V))
  <1>1. CASE View(c) = NoValue
    BY <1>1 DEF Serve
  <1>2. CASE View(c) # NoValue
    <2>1. [value |-> View(c), to |-> {r}] \in EventOver(V)
      BY <1>2, ViewOver DEF EventOver, KnownOver
    <2>2. Append(queue, [value |-> View(c), to |-> {r}]) \in Seq(EventOver(V))
      BY <2>1, AppendProperties
    <2> QED BY <1>2, <2>2 DEF Serve
  <1> QED BY <1>1, <1>2

LEMMA SendListenOver ==
  ASSUME NEW V, PathOver(V), NEW c \in Clients, NEW request \in UpOver(V),
         SendListen(c, request)
  PROVE  up' \in [Clients -> Seq(UpOver(V))] /\ unacked' \in [Clients -> Int]
  <1>1. up \in [Clients -> Seq(UpOver(V))] /\ unacked \in [Clients -> Int]
    BY DEF PathOver
  <1>2. [up EXCEPT ![c] = Append(@, request)] \in [Clients -> Seq(UpOver(V))]
    BY <1>1, AppendType
  <1> QED BY <1>1, <1>2 DEF SendListen

LEMMA RegisterOver ==
  ASSUME NEW V, PathOver(V), NEW c \in Clients, NEW r \in Regs, NEW carry \in BOOLEAN,
         Register(c, r, carry)
  PROVE  PathOver(V)'
  <1> DEFINE queued == IF carry THEN events[c]
                       ELSE [i \in 1..Len(events[c]) |->
                               [events[c][i] EXCEPT !.to = @ \ {r}]]
  <1>1. queued \in Seq(EventOver(V))
    <2>1. events[c] \in Seq(EventOver(V)) /\ Len(events[c]) \in Nat
      BY LenProperties DEF PathOver
    <2>2. \A i \in 1..Len(events[c]) :
            [events[c][i] EXCEPT !.to = @ \ {r}] \in EventOver(V)
      <3> TAKE i \in 1..Len(events[c])
      <3>1. events[c][i] \in EventOver(V)
        BY <2>1, ElementOfSeq
      <3> QED BY <3>1 DEF EventOver
    <2>3. [i \in 1..Len(events[c]) |->
             [events[c][i] EXCEPT !.to = @ \ {r}]] \in Seq(EventOver(V))
      BY <2>1, <2>2, IsASeq
    <2> QED BY <2>1, <2>3
  <1>2. events' \in [Clients -> Seq(EventOver(V))]
    <2>1. Serve(queued, c, r) \in Seq(EventOver(V))
      BY <1>1, ServeOver
    <2> QED BY <2>1 DEF Register, PathOver
  <1>3. up' \in [Clients -> Seq(UpOver(V))] /\ unacked' \in [Clients -> Int]
    BY SendListenOver, MessagesOver DEF Register, PathOver
  <1>4. registered' \in [Clients -> SUBSET Regs]
    BY DEF Register, PathOver
  <1> QED BY <1>2, <1>3, <1>4 DEF Register, PathOver

LEMMA WriteOver ==
  ASSUME NEW V, PathOver(V), NEW c \in Clients, NEW v \in V, Write(c, v)
  PROVE  PathOver(V)'
  <1>1. pending' \in [Clients -> Seq(V)]
    BY AppendType DEF Write, PathOver
  <1>2. up' \in [Clients -> Seq(UpOver(V))]
    BY AppendType, MessagesOver DEF Write, PathOver
  <1>3. budget' \in [Budgets -> Nat]
    BY SpendOver DEF Write, Budgets
  <1>4. View(c)' # View(c) => View(c)' \in V
    <2>1. pending'[c] = Append(pending[c], v) /\ pending[c] \in Seq(V)
      BY DEF Write, PathOver
    <2>2. pending'[c] # <<>> /\ pending'[c][Len(pending'[c])] = v
      BY <2>1, AppendProperties
    <2>3. cache'[c] = cache[c]
      BY DEF Write
    <2> QED BY <2>2, <2>3 DEF View
  <1>5. events' \in [Clients -> Seq(EventOver(V))]
    BY <1>4, RaiseChangeOver DEF Write
  <1> QED BY <1>1, <1>2, <1>3, <1>5 DEF Write, PathOver

LEMMA ReadElsewhereOver ==
  ASSUME NEW V, PathOver(V), NEW c \in Clients, ReadElsewhere(c)
  PROVE  /\ up' \in [Clients -> Seq(UpOver(V))] /\ unacked' \in [Clients -> Int]
         /\ budget' \in [Budgets -> Nat]
  <1>1. budget' \in [Budgets -> Nat]
    BY SpendOver DEF ReadElsewhere, Budgets
  <1> QED BY <1>1, SendListenOver, MessagesOver DEF ReadElsewhere

LEMMA DeliverOver ==
  ASSUME NEW V, PathOver(V), NEW c \in Clients, NEW reading \in BOOLEAN,
         Deliver(c, reading)
  PROVE  PathOver(V)'
  <1>1. events' \in [Clients -> Seq(EventOver(V))]
    BY TailType DEF Deliver, PathOver
  <1>2. /\ up' \in [Clients -> Seq(UpOver(V))] /\ unacked' \in [Clients -> Int]
        /\ budget' \in [Budgets -> Nat]
    BY ReadElsewhereOver DEF Deliver, PathOver
  <1> QED BY <1>1, <1>2 DEF Deliver, PathOver

LEMMA ReadOver ==
  ASSUME NEW V, PathOver(V), NEW c \in Clients, Read(c)
  PROVE  PathOver(V)'
  BY ReadElsewhereOver DEF Read, PathOver

LEMMA RaiseAgainOver ==
  ASSUME NEW V, PathOver(V), NEW c \in Clients, NEW r \in Regs, RaiseAgain(c, r)
  PROVE  PathOver(V)'
  <1>1. Serve(events[c], c, r) \in Seq(EventOver(V))
    BY ServeOver DEF PathOver
  <1>2. events' \in [Clients -> Seq(EventOver(V))]
    BY <1>1 DEF RaiseAgain, PathOver
  <1>3. budget' \in [Budgets -> Nat]
    BY SpendOver DEF RaiseAgain, Budgets
  <1> QED BY <1>2, <1>3 DEF RaiseAgain, PathOver

LEMMA ServerStepOver ==
  ASSUME NEW V, PathOver(V), NEW c \in Clients, ServerStep(c)
  PROVE  PathOver(V)'
  <1>1. CASE ServerListen(c)
    <2>1. up' \in [Clients -> Seq(UpOver(V))]
      BY <1>1, TailType DEF ServerListen, TakeUp, PathOver
    <2>2. down' \in [Clients -> Seq(DownOver(V))]
      <3>1. down \in [Clients -> Seq(DownOver(V))] /\ Data(db) \in DownOver(V)
            /\ Listening \in DownOver(V)
        BY MessagesOver DEF PathOver
      <3>2. Append(Append(down[c], Data(db)), Listening) \in Seq(DownOver(V))
        BY <3>1, AppendProperties
      <3> QED BY <1>1, <3>1, <3>2 DEF ServerListen
    <2> QED BY <1>1, <2>1, <2>2 DEF ServerListen, PathOver
  <1>4. CASE ServerRead(c)
    <2>1. up' \in [Clients -> Seq(UpOver(V))]
      BY <1>4, TailType DEF ServerRead, TakeUp, PathOver
    <2>2. down' \in [Clients -> Seq(DownOver(V))]
      BY <1>4, AppendType, MessagesOver DEF ServerRead, PathOver
    <2> QED BY <1>4, <2>1, <2>2 DEF ServerRead, PathOver
  <1>2. CASE ServerApply(c)
    <2>1. up' \in [Clients -> Seq(UpOver(V))]
      BY <1>2, TailType DEF ServerApply, TakeUp, PathOver
    <2>2. db' \in V
      <3>1. Head(up[c]) \in UpOver(V) /\ Head(up[c]).kind = "put"
        BY <1>2, TailType DEF ServerApply, TakeUp, PathOver
      <3> QED BY <1>2, <3>1, MessagesOver DEF ServerApply
    <2>3. \A d \in Clients :
            LET told == IF d \in listeners THEN Append(down[d], Data(db'))
                        ELSE down[d]
            IN  (IF d = c THEN Append(told, Ok) ELSE told) \in Seq(DownOver(V))
      <3> TAKE d \in Clients
      <3> DEFINE told == IF d \in listeners THEN Append(down[d], Data(db'))
                         ELSE down[d]
      <3>1. down[d] \in Seq(DownOver(V)) /\ Data(db') \in DownOver(V)
            /\ Ok \in DownOver(V)
        BY <2>2, MessagesOver DEF PathOver
      <3>2. told \in Seq(DownOver(V))
        BY <3>1, AppendProperties
      <3>3. Append(told, Ok) \in Seq(DownOver(V))
        BY <3>1, <3>2, AppendProperties
      <3> QED BY <3>2, <3>3
    <2>4. down' \in [Clients -> Seq(DownOver(V))]
      BY <1>2, <2>3 DEF ServerApply
    <2> QED BY <1>2, <2>1, <2>2, <2>4 DEF ServerApply, PathOver
  <1>3. CASE ServerReject(c)
    <2>1. up' \in [Clients -> Seq(UpOver(V))]
      BY <1>3, TailType DEF ServerReject, TakeUp, PathOver
    <2>2. down' \in [Clients -> Seq(DownOver(V))]
      BY <1>3, AppendType, MessagesOver DEF ServerReject, PathOver
    <2>3. budget' \in [Budgets -> Nat]
      BY <1>3, SpendOver DEF ServerReject, Budgets
    <2> QED BY <1>3, <2>1, <2>2, <2>3 DEF ServerReject, PathOver
  <1> QED BY <1>1, <1>2, <1>3, <1>4 DEF ServerStep

LEMMA ReceiveOver ==
  ASSUME NEW V, PathOver(V), NEW c \in Clients, Receive(c)
  PROVE  PathOver(V)'
  <1>1. down' \in [Clients -> Seq(DownOver(V))]
    <2>1. \A kinds : TakeDown(c, kinds) =>
            down' \in [Clients -> Seq(DownOver(V))]
      BY TailType DEF TakeDown, PathOver
    <2>2. \E kinds : TakeDown(c, kinds)
      BY DEF Receive, ReceiveData, ReceiveOk, ReceiveRejected, ReceiveAnswer,
             ReceiveListening
    <2> QED BY <2>1, <2>2
  <1>2. CASE ReceiveData(c)
    <2>1. cache' \in [Clients -> KnownOver(V)] /\ cache'[c] \in V
      <3>1. Head(down[c]) \in DownOver(V) /\ Head(down[c]).kind = "data"
        BY <1>2, TailType DEF ReceiveData, TakeDown, PathOver
      <3> QED BY <1>2, <3>1, MessagesOver DEF ReceiveData, PathOver, KnownOver
    <2>2. View(c)' \in V
      <3>1. CASE pending[c] = <<>>
        BY <1>2, <2>1, <3>1 DEF ReceiveData, View
      <3>2. CASE pending[c] # <<>>
        <4>1. pending'[c] = pending[c] /\ pending[c] \in Seq(V)
          BY <1>2 DEF ReceiveData, PathOver
        <4>2. pending[c][Len(pending[c])] \in V
          BY <3>2, <4>1, LastIsOver
        <4> QED BY <2>1, <4>1, <4>2 DEF View
      <3> QED BY <3>1, <3>2
    <2>3. events' \in [Clients -> Seq(EventOver(V))]
      BY <1>2, <2>2, RaiseChangeOver DEF ReceiveData
    <2> QED BY <1>1, <1>2, <2>1, <2>3 DEF ReceiveData, TakeDown, PathOver
  <1>3. CASE ReceiveOk(c) \/ ReceiveRejected(c) \/ ReceiveListening(c)
    <2>1. pending' \in [Clients -> Seq(V)] /\ deferred' \in [Clients -> Nat]
      <3>1. pending \in [Clients -> Seq(V)] /\ deferred \in [Clients -> Nat]
        BY DEF PathOver
      <3>2. ASSUME NEW kind, ReceiveAnswer(c, kind)
            PROVE  pending' \in [Clients -> Seq(V)]
                   /\ deferred' \in [Clients -> Nat]
        <4>1. Without(pending[c], deferred[c] + 1, deferred[c] + 1) \in Seq(V)
          BY <3>1, <3>2, WithoutOne DEF ReceiveAnswer
        <4>2. CASE unacked[c] = 0
          BY <3>1, <3>2, <4>1, <4>2 DEF ReceiveAnswer
        <4>3. CASE unacked[c] # 0
          <5>1. pending' = pending /\ deferred' = [deferred EXCEPT ![c] = @ + 1]
            BY <3>2, <4>3 DEF ReceiveAnswer
          <5> QED BY <3>1, <5>1
        <4> QED BY <4>2, <4>3
      <3>3. CASE ReceiveListening(c)
        <4> DEFINE acked == IF unacked[c] = 1 THEN deferred[c] ELSE 0
        <4>1. acked \in Nat /\ deferred[c] - acked \in Nat
          BY <3>1
        <4>2. /\ pending' = [pending EXCEPT ![c] = Without(@, 1, acked)]
              /\ deferred' = [deferred EXCEPT ![c] = @ - acked]
          BY <3>3 DEF ReceiveListening
        <4> HIDE DEF acked
        <4>3. Without(pending[c], 1, acked) \in Seq(V)
          <5>1. pending[c] \in Seq(V)
            BY <3>1
          <5>2. SubSeq(pending[c], acked + 1, Len(pending[c])) \in Seq(V)
            BY <4>1, <5>1, PartIsOver
          <5> QED BY <4>1, <5>1, <5>2, WithoutFirst
        <4>4. pending' \in [Clients -> Seq(V)]
          <5> DEFINE left == Without(pending[c], 1, acked)
          <5>1. pending' = [pending EXCEPT ![c] = left] /\ left \in Seq(V)
            BY <4>2, <4>3
          <5> HIDE DEF left
          <5> QED BY <3>1, <5>1
        <4> QED BY <3>1, <4>1, <4>2, <4>4
      <3> QED BY <1>3, <3>2, <3>3 DEF ReceiveOk, ReceiveRejected
    <2>2. cache' = cache /\ RaiseChange(c) /\ unacked' \in [Clients -> Int]
      BY <1>3 DEF ReceiveOk, ReceiveRejected, ReceiveAnswer, ReceiveListening,
                  PathOver
    <2>3. View(c)' # View(c) => View(c)' \in V
      <3>1. CASE cache[c] = NoValue
        BY <2>2, <3>1 DEF View
      <3>2. CASE cache[c] # NoValue /\ pending'[c] = <<>>
        BY <2>2, <3>2 DEF View, PathOver, KnownOver
      <3>3. CASE cache[c] # NoValue /\ pending'[c] # <<>>
        <4>1. pending'[c][Len(pending'[c])] \in V
          BY <2>1, <3>3, LastIsOver
        <4> QED BY <2>2, <3>3, <4>1 DEF View
      <3> QED BY <3>1, <3>2, <3>3
    <2>4. events' \in [Clients -> Seq(EventOver(V))]
      BY <2>2, <2>3, RaiseChangeOver
    <2> QED BY <1>1, <1>3, <2>1, <2>2, <2>4
            DEF ReceiveOk, ReceiveRejected, ReceiveAnswer, ReceiveListening,
                TakeDown, PathOver
  <1> QED BY <1>2, <1>3 DEF Receive

LEMMA RestoredOver ==
  ASSUME NEW V, PathOver(V), NEW c \in Clients, NEW reading \in BOOLEAN
  PROVE  RestoreState(c, reading) \in Seq(UpOver(V))
  <1> DEFINE listen == IF registered[c] = {} THEN <<>> ELSE <<ListenRequest>>
             read   == IF reading THEN <<ReadRequest>> ELSE <<>>
             resent == [i \in 1..Len(Outstanding(c)) |-> Put(Outstanding(c)[i])]
  <1>1. Outstanding(c) \in Seq(V)
    BY PartIsOver DEF Outstanding, PathOver
  <1>2. Len(Outstanding(c)) \in Nat
    BY <1>1, LenProperties
  <1>3. \A i \in 1..Len(Outstanding(c)) : Put(Outstanding(c)[i]) \in UpOver(V)
    BY <1>1, ElementOfSeq, MessagesOver
  <1>4. resent \in Seq(UpOver(V))
    BY <1>2, <1>3, IsASeq
  <1>5. listen \in Seq(UpOver(V)) /\ read \in Seq(UpOver(V))
    BY MessagesOver
  <1>6. (listen \o read) \o resent \in Seq(UpOver(V))
    BY <1>4, <1>5, ConcatProperties
  <1> QED BY <1>6 DEF RestoreState

LEMMA ConnectionOver ==
  ASSUME NEW V, PathOver(V), NEW c \in Clients, NEW reading \in BOOLEAN,
         Disconnect(c) \/ Reconnect(c, reading) \/ Kill(c)
  PROVE  PathOver(V)'
  <1> \A S : <<>> \in Seq(S)
    BY EmptySeq
  <1>1. CASE Disconnect(c)
    <2>1. budget' \in [Budgets -> Nat]
      BY <1>1, SpendOver DEF Disconnect, Budgets
    <2> QED BY <1>1, <2>1 DEF Disconnect, PathOver
  <1>2. CASE Reconnect(c, reading)
    <2>1. up' \in [Clients -> Seq(UpOver(V))]
      BY <1>2, RestoredOver DEF Reconnect, PathOver
    <2>2. unacked' \in [Clients -> Int]
      BY <1>2 DEF Reconnect, PathOver
    <2>3. budget' \in [Budgets -> Nat]
      BY <1>2, SpendOver DEF Reconnect, Budgets, PathOver
    <2> QED BY <1>2, <2>1, <2>2, <2>3 DEF Reconnect, PathOver
  <1>3. CASE Kill(c)
    <2>1. budget' \in [Budgets -> Nat]
      BY <1>3, SpendOver DEF Kill, Budgets
    <2>2. NoValue \in KnownOver(V)
      BY DEF KnownOver
    <2> QED BY <1>3, <2>1, <2>2 DEF Kill, PathOver
  <1> QED BY <1>1, <1>2, <1>3

-----------------------------------------------------------------------------
\* A step of the path in which only these values are written.
LEMMA PathStepOver ==
  ASSUME NEW V, PathOver(V), [PathNext]_pathVars,
         \A c \in Clients, v \in Values : Write(c, v) => v \in V
  PROVE  PathOver(V)'
  <1>1. CASE UNCHANGED pathVars
    BY <1>1 DEF pathVars, PathOver
  <1>2. ASSUME NEW c \in Clients, NEW v \in Values, Write(c, v)
        PROVE  PathOver(V)'
    BY <1>2, WriteOver
  <1>3. ASSUME NEW c \in Clients, NEW r \in Regs, NEW carry \in BOOLEAN,
               Register(c, r, carry)
        PROVE  PathOver(V)'
    BY <1>3, RegisterOver
  <1>4. ASSUME NEW c \in Clients, NEW reading \in BOOLEAN,
               \/ Deliver(c, reading) \/ ServerStep(c) \/ Receive(c)
               \/ Disconnect(c) \/ Reconnect(c, reading) \/ Kill(c) \/ Read(c)
        PROVE  PathOver(V)'
    BY <1>4, DeliverOver, ServerStepOver, ReceiveOver, ConnectionOver, ReadOver
  <1>5. ASSUME NEW c \in Clients, NEW r \in Regs, RaiseAgain(c, r)
        PROVE  PathOver(V)'
    BY <1>5, RaiseAgainOver
  <1> QED BY <1>1, <1>2, <1>3, <1>4, <1>5 DEF PathNext

-----------------------------------------------------------------------------
(* The same for all values of the path: its type invariant.                *)

LEMMA TypesOver ==
  /\ UpMessage = UpOver(Values) /\ DownMessage = DownOver(Values)
  /\ Known = KnownOver(Values) /\ Event = EventOver(Values)
  /\ PathTypeOK <=> PathOver(Values)
  BY DEF UpMessage, DownMessage, Event, Known, PathTypeOK,
         UpOver, DownOver, EventOver, KnownOver, PathOver

LEMMA MessageTypes ==
  /\ ListenRequest \in UpMessage /\ ReadRequest \in UpMessage
  /\ \A v \in Values : Put(v) \in UpMessage /\ Data(v) \in DownMessage
  /\ Ok \in DownMessage /\ Rejected \in DownMessage
  /\ Listening \in DownMessage
  /\ \A m \in UpMessage : m.kind = "put" => m.value \in Values
  /\ \A m \in DownMessage : m.kind = "data" => m.value \in Values
  BY TypesOver, MessagesOver

LEMMA LastIsValue ==
  ASSUME NEW writes \in Seq(Values), writes # <<>>
  PROVE  writes[Len(writes)] \in Values
  BY LastIsOver

LEMMA ViewType ==
  ASSUME PathTypeOK, NEW c \in Clients
  PROVE  View(c) \in Known
  BY TypesOver, ViewOver

\* Every step of the path keeps the types.
LEMMA PathStepType ==
  ASSUME PathTypeOK, [PathNext]_pathVars
  PROVE  PathTypeOK'
  <1>1. PathOver(Values)'
    BY TypesOver, PathStepOver
  <1> QED BY <1>1
          DEF UpMessage, DownMessage, Event, Known, PathTypeOK,
              UpOver, DownOver, EventOver, KnownOver, PathOver

\* All steps of the server and the client in particular.
LEMMA ServerStepType ==
  ASSUME PathTypeOK, NEW c \in Clients, ServerStep(c)
  PROVE  PathTypeOK'
  BY PathStepType DEF PathNext

\* Wherever a path starts and whatever is written to it, the server, the
\* caches, the pending writes, the messages and the events only ever hold
\* values that were written or there at the start: what is lost, refused, sent
\* again or forgotten makes no others (FRepo.m setInternal, FWriteTree.m).
THEOREM NothingFromNowhere ==
  ASSUME NEW V, Initial \in V
  PROVE  PathSpec /\ [][\A c \in Clients, v \in Values : Write(c, v) => v \in V]_pathVars
           => []PathOver(V)
  <1>1. PathInit => PathOver(V)
    BY BoundsAssumption, EmptySeq DEF PathInit, PathOver, KnownOver, Budgets
  <1>2. /\ PathOver(V) /\ [PathNext]_pathVars
        /\ [\A c \in Clients, v \in Values : Write(c, v) => v \in V]_pathVars
        => PathOver(V)'
    <2>1. CASE UNCHANGED pathVars
      BY <2>1 DEF pathVars, PathOver
    <2> QED BY <2>1, PathStepOver
  <1> QED BY <1>1, <1>2, PTL DEF PathSpec

\* Type correctness of the path.
THEOREM PathTypeCorrect == PathSpec => []PathTypeOK
  <1>1. PathInit => PathTypeOK
    BY InitialAssumption, BoundsAssumption, EmptySeq
    DEF PathInit, PathTypeOK, Known, Budgets
  <1>2. PathTypeOK /\ [PathNext]_pathVars => PathTypeOK'
    BY PathStepType
  <1> QED BY <1>1, <1>2, PTL DEF PathSpec

-----------------------------------------------------------------------------
(* Where a queue ends when an element is added or consumed.                *)

LEMMA EndsAtAppended ==
  ASSUME NEW n \in Nat, NEW marked \in SUBSET (1..n), NEW q2,
         NEW held, NEW v, q2[n+1].value = v
  PROVE  EndsAt(q2, marked \cup {n+1}, held, v)
  BY DEF EndsAt

LEMMA EndsAtUntouched ==
  ASSUME NEW q, NEW marked, NEW q2, NEW held, NEW v,
         \A i \in marked : q2[i] = q[i],
         EndsAt(q, marked, held, v)
  PROVE  EndsAt(q2, marked, held, v)
  BY DEF EndsAt

\* After the oldest element is consumed, what is held is its value if it was
\* marked and the same as before if it was not.
LEMMA EndsAtConsumed ==
  ASSUME NEW q, NEW n \in Nat \ {0}, NEW marked \in SUBSET (1..n), NEW q2,
         NEW held, NEW held2, NEW v,
         \A i \in 1..(n-1) : q2[i] = q[i+1],
         1 \in marked => held2 = q[1].value,
         1 \notin marked => held2 = held,
         EndsAt(q, marked, held, v)
  PROVE  EndsAt(q2, {i \in 1..(n-1) : i+1 \in marked}, held2, v)
  <1> DEFINE left == {i \in 1..(n-1) : i+1 \in marked}
  <1>1. CASE marked = {}
    BY <1>1 DEF EndsAt
  <1>2. CASE marked # {}
    <2>1. PICK i \in marked : (\A j \in marked : j <= i) /\ q[i].value = v
      BY <1>2 DEF EndsAt
    <2>2. CASE i = 1
      <3>1. left = {} /\ held2 = v
        BY <2>1, <2>2
      <3> QED BY <3>1 DEF EndsAt
    <2>3. CASE i # 1
      <3>1. i - 1 \in left /\ q2[i-1] = q[i]
        BY <2>3
      <3>2. \A j \in left : j <= i - 1
        BY <2>1
      <3>3. EndsAt(q2, left, held2, v)
        <4> HIDE DEF left
        <4> QED BY <2>1, <3>1, <3>2 DEF EndsAt
      <3> QED BY <3>3
    <2> QED BY <2>2, <2>3
  <1> QED BY <1>1, <1>2

\* The positions of some kinds of messages, when one is added or consumed.
LEMMA AtAppended ==
  ASSUME NEW S, NEW q \in Seq(S), NEW e \in S, NEW kinds
  PROVE  At(Append(q, e), kinds) =
           IF e.kind \in kinds THEN At(q, kinds) \cup {Len(q) + 1}
           ELSE At(q, kinds)
  <1>1. Len(q) \in Nat /\ Len(Append(q, e)) = Len(q) + 1
        /\ (\A i \in 1..Len(q) : Append(q, e)[i] = q[i])
        /\ Append(q, e)[Len(q) + 1] = e
    BY AppendProperties, LenProperties
  <1>2. 1..(Len(q) + 1) = (1..Len(q)) \cup {Len(q) + 1}
    BY <1>1
  <1> QED BY <1>1, <1>2 DEF At

LEMMA AtConsumed ==
  ASSUME NEW S, NEW q \in Seq(S), q # <<>>, NEW kinds
  PROVE  At(Tail(q), kinds) = {i \in 1..(Len(q) - 1) : i + 1 \in At(q, kinds)}
  <1>1. Len(q) \in Nat /\ Len(Tail(q)) = Len(q) - 1
        /\ (\A i \in 1..(Len(q) - 1) : Tail(q)[i] = q[i+1])
    BY HeadTailProperties, LenProperties
  <1>2. \A i \in 1..(Len(q) - 1) : i + 1 \in 1..Len(q)
    BY <1>1
  <1> QED BY <1>1, <1>2 DEF At

-----------------------------------------------------------------------------
(* ListenersAreTold is inductive, given the types.                         *)

\* New data queued for a device is the last it will hold.
LEMMA ToldByData ==
  ASSUME NEW q \in Seq(DownMessage), NEW v \in Values, NEW held
  PROVE  EndsAt(Append(q, Data(v)), At(Append(q, Data(v)), {"data"}), held, v)
  <1>1. Data(v) \in DownMessage /\ Data(v).kind \in {"data"} /\ Data(v).value = v
    BY MessageTypes DEF Data
  <1>2. Len(q) \in Nat /\ Append(q, Data(v))[Len(q) + 1] = Data(v)
    BY <1>1, AppendProperties, LenProperties
  <1>3. At(Append(q, Data(v)), {"data"}) = At(q, {"data"}) \cup {Len(q) + 1}
    BY <1>1, AtAppended
  <1>4. At(q, {"data"}) \in SUBSET (1..Len(q))
    BY DEF At
  <1>5. Append(q, Data(v))[Len(q) + 1].value = v
    BY <1>1, <1>2
  <1>6. EndsAt(Append(q, Data(v)), At(q, {"data"}) \cup {Len(q) + 1}, held, v)
    BY <1>2, <1>4, <1>5, EndsAtAppended
  <1> QED BY <1>3, <1>6

\* An answer or response queued behind changes nothing in that.
LEMMA ToldDespiteAnswer ==
  ASSUME NEW q \in Seq(DownMessage), NEW e \in {Ok, Rejected, Listening}, NEW held, NEW v,
         EndsAt(q, At(q, {"data"}), held, v)
  PROVE  EndsAt(Append(q, e), At(Append(q, e), {"data"}), held, v)
  <1>1. e \in DownMessage /\ e.kind \notin {"data"}
    BY MessageTypes DEF Ok, Rejected, Listening
  <1>2. At(Append(q, e), {"data"}) = At(q, {"data"})
    BY <1>1, AtAppended
  <1>3. \A i \in At(q, {"data"}) : Append(q, e)[i] = q[i]
    BY <1>1, AppendProperties DEF At
  <1> QED BY <1>2, <1>3, EndsAtUntouched

\* Receiving a message keeps what the device will hold.
LEMMA ToldWhenReceived ==
  ASSUME NEW q \in Seq(DownMessage), q # <<>>, NEW held, NEW held2, NEW v,
         Head(q).kind = "data" => held2 = Head(q).value,
         Head(q).kind # "data" => held2 = held,
         EndsAt(q, At(q, {"data"}), held, v)
  PROVE  EndsAt(Tail(q), At(Tail(q), {"data"}), held2, v)
  <1>1. Len(q) \in Nat \ {0} /\ Head(q) = q[1]
        /\ (\A i \in 1..(Len(q) - 1) : Tail(q)[i] = q[i+1])
    BY HeadTailProperties, LenProperties, EmptySeq
  <1>2. At(q, {"data"}) \in SUBSET (1..Len(q))
    BY DEF At
  <1>3. 1 \in At(q, {"data"}) <=> Head(q).kind = "data"
    BY <1>1 DEF At
  <1>4. EndsAt(Tail(q), {i \in 1..(Len(q) - 1) : i + 1 \in At(q, {"data"})},
               held2, v)
    BY <1>1, <1>2, <1>3, EndsAtConsumed
  <1> QED BY <1>4, AtConsumed

LEMMA ListenersAreToldStep ==
  ASSUME PathTypeOK, ListenersAreTold, [PathNext]_pathVars
  PROVE  ListenersAreTold'
  <1> SUFFICES ASSUME NEW d \in Clients, d \in listeners'
               PROVE  EndsAt(down'[d], At(down'[d], {"data"}), cache'[d], db')
    <2>1. listeners' \subseteq Clients
      BY PathStepType DEF PathTypeOK
    <2> QED BY <2>1 DEF ListenersAreTold, At
  <1>0. d \in listeners => EndsAt(down[d], At(down[d], {"data"}), cache[d], db)
    BY DEF ListenersAreTold
  <1>q. down \in [Clients -> Seq(DownMessage)] /\ down[d] \in Seq(DownMessage)
        /\ db \in Values /\ listeners \subseteq Clients
    BY DEF PathTypeOK
  <1>1. CASE /\ listeners' \subseteq listeners /\ UNCHANGED db
             /\ down'[d] = down[d] /\ cache'[d] = cache[d]
    BY <1>0, <1>1
  <1>2. ASSUME NEW c \in Clients, ServerListen(c)
        PROVE  EndsAt(down'[d], At(down'[d], {"data"}), cache'[d], db')
    <2>1. CASE d = c
      <3> DEFINE told == Append(down[d], Data(db))
      <3>1. EndsAt(told, At(told, {"data"}), cache[d], db)
        BY <1>q, ToldByData
      <3>2. told \in Seq(DownMessage)
        BY <1>q, MessageTypes, AppendProperties
      <3>3. /\ down'[d] = Append(told, Listening) /\ cache' = cache /\ db' = db
        BY <1>2, <1>q, <2>1 DEF ServerListen
      <3> HIDE DEF told
      <3> QED BY <3>1, <3>2, <3>3, ToldDespiteAnswer
    <2>2. CASE d # c
      BY <1>2, <1>0, <2>2 DEF ServerListen
    <2> QED BY <2>1, <2>2
  <1>3. ASSUME NEW c \in Clients, ServerApply(c)
        PROVE  EndsAt(down'[d], At(down'[d], {"data"}), cache'[d], db')
    <2>1. db' \in Values
      <3>1. ServerStep(c)
        BY <1>3 DEF ServerStep
      <3> QED BY <3>1, ServerStepType DEF PathTypeOK
    <2> DEFINE told == Append(down[d], Data(db'))
    <2>2. d \in listeners /\ cache' = cache
          /\ down'[d] = IF d = c THEN Append(told, Ok) ELSE told
      BY <1>3 DEF ServerApply
    <2>3. EndsAt(told, At(told, {"data"}), cache'[d], db')
      BY <1>q, <2>1, ToldByData
    <2>4. told \in Seq(DownMessage)
      BY <1>q, <2>1, MessageTypes, AppendProperties
    <2> HIDE DEF told
    <2>5. EndsAt(Append(told, Ok), At(Append(told, Ok), {"data"}), cache'[d], db')
      BY <2>3, <2>4, ToldDespiteAnswer
    <2> QED BY <2>2, <2>3, <2>5
  <1>4. ASSUME NEW c \in Clients, ServerReject(c) \/ ServerRead(c)
        PROVE  EndsAt(down'[d], At(down'[d], {"data"}), cache'[d], db')
    BY <1>4, <1>0, <1>q, ToldDespiteAnswer DEF ServerReject, ServerRead
  <1>5. ASSUME NEW c \in Clients, Receive(c)
        PROVE  EndsAt(down'[d], At(down'[d], {"data"}), cache'[d], db')
    <2>1. d \in listeners /\ db' = db
      BY <1>5 DEF Receive, ReceiveData, ReceiveOk, ReceiveRejected, ReceiveAnswer,
                  ReceiveListening, TakeDown
    <2>2. CASE d # c
      <3>1. down'[d] = down[d] /\ cache'[d] = cache[d]
        BY <1>5, <2>2 DEF Receive, ReceiveData, ReceiveOk, ReceiveRejected,
                          ReceiveAnswer, ReceiveListening, TakeDown, PathTypeOK
      <3> QED BY <1>0, <2>1, <3>1
    <2>3. CASE d = c
      <3>1. down[d] # <<>> /\ down'[d] = Tail(down[d])
        BY <1>5, <1>q, <2>3 DEF Receive, ReceiveData, ReceiveOk, ReceiveRejected,
                                ReceiveAnswer, ReceiveListening, TakeDown
      <3>2. /\ Head(down[d]).kind = "data" => cache'[d] = Head(down[d]).value
            /\ Head(down[d]).kind # "data" => cache'[d] = cache[d]
        BY <1>5, <2>3 DEF Receive, ReceiveData, ReceiveOk, ReceiveRejected,
                          ReceiveAnswer, ReceiveListening, TakeDown, PathTypeOK
      <3> QED BY <1>0, <1>q, <2>1, <3>1, <3>2, ToldWhenReceived
    <2> QED BY <2>2, <2>3
  <1>6. CASE UNCHANGED pathVars
    BY <1>1, <1>6 DEF pathVars
  <1>7. ASSUME NEW c \in Clients, NEW r \in Regs, NEW carry \in BOOLEAN,
               Register(c, r, carry)
        PROVE  EndsAt(down'[d], At(down'[d], {"data"}), cache'[d], db')
    BY <1>1, <1>7 DEF Register
  <1>8. ASSUME NEW c \in Clients, NEW v \in Values, Write(c, v)
        PROVE  EndsAt(down'[d], At(down'[d], {"data"}), cache'[d], db')
    BY <1>1, <1>8 DEF Write
  <1>9. ASSUME NEW c \in Clients, NEW reading \in BOOLEAN,
               Deliver(c, reading) \/ Reconnect(c, reading) \/ Read(c)
        PROVE  EndsAt(down'[d], At(down'[d], {"data"}), cache'[d], db')
    BY <1>1, <1>9 DEF Deliver, Reconnect, Read
  <1>11. ASSUME NEW c \in Clients, NEW r \in Regs, RaiseAgain(c, r)
         PROVE  EndsAt(down'[d], At(down'[d], {"data"}), cache'[d], db')
    BY <1>1, <1>11 DEF RaiseAgain
  <1>10. ASSUME NEW c \in Clients, Disconnect(c) \/ Kill(c)
         PROVE  EndsAt(down'[d], At(down'[d], {"data"}), cache'[d], db')
    <2>1. listeners' = listeners \ {c} /\ d # c
      BY <1>10 DEF Disconnect, Kill
    <2>2. db' = db /\ down'[d] = down[d] /\ cache'[d] = cache[d]
      BY <1>10, <2>1 DEF Disconnect, Kill, PathTypeOK
    <2> QED BY <1>1, <2>1, <2>2
  <1> QED BY <1>2, <1>3, <1>4, <1>5, <1>6, <1>7, <1>8, <1>9, <1>10,
             <1>11
          DEF PathNext, ServerStep

\* No listening device is left behind: what has reached a device the server
\* counts as listening, together with what is on its way there, ends at the
\* server's value, however many devices write and whatever is lost or refused.
THEOREM ListenersToldCorrect == PathSpec => []ListenersAreTold
  <1>1. PathInit => ListenersAreTold
    BY DEF PathInit, ListenersAreTold
  <1>2. PathTypeOK /\ ListenersAreTold /\ [PathNext]_pathVars => ListenersAreTold'
    BY ListenersAreToldStep
  <1> QED BY <1>1, <1>2, PathTypeCorrect, PTL DEF PathSpec

-----------------------------------------------------------------------------
(* Counting the messages of some kinds in a queue.                         *)

\* How many of some positions are no later than position n.
UpTo(marked, n) == Cardinality({i \in marked : i <= n})

\* Sets of positions are finite.
LEMMA PositionsFinite ==
  ASSUME NEW n \in Nat, NEW marked \in SUBSET (1..n)
  PROVE  /\ IsFiniteSet(marked) /\ Cardinality(marked) \in Nat
         /\ \A k : /\ IsFiniteSet({i \in marked : i <= k})
                   /\ UpTo(marked, k) \in 0..Cardinality(marked)
         /\ \A k \in marked : UpTo(marked, k) >= 1
<1>1. IsFiniteSet(marked) /\ Cardinality(marked) \in Nat
  <2>1. IsFiniteSet(1..n)
    BY FS_Interval
  <2>2. IsFiniteSet(marked)
    BY <2>1, FS_Subset
  <2> QED
    BY <2>2, FS_CardinalityType
<1>2. ASSUME NEW k
      PROVE  /\ IsFiniteSet({i \in marked : i <= k})
             /\ UpTo(marked, k) \in 0..Cardinality(marked)
  <2> DEFINE below == {i \in marked : i <= k}
  <2>1. below \in SUBSET marked
    OBVIOUS
  <2> HIDE DEF below
  <2>2. /\ IsFiniteSet(below) /\ Cardinality(below) \in Nat
        /\ Cardinality(below) <= Cardinality(marked)
    BY <1>1, <2>1, FS_Subset, FS_CardinalityType
  <2>3. Cardinality(below) \in 0..Cardinality(marked)
    BY <1>1, <2>2
  <2> QED
    BY <2>2, <2>3 DEF UpTo, below
<1>3. ASSUME NEW k \in marked PROVE UpTo(marked, k) >= 1
  <2> DEFINE below == {i \in marked : i <= k}
  <2>1. k \in below
    OBVIOUS
  <2>2. Cardinality(below) # 0
    BY <1>2, <2>1, FS_EmptySet
  <2>3. Cardinality(below) \in Nat
    BY <1>2, FS_CardinalityType
  <2> QED
    BY <2>2, <2>3 DEF UpTo
<1> QED
  BY <1>1, <1>2, <1>3

\* Moving positions down by one does not change how many there are.
LEMMA ShiftCount ==
  ASSUME NEW n \in Nat, NEW marked \in SUBSET (2..(n + 1))
  PROVE  Cardinality({i \in 1..n : i + 1 \in marked}) = Cardinality(marked)
<1> DEFINE left == {i \in 1..n : i + 1 \in marked}
           f == [i \in marked |-> i - 1]
<1>1. IsFiniteSet(marked)
  <2>1. IsFiniteSet(2..(n + 1))
    BY FS_Interval
  <2> QED
    BY <2>1, FS_Subset
<1>2. f \in Bijection(marked, left)
  <2>1. f \in [marked -> left]
    OBVIOUS
  <2>2. \A i, j \in marked : f[i] = f[j] => i = j
    OBVIOUS
  <2>3. \A k \in left : \E i \in marked : f[i] = k
    <3> TAKE k \in left
    <3>1. k + 1 \in marked /\ f[k + 1] = k
      OBVIOUS
    <3> QED
      BY <3>1
  <2> QED
    BY <2>1, <2>2, <2>3 DEF Bijection, Injection, Surjection, IsInjective
<1>3. ExistsBijection(marked, left)
  BY <1>2 DEF ExistsBijection
<1> HIDE DEF left
<1>4. Cardinality(left) = Cardinality(marked)
  BY <1>1, <1>3, FS_Bijection
<1> QED
  BY <1>4 DEF left

First(marked) == IF 1 \in marked THEN 1 ELSE 0

\* When the first position is consumed, every count goes down by it.
LEMMA ConsumedCount ==
  ASSUME NEW n \in Nat, NEW marked \in SUBSET (1..(n + 1))
  PROVE  LET left == {i \in 1..n : i + 1 \in marked}
         IN  /\ Cardinality(left) = Cardinality(marked) - First(marked)
             /\ \A k \in 1..n :
                  UpTo(left, k) = UpTo(marked, k + 1) - First(marked)
<1>1. ASSUME NEW some \in SUBSET (1..(n + 1))
      PROVE  Cardinality({i \in 1..n : i + 1 \in some})
               = Cardinality(some) - First(some)
  <2> DEFINE rest == some \ {1}
  <2>1. {i \in 1..n : i + 1 \in some} = {i \in 1..n : i + 1 \in rest}
    OBVIOUS
  <2>2. rest \in SUBSET (2..(n + 1))
    OBVIOUS
  <2>3. IsFiniteSet(some) /\ Cardinality(some) \in Nat
    <3>1. n + 1 \in Nat
      OBVIOUS
    <3> HIDE DEF rest
    <3> QED
      BY <3>1, PositionsFinite
  <2>4. Cardinality(rest) = Cardinality(some) - First(some)
    <3>1. 1 \notin some => rest = some
      OBVIOUS
    <3>2. 1 \in some => Cardinality(rest) = Cardinality(some) - 1
      BY <2>3, FS_RemoveElement
    <3> HIDE DEF rest
    <3> QED
      BY <2>3, <3>1, <3>2 DEF First
  <2> HIDE DEF rest
  <2> QED
    BY <2>1, <2>2, <2>4, ShiftCount
<1>2. ASSUME NEW k \in 1..n
      PROVE  UpTo({i \in 1..n : i + 1 \in marked}, k)
               = UpTo(marked, k + 1) - First(marked)
  <2> DEFINE some == {i \in marked : i <= k + 1}
  <2>1. some \in SUBSET (1..(n + 1)) /\ First(some) = First(marked)
    <3>1. some \in SUBSET (1..(n + 1))
      OBVIOUS
    <3>2. 1 \in some <=> 1 \in marked
      OBVIOUS
    <3> HIDE DEF some
    <3> QED
      BY <3>1, <3>2 DEF First
  <2>2. {i \in {j \in 1..n : j + 1 \in marked} : i <= k}
          = {i \in 1..n : i + 1 \in some}
    OBVIOUS
  <2>3. Cardinality({i \in 1..n : i + 1 \in some})
          = Cardinality(some) - First(some)
    <3> HIDE DEF some
    <3> QED
      BY <1>1, <2>1
  <2> QED
    BY <2>1, <2>2, <2>3 DEF UpTo
<1> QED
  BY <1>1, <1>2

\* When a last position is added, it counts all there are.
LEMMA AppendedCount ==
  ASSUME NEW n \in Nat, NEW marked \in SUBSET (1..n)
  PROVE  /\ Cardinality(marked \cup {n + 1}) = Cardinality(marked) + 1
         /\ \A k \in 1..n : UpTo(marked \cup {n + 1}, k) = UpTo(marked, k)
         /\ UpTo(marked \cup {n + 1}, n + 1) = Cardinality(marked) + 1
<1>1. Cardinality(marked \cup {n + 1}) = Cardinality(marked) + 1
  BY PositionsFinite, FS_AddElement
<1>2. \A k \in 1..n :
        {i \in marked \cup {n + 1} : i <= k} = {i \in marked : i <= k}
  OBVIOUS
<1>3. {i \in marked \cup {n + 1} : i <= n + 1} = marked \cup {n + 1}
  <2>1. \A i \in marked \cup {n + 1} : i <= n + 1
    OBVIOUS
  <2> QED
    BY <2>1
<1> QED
  BY <1>1, <1>2, <1>3 DEF UpTo

\* The messages of some kinds in a queue: an appended one counts last.
LEMMA CountAppended ==
  ASSUME NEW S, NEW q \in Seq(S), NEW e \in S, NEW kinds
  PROVE  /\ Cardinality(At(q, kinds)) \in Nat
         /\ e.kind \notin kinds => At(Append(q, e), kinds) = At(q, kinds)
         /\ e.kind \in kinds =>
              /\ At(Append(q, e), kinds) = At(q, kinds) \cup {Len(q) + 1}
              /\ Cardinality(At(Append(q, e), kinds))
                   = Cardinality(At(q, kinds)) + 1
              /\ \A k \in 1..Len(q) :
                   UpTo(At(Append(q, e), kinds), k) = UpTo(At(q, kinds), k)
              /\ UpTo(At(Append(q, e), kinds), Len(q) + 1)
                   = Cardinality(At(q, kinds)) + 1
<1>1. Len(q) \in Nat /\ At(q, kinds) \in SUBSET (1..Len(q))
  BY LenProperties DEF At
<1>2. Cardinality(At(q, kinds)) \in Nat
  BY <1>1, PositionsFinite
<1>3. At(Append(q, e), kinds) = IF e.kind \in kinds
                                THEN At(q, kinds) \cup {Len(q) + 1}
                                ELSE At(q, kinds)
  BY AtAppended
<1> DEFINE n == Len(q)
           marked == At(q, kinds)
<1>4. n \in Nat /\ marked \in SUBSET (1..n)
  BY <1>1
<1> HIDE DEF n, marked
<1>5. /\ Cardinality(marked \cup {n + 1}) = Cardinality(marked) + 1
      /\ \A k \in 1..n : UpTo(marked \cup {n + 1}, k) = UpTo(marked, k)
      /\ UpTo(marked \cup {n + 1}, n + 1) = Cardinality(marked) + 1
  BY <1>4, AppendedCount
<1> USE DEF n, marked
<1>6. CASE e.kind \notin kinds
  BY <1>2, <1>3, <1>6, Zenon
<1>7. CASE e.kind \in kinds
  <2>1. At(Append(q, e), kinds) = At(q, kinds) \cup {Len(q) + 1}
    BY <1>3, <1>7, Zenon
  <2> QED
    BY <1>2, <1>5, <1>7, <2>1, Zenon
<1> QED
  BY <1>6, <1>7, Zenon

\* A consumed one counted first.
LEMMA CountConsumed ==
  ASSUME NEW S, NEW q \in Seq(S), q # <<>>, NEW kinds
  PROVE  LET first == IF Head(q).kind \in kinds THEN 1 ELSE 0
         IN  /\ Cardinality(At(q, kinds)) \in Nat
             /\ Cardinality(At(Tail(q), kinds)) \in Nat
             /\ Cardinality(At(Tail(q), kinds))
                  = Cardinality(At(q, kinds)) - first
             /\ \A k \in 1..(Len(q) - 1) :
                  UpTo(At(Tail(q), kinds), k)
                    = UpTo(At(q, kinds), k + 1) - first
<1> DEFINE n == Len(q) - 1
<1>1. /\ Len(q) \in Nat \ {0} /\ n \in Nat /\ Len(q) = n + 1 /\ Head(q) = q[1]
      /\ Tail(q) \in Seq(S)
  BY HeadTailProperties, LenProperties, EmptySeq
<1>2. At(q, kinds) \in SUBSET (1..(n + 1))
  BY <1>1 DEF At
<1>3. At(Tail(q), kinds) = {i \in 1..n : i + 1 \in At(q, kinds)}
  BY AtConsumed
<1>4. First(At(q, kinds)) = IF Head(q).kind \in kinds THEN 1 ELSE 0
  BY <1>1 DEF First, At
<1>5. n + 1 \in Nat
  BY <1>1
<1> HIDE DEF n
<1>6. Cardinality(At(q, kinds)) \in Nat
  BY <1>2, <1>5, PositionsFinite
<1>7. Cardinality(At(Tail(q), kinds)) \in Nat
  <2>1. At(Tail(q), kinds) \in SUBSET (1..n)
    BY <1>3
  <2> QED
    BY <1>1, <2>1, PositionsFinite
<1>8. /\ Cardinality(At(Tail(q), kinds))
           = Cardinality(At(q, kinds)) - First(At(q, kinds))
      /\ \A k \in 1..n :
           UpTo(At(Tail(q), kinds), k)
             = UpTo(At(q, kinds), k + 1) - First(At(q, kinds))
  BY <1>1, <1>2, <1>3, ConsumedCount
<1>9. Len(q) - 1 = n
  BY DEF n
<1> QED
  BY <1>4, <1>6, <1>7, <1>8, <1>9

-----------------------------------------------------------------------------
(* No answer is held back for ever.                                        *)

\* Nothing travels on a connection that is down.
OfflineIsEmpty ==
  \A c \in Clients : c \notin online =>
    up[c] = <<>> /\ down[c] = <<>> /\ c \notin listeners

\* A connection that is down stays empty.
LEMMA StaysEmpty ==
  ASSUME PathTypeOK, OfflineIsEmpty, [PathNext]_pathVars PROVE OfflineIsEmpty'
<1> SUFFICES ASSUME NEW d \in Clients, d \notin online'
             PROVE  up'[d] = <<>> /\ down'[d] = <<>> /\ d \notin listeners'
  BY DEF OfflineIsEmpty
<1>q. /\ up \in [Clients -> Seq(UpMessage)]
      /\ down \in [Clients -> Seq(DownMessage)]
  BY DEF PathTypeOK
<1>e. d \notin online =>
        up[d] = <<>> /\ down[d] = <<>> /\ d \notin listeners
  BY DEF OfflineIsEmpty
<1>1. CASE UNCHANGED pathVars
  BY <1>1, <1>e DEF pathVars
<1>2. ASSUME NEW c \in Clients, NEW r, NEW v, NEW flag,
             \/ Register(c, r, flag) \/ Write(c, v) \/ Read(c)
             \/ Deliver(c, flag) \/ RaiseAgain(c, r)
      PROVE  up'[d] = <<>> /\ down'[d] = <<>> /\ d \notin listeners'
  <2>1. online' = online /\ down' = down /\ listeners' = listeners
    BY <1>2 DEF Register, Write, Read, Deliver, RaiseAgain
  <2>2. up'[d] = up[d]
    BY <1>2, <2>1, <1>q
    DEF Register, Write, Read, Deliver, RaiseAgain, ReadElsewhere, SendListen
  <2> QED
    BY <1>e, <2>1, <2>2
<1>3. ASSUME NEW c \in Clients, ServerStep(c)
      PROVE  up'[d] = <<>> /\ down'[d] = <<>> /\ d \notin listeners'
  <2>1. d \notin online
    BY <1>3 DEF ServerStep, ServerListen, ServerRead, ServerApply, ServerReject
  <2>2. d # c
    BY <1>3, <1>e, <2>1
    DEF ServerStep, ServerListen, ServerRead, ServerApply, ServerReject, TakeUp
  <2> QED
    BY <1>3, <1>e, <1>q, <2>1, <2>2
    DEF ServerStep, ServerListen, ServerRead, ServerApply, ServerReject, TakeUp
<1>4. ASSUME NEW c \in Clients, Receive(c)
      PROVE  up'[d] = <<>> /\ down'[d] = <<>> /\ d \notin listeners'
  <2>1. PICK kinds : TakeDown(c, kinds)
    BY <1>4
    DEF Receive, ReceiveData, ReceiveOk, ReceiveRejected, ReceiveAnswer,
        ReceiveListening
  <2> QED
    BY <1>e, <1>q, <2>1 DEF TakeDown
<1>5. ASSUME NEW c \in Clients, Disconnect(c) \/ Kill(c)
      PROVE  up'[d] = <<>> /\ down'[d] = <<>> /\ d \notin listeners'
  BY <1>5, <1>e, <1>q DEF Disconnect, Kill
<1>6. ASSUME NEW c \in Clients, NEW reading \in BOOLEAN, Reconnect(c, reading)
      PROVE  up'[d] = <<>> /\ down'[d] = <<>> /\ d \notin listeners'
  BY <1>6, <1>e, <1>q DEF Reconnect
<1> QED
  BY <1>1, <1>2, <1>3, <1>4, <1>5, <1>6 DEF PathNext

\* The listens and the responses in a queue.
ListenKinds    == {"listen", "read"}
ListensIn(q)   == Cardinality(At(q, ListenKinds))
ResponsesIn(q) == Cardinality(At(q, {"listening"}))

LEMMA ListensCount ==
  ASSUME NEW q \in Seq(UpMessage)
  PROVE  /\ ListensIn(q) \in Nat
         /\ \A e \in {ListenRequest, ReadRequest} :
              ListensIn(Append(q, e)) = ListensIn(q) + 1
         /\ \A v \in Values : ListensIn(Append(q, Put(v))) = ListensIn(q)
         /\ q # <<>> =>
              ListensIn(Tail(q)) = IF Head(q).kind \in ListenKinds
                                   THEN ListensIn(q) - 1 ELSE ListensIn(q)
<1>1. \A e \in {ListenRequest, ReadRequest} :
        e \in UpMessage /\ e.kind \in ListenKinds
  BY MessageTypes DEF ListenRequest, ReadRequest, ListenKinds
<1>2. \A v \in Values : Put(v) \in UpMessage /\ Put(v).kind \notin ListenKinds
  BY MessageTypes DEF Put, ListenKinds
<1>3. \A e \in {ListenRequest, ReadRequest} :
        ListensIn(q) \in Nat /\ ListensIn(Append(q, e)) = ListensIn(q) + 1
  BY <1>1, CountAppended DEF ListensIn
<1>4. \A v \in Values : ListensIn(Append(q, Put(v))) = ListensIn(q)
  BY <1>2, CountAppended DEF ListensIn
<1>5. ASSUME q # <<>>
      PROVE  ListensIn(Tail(q)) = IF Head(q).kind \in ListenKinds
                                  THEN ListensIn(q) - 1 ELSE ListensIn(q)
  BY <1>3, <1>5, CountConsumed DEF ListensIn
<1> QED
  BY <1>3, <1>4, <1>5

LEMMA ResponsesCount ==
  ASSUME NEW q \in Seq(DownMessage)
  PROVE  /\ ResponsesIn(q) \in Nat
         /\ ResponsesIn(Append(q, Listening)) = ResponsesIn(q) + 1
         /\ \A e \in {Ok, Rejected} : ResponsesIn(Append(q, e)) = ResponsesIn(q)
         /\ \A v \in Values : ResponsesIn(Append(q, Data(v))) = ResponsesIn(q)
         /\ q # <<>> =>
              ResponsesIn(Tail(q)) = IF Head(q).kind = "listening"
                                     THEN ResponsesIn(q) - 1 ELSE ResponsesIn(q)
<1>1. Listening \in DownMessage /\ Listening.kind \in {"listening"}
  BY MessageTypes DEF Listening
<1>2. /\ \A e \in {Ok, Rejected} : e \in DownMessage /\ e.kind \notin {"listening"}
      /\ \A v \in Values :
           Data(v) \in DownMessage /\ Data(v).kind \notin {"listening"}
  BY MessageTypes DEF Ok, Rejected, Data
<1>3. ResponsesIn(q) \in Nat /\ ResponsesIn(Append(q, Listening)) = ResponsesIn(q) + 1
  BY <1>1, CountAppended DEF ResponsesIn
<1>4. /\ \A e \in {Ok, Rejected} : ResponsesIn(Append(q, e)) = ResponsesIn(q)
      /\ \A v \in Values : ResponsesIn(Append(q, Data(v))) = ResponsesIn(q)
  BY <1>2, CountAppended DEF ResponsesIn
<1>5. ASSUME q # <<>>
      PROVE  ResponsesIn(Tail(q)) = IF Head(q).kind = "listening"
                                    THEN ResponsesIn(q) - 1 ELSE ResponsesIn(q)
  <2>1. Head(q).kind = "listening" <=> Head(q).kind \in {"listening"}
    OBVIOUS
  <2> QED
    BY <1>3, <1>5, <2>1, CountConsumed DEF ResponsesIn
<1> QED
  BY <1>3, <1>4, <1>5

LEMMA NoneInEmpty == ListensIn(<<>>) = 0 /\ ResponsesIn(<<>>) = 0
<1>1. At(<<>>, ListenKinds) = {} /\ At(<<>>, {"listening"}) = {}
  BY DEF At
<1> QED
  BY <1>1, FS_EmptySet DEF ListensIn, ResponsesIn

\* What a new connection sends: so many listens, then the outstanding puts.
Listens(c, reading) == (IF registered[c] = {} THEN 0 ELSE 1)
                       + (IF reading THEN 1 ELSE 0)

LEMMA RestoredIs ==
  ASSUME PathTypeOK, NEW c \in Clients, NEW reading \in BOOLEAN
  PROVE  LET q == RestoreState(c, reading)
             l == Listens(c, reading)
             n == Len(Outstanding(c))
         IN  /\ l \in 0..2 /\ n \in Nat /\ Outstanding(c) \in Seq(Values)
             /\ q \in Seq(UpMessage) /\ Len(q) = l + n
             /\ \A i \in 1..l : q[i] \in {ListenRequest, ReadRequest}
             /\ \A i \in (l + 1)..(l + n) : q[i] = Put(Outstanding(c)[i - l])
             /\ registered[c] # {} => l > 0 /\ q[1] = ListenRequest
<1> DEFINE own    == IF registered[c] = {} THEN <<>> ELSE <<ListenRequest>>
           read   == IF reading THEN <<ReadRequest>> ELSE <<>>
           writes == Outstanding(c)
           puts   == [i \in 1..Len(writes) |-> Put(writes[i])]
           q      == RestoreState(c, reading)
           first  == own \o read
           l      == Listens(c, reading)
           n      == Len(writes)
<1>1. n \in Nat /\ writes \in Seq(Values)
  <2>1. pending[c] \in Seq(Values) /\ deferred[c] \in Nat
    BY DEF PathTypeOK
  <2>2. writes \in Seq(Values)
    BY <2>1, PartIsOver DEF Outstanding
  <2> QED
    BY <2>2, LenProperties
<1>2. puts \in Seq(UpMessage) /\ Len(puts) = n
  <2>1. \A i \in 1..n : Put(writes[i]) \in UpMessage
    BY <1>1, ElementOfSeq, MessageTypes
  <2> QED
    BY <1>1, <2>1, IsASeq
<1>3. /\ first \in Seq(UpMessage) /\ Len(first) = l /\ l \in 0..2
      /\ \A i \in 1..l : first[i] \in {ListenRequest, ReadRequest}
      /\ registered[c] # {} => l > 0 /\ first[1] = ListenRequest
  <2>1. own \in Seq(UpMessage) /\ read \in Seq(UpMessage)
    BY MessageTypes
  <2>2. first \in Seq(UpMessage)
    BY <2>1, ConcatProperties
  <2>3. /\ registered[c] = {} => Len(own) = 0
        /\ registered[c] # {} => Len(own) = 1 /\ own[1] = ListenRequest
        /\ ~reading => Len(read) = 0
        /\ reading => Len(read) = 1 /\ read[1] = ReadRequest
    OBVIOUS
  <2> HIDE DEF own, read
  <2>4. /\ Len(own \o read) = Len(own) + Len(read)
        /\ \A i \in 1..(Len(own) + Len(read)) :
             (own \o read)[i] = IF i <= Len(own) THEN own[i]
                               ELSE read[i - Len(own)]
    BY <2>1, ConcatProperties
  <2>5. l = Len(own) + Len(read) /\ l \in 0..2
    <3>1. Len(own) = IF registered[c] = {} THEN 0 ELSE 1
      BY <2>3
    <3>2. Len(read) = IF reading THEN 1 ELSE 0
      BY <2>3
    <3> QED
      BY <3>1, <3>2 DEF Listens
  <2>6. \A i \in 1..l : first[i] \in {ListenRequest, ReadRequest}
    <3>1. CASE registered[c] = {}
      BY <2>3, <2>4, <2>5, <3>1
    <3>2. CASE registered[c] # {}
      <4> TAKE i \in 1..l
      <4>1. CASE i = 1
        BY <2>3, <2>4, <2>5, <3>2, <4>1
      <4>2. CASE i # 1
        <5>1. i \in {1, 2} /\ i <= Len(own) + Len(read)
          BY <2>5
        <5>3. Len(own) = 1 /\ (Len(read) = 1 \/ Len(read) = 0)
          BY <2>3, <3>2
        <5>2. /\ Len(read) = 1 /\ i = 2
              /\ ~(i <= Len(own)) /\ i - Len(own) = 1
          BY <5>1, <5>3, <4>2
        <5> QED
          BY <2>3, <2>4, <2>5, <5>2
      <4> QED
        BY <4>1, <4>2
    <3> QED
      BY <3>1, <3>2
  <2>7. registered[c] # {} => l > 0 /\ first[1] = ListenRequest
    BY <2>3, <2>4, <2>5
  <2> QED
    BY <2>2, <2>4, <2>5, <2>6, <2>7
<1>4. q = first \o puts
  BY DEF RestoreState
<1>a. \A k \in 1..n : puts[k] = Put(writes[k])
  OBVIOUS
<1> HIDE DEF first, puts, writes, l, n, q
<1>5. /\ q \in Seq(UpMessage) /\ Len(q) = l + n
      /\ \A i \in 1..(l + n) : q[i] = IF i <= l THEN first[i] ELSE puts[i - l]
  BY <1>2, <1>3, <1>4, ConcatProperties
<1>6. \A i \in (l + 1)..(l + n) : q[i] = Put(writes[i - l])
  <2> TAKE i \in (l + 1)..(l + n)
  <2>1. i \in 1..(l + n) /\ ~(i <= l) /\ i - l \in 1..n
    BY <1>1, <1>3
  <2> QED
    BY <1>5, <1>a, <2>1
<1>7. \A i \in 1..l : q[i] = first[i]
  BY <1>1, <1>3, <1>5
<1>8. registered[c] # {} => q[1] = ListenRequest
  BY <1>3, <1>7
<1> QED
  BY <1>1, <1>3, <1>5, <1>6, <1>7, <1>8 DEF q, l, n, writes

LEMMA ListensRestored ==
  ASSUME PathTypeOK, NEW c \in Clients, NEW reading \in BOOLEAN
  PROVE  ListensIn(RestoreState(c, reading)) = Listens(c, reading)
<1> DEFINE q == RestoreState(c, reading)
           l == Listens(c, reading)
           n == Len(Outstanding(c))
<1>1. /\ l \in 0..2 /\ n \in Nat /\ Len(q) = l + n
      /\ \A i \in 1..l : q[i] \in {ListenRequest, ReadRequest}
      /\ \A i \in (l + 1)..(l + n) : q[i] = Put(Outstanding(c)[i - l])
  BY RestoredIs
<1>2. /\ ListenRequest.kind \in ListenKinds /\ ReadRequest.kind \in ListenKinds
      /\ \A v : Put(v).kind \notin ListenKinds
  BY DEF ListenRequest, ReadRequest, Put, ListenKinds
<1> HIDE DEF q, l, n
<1>3. \A i \in 1..(l + n) : q[i].kind \in ListenKinds <=> i <= l
  <2> TAKE i \in 1..(l + n)
  <2>1. i \in 1..l \/ (i \in (l + 1)..(l + n) /\ ~(i <= l))
    BY <1>1
  <2> QED
    BY <1>1, <1>2, <2>1
<1>5. At(q, ListenKinds) = 1..l
  BY <1>1, <1>3 DEF At
<1>4. Cardinality(1..l) = l
  <2>1. 1 \in Int /\ l \in Int
    BY <1>1
  <2>2. Cardinality(1..l) = IF 1 > l THEN 0 ELSE l - 1 + 1
    BY <2>1, FS_Interval
  <2> QED
    BY <1>1, <2>2
<1> QED
  BY <1>5, <1>4 DEF ListensIn, q, l

\* Only controllers that listen on the path write to it, and an answer is held
\* back only of a write still pending.
WritersListen == \A c \in Clients : pending[c] # <<>> => registered[c] # {}
HeldIsPending == \A c \in Clients : deferred[c] <= Len(pending[c])

DueInv ==
  PathTypeOK /\ OfflineIsEmpty /\ WritersListen /\ HeldIsPending /\ HeldBackIsDue

LEMMA DueInTerms ==
  HeldBackIsDue <=>
    \A c \in Clients :
      /\ unacked[c] = ListensIn(up[c]) + ResponsesIn(down[c])
      /\ deferred[c] > 0 =>
           registered[c] # {} /\ (c \in online => unacked[c] > 0)
BY DEF HeldBackIsDue, ListensIn, ResponsesIn, ListenKinds

\* One device's part in the counting.
LEMMA DueHere ==
  ASSUME DueInv, NEW c \in Clients
  PROVE  /\ up[c] \in Seq(UpMessage) /\ down[c] \in Seq(DownMessage)
         /\ pending[c] \in Seq(Values) /\ Len(pending[c]) \in Nat
         /\ deferred[c] \in Nat /\ deferred[c] <= Len(pending[c])
         /\ unacked[c] \in Nat
         /\ unacked[c] = ListensIn(up[c]) + ResponsesIn(down[c])
         /\ ListensIn(up[c]) \in Nat /\ ResponsesIn(down[c]) \in Nat
         /\ pending[c] # <<>> => registered[c] # {}
         /\ deferred[c] > 0 =>
              registered[c] # {} /\ (c \in online => unacked[c] > 0)
         /\ c \notin online => up[c] = <<>> /\ down[c] = <<>>
<1>1. /\ up[c] \in Seq(UpMessage) /\ down[c] \in Seq(DownMessage)
      /\ pending[c] \in Seq(Values) /\ deferred[c] \in Nat
  BY DEF DueInv, PathTypeOK
<1>2. ListensIn(up[c]) \in Nat /\ ResponsesIn(down[c]) \in Nat
  BY <1>1, ListensCount, ResponsesCount
<1>3. /\ unacked[c] = ListensIn(up[c]) + ResponsesIn(down[c])
      /\ deferred[c] > 0 =>
           registered[c] # {} /\ (c \in online => unacked[c] > 0)
  BY DueInTerms DEF DueInv
<1>4. Len(pending[c]) \in Nat
  BY <1>1, LenProperties
<1> QED
  BY <1>1, <1>2, <1>3, <1>4 DEF DueInv, HeldIsPending, WritersListen, OfflineIsEmpty

\* An answer is held back while a listen waits, and else its write, the oldest
\* there is, is forgotten.
LEMMA AnswerIs ==
  ASSUME DueInv, NEW c \in Clients, NEW kind, ReceiveAnswer(c, kind)
  PROVE  /\ c \in online /\ pending[c] # <<>> /\ deferred[c] < Len(pending[c])
         /\ unacked[c] > 0 =>
              pending' = pending /\ deferred' = [deferred EXCEPT ![c] = @ + 1]
         /\ unacked[c] = 0 =>
              /\ deferred[c] = 0 /\ deferred' = deferred
              /\ pending' = [pending EXCEPT ![c] = Tail(@)]
<1>1. c \in online
  BY DueHere DEF ReceiveAnswer, TakeDown
<1>2. deferred[c] < Len(pending[c]) /\ pending[c] # <<>>
  BY DueHere, EmptySeq DEF ReceiveAnswer
<1>3. unacked[c] > 0 =>
        pending' = pending /\ deferred' = [deferred EXCEPT ![c] = @ + 1]
  BY DueHere DEF ReceiveAnswer
<1>4. ASSUME unacked[c] = 0
      PROVE  /\ deferred[c] = 0 /\ deferred' = deferred
             /\ pending' = [pending EXCEPT ![c] = Tail(@)]
  <2>1. deferred[c] = 0
    BY <1>1, <1>4, DueHere
  <2>2. deferred[c] + 1 = 1
    BY <2>1
  <2>3. /\ deferred' = deferred
        /\ pending' = [pending EXCEPT ![c] = Without(@, 1, 1)]
    BY <1>4, <2>2 DEF ReceiveAnswer
  <2>4. Without(pending[c], 1, 1) = Tail(pending[c])
    BY <1>2, DueHere, WithoutHead
  <2> QED
    BY <2>1, <2>3, <2>4
<1> QED
  BY <1>1, <1>2, <1>3, <1>4

\* The last response brings all answers held back to bear.
LEMMA ListeningIs ==
  ASSUME DueInv, NEW c \in Clients, ReceiveListening(c)
  PROVE  /\ c \in online /\ unacked[c] > 0
         /\ unacked' = [unacked EXCEPT ![c] = @ - 1]
         /\ unacked[c] > 1 => pending' = pending /\ deferred' = deferred
         /\ unacked[c] = 1 =>
              /\ deferred' = [deferred EXCEPT ![c] = 0]
              /\ pending' = [pending EXCEPT
                               ![c] = SubSeq(@, deferred[c] + 1, Len(@))]
<1>1. /\ down[c] # <<>> /\ Head(down[c]).kind = "listening" /\ c \in online
  BY DueHere DEF ReceiveListening, TakeDown
<1>2. unacked[c] > 0
  <2>1. /\ down[c] \in Seq(DownMessage) /\ ResponsesIn(down[c]) \in Nat
        /\ ListensIn(up[c]) \in Nat
        /\ unacked[c] = ListensIn(up[c]) + ResponsesIn(down[c])
    BY DueHere
  <2>2. Tail(down[c]) \in Seq(DownMessage)
    BY <1>1, <2>1, HeadTailProperties
  <2>3. /\ ResponsesIn(Tail(down[c])) = ResponsesIn(down[c]) - 1
        /\ ResponsesIn(Tail(down[c])) \in Nat
    BY <1>1, <2>1, <2>2, ResponsesCount
  <2> QED
    BY <2>1, <2>3
<1>3. CASE unacked[c] = 1
  <2>1. /\ deferred' = [deferred EXCEPT ![c] = @ - deferred[c]]
        /\ pending' = [pending EXCEPT ![c] = Without(@, 1, deferred[c])]
    BY <1>3 DEF ReceiveListening
  <2>2. deferred[c] - deferred[c] = 0
    BY DueHere
  <2>3. Without(pending[c], 1, deferred[c])
          = SubSeq(pending[c], deferred[c] + 1, Len(pending[c]))
    BY DueHere, WithoutFirst
  <2>4. /\ deferred' = [deferred EXCEPT ![c] = 0]
        /\ pending' = [pending EXCEPT
                         ![c] = SubSeq(@, deferred[c] + 1, Len(@))]
    BY <2>1, <2>2, <2>3
  <2>5. unacked' = [unacked EXCEPT ![c] = @ - 1]
    BY DEF ReceiveListening
  <2> QED
    BY <1>1, <1>2, <1>3, <2>4, <2>5
<1>4. CASE unacked[c] # 1
  <2>1. /\ deferred' = [deferred EXCEPT ![c] = @ - 0]
        /\ pending' = [pending EXCEPT ![c] = Without(@, 1, 0)]
    BY <1>4 DEF ReceiveListening
  <2>2. deferred[c] - 0 = deferred[c] /\ Without(pending[c], 1, 0) = pending[c]
    BY DueHere, WithoutNone
  <2>3. deferred' = deferred /\ pending' = pending
    <3>1. /\ deferred' = [deferred EXCEPT ![c] = deferred[c]]
          /\ pending' = [pending EXCEPT ![c] = pending[c]]
      BY <2>1, <2>2
    <3> QED
      BY <3>1 DEF DueInv, PathTypeOK
  <2> QED
    BY <1>1, <1>2, <1>4, <2>3, DueHere DEF ReceiveListening
<1> QED
  BY <1>3, <1>4

\* The count of listens keeps up with them.
LEMMA CountKept ==
  ASSUME DueInv, NEW d \in Clients, PathNext
  PROVE  unacked'[d] = ListensIn(up'[d]) + ResponsesIn(down'[d])
<1>q. /\ up \in [Clients -> Seq(UpMessage)]
      /\ down \in [Clients -> Seq(DownMessage)]
      /\ unacked \in [Clients -> Int] /\ db \in Values
  BY DEF DueInv, PathTypeOK
<1>h. /\ up[d] \in Seq(UpMessage) /\ down[d] \in Seq(DownMessage)
      /\ ListensIn(up[d]) \in Nat /\ ResponsesIn(down[d]) \in Nat
      /\ unacked[d] \in Nat
      /\ unacked[d] = ListensIn(up[d]) + ResponsesIn(down[d])
  BY DueHere
<1>s. ASSUME NEW c \in Clients, NEW request \in {ListenRequest, ReadRequest},
             SendListen(c, request), down' = down
      PROVE  unacked'[d] = ListensIn(up'[d]) + ResponsesIn(down'[d])
  <2>1. CASE c \in online /\ d = c
    <3>1. up'[d] = Append(up[d], request) /\ unacked'[d] = unacked[d] + 1
      BY <1>s, <1>q, <2>1 DEF SendListen
    <3>2. ListensIn(Append(up[d], request)) = ListensIn(up[d]) + 1
      BY <1>h, ListensCount
    <3> QED
      BY <1>s, <1>h, <3>1, <3>2
  <2>2. CASE ~(c \in online /\ d = c)
    <3>1. up'[d] = up[d] /\ unacked'[d] = unacked[d]
      BY <1>s, <1>q, <2>2 DEF SendListen
    <3> QED
      BY <1>s, <1>h, <3>1
  <2> QED
    BY <2>1, <2>2
<1>n. CASE UNCHANGED <<up, unacked, down>>
  BY <1>h, <1>n
<1>1. ASSUME NEW c \in Clients, NEW r, NEW carry, Register(c, r, carry)
      PROVE  unacked'[d] = ListensIn(up'[d]) + ResponsesIn(down'[d])
  BY <1>1, <1>s, <1>n DEF Register
<1>2. ASSUME NEW c \in Clients, NEW v \in Values, Write(c, v)
      PROVE  unacked'[d] = ListensIn(up'[d]) + ResponsesIn(down'[d])
  <2>1. /\ down' = down /\ unacked' = unacked
        /\ up'[d] = up[d] \/ up'[d] = Append(up[d], Put(v))
    BY <1>2, <1>q DEF Write
  <2>2. ListensIn(Append(up[d], Put(v))) = ListensIn(up[d])
    BY <1>h, ListensCount
  <2> QED
    BY <1>h, <2>1, <2>2
<1>3. ASSUME NEW c \in Clients, NEW reading, NEW r,
             Read(c) \/ Deliver(c, reading) \/ RaiseAgain(c, r)
      PROVE  unacked'[d] = ListensIn(up'[d]) + ResponsesIn(down'[d])
  BY <1>3, <1>s, <1>n DEF Read, Deliver, RaiseAgain, ReadElsewhere
<1>4. ASSUME NEW c \in Clients, ServerListen(c) \/ ServerRead(c)
      PROVE  unacked'[d] = ListensIn(up'[d]) + ResponsesIn(down'[d])
  <2>1. CASE d # c
    <3>1. up'[d] = up[d] /\ down'[d] = down[d] /\ unacked' = unacked
      BY <1>4, <1>q, <2>1 DEF ServerListen, ServerRead, TakeUp
    <3> QED
      BY <1>h, <3>1
  <2>2. CASE d = c
    <3>1. /\ up[d] # <<>> /\ Head(up[d]).kind \in ListenKinds
          /\ up'[d] = Tail(up[d]) /\ unacked' = unacked
      BY <1>4, <1>q, <2>2 DEF ServerListen, ServerRead, TakeUp, ListenKinds
    <3>2. ListensIn(up'[d]) = ListensIn(up[d]) - 1
      BY <1>h, <3>1, ListensCount
    <3>3. ResponsesIn(down'[d]) = ResponsesIn(down[d]) + 1
      <4>1. CASE ServerRead(c)
        <5>1. down'[d] = Append(down[d], Listening)
          BY <1>q, <2>2, <4>1 DEF ServerRead
        <5> QED
          BY <1>h, <5>1, ResponsesCount
      <4>2. CASE ServerListen(c)
        <5> DEFINE told == Append(down[d], Data(db))
        <5>1. down'[d] = Append(told, Listening)
          BY <1>q, <2>2, <4>2 DEF ServerListen
        <5>2. told \in Seq(DownMessage)
          BY <1>q, <1>h, MessageTypes, AppendProperties
        <5>3. ResponsesIn(told) = ResponsesIn(down[d])
          BY <1>q, <1>h, ResponsesCount
        <5> HIDE DEF told
        <5> QED
          BY <5>1, <5>2, <5>3, ResponsesCount
      <4> QED
        BY <1>4, <4>1, <4>2
    <3> QED
      BY <1>h, <3>1, <3>2, <3>3
  <2> QED
    BY <2>1, <2>2
<1>5. ASSUME NEW c \in Clients, ServerApply(c) \/ ServerReject(c)
      PROVE  unacked'[d] = ListensIn(up'[d]) + ResponsesIn(down'[d])
  <2>1. unacked' = unacked
    BY <1>5 DEF ServerApply, ServerReject
  <2>2. ListensIn(up'[d]) = ListensIn(up[d])
    <3>1. CASE d # c
      BY <1>5, <1>q, <3>1 DEF ServerApply, ServerReject, TakeUp
    <3>2. CASE d = c
      <4>1. /\ up[d] # <<>> /\ Head(up[d]).kind \notin ListenKinds
            /\ up'[d] = Tail(up[d])
        BY <1>5, <1>q, <3>2 DEF ServerApply, ServerReject, TakeUp, ListenKinds
      <4> QED
        BY <1>h, <4>1, ListensCount
    <3> QED
      BY <3>1, <3>2
  <2>3. ResponsesIn(down'[d]) = ResponsesIn(down[d])
    <3>1. CASE ServerReject(c)
      <4>1. down'[d] = down[d] \/ down'[d] = Append(down[d], Rejected)
        BY <1>q, <3>1 DEF ServerReject
      <4> QED
        BY <1>h, <4>1, ResponsesCount
    <3>2. CASE ServerApply(c)
      <4>1. db' \in Values
        BY <3>2, ServerStepType DEF ServerStep, DueInv, PathTypeOK
      <4> DEFINE told == IF d \in listeners THEN Append(down[d], Data(db'))
                         ELSE down[d]
      <4>2. told \in Seq(DownMessage)
        BY <1>h, <4>1, MessageTypes, AppendProperties
      <4>3. ResponsesIn(told) = ResponsesIn(down[d])
        BY <1>h, <4>1, ResponsesCount
      <4>4. down'[d] = IF d = c THEN Append(told, Ok) ELSE told
        BY <3>2 DEF ServerApply
      <4> HIDE DEF told
      <4> QED
        BY <4>2, <4>3, <4>4, ResponsesCount
    <3> QED
      BY <1>5, <3>1, <3>2
  <2> QED
    BY <1>h, <2>1, <2>2, <2>3
<1>6. ASSUME NEW c \in Clients, Receive(c)
      PROVE  unacked'[d] = ListensIn(up'[d]) + ResponsesIn(down'[d])
  <2>1. PICK kinds : TakeDown(c, kinds)
    BY <1>6
    DEF Receive, ReceiveData, ReceiveOk, ReceiveRejected, ReceiveAnswer,
        ReceiveListening
  <2>2. up' = up /\ (d # c => down'[d] = down[d])
    BY <1>q, <2>1 DEF TakeDown
  <2>3. CASE d # c
    <3>1. unacked'[d] = unacked[d]
      BY <1>6, <1>q, <2>3
      DEF Receive, ReceiveData, ReceiveOk, ReceiveRejected, ReceiveAnswer,
          ReceiveListening
    <3> QED
      BY <1>h, <2>2, <2>3, <3>1
  <2>4. CASE d = c /\ ReceiveListening(c)
    <3>1. /\ unacked'[d] = unacked[d] - 1 /\ down'[d] = Tail(down[d])
          /\ down[d] # <<>> /\ Head(down[d]).kind = "listening"
      BY <1>q, <2>4 DEF ReceiveListening, TakeDown
    <3>2. ResponsesIn(Tail(down[d])) = ResponsesIn(down[d]) - 1
      BY <1>h, <3>1, ResponsesCount
    <3> QED
      BY <1>h, <2>2, <3>1, <3>2
  <2>5. CASE d = c /\ (ReceiveData(c) \/ ReceiveOk(c) \/ ReceiveRejected(c))
    <3>1. /\ unacked' = unacked /\ down'[d] = Tail(down[d])
          /\ down[d] # <<>> /\ Head(down[d]).kind # "listening"
      BY <1>q, <2>5
      DEF ReceiveData, ReceiveOk, ReceiveRejected, ReceiveAnswer, TakeDown
    <3>2. ResponsesIn(Tail(down[d])) = ResponsesIn(down[d])
      BY <1>h, <3>1, ResponsesCount
    <3> QED
      BY <1>h, <2>2, <3>1, <3>2
  <2> QED
    BY <1>6, <2>3, <2>4, <2>5 DEF Receive
<1>7. ASSUME NEW c \in Clients, Disconnect(c) \/ Kill(c)
      PROVE  unacked'[d] = ListensIn(up'[d]) + ResponsesIn(down'[d])
  <2>1. CASE d # c
    <3>1. up'[d] = up[d] /\ down'[d] = down[d] /\ unacked'[d] = unacked[d]
      BY <1>7, <1>q, <2>1 DEF Disconnect, Kill
    <3> QED
      BY <1>h, <3>1
  <2>2. CASE d = c
    <3>1. up'[d] = <<>> /\ down'[d] = <<>> /\ unacked'[d] = 0
      BY <1>7, <1>q, <2>2 DEF Disconnect, Kill
    <3> QED
      BY <3>1, NoneInEmpty
  <2> QED
    BY <2>1, <2>2
<1>8. ASSUME NEW c \in Clients, NEW reading \in BOOLEAN, Reconnect(c, reading)
      PROVE  unacked'[d] = ListensIn(up'[d]) + ResponsesIn(down'[d])
  <2>1. CASE d # c
    <3>1. up'[d] = up[d] /\ down'[d] = down[d] /\ unacked'[d] = unacked[d]
      BY <1>8, <1>q, <2>1 DEF Reconnect
    <3> QED
      BY <1>h, <3>1
  <2>2. CASE d = c
    <3>1. /\ up'[d] = RestoreState(c, reading) /\ down'[d] = down[d]
          /\ unacked'[d] = Listens(c, reading) /\ d \notin online
      BY <1>8, <1>q, <2>2 DEF Reconnect, Listens
    <3>2. down[d] = <<>>
      BY <3>1, DueHere
    <3>3. ListensIn(up'[d]) = Listens(c, reading) /\ Listens(c, reading) \in 0..2
      BY <3>1, ListensRestored, RestoredIs DEF DueInv
    <3> QED
      BY <3>1, <3>2, <3>3, NoneInEmpty
  <2> QED
    BY <2>1, <2>2
<1> QED
  BY <1>1, <1>2, <1>3, <1>4, <1>5, <1>6, <1>7, <1>8 DEF PathNext, ServerStep

LEMMA DueStep == DueInv /\ [PathNext]_pathVars => DueInv'
<1> SUFFICES ASSUME DueInv, [PathNext]_pathVars PROVE DueInv'
  OBVIOUS
<1>1. PathTypeOK' /\ OfflineIsEmpty'
  BY PathStepType, StaysEmpty DEF DueInv
<1>2. CASE UNCHANGED pathVars
  BY <1>1, <1>2
  DEF pathVars, DueInv, WritersListen, HeldIsPending, HeldBackIsDue, At
<1>3. CASE PathNext
  <2>1. ASSUME NEW d \in Clients
        PROVE  /\ pending'[d] # <<>> => registered'[d] # {}
               /\ deferred'[d] <= Len(pending'[d])
               /\ deferred'[d] > 0 =>
                    registered'[d] # {} /\ (d \in online' => unacked'[d] > 0)
    <3>q. /\ pending \in [Clients -> Seq(Values)]
          /\ registered \in [Clients -> SUBSET Regs]
          /\ unacked \in [Clients -> Int] /\ deferred \in [Clients -> Nat]
      BY DEF DueInv, PathTypeOK
    <3>h. /\ pending[d] # <<>> => registered[d] # {}
          /\ deferred[d] <= Len(pending[d]) /\ deferred[d] \in Nat
          /\ pending[d] \in Seq(Values) /\ Len(pending[d]) \in Nat
          /\ deferred[d] > 0 =>
               registered[d] # {} /\ (d \in online => unacked[d] > 0)
          /\ unacked[d] \in Nat
      BY DueHere
    <3>1. ASSUME NEW c \in Clients, NEW r, NEW flag, NEW v \in Values,
                 \/ Register(c, r, flag) \/ Write(c, v) \/ Read(c)
                 \/ Deliver(c, flag) \/ RaiseAgain(c, r)
          PROVE  /\ registered[d] # {} => registered'[d] # {}
                 /\ unacked'[d] >= unacked[d]
                 /\ online' = online /\ deferred' = deferred
      <4>1. \/ unacked' = unacked
            \/ unacked' = [unacked EXCEPT ![c] = @ + 1]
        BY <3>1
        DEF Register, Write, Read, Deliver, RaiseAgain, ReadElsewhere, SendListen
      <4>2. unacked'[d] >= unacked[d]
        <5>1. unacked'[d] = unacked[d] \/ unacked'[d] = unacked[d] + 1
          BY <3>q, <4>1
        <5> QED
          BY <3>h, <5>1
      <4>3. registered[d] # {} => registered'[d] # {}
        <5>1. \/ registered' = registered
              \/ registered' = [registered EXCEPT ![c] = @ \cup {r}]
          BY <3>1 DEF Register, Write, Read, Deliver, RaiseAgain
        <5> QED
          BY <3>q, <5>1
      <4>4. online' = online /\ deferred' = deferred
        BY <3>1 DEF Register, Write, Read, Deliver, RaiseAgain
      <4> QED
        BY <4>2, <4>3, <4>4
    <3>2. ASSUME NEW c \in Clients, NEW r, NEW flag, NEW v \in Values,
                 \/ Register(c, r, flag) \/ Read(c)
                 \/ Deliver(c, flag) \/ RaiseAgain(c, r)
          PROVE  pending' = pending
      BY <3>2 DEF Register, Read, Deliver, RaiseAgain
    <3>3. ASSUME NEW c \in Clients, NEW v \in Values, Write(c, v)
          PROVE  /\ registered' = registered
                 /\ Len(pending'[d]) >= Len(pending[d])
                 /\ pending'[d] = pending[d] \/ registered[d] # {}
      <4>1. CASE d = c
        <5>1. pending'[d] = Append(pending[d], v) /\ registered[d] # {}
          BY <3>3, <3>q, <4>1 DEF Write
        <5>2. Len(Append(pending[d], v)) = Len(pending[d]) + 1
          BY <3>h, AppendProperties
        <5> QED
          BY <3>3, <3>h, <5>1, <5>2 DEF Write
      <4>2. CASE d # c
        BY <3>3, <3>q, <3>h, <4>2 DEF Write
      <4> QED
        BY <4>1, <4>2
    <3>4. ASSUME NEW c \in Clients, ServerStep(c)
          PROVE  UNCHANGED <<pending, registered, deferred, unacked, online>>
      BY <3>4
      DEF ServerStep, ServerListen, ServerRead, ServerApply, ServerReject
    <3>5. ASSUME NEW c \in Clients, ReceiveData(c)
          PROVE  UNCHANGED <<pending, registered, deferred, unacked, online>>
      BY <3>5 DEF ReceiveData, TakeDown
    <3>6. ASSUME NEW c \in Clients, NEW kind, ReceiveAnswer(c, kind)
          PROVE  /\ pending'[d] # <<>> => registered'[d] # {}
                 /\ deferred'[d] <= Len(pending'[d])
                 /\ deferred'[d] > 0 =>
                      registered'[d] # {} /\ (d \in online' => unacked'[d] > 0)
      <4>1. registered' = registered /\ unacked' = unacked /\ online' = online
        BY <3>6 DEF ReceiveAnswer, TakeDown
      <4>2. CASE d # c
        <5>1. pending'[d] = pending[d] /\ deferred'[d] = deferred[d]
          BY <3>6, <3>q, <4>2 DEF ReceiveAnswer
        <5> QED
          BY <3>h, <4>1, <5>1
      <4>3. CASE d = c /\ unacked[c] > 0
        <5>1. /\ pending' = pending /\ deferred'[d] = deferred[d] + 1
              /\ deferred[d] < Len(pending[d]) /\ pending[d] # <<>>
          BY <3>6, <3>q, <4>3, AnswerIs
        <5> QED
          BY <3>h, <4>1, <4>3, <5>1
      <4>4. CASE d = c /\ unacked[c] = 0
        <5>1. /\ pending'[d] = Tail(pending[d]) /\ deferred'[d] = 0
              /\ pending[d] # <<>>
          BY <3>6, <3>q, <4>4, AnswerIs
        <5>2. Len(Tail(pending[d])) \in Nat
          BY <3>h, <5>1, HeadTailProperties, LenProperties
        <5> QED
          BY <3>h, <4>1, <5>1, <5>2
      <4> QED
        BY <3>h, <4>2, <4>3, <4>4
    <3>7. ASSUME NEW c \in Clients, ReceiveListening(c)
          PROVE  /\ pending'[d] # <<>> => registered'[d] # {}
                 /\ deferred'[d] <= Len(pending'[d])
                 /\ deferred'[d] > 0 =>
                      registered'[d] # {} /\ (d \in online' => unacked'[d] > 0)
      <4>1. registered' = registered /\ online' = online
        BY <3>7 DEF ReceiveListening, TakeDown
      <4>2. CASE d # c
        <5>1. /\ pending'[d] = pending[d] /\ deferred'[d] = deferred[d]
              /\ unacked'[d] = unacked[d]
          BY <3>7, <3>q, <4>2 DEF ReceiveListening
        <5> QED
          BY <3>h, <4>1, <5>1
      <4>3. CASE d = c /\ unacked[c] > 1
        <5>1. /\ pending' = pending /\ deferred' = deferred
              /\ unacked'[d] = unacked[d] - 1
          BY <3>7, <3>q, <4>3, ListeningIs
        <5> QED
          BY <3>h, <4>1, <4>3, <5>1
      <4>4. CASE d = c /\ unacked[c] = 1
        <5>1. /\ deferred'[d] = 0
              /\ pending'[d] = SubSeq(pending[d], deferred[d] + 1, Len(pending[d]))
          BY <3>7, <3>q, <4>4, ListeningIs
        <5>2. /\ Len(pending'[d]) = Len(pending[d]) - deferred[d]
          BY <3>h, <5>1, PartIsOver
        <5>3. pending'[d] # <<>> => pending[d] # <<>>
          <6>1. pending'[d] \in Seq(Values)
            BY <3>h, <5>1, PartIsOver
          <6> QED
            BY <3>h, <5>2, <6>1, EmptySeq, LenProperties
        <5> QED
          BY <3>h, <4>1, <5>1, <5>2, <5>3
      <4> QED
        BY <3>7, <3>h, <4>2, <4>3, <4>4, ListeningIs
    <3>8. ASSUME NEW c \in Clients, NEW reading \in BOOLEAN,
                 Disconnect(c) \/ Reconnect(c, reading)
          PROVE  /\ UNCHANGED <<pending, registered, deferred>>
                 /\ d \in online' /\ d # c => d \in online /\ unacked'[d] = unacked[d]
                 /\ d \in online' /\ d = c /\ registered[d] # {} => unacked'[d] > 0
      BY <3>8, <3>q DEF Disconnect, Reconnect
    <3>9. ASSUME NEW c \in Clients, Kill(c)
          PROVE  /\ d = c => pending'[d] = <<>> /\ deferred'[d] = 0
                 /\ d # c => /\ pending'[d] = pending[d] /\ deferred'[d] = deferred[d]
                             /\ registered'[d] = registered[d]
                             /\ d \in online' => d \in online
                             /\ unacked'[d] = unacked[d]
      BY <3>9, <3>q DEF Kill
    <3>a. PICK c \in Clients :
            \/ \E r \in Regs, carry \in BOOLEAN : Register(c, r, carry)
            \/ \E v \in Values : Write(c, v)
            \/ Read(c)
            \/ \E reading \in BOOLEAN : Deliver(c, reading)
            \/ \E r \in Regs : RaiseAgain(c, r)
            \/ ServerStep(c)
            \/ ReceiveData(c) \/ ReceiveOk(c) \/ ReceiveRejected(c)
            \/ ReceiveListening(c)
            \/ Disconnect(c)
            \/ \E reading \in BOOLEAN : Reconnect(c, reading)
            \/ Kill(c)
      BY <1>3 DEF PathNext, Receive
    <3>b. CASE \/ \E r \in Regs, carry \in BOOLEAN : Register(c, r, carry)
               \/ Read(c)
               \/ \E reading \in BOOLEAN : Deliver(c, reading)
               \/ \E r \in Regs : RaiseAgain(c, r)
      <4>1. /\ registered[d] # {} => registered'[d] # {}
            /\ unacked'[d] >= unacked[d]
            /\ online' = online /\ deferred' = deferred /\ pending' = pending
        BY <3>b, <3>1, <3>2, InitialAssumption
      <4>2. unacked'[d] \in Int
        BY <1>1 DEF PathTypeOK
      <4> QED
        BY <3>h, <4>1, <4>2
    <3>c. CASE \E v \in Values : Write(c, v)
      <4>1. /\ registered' = registered
            /\ unacked'[d] >= unacked[d]
            /\ online' = online /\ deferred' = deferred
            /\ Len(pending'[d]) >= Len(pending[d])
            /\ pending'[d] = pending[d] \/ registered[d] # {}
        BY <3>c, <3>1, <3>3
      <4>2. unacked'[d] \in Int /\ Len(pending'[d]) \in Nat
        BY <1>1, LenProperties DEF PathTypeOK
      <4> QED
        BY <3>h, <4>1, <4>2
    <3>d. CASE ServerStep(c) \/ ReceiveData(c)
      BY <3>d, <3>h, <3>4, <3>5
    <3>e. CASE ReceiveOk(c) \/ ReceiveRejected(c) \/ ReceiveListening(c)
      BY <3>e, <3>6, <3>7 DEF ReceiveOk, ReceiveRejected
    <3>f. CASE Disconnect(c) \/ \E reading \in BOOLEAN : Reconnect(c, reading)
      <4>1. /\ UNCHANGED <<pending, registered, deferred>>
            /\ d \in online' /\ d # c => d \in online /\ unacked'[d] = unacked[d]
            /\ d \in online' /\ d = c /\ registered[d] # {} => unacked'[d] > 0
        BY <3>f, <3>8
      <4> QED
        BY <3>h, <4>1
    <3>g. CASE Kill(c)
      <4>1. CASE d = c
        <5>1. pending'[d] = <<>> /\ deferred'[d] = 0 /\ Len(<<>>) = 0
          BY <3>g, <3>9, <4>1, EmptySeq
        <5> QED
          BY <5>1
      <4>2. CASE d # c
        BY <3>g, <3>h, <3>9, <4>2
      <4> QED
        BY <4>1, <4>2
    <3> QED
      BY <3>a, <3>b, <3>c, <3>d, <3>e, <3>f, <3>g
  <2>2. \A d \in Clients : unacked'[d] = ListensIn(up'[d]) + ResponsesIn(down'[d])
    BY <1>3, CountKept
  <2>3. WritersListen' /\ HeldIsPending'
    BY <2>1 DEF WritersListen, HeldIsPending
  <2>4. HeldBackIsDue'
    BY <2>1, <2>2 DEF HeldBackIsDue, ListensIn, ResponsesIn, ListenKinds, At
  <2> QED
    BY <1>1, <2>3, <2>4 DEF DueInv
<1> QED
  BY <1>2, <1>3

LEMMA DueInit == PathInit => DueInv
<1> SUFFICES ASSUME PathInit PROVE DueInv
  OBVIOUS
<1>1. PathTypeOK
  BY InitialAssumption, BoundsAssumption, EmptySeq
  DEF PathInit, PathTypeOK, Known, Budgets
<1>2. OfflineIsEmpty /\ WritersListen /\ HeldIsPending
  BY EmptySeq DEF PathInit, OfflineIsEmpty, WritersListen, HeldIsPending
<1>3. HeldBackIsDue
  BY DueInTerms, NoneInEmpty DEF PathInit
<1> QED
  BY <1>1, <1>2, <1>3 DEF DueInv

LEMMA DueAlways == PathSpec => []DueInv
<1> QED
  BY DueInit, DueStep, PTL DEF PathSpec

\* An answer held back is due: the client's count of listens without response
\* is right whatever is lost, killed or asked for meanwhile, so while an answer
\* waits for the last response there is one to come.
THEOREM HeldAnswersAreDue == PathSpec => []HeldBackIsDue
<1>1. DueInv => HeldBackIsDue
  BY DEF DueInv
<1> QED
  BY <1>1, DueAlways, PTL
-----------------------------------------------------------------------------
(* The puts on their way up and the pending writes.                        *)

\* The pending writes after the first ones are the puts of a queue.
Matches(q, writes, first) ==
  LET puts == At(q, {"put"})
  IN  /\ Len(writes) = first + Cardinality(puts)
      /\ \A i \in puts : q[i].value = writes[first + UpTo(puts, i)]

\* The count of a put lies among the puts there are.
LEMMA PutCounts ==
  ASSUME NEW S, NEW q \in Seq(S)
  PROVE  /\ Cardinality(At(q, {"put"})) \in Nat /\ Len(q) \in Nat
         /\ \A i \in At(q, {"put"}) :
              /\ i \in 1..Len(q)
              /\ UpTo(At(q, {"put"}), i) \in 1..Cardinality(At(q, {"put"}))
<1> DEFINE puts == At(q, {"put"})
<1>1. Len(q) \in Nat /\ puts \in SUBSET (1..Len(q))
  BY LenProperties DEF At
<1> HIDE DEF puts
<1>2. Cardinality(puts) \in Nat
  BY <1>1, PositionsFinite
<1>3. ASSUME NEW i \in puts
      PROVE  i \in 1..Len(q) /\ UpTo(puts, i) \in 1..Cardinality(puts)
  <2>1. UpTo(puts, i) \in 0..Cardinality(puts) /\ UpTo(puts, i) >= 1
    BY <1>1, PositionsFinite
  <2> QED
    BY <1>1, <1>2, <2>1
<1> QED
  BY <1>1, <1>2, <1>3 DEF puts

\* A new write is the last put.
LEMMA MatchesWritten ==
  ASSUME NEW q \in Seq(UpMessage), NEW writes \in Seq(Values),
         NEW first \in Nat, NEW v \in Values, Matches(q, writes, first)
  PROVE  Matches(Append(q, Put(v)), Append(writes, v), first)
<1> DEFINE q2 == Append(q, Put(v))  w2 == Append(writes, v)
           old == At(q, {"put"})    new == At(q2, {"put"})
<1>1. Put(v) \in UpMessage /\ Put(v).kind \in {"put"} /\ Put(v).value = v
  BY MessageTypes DEF Put
<1>2. /\ Cardinality(old) \in Nat /\ new = old \cup {Len(q) + 1}
      /\ Cardinality(new) = Cardinality(old) + 1
      /\ \A k \in 1..Len(q) : UpTo(new, k) = UpTo(old, k)
      /\ UpTo(new, Len(q) + 1) = Cardinality(old) + 1
  BY <1>1, CountAppended
<1>3. /\ Len(writes) \in Nat /\ Len(w2) = Len(writes) + 1
      /\ \A k \in 1..Len(writes) : w2[k] = writes[k]
      /\ w2[Len(writes) + 1] = v
  BY AppendProperties, LenProperties
<1>4. /\ Len(q) \in Nat /\ \A k \in 1..Len(q) : q2[k] = q[k]
      /\ q2[Len(q) + 1] = Put(v)
  BY <1>1, AppendProperties, LenProperties
<1>5. /\ Len(writes) = first + Cardinality(old)
      /\ \A i \in old : q[i].value = writes[first + UpTo(old, i)]
  BY DEF Matches
<1>6. \A i \in old : i \in 1..Len(q) /\ UpTo(old, i) \in 1..Cardinality(old)
  BY PutCounts
<1> HIDE DEF q2, w2, old, new
<1>7. ASSUME NEW i \in new PROVE q2[i].value = w2[first + UpTo(new, i)]
  <2>1. CASE i \in old
    <3>1. first + UpTo(old, i) \in 1..Len(writes)
      BY <1>2, <1>5, <1>6, <2>1
    <3> QED
      BY <1>2, <1>3, <1>4, <1>5, <1>6, <2>1, <3>1
  <2>2. CASE i = Len(q) + 1
    BY <1>1, <1>2, <1>3, <1>4, <1>5, <2>2
  <2> QED
    BY <1>2, <2>1, <2>2
<1>8. Len(w2) = first + Cardinality(new)
  BY <1>2, <1>3, <1>5
<1> QED
  BY <1>7, <1>8 DEF Matches, new, q2, w2

\* A listen behind them changes nothing.
LEMMA MatchesListen ==
  ASSUME NEW q \in Seq(UpMessage), NEW writes, NEW first,
         NEW request \in {ListenRequest, ReadRequest}, Matches(q, writes, first)
  PROVE  Matches(Append(q, request), writes, first)
<1>1. request \in UpMessage /\ request.kind \notin {"put"}
  BY MessageTypes DEF ListenRequest, ReadRequest
<1>2. At(Append(q, request), {"put"}) = At(q, {"put"})
  BY <1>1, CountAppended
<1>3. \A k \in 1..Len(q) : Append(q, request)[k] = q[k]
  BY <1>1, AppendProperties
<1>4. \A i \in At(q, {"put"}) : i \in 1..Len(q)
  BY PutCounts
<1> QED
  BY <1>2, <1>3, <1>4 DEF Matches

\* The put the server serves is the first write not served yet.
LEMMA MatchesServed ==
  ASSUME NEW q \in Seq(UpMessage), q # <<>>, NEW writes \in Seq(Values),
         NEW first \in Nat, Matches(q, writes, first)
  PROVE  /\ Head(q).kind = "put" =>
              /\ Matches(Tail(q), writes, first + 1)
              /\ first < Len(writes) /\ Head(q).value = writes[first + 1]
         /\ Head(q).kind # "put" => Matches(Tail(q), writes, first)
<1> DEFINE old == At(q, {"put"})  new == At(Tail(q), {"put"})
           served == IF Head(q).kind \in {"put"} THEN 1 ELSE 0
<1>1. /\ Len(q) \in Nat \ {0} /\ Head(q) = q[1]
      /\ Tail(q) \in Seq(UpMessage) /\ Len(Tail(q)) = Len(q) - 1
      /\ \A k \in 1..(Len(q) - 1) : Tail(q)[k] = q[k + 1]
  BY HeadTailProperties, LenProperties, EmptySeq
<1>2. /\ Cardinality(old) \in Nat /\ Cardinality(new) \in Nat
      /\ Cardinality(new) = Cardinality(old) - served
      /\ \A k \in 1..(Len(q) - 1) : UpTo(new, k) = UpTo(old, k + 1) - served
  BY CountConsumed
<1>3. new = {i \in 1..(Len(q) - 1) : i + 1 \in old}
  BY AtConsumed
<1>4. /\ Len(writes) = first + Cardinality(old)
      /\ \A i \in old : q[i].value = writes[first + UpTo(old, i)]
  BY DEF Matches
<1>5. \A i \in old : i \in 1..Len(q) /\ UpTo(old, i) \in 1..Cardinality(old)
  BY PutCounts
<1>6. served \in {0, 1} /\ (served = 1 <=> Head(q).kind = "put")
  OBVIOUS
<1>7. 1 \in old <=> Head(q).kind = "put"
  BY <1>1 DEF At
<1>8. (UpTo(old, 1) = 1 /\ Cardinality(old) >= 1) \/ 1 \notin old
  <2> SUFFICES ASSUME 1 \in old PROVE UpTo(old, 1) = 1 /\ Cardinality(old) >= 1
    BY <1>1
  <2> HIDE DEF old
  <2>1. {i \in old : i <= 1} = {1}
    BY <1>5
  <2>2. Cardinality({1}) = 1
    BY FS_Singleton
  <2>3. UpTo(old, 1) = 1
    BY <2>1, <2>2 DEF UpTo
  <2> QED
    BY <1>2, <1>5, <2>3
<1> HIDE DEF old, new, served
<1>9. Len(writes) = (first + served) + Cardinality(new)
  BY <1>2, <1>4, <1>6
<1>10. ASSUME NEW i \in new
       PROVE  Tail(q)[i].value = writes[(first + served) + UpTo(new, i)]
  <2>1. i \in 1..(Len(q) - 1) /\ i + 1 \in old
    BY <1>3
  <2>2. UpTo(old, i + 1) \in 1..Cardinality(old)
    BY <1>5, <2>1
  <2>3. (first + served) + UpTo(new, i) = first + UpTo(old, i + 1)
    BY <1>2, <1>6, <2>1, <2>2
  <2> QED
    BY <1>1, <1>4, <2>1, <2>3
<1>11. Matches(Tail(q), writes, first + served)
  BY <1>9, <1>10 DEF Matches, new
<1>12. Head(q).kind = "put" =>
         first < Len(writes) /\ Head(q).value = writes[first + 1]
  BY <1>1, <1>2, <1>4, <1>7, <1>8
<1> QED
  BY <1>6, <1>11, <1>12

\* The oldest writes, which were served, are no longer pending.
LEMMA MatchesForgotten ==
  ASSUME NEW q \in Seq(UpMessage), NEW writes \in Seq(Values),
         NEW first \in Nat, NEW n \in 0..first, Matches(q, writes, first)
  PROVE  Matches(q, SubSeq(writes, n + 1, Len(writes)), first - n)
<1> DEFINE left == SubSeq(writes, n + 1, Len(writes))
<1>1. /\ Len(writes) = first + Cardinality(At(q, {"put"}))
      /\ \A i \in At(q, {"put"}) :
           q[i].value = writes[first + UpTo(At(q, {"put"}), i)]
  BY DEF Matches
<1>2. /\ Cardinality(At(q, {"put"})) \in Nat
      /\ \A i \in At(q, {"put"}) :
           UpTo(At(q, {"put"}), i) \in 1..Cardinality(At(q, {"put"}))
  BY PutCounts
<1>3. n \in Nat /\ n <= Len(writes)
  BY <1>1, <1>2
<1>4. /\ Len(left) = Len(writes) - n
      /\ \A k \in 1..(Len(writes) - n) : left[k] = writes[n + k]
  BY <1>3, PartIsOver
<1> HIDE DEF left
<1>5. ASSUME NEW i \in At(q, {"put"})
      PROVE  q[i].value = left[(first - n) + UpTo(At(q, {"put"}), i)]
  <2> DEFINE k == (first - n) + UpTo(At(q, {"put"}), i)
  <2>1. k \in 1..(Len(writes) - n)
        /\ n + k = first + UpTo(At(q, {"put"}), i)
    BY <1>1, <1>2
  <2> QED
    BY <1>1, <1>4, <2>1
<1>6. Len(left) = (first - n) + Cardinality(At(q, {"put"}))
  BY <1>1, <1>2, <1>4
<1>7. Matches(q, left, first - n)
  BY <1>5, <1>6 DEF Matches
<1> QED
  BY <1>7 DEF left

\* A new connection sends every outstanding put again.
LEMMA MatchesRestored ==
  ASSUME PathTypeOK, NEW c \in Clients, NEW reading \in BOOLEAN,
         deferred[c] <= Len(pending[c])
  PROVE  Matches(RestoreState(c, reading), pending[c], deferred[c])
<1> DEFINE writes == pending[c]
           first  == deferred[c]
           out    == Outstanding(c)
           q      == RestoreState(c, reading)
           l      == Listens(c, reading)
           n      == Len(Outstanding(c))
<1>1. /\ first \in Nat /\ writes \in Seq(Values) /\ Len(writes) \in Nat
      /\ first <= Len(writes)
  BY LenProperties DEF PathTypeOK
<1>2. /\ n = Len(writes) - first
      /\ \A k \in 1..n : out[k] = writes[first + k]
  BY <1>1, PartIsOver DEF Outstanding
<1>3. /\ l \in 0..2 /\ n \in Nat /\ Len(q) = l + n
      /\ \A i \in 1..l : q[i] \in {ListenRequest, ReadRequest}
      /\ \A i \in (l + 1)..(l + n) : q[i] = Put(out[i - l])
  BY RestoredIs
<1>4. /\ ListenRequest.kind # "put" /\ ReadRequest.kind # "put"
      /\ \A v : Put(v).kind = "put" /\ Put(v).value = v
  BY DEF ListenRequest, ReadRequest, Put
<1> HIDE DEF writes, first, out, q, l, n
<1>5. At(q, {"put"}) = (l + 1)..(l + n)
  <2>1. \A i \in 1..(l + n) : q[i].kind = "put" <=> i \in (l + 1)..(l + n)
    <3> TAKE i \in 1..(l + n)
    <3>1. i \in 1..l \/ i \in (l + 1)..(l + n)
      BY <1>3
    <3>2. i \in 1..l => i \notin (l + 1)..(l + n)
      BY <1>3
    <3> QED
      BY <1>3, <1>4, <3>1, <3>2
  <2>2. (l + 1)..(l + n) \subseteq 1..(l + n)
    BY <1>3
  <2> QED
    BY <1>3, <2>1, <2>2 DEF At
<1>6. Cardinality((l + 1)..(l + n)) = n
  <2>1. l + 1 \in Int /\ l + n \in Int
    BY <1>3
  <2>2. Cardinality((l + 1)..(l + n))
          = IF l + 1 > l + n THEN 0 ELSE (l + n) - (l + 1) + 1
    BY <2>1, FS_Interval
  <2> QED
    BY <1>3, <2>2
<1>7. ASSUME NEW i \in (l + 1)..(l + n)
      PROVE  UpTo((l + 1)..(l + n), i) = i - l
  <2>1. {j \in (l + 1)..(l + n) : j <= i} = (l + 1)..i
    BY <1>3
  <2>2. l + 1 \in Int /\ i \in Int
    BY <1>3
  <2>3. Cardinality((l + 1)..i) = IF l + 1 > i THEN 0 ELSE i - (l + 1) + 1
    BY <2>2, FS_Interval
  <2>4. UpTo((l + 1)..(l + n), i) = Cardinality((l + 1)..i)
    BY <2>1 DEF UpTo
  <2> QED
    BY <1>3, <2>3, <2>4
<1>8. \A i \in At(q, {"put"}) :
        q[i].value = writes[first + UpTo(At(q, {"put"}), i)]
  <2> SUFFICES ASSUME NEW i \in (l + 1)..(l + n)
               PROVE  q[i].value = writes[first + UpTo((l + 1)..(l + n), i)]
    BY <1>5
  <2>1. UpTo((l + 1)..(l + n), i) = i - l /\ i - l \in 1..n
    BY <1>3, <1>7
  <2> QED
    BY <1>2, <1>3, <1>4, <2>1
<1>9. Len(writes) = first + Cardinality(At(q, {"put"}))
  BY <1>1, <1>2, <1>3, <1>5, <1>6
<1> QED
  BY <1>8, <1>9 DEF Matches, q, writes, first
-----------------------------------------------------------------------------
(* The answers on their way down.                                          *)

AnswerKinds == {"ok", "rejected"}
AnswersIn(q) == Cardinality(At(q, AnswerKinds))

\* What a queue of answers counts when a message is added or received.
LEMMA AnswersCount ==
  ASSUME NEW q \in Seq(DownMessage)
  PROVE  /\ AnswersIn(q) \in Nat
         /\ \A v \in Values : AnswersIn(Append(q, Data(v))) = AnswersIn(q)
         /\ \A e \in {Ok, Rejected} : AnswersIn(Append(q, e)) = AnswersIn(q) + 1
         /\ AnswersIn(Append(q, Listening)) = AnswersIn(q)
         /\ q # <<>> =>
              /\ AnswersIn(Tail(q)) \in Nat
              /\ AnswersIn(Tail(q)) = IF Head(q).kind \in AnswerKinds
                                      THEN AnswersIn(q) - 1 ELSE AnswersIn(q)
<1>1. AnswersIn(q) \in Nat
  <2>1. Ok \in DownMessage
    BY MessageTypes
  <2> QED
    BY <2>1, CountAppended DEF AnswersIn
<1>2. ASSUME NEW v \in Values
      PROVE  AnswersIn(Append(q, Data(v))) = AnswersIn(q)
  <2>1. Data(v) \in DownMessage /\ Data(v).kind \notin AnswerKinds
    BY MessageTypes DEF Data, AnswerKinds
  <2> QED
    BY <2>1, CountAppended DEF AnswersIn
<1>3. ASSUME NEW e \in {Ok, Rejected}
      PROVE  AnswersIn(Append(q, e)) = AnswersIn(q) + 1
  <2>1. e \in DownMessage /\ e.kind \in AnswerKinds
    BY MessageTypes DEF Ok, Rejected, AnswerKinds
  <2> QED
    BY <2>1, CountAppended DEF AnswersIn
<1>5. AnswersIn(Append(q, Listening)) = AnswersIn(q)
  <2>1. Listening \in DownMessage /\ Listening.kind \notin AnswerKinds
    BY MessageTypes DEF Listening, AnswerKinds
  <2> QED
    BY <2>1, CountAppended DEF AnswersIn
<1>4. ASSUME q # <<>>
      PROVE  /\ AnswersIn(Tail(q)) \in Nat
             /\ AnswersIn(Tail(q)) = IF Head(q).kind \in AnswerKinds
                                     THEN AnswersIn(q) - 1 ELSE AnswersIn(q)
  <2>1. /\ Cardinality(At(Tail(q), AnswerKinds)) \in Nat
        /\ Cardinality(At(Tail(q), AnswerKinds))
             = Cardinality(At(q, AnswerKinds))
               - (IF Head(q).kind \in AnswerKinds THEN 1 ELSE 0)
    BY <1>4, CountConsumed
  <2> QED
    BY <1>1, <2>1 DEF AnswersIn
<1> QED
  BY <1>1, <1>2, <1>3, <1>4, <1>5

\* There are none in an empty queue.
LEMMA NoAnswers == AnswersIn(<<>>) = 0
<1>1. At(<<>>, AnswerKinds) = {}
  BY DEF At
<1> QED
  BY <1>1, FS_EmptySet DEF AnswersIn

\* The answers of each device, before and after.
LEMMA AnswersNow ==
  \A c : Answers(c) = AnswersIn(down[c]) /\ Answers(c)' = AnswersIn(down'[c])
BY DEF Answers, AnswersIn, AnswerKinds, At

LEMMA AnswersType ==
  ASSUME PathTypeOK, NEW c \in Clients PROVE Answers(c) \in Nat
<1>1. down[c] \in Seq(DownMessage)
  BY DEF PathTypeOK
<1> QED
  BY <1>1, AnswersCount, AnswersNow

\* The server answers a put.
LEMMA AnswersServed ==
  ASSUME PathTypeOK, NEW c \in Clients, ServerApply(c) \/ ServerReject(c)
  PROVE  /\ Answers(c)' = Answers(c) + 1
         /\ \A d \in Clients : d # c => Answers(d)' = Answers(d)
<1>q. /\ down \in [Clients -> Seq(DownMessage)]
      /\ \A d \in Clients : down[d] \in Seq(DownMessage)
  BY DEF PathTypeOK
<1>1. CASE ServerReject(c)
  <2>1. /\ down'[c] = Append(down[c], Rejected)
        /\ \A d \in Clients : d # c => down'[d] = down[d]
    BY <1>1, <1>q DEF ServerReject
  <2>2. AnswersIn(down'[c]) = AnswersIn(down[c]) + 1
    BY <1>q, <2>1, AnswersCount
  <2> QED
    BY <2>1, <2>2, AnswersNow
<1>2. CASE ServerApply(c)
  <2>1. db' \in Values
    BY <1>2, ServerStepType DEF ServerStep, PathTypeOK
  <2> DEFINE told(d) == IF d \in listeners THEN Append(down[d], Data(db'))
                        ELSE down[d]
  <2>2. ASSUME NEW d \in Clients
        PROVE  told(d) \in Seq(DownMessage)
               /\ AnswersIn(told(d)) = AnswersIn(down[d])
    <3>1. Append(down[d], Data(db')) \in Seq(DownMessage)
      BY <1>q, <2>1, MessageTypes, AppendProperties
    <3>2. AnswersIn(Append(down[d], Data(db'))) = AnswersIn(down[d])
      BY <1>q, <2>1, AnswersCount
    <3> QED
      BY <1>q, <3>1, <3>2
  <2>3. /\ down'[c] = Append(told(c), Ok)
        /\ \A d \in Clients : d # c => down'[d] = told(d)
    BY <1>2 DEF ServerApply
  <2> HIDE DEF told
  <2>4. AnswersIn(down'[c]) = AnswersIn(told(c)) + 1
    BY <2>2, <2>3, AnswersCount
  <2> QED
    BY <2>2, <2>3, <2>4, AnswersNow
<1> QED
  BY <1>1, <1>2

\* A device receives a message.
LEMMA AnswersReceived ==
  ASSUME PathTypeOK, NEW c \in Clients, NEW kinds, TakeDown(c, kinds)
  PROVE  /\ kinds \cap AnswerKinds = {} => Answers(c)' = Answers(c)
         /\ kinds \subseteq AnswerKinds =>
              Answers(c) > 0 /\ Answers(c)' = Answers(c) - 1
         /\ \A d \in Clients : d # c => Answers(d)' = Answers(d)
<1>1. /\ down[c] \in Seq(DownMessage) /\ down[c] # <<>>
      /\ Head(down[c]).kind \in kinds /\ down'[c] = Tail(down[c])
      /\ \A d \in Clients : d # c => down'[d] = down[d]
  BY DEF TakeDown, PathTypeOK
<1>2. /\ AnswersIn(down[c]) \in Nat /\ AnswersIn(Tail(down[c])) \in Nat
      /\ AnswersIn(Tail(down[c])) = IF Head(down[c]).kind \in AnswerKinds
                                    THEN AnswersIn(down[c]) - 1
                                    ELSE AnswersIn(down[c])
  BY <1>1, AnswersCount
<1>3. kinds \cap AnswerKinds = {} => AnswersIn(down'[c]) = AnswersIn(down[c])
  BY <1>1, <1>2
<1>4. kinds \subseteq AnswerKinds =>
        AnswersIn(down[c]) > 0 /\ AnswersIn(down'[c]) = AnswersIn(down[c]) - 1
  BY <1>1, <1>2
<1> QED
  BY <1>1, <1>3, <1>4, AnswersNow

\* The server responds to a listen.
LEMMA AnswersListen ==
  ASSUME PathTypeOK, NEW c \in Clients, ServerListen(c) \/ ServerRead(c)
  PROVE  \A d \in Clients : Answers(d)' = Answers(d)
<1>1. /\ down \in [Clients -> Seq(DownMessage)] /\ db \in Values
      /\ down[c] \in Seq(DownMessage)
  BY DEF PathTypeOK
<1> DEFINE told == IF ServerRead(c) THEN down[c] ELSE Append(down[c], Data(db))
<1>2. /\ down'[c] = Append(told, Listening)
      /\ \A d \in Clients : d # c => down'[d] = down[d]
  BY <1>1 DEF ServerListen, ServerRead
<1>3. told \in Seq(DownMessage) /\ AnswersIn(told) = AnswersIn(down[c])
  BY <1>1, MessageTypes, AppendProperties, AnswersCount
<1> HIDE DEF told
<1>4. AnswersIn(down'[c]) = AnswersIn(down[c])
  BY <1>2, <1>3, AnswersCount
<1> QED
  BY <1>2, <1>4, AnswersNow

\* What was on its way is lost.
LEMMA AnswersLost ==
  ASSUME PathTypeOK, NEW c \in Clients, Disconnect(c) \/ Kill(c)
  PROVE  /\ Answers(c)' = 0
         /\ \A d \in Clients : d # c => Answers(d)' = Answers(d)
<1>1. down'[c] = <<>> /\ \A d \in Clients : d # c => down'[d] = down[d]
  BY DEF Disconnect, Kill, PathTypeOK
<1> QED
  BY <1>1, NoAnswers, AnswersNow

\* Nothing else touches them.
LEMMA AnswersUntouched ==
  ASSUME UNCHANGED down PROVE \A c : Answers(c)' = Answers(c)
BY AnswersNow

-----------------------------------------------------------------------------
(* Every put has its answer coming.                                        *)

PutInv == DueInv /\ EveryPutIsAnswered

\* What was dealt with, before and after a step.
LEMMA DealtNow ==
  \A c : /\ Dealt(c) = deferred[c] + Answers(c)
         /\ Dealt(c)' = deferred'[c] + Answers(c)'
BY DEF Dealt

\* The invariant in terms of Matches.
LEMMA InTermsOfMatches ==
  /\ EveryPutIsAnswered <=>
       \A c \in online : Matches(up[c], pending[c], Dealt(c))
  /\ EveryPutIsAnswered' <=>
       \A c \in online' : Matches(up'[c], pending'[c], Dealt(c)')
BY DEF EveryPutIsAnswered, Matches, UpTo

\* The types of one device's queues.
LEMMA QueueTypes ==
  ASSUME PathTypeOK, NEW c \in Clients
  PROVE  /\ up[c] \in Seq(UpMessage) /\ down[c] \in Seq(DownMessage)
         /\ pending[c] \in Seq(Values) /\ Answers(c) \in Nat
         /\ deferred[c] \in Nat /\ Dealt(c) \in Nat
BY AnswersType, DealtNow DEF PathTypeOK

\* The server serves a put: it is the first write not served yet.
LEMMA ServedIsNext ==
  ASSUME PutInv, NEW c \in Clients, TakeUp(c, "put")
  PROVE  /\ c \in online
         /\ Dealt(c) < Len(pending[c])
         /\ Head(up[c]).value = pending[c][Dealt(c) + 1]
         /\ Matches(Tail(up[c]), pending[c], Dealt(c) + 1)
<1>1. up[c] # <<>> /\ Head(up[c]).kind = "put"
  BY DEF TakeUp
<1>2. c \in online
  BY <1>1 DEF PutInv, DueInv, OfflineIsEmpty
<1>3. Matches(up[c], pending[c], Dealt(c))
  BY <1>2, InTermsOfMatches DEF PutInv
<1> QED
  BY <1>1, <1>2, <1>3, QueueTypes, MatchesServed DEF PutInv, DueInv

\* An answer is dealt with before it is received and stays so while it is held
\* back.
LEMMA DealtAnswered ==
  ASSUME DueInv, NEW c \in Clients, NEW kind \in AnswerKinds,
         ReceiveAnswer(c, kind)
  PROVE  /\ unacked[c] > 0 => Dealt(c)' = Dealt(c)
         /\ unacked[c] = 0 => Dealt(c) >= 1 /\ Dealt(c)' = Dealt(c) - 1
<1>1. TakeDown(c, {kind}) /\ {kind} \subseteq AnswerKinds
  BY DEF ReceiveAnswer
<1>2. /\ Answers(c) > 0 /\ Answers(c)' = Answers(c) - 1
      /\ Answers(c) \in Nat /\ deferred[c] \in Nat
      /\ deferred \in [Clients -> Nat]
  BY <1>1, AnswersReceived, QueueTypes DEF DueInv, PathTypeOK
<1>3. unacked[c] > 0 => deferred'[c] = deferred[c] + 1
  BY <1>2, AnswerIs
<1>4. unacked[c] = 0 => deferred'[c] = deferred[c]
  BY <1>2, AnswerIs
<1> QED
  BY <1>2, <1>3, <1>4, DealtNow

\* A response forgets what it brings to bear.
LEMMA DealtListening ==
  ASSUME DueInv, NEW c \in Clients, ReceiveListening(c)
  PROVE  /\ Answers(c)' = Answers(c)
         /\ unacked[c] > 1 => Dealt(c)' = Dealt(c)
         /\ unacked[c] = 1 => /\ deferred[c] \in 0..Dealt(c)
                              /\ Dealt(c)' = Dealt(c) - deferred[c]
<1>1. TakeDown(c, {"listening"}) /\ {"listening"} \cap AnswerKinds = {}
  BY DEF ReceiveListening, AnswerKinds
<1>2. /\ Answers(c)' = Answers(c) /\ Answers(c) \in Nat /\ deferred[c] \in Nat
      /\ deferred \in [Clients -> Nat]
  BY <1>1, AnswersReceived, QueueTypes DEF DueInv, PathTypeOK
<1>3. unacked[c] > 1 => deferred'[c] = deferred[c]
  BY <1>2, ListeningIs
<1>4. unacked[c] = 1 => deferred'[c] = 0
  BY <1>2, ListeningIs
<1> QED
  BY <1>2, <1>3, <1>4, DealtNow

\* The device that acts keeps its puts and pending writes together.
LEMMA ActorMatches ==
  ASSUME PutInv, NEW c \in Clients, c \in online',
         \/ \E r \in Regs, carry \in BOOLEAN : Register(c, r, carry)
         \/ \E v \in Values : Write(c, v)
         \/ Read(c)
         \/ \E reading \in BOOLEAN : Deliver(c, reading)
         \/ \E r \in Regs : RaiseAgain(c, r)
         \/ ServerStep(c)
         \/ Receive(c)
         \/ \E reading \in BOOLEAN : Reconnect(c, reading)
  PROVE  Matches(up'[c], pending'[c], Dealt(c)')
<1> USE DEF PutInv
<1>q. /\ PathTypeOK /\ DueInv
      /\ up \in [Clients -> Seq(UpMessage)]
      /\ pending \in [Clients -> Seq(Values)]
      /\ deferred \in [Clients -> Nat]
  BY DEF DueInv, PathTypeOK
<1>t. /\ up[c] \in Seq(UpMessage) /\ pending[c] \in Seq(Values)
      /\ Dealt(c) \in Nat
  BY <1>q, QueueTypes
<1>m. c \in online => Matches(up[c], pending[c], Dealt(c))
  BY InTermsOfMatches
<1>1. ASSUME NEW r \in Regs, NEW flag \in BOOLEAN,
             \/ Register(c, r, flag) \/ Read(c) \/ Deliver(c, flag)
             \/ RaiseAgain(c, r)
      PROVE  Matches(up'[c], pending'[c], Dealt(c)')
  <2>1. /\ c \in online /\ pending' = pending /\ deferred' = deferred
        /\ UNCHANGED down
    BY <1>1 DEF Register, Read, Deliver, RaiseAgain
  <2>2. \/ up'[c] = up[c]
        \/ \E request \in {ListenRequest, ReadRequest} :
             up'[c] = Append(up[c], request)
    BY <1>1, <1>q
    DEF Register, Read, Deliver, RaiseAgain, ReadElsewhere, SendListen
  <2>3. Dealt(c)' = Dealt(c)
    BY <2>1, AnswersUntouched, DealtNow
  <2> QED
    BY <1>t, <1>m, <2>1, <2>2, <2>3, MatchesListen
<1>8. CASE Read(c) \/ \E reading \in BOOLEAN : Deliver(c, reading)
  <2>1. /\ c \in online /\ pending' = pending /\ deferred' = deferred
        /\ UNCHANGED down
    BY <1>8 DEF Read, Deliver
  <2>2. up'[c] = up[c] \/ up'[c] = Append(up[c], ReadRequest)
    BY <1>8, <1>q DEF Read, Deliver, ReadElsewhere, SendListen
  <2>3. Dealt(c)' = Dealt(c)
    BY <2>1, AnswersUntouched, DealtNow
  <2> QED
    BY <1>t, <1>m, <2>1, <2>2, <2>3, MatchesListen
<1>2. ASSUME NEW v \in Values, Write(c, v)
      PROVE  Matches(up'[c], pending'[c], Dealt(c)')
  <2>1. /\ c \in online /\ pending'[c] = Append(pending[c], v)
        /\ up'[c] = Append(up[c], Put(v))
    BY <1>2, <1>q DEF Write
  <2>2. Dealt(c)' = Dealt(c)
    BY <1>2, AnswersUntouched, DealtNow DEF Write
  <2> QED
    BY <1>t, <1>m, <2>1, <2>2, MatchesWritten
<1>3. CASE ServerListen(c) \/ ServerRead(c)
  <2>1. /\ c \in online /\ pending' = pending /\ up[c] # <<>>
        /\ Head(up[c]).kind # "put" /\ up'[c] = Tail(up[c])
        /\ deferred' = deferred
    BY <1>3, <1>q DEF ServerListen, ServerRead, TakeUp
  <2>2. Dealt(c)' = Dealt(c)
    BY <1>3, <1>q, <2>1, AnswersListen, DealtNow
  <2> QED
    BY <1>t, <1>m, <2>1, <2>2, MatchesServed
<1>4. CASE ServerApply(c) \/ ServerReject(c)
  <2>1. /\ TakeUp(c, "put") /\ pending' = pending /\ deferred' = deferred
    BY <1>4 DEF ServerApply, ServerReject
  <2>2. up'[c] = Tail(up[c])
    BY <1>q, <2>1 DEF TakeUp
  <2>3. Dealt(c)' = Dealt(c) + 1
    <3>1. Answers(c)' = Answers(c) + 1 /\ Answers(c) \in Nat
          /\ deferred[c] \in Nat
      BY <1>4, <1>q, AnswersServed, QueueTypes
    <3> QED
      BY <2>1, <3>1, DealtNow
  <2> QED
    BY <2>1, <2>2, <2>3, ServedIsNext
<1>5. CASE ReceiveData(c)
  <2>1. TakeDown(c, {"data"}) /\ pending' = pending /\ deferred' = deferred
    BY <1>5 DEF ReceiveData
  <2>2. up' = up /\ c \in online
    BY <2>1 DEF TakeDown
  <2>3. {"data"} \cap AnswerKinds = {}
    BY DEF AnswerKinds
  <2>4. Dealt(c)' = Dealt(c)
    BY <1>q, <2>1, <2>3, AnswersReceived, DealtNow
  <2> QED
    BY <1>m, <2>1, <2>2, <2>4
<1>6. CASE ReceiveOk(c) \/ ReceiveRejected(c)
  <2>1. PICK kind \in AnswerKinds : ReceiveAnswer(c, kind)
    BY <1>6 DEF ReceiveOk, ReceiveRejected, AnswerKinds
  <2>2. up' = up /\ c \in online /\ pending[c] # <<>> /\ unacked[c] \in Nat
    BY <1>q, <2>1, AnswerIs, DueHere DEF ReceiveAnswer, TakeDown
  <2>3. CASE unacked[c] > 0
    <3>1. pending' = pending /\ Dealt(c)' = Dealt(c)
      BY <1>q, <2>1, <2>3, AnswerIs, DealtAnswered
    <3> QED
      BY <1>m, <2>2, <3>1
  <2>4. CASE unacked[c] = 0
    <3>1. /\ pending'[c] = Tail(pending[c])
          /\ Dealt(c) >= 1 /\ Dealt(c)' = Dealt(c) - 1
      BY <1>q, <2>1, <2>4, AnswerIs, DealtAnswered
    <3>2. Tail(pending[c]) = SubSeq(pending[c], 1 + 1, Len(pending[c]))
      BY <1>t, <2>2, TailIsSubSeq
    <3>3. 1 \in 0..Dealt(c)
      BY <1>t, <3>1
    <3> QED
      BY <1>t, <1>m, <2>2, <3>1, <3>2, <3>3, MatchesForgotten
  <2> QED
    BY <2>2, <2>3, <2>4
<1>9. CASE ReceiveListening(c)
  <2>1. up' = up /\ c \in online /\ unacked[c] \in Nat /\ unacked[c] > 0
    BY <1>9, <1>q, ListeningIs, DueHere DEF ReceiveListening, TakeDown
  <2>2. CASE unacked[c] > 1
    BY <1>9, <1>q, <1>m, <2>1, <2>2, ListeningIs, DealtListening
  <2>3. CASE unacked[c] = 1
    <3>1. pending'[c] = SubSeq(pending[c], deferred[c] + 1, Len(pending[c]))
      BY <1>9, <1>q, <2>3, ListeningIs
    <3>2. deferred[c] \in 0..Dealt(c) /\ Dealt(c)' = Dealt(c) - deferred[c]
      BY <1>9, <1>q, <2>3, DealtListening
    <3> QED
      BY <1>t, <1>m, <2>1, <3>1, <3>2, MatchesForgotten
  <2> QED
    BY <2>1, <2>2, <2>3
<1>7. ASSUME NEW reading \in BOOLEAN, Reconnect(c, reading)
      PROVE  Matches(up'[c], pending'[c], Dealt(c)')
  <2>1. /\ c \notin online /\ pending' = pending /\ deferred' = deferred
        /\ up'[c] = RestoreState(c, reading) /\ down' = down
    BY <1>7, <1>q DEF Reconnect
  <2>2. Answers(c)' = 0
    BY <2>1, NoAnswers, AnswersNow DEF DueInv, OfflineIsEmpty
  <2>3. Dealt(c)' = deferred[c]
    BY <1>q, <2>1, <2>2, DealtNow
  <2> QED
    BY <1>q, <2>1, <2>3, MatchesRestored DEF DueInv, HeldIsPending
<1>r. ASSUME NEW r \in Regs, NEW carry \in BOOLEAN,
             Register(c, r, carry) \/ RaiseAgain(c, r)
      PROVE  Matches(up'[c], pending'[c], Dealt(c)')
  BY <1>r, <1>1
<1> QED
  BY <1>r, <1>2, <1>3, <1>4, <1>5, <1>6, <1>7, <1>8, <1>9 DEF ServerStep, Receive

\* A step of one device leaves the puts and writes of the others alone.
LEMMA OthersMatch ==
  ASSUME PathTypeOK, NEW c \in Clients, NEW d \in Clients, d # c,
         \/ \E r \in Regs, carry \in BOOLEAN : Register(c, r, carry)
         \/ \E v \in Values : Write(c, v)
         \/ Read(c)
         \/ \E reading \in BOOLEAN : Deliver(c, reading)
         \/ \E r \in Regs : RaiseAgain(c, r)
         \/ ServerStep(c) \/ Receive(c)
         \/ Disconnect(c)
         \/ \E reading \in BOOLEAN : Reconnect(c, reading)
         \/ Kill(c)
  PROVE  /\ d \in online' <=> d \in online
         /\ up'[d] = up[d] /\ pending'[d] = pending[d]
         /\ deferred'[d] = deferred[d]
         /\ Answers(d)' = Answers(d) /\ Dealt(d)' = Dealt(d)
<1>q. /\ up \in [Clients -> Seq(UpMessage)]
      /\ pending \in [Clients -> Seq(Values)]
      /\ deferred \in [Clients -> Nat]
  BY DEF PathTypeOK
<1>1. CASE \/ \E r \in Regs, carry \in BOOLEAN : Register(c, r, carry)
           \/ \E v \in Values : Write(c, v)
           \/ Read(c)
           \/ \E reading \in BOOLEAN : Deliver(c, reading) \/ Reconnect(c, reading)
           \/ \E r \in Regs : RaiseAgain(c, r)
  <2>1. down' = down /\ pending'[d] = pending[d] /\ deferred' = deferred
    BY <1>1, <1>q DEF Register, Write, Read, Deliver, Reconnect, RaiseAgain
  <2>2. up'[d] = up[d]
    BY <1>1, <1>q DEF Register, Write, Read, Deliver, Reconnect, RaiseAgain,
                      ReadElsewhere, SendListen
  <2>3. d \in online' <=> d \in online
    BY <1>1 DEF Register, Write, Read, Deliver, Reconnect, RaiseAgain
  <2> QED
    BY <2>1, <2>2, <2>3, AnswersUntouched, DealtNow
<1>2. CASE ServerStep(c)
  <2>1. /\ online' = online /\ up'[d] = up[d] /\ pending' = pending
        /\ deferred' = deferred
    BY <1>2, <1>q
    DEF ServerStep, ServerListen, ServerRead, ServerApply, ServerReject, TakeUp
  <2>2. Answers(d)' = Answers(d)
    BY <1>2, AnswersListen, AnswersServed DEF ServerStep
  <2> QED
    BY <2>1, <2>2, DealtNow
<1>3. CASE Receive(c)
  <2>1. PICK kinds : TakeDown(c, kinds)
    BY <1>3
    DEF Receive, ReceiveData, ReceiveOk, ReceiveRejected, ReceiveAnswer,
        ReceiveListening
  <2>2. online' = online /\ up' = up
    BY <2>1 DEF TakeDown
  <2>3. pending'[d] = pending[d] /\ deferred'[d] = deferred[d]
    <3>1. CASE ReceiveData(c)
      BY <3>1 DEF ReceiveData
    <3>2. CASE ReceiveListening(c)
      BY <1>q, <3>2 DEF ReceiveListening
    <3>3. CASE ReceiveOk(c) \/ ReceiveRejected(c)
      BY <1>q, <3>3 DEF ReceiveOk, ReceiveRejected, ReceiveAnswer
    <3> QED
      BY <1>3, <3>1, <3>2, <3>3 DEF Receive
  <2>4. Answers(d)' = Answers(d)
    BY <2>1, AnswersReceived
  <2> QED
    BY <2>2, <2>3, <2>4, DealtNow
<1>4. CASE Disconnect(c) \/ Kill(c)
  <2>1. /\ d \in online' <=> d \in online
        /\ up'[d] = up[d] /\ pending'[d] = pending[d]
        /\ deferred'[d] = deferred[d]
    BY <1>4, <1>q DEF Disconnect, Kill
  <2>2. Answers(d)' = Answers(d)
    BY <1>4, AnswersLost
  <2> QED
    BY <2>1, <2>2, DealtNow
<1> QED
  BY <1>1, <1>2, <1>3, <1>4

\* The invariant is inductive.
LEMMA PutStep == PutInv /\ [PathNext]_pathVars => PutInv'
<1> SUFFICES ASSUME PutInv, [PathNext]_pathVars PROVE PutInv'
  OBVIOUS
<1>1. DueInv' /\ PathTypeOK' /\ PathTypeOK
  BY DueStep DEF PutInv, DueInv
<1>2. EveryPutIsAnswered'
  <2>1. CASE UNCHANGED pathVars
    <3>1. \A c : Dealt(c)' = Dealt(c)
      BY <2>1, AnswersUntouched, DealtNow DEF pathVars
    <3> QED
      BY <2>1, <3>1, InTermsOfMatches DEF pathVars, PutInv
  <2>2. CASE PathNext
    <3> SUFFICES ASSUME NEW d \in Clients, d \in online'
                 PROVE  Matches(up'[d], pending'[d], Dealt(d)')
      BY <1>1, InTermsOfMatches DEF PathTypeOK
    <3>1. PICK c \in Clients :
            \/ \E r \in Regs, carry \in BOOLEAN : Register(c, r, carry)
            \/ \E v \in Values : Write(c, v)
            \/ Read(c)
            \/ \E reading \in BOOLEAN : Deliver(c, reading)
            \/ \E r \in Regs : RaiseAgain(c, r)
            \/ ServerStep(c) \/ Receive(c)
            \/ Disconnect(c)
            \/ \E reading \in BOOLEAN : Reconnect(c, reading)
            \/ Kill(c)
      BY <2>2 DEF PathNext
    <3>2. CASE d # c
      BY <1>1, <3>1, <3>2, OthersMatch, InTermsOfMatches DEF PutInv
    <3>3. ~(d = c /\ (Disconnect(c) \/ Kill(c)))
      BY DEF Disconnect, Kill
    <3> QED
      BY <3>1, <3>2, <3>3, ActorMatches
  <2> QED
    BY <2>1, <2>2
<1> QED
  BY <1>1, <1>2 DEF PutInv

LEMMA PutInit == PathInit => PutInv
<1> SUFFICES ASSUME PathInit PROVE PutInv
  OBVIOUS
<1>1. EveryPutIsAnswered
  BY DEF PathInit, EveryPutIsAnswered
<1> QED
  BY <1>1, DueInit DEF PutInv

LEMMA PutAlways == PathSpec => []PutInv
<1> QED
  BY PutInit, PutStep, PTL DEF PathSpec

\* On a live connection the pending writes are those whose answers are held
\* back or on their way down and those still on their way up, in the order they
\* were made.
THEOREM PutsAnswered == PathSpec => []EveryPutIsAnswered
<1>1. PutInv => EveryPutIsAnswered
  BY DEF PutInv
<1> QED
  BY <1>1, PutAlways, PTL

-----------------------------------------------------------------------------
(* The refinement.                                                         *)

Taken == [c \in Clients |-> Dealt(c)]

\* A step in which the writes dealt with change for one device at most.
LEMMA TakenChanges ==
  ASSUME NEW c \in Clients, NEW n, Dealt(c)' = n,
         \A d \in Clients : d # c => Dealt(d)' = Dealt(d)
  PROVE  Taken' = [Taken EXCEPT ![c] = n]
BY DEF Taken

\* What the abstract steps say of Taken.
LEMMA InTermsOfTaken ==
  /\ Shared!Init <=>
       /\ db = Initial /\ pending = [c \in Clients |-> <<>>]
       /\ Taken = [c \in Clients |-> 0]
  /\ (UNCHANGED Shared!vars) <=> UNCHANGED <<db, pending, Taken>>
  /\ \A c, v : Shared!Ask(c, v) <=>
       /\ pending' = [pending EXCEPT ![c] = Append(@, v)]
       /\ UNCHANGED <<db, Taken>>
  /\ \A c : Shared!Deal(c) <=>
       /\ Taken[c] < Len(pending[c])
       /\ Taken' = [Taken EXCEPT ![c] = @ + 1]
       /\ db' \in {db, pending[c][Taken[c] + 1]}
       /\ UNCHANGED pending
  /\ \A c : Shared!GiveUp(c) <=>
       /\ pending' = [pending EXCEPT ![c] = <<>>]
       /\ Taken' = [Taken EXCEPT ![c] = 0]
       /\ UNCHANGED db
BY DEF Shared!Init, Shared!vars, Shared!Ask, Shared!Deal, Shared!GiveUp, Taken

LEMMA ForgettingInTermsOfTaken ==
  ASSUME NEW c, NEW n
  PROVE  /\ Shared!Forget(c, n) <=>
              /\ n > 0 /\ n <= Taken[c]
              /\ pending' = [pending EXCEPT ![c] = SubSeq(@, n + 1, Len(@))]
              /\ Taken' = [Taken EXCEPT ![c] = @ - n]
              /\ UNCHANGED db
         /\ Shared!BeginAgain(c, n) <=>
              /\ n <= Taken[c]
              /\ Taken' = [Taken EXCEPT ![c] = n] /\ UNCHANGED <<db, pending>>
BY DEF Shared!Forget, Shared!BeginAgain, Taken

\* The steps that neither deal with writes nor change them.
LEMMA Stutters ==
  ASSUME DueInv, NEW c \in Clients,
         \/ \E r \in Regs, carry \in BOOLEAN : Register(c, r, carry)
         \/ Read(c) \/ ServerListen(c) \/ ServerRead(c) \/ ReceiveData(c)
         \/ \E reading \in BOOLEAN : Deliver(c, reading) \/ Reconnect(c, reading)
         \/ \E r \in Regs : RaiseAgain(c, r)
  PROVE  UNCHANGED <<db, pending, Taken>>
<1>q. PathTypeOK
  BY DEF DueInv
<1>1. db' = db /\ pending' = pending /\ deferred' = deferred
  BY DEF Register, Read, Deliver, RaiseAgain, ServerListen, ServerRead,
         ReceiveData, TakeDown, Reconnect
<1>2. \A d \in Clients : Answers(d)' = Answers(d)
  <2>1. CASE ServerListen(c) \/ ServerRead(c)
    BY <1>q, <2>1, AnswersListen
  <2>2. CASE ReceiveData(c)
    <3>1. TakeDown(c, {"data"}) /\ {"data"} \cap AnswerKinds = {}
      BY <2>2 DEF ReceiveData, AnswerKinds
    <3> QED
      BY <1>q, <3>1, AnswersReceived
  <2>3. CASE \/ \E r \in Regs, carry \in BOOLEAN : Register(c, r, carry)
             \/ Read(c)
             \/ \E reading \in BOOLEAN :
                  Deliver(c, reading) \/ Reconnect(c, reading)
             \/ \E r \in Regs : RaiseAgain(c, r)
    <3>1. down' = down
      BY <2>3 DEF Register, Read, Deliver, RaiseAgain, Reconnect
    <3> QED
      BY <3>1, AnswersUntouched
  <2> QED
    BY <2>1, <2>2, <2>3
<1>3. Taken' = Taken
  BY <1>1, <1>2, DealtNow DEF Taken
<1> QED
  BY <1>1, <1>3

\* What the device handles, it forgets; an answer held back changes nothing.
LEMMA AnswersAreForgotten ==
  ASSUME PutInv, NEW c \in Clients,
         ReceiveOk(c) \/ ReceiveRejected(c) \/ ReceiveListening(c)
  PROVE  \/ UNCHANGED <<db, pending, Taken>>
         \/ \E n \in 0..Len(pending[c]) : Shared!Forget(c, n)
<1>q. /\ PathTypeOK /\ DueInv /\ Receive(c) /\ unacked[c] \in Nat
      /\ pending \in [Clients -> Seq(Values)] /\ deferred \in [Clients -> Nat]
  BY DueHere DEF PutInv, DueInv, PathTypeOK, Receive
<1>h. /\ pending[c] \in Seq(Values) /\ Len(pending[c]) \in Nat
      /\ deferred[c] \in Nat /\ deferred[c] <= Len(pending[c])
  BY <1>q, DueHere
<1>t. Taken[c] = Dealt(c) /\ Dealt(c) \in Nat
  BY <1>q, QueueTypes DEF Taken
<1>o. \A d \in Clients : d # c => Dealt(d)' = Dealt(d)
  BY <1>q, OthersMatch
<1>d. db' = db
  BY DEF ReceiveOk, ReceiveRejected, ReceiveAnswer, ReceiveListening, TakeDown
<1>1. ASSUME pending' = pending, Dealt(c)' = Dealt(c)
      PROVE  UNCHANGED <<db, pending, Taken>>
  <2>1. Taken' = Taken
    BY <1>1, <1>o DEF Taken
  <2> QED
    BY <1>1, <1>d, <2>1
<1>2. ASSUME NEW n \in 1..Len(pending[c]), n <= Dealt(c),
             pending' = [pending EXCEPT ![c] = SubSeq(@, n + 1, Len(@))],
             Dealt(c)' = Dealt(c) - n
      PROVE  \E m \in 0..Len(pending[c]) : Shared!Forget(c, m)
  <2>1. Taken' = [Taken EXCEPT ![c] = Dealt(c) - n]
    BY <1>2, <1>o, TakenChanges
  <2>2. Shared!Forget(c, n)
    <3>1. n > 0 /\ n <= Taken[c]
      BY <1>2, <1>t
    <3>2. Taken' = [Taken EXCEPT ![c] = @ - n]
      BY <1>t, <2>1
    <3> QED
      BY <1>2, <1>d, <3>1, <3>2, ForgettingInTermsOfTaken
  <2> QED
    BY <1>h, <2>2
<1>3. CASE ReceiveOk(c) \/ ReceiveRejected(c)
  <2>1. PICK kind \in AnswerKinds : ReceiveAnswer(c, kind)
    BY <1>3 DEF ReceiveOk, ReceiveRejected, AnswerKinds
  <2>2. CASE unacked[c] > 0
    BY <1>q, <1>1, <2>1, <2>2, AnswerIs, DealtAnswered
  <2>3. CASE unacked[c] = 0
    <3>1. /\ pending' = [pending EXCEPT ![c] = Tail(@)] /\ pending[c] # <<>>
          /\ 1 <= Dealt(c) /\ Dealt(c)' = Dealt(c) - 1
      BY <1>q, <1>t, <2>1, <2>3, AnswerIs, DealtAnswered
    <3>2. Tail(pending[c]) = SubSeq(pending[c], 1 + 1, Len(pending[c]))
      BY <1>h, <3>1, TailIsSubSeq
    <3>3. pending' = [pending EXCEPT ![c] = SubSeq(@, 1 + 1, Len(@))]
      BY <3>1, <3>2
    <3>4. 1 \in 1..Len(pending[c])
      BY <1>h, <3>1, EmptySeq
    <3> QED
      BY <1>2, <3>1, <3>3, <3>4
  <2> QED
    BY <1>q, <2>2, <2>3
<1>4. CASE ReceiveListening(c)
  <2>1. CASE unacked[c] > 1
    BY <1>q, <1>1, <1>4, <2>1, ListeningIs, DealtListening
  <2>2. CASE unacked[c] = 1 /\ deferred[c] = 0
    <3>1. /\ pending' = [pending EXCEPT ![c] = SubSeq(@, 0 + 1, Len(@))]
          /\ Dealt(c)' = Dealt(c) - 0
      BY <1>q, <1>4, <2>2, ListeningIs, DealtListening
    <3>2. SubSeq(pending[c], 0 + 1, Len(pending[c])) = pending[c]
      BY <1>h, SubSeqFull
    <3>3. pending' = [pending EXCEPT ![c] = pending[c]]
      BY <3>1, <3>2
    <3>4. pending' = pending /\ Dealt(c)' = Dealt(c)
      BY <1>q, <1>t, <3>1, <3>3
    <3> QED
      BY <1>1, <3>4
  <2>3. CASE unacked[c] = 1 /\ deferred[c] > 0
    <3>1. /\ pending' = [pending EXCEPT
                           ![c] = SubSeq(@, deferred[c] + 1, Len(@))]
          /\ deferred[c] <= Dealt(c) /\ Dealt(c)' = Dealt(c) - deferred[c]
      BY <1>q, <1>t, <1>4, <2>3, ListeningIs, DealtListening
    <3>2. deferred[c] \in 1..Len(pending[c])
      BY <1>h, <2>3
    <3> QED
      BY <1>2, <3>1, <3>2
  <2> QED
    BY <1>q, <1>h, <1>4, <2>1, <2>2, <2>3, ListeningIs
<1> QED
  BY <1>3, <1>4

\* Each step of the path is a step of the shared value, or none.
LEMMA SharedStep ==
  PutInv /\ [PathNext]_pathVars => [Shared!Next]_(Shared!vars)
<1> SUFFICES ASSUME PutInv, [PathNext]_pathVars
             PROVE  Shared!Next \/ UNCHANGED <<db, pending, Taken>>
  BY InTermsOfTaken
<1>t. \A c \in Clients : Taken[c] = Dealt(c)
  BY DEF Taken
<1>q. PathTypeOK /\ DueInv
  BY DEF PutInv, DueInv
<1>1. CASE UNCHANGED pathVars
  <2>1. \A c : Dealt(c)' = Dealt(c)
    BY <1>1, AnswersUntouched, DealtNow DEF pathVars
  <2> QED
    BY <1>1, <2>1 DEF pathVars, Taken
<1>2. ASSUME NEW c \in Clients,
             \/ \E r \in Regs, carry \in BOOLEAN : Register(c, r, carry)
             \/ Read(c) \/ ServerListen(c) \/ ServerRead(c) \/ ReceiveData(c)
             \/ \E reading \in BOOLEAN : Deliver(c, reading) \/ Reconnect(c, reading)
             \/ \E r \in Regs : RaiseAgain(c, r)
      PROVE  UNCHANGED <<db, pending, Taken>>
  BY <1>2, <1>q, Stutters
<1>3. ASSUME NEW c \in Clients, NEW v \in Values, Write(c, v)
      PROVE  Shared!Next
  <2>1. \A d : Dealt(d)' = Dealt(d)
    BY <1>3, AnswersUntouched, DealtNow DEF Write
  <2>2. Shared!Ask(c, v)
    <3>1. Taken' = Taken
      BY <2>1 DEF Taken
    <3> QED
      BY <1>3, <3>1, InTermsOfTaken DEF Write
  <2> QED
    BY <2>2 DEF Shared!Next
<1>4. ASSUME NEW c \in Clients, ServerApply(c) \/ ServerReject(c)
      PROVE  Shared!Next
  <2>1. TakeUp(c, "put") /\ pending' = pending /\ deferred' = deferred
    BY <1>4 DEF ServerApply, ServerReject
  <2>2. db' = db \/ db' = Head(up[c]).value
    BY <1>4 DEF ServerApply, ServerReject
  <2>3. Taken' = [Taken EXCEPT ![c] = Dealt(c) + 1]
    <3>1. /\ Answers(c)' = Answers(c) + 1 /\ Answers(c) \in Nat
          /\ deferred[c] \in Nat
          /\ \A d \in Clients : d # c => Answers(d)' = Answers(d)
      BY <1>4, <1>q, AnswersServed, QueueTypes
    <3>2. Dealt(c)' = Dealt(c) + 1
      BY <2>1, <3>1, DealtNow
    <3>3. \A d \in Clients : d # c => Dealt(d)' = Dealt(d)
      BY <2>1, <3>1, DealtNow
    <3> QED
      BY <3>2, <3>3, TakenChanges
  <2>4. /\ Dealt(c) < Len(pending[c])
        /\ Head(up[c]).value = pending[c][Dealt(c) + 1]
    BY <2>1, ServedIsNext
  <2>5. Shared!Deal(c)
    BY <1>t, <2>1, <2>2, <2>3, <2>4, InTermsOfTaken
  <2> QED
    BY <2>5 DEF Shared!Next
<1>5. ASSUME NEW c \in Clients,
             ReceiveOk(c) \/ ReceiveRejected(c) \/ ReceiveListening(c)
      PROVE  Shared!Next \/ UNCHANGED <<db, pending, Taken>>
  BY <1>5, AnswersAreForgotten DEF Shared!Next
<1>6. ASSUME NEW c \in Clients, Disconnect(c) PROVE Shared!Next
  <2>1. /\ Answers(c)' = 0 /\ deferred' = deferred /\ deferred[c] \in Nat
        /\ Answers(c) \in Nat
        /\ \A d \in Clients : d # c => Answers(d)' = Answers(d)
    BY <1>6, <1>q, AnswersLost, QueueTypes DEF Disconnect
  <2>2. Dealt(c)' = deferred[c] /\ deferred[c] <= Dealt(c)
    BY <2>1, DealtNow
  <2>3. \A d \in Clients : d # c => Dealt(d)' = Dealt(d)
    BY <2>1, DealtNow
  <2>4. Taken' = [Taken EXCEPT ![c] = deferred[c]]
    BY <2>2, <2>3, TakenChanges
  <2>5. Shared!BeginAgain(c, deferred[c])
    <3>1. UNCHANGED <<db, pending>> /\ deferred[c] <= Taken[c]
      BY <1>6, <1>t, <2>2 DEF Disconnect
    <3> QED
      BY <2>4, <3>1, ForgettingInTermsOfTaken
  <2>6. deferred[c] \in 0..Len(pending[c])
    BY <1>q, DueHere
  <2> QED
    BY <2>5, <2>6 DEF Shared!Next
<1>7. ASSUME NEW c \in Clients, Kill(c) PROVE Shared!Next
  <2>1. /\ Answers(c)' = 0 /\ deferred' = [deferred EXCEPT ![c] = 0]
        /\ \A d \in Clients : d # c => Answers(d)' = Answers(d)
    BY <1>7, <1>q, AnswersLost DEF Kill
  <2>2. Dealt(c)' = 0 /\ \A d \in Clients : d # c => Dealt(d)' = Dealt(d)
    <3>1. deferred'[c] = 0 /\ \A d \in Clients : d # c => deferred'[d] = deferred[d]
      BY <1>q, <2>1 DEF PathTypeOK
    <3> QED
      BY <2>1, <3>1, DealtNow
  <2>3. Taken' = [Taken EXCEPT ![c] = 0]
    BY <2>2, TakenChanges
  <2>4. Shared!GiveUp(c)
    BY <1>7, <2>3, InTermsOfTaken DEF Kill
  <2> QED
    BY <2>4 DEF Shared!Next
<1> QED
  BY <1>1, <1>2, <1>3, <1>4, <1>5, <1>6, <1>7
  DEF PathNext, ServerStep, Receive

LEMMA SharedInit == PathInit => Shared!Init
<1> SUFFICES ASSUME PathInit
             PROVE  /\ db = Initial /\ pending = [c \in Clients |-> <<>>]
                    /\ Taken = [c \in Clients |-> 0]
  BY InTermsOfTaken
<1>1. \A c \in Clients : Dealt(c) = 0
  <2>1. \A c \in Clients : Answers(c) = 0 /\ deferred[c] = 0
    BY NoAnswers, AnswersNow DEF PathInit
  <2> QED
    BY <2>1, DealtNow
<1> QED
  BY <1>1 DEF PathInit, Taken

\* A path of the database is a shared value: the writes of a device are dealt
\* with in their order, each as a whole and before it is forgotten.
THEOREM PathImplementsShared == PathSpec => ImplementsShared
<1>1. PathSpec => Shared!Init
  BY SharedInit, PTL DEF PathSpec
<1>2. PathSpec => [][Shared!Next]_(Shared!vars)
  BY PutAlways, SharedStep, PTL DEF PathSpec
<1> QED
  BY <1>1, <1>2, PTL DEF ImplementsShared, Shared!Spec

-----------------------------------------------------------------------------
(* A successful answer comes just behind the data it confirms.             *)

\* Position j holds the last answer of a queue, and it is a success.
LastAnswerIsOk(q, j) ==
  /\ j \in At(q, {"ok"})
  /\ \A i \in At(q, AnswerKinds) : i <= j

\* When that answer is received the cache holds v, or nothing at all.
Uncovers(q, j, held, v) ==
  \/ j > 1 /\ q[j-1] = Data(v)
  \/ j = 1 /\ held = v
  \/ held = NoValue /\ \A i \in At(q, {"data"}) : i > j

Covers(q, held, v) == \A j : LastAnswerIsOk(q, j) => Uncovers(q, j, held, v)

\* Data queued behind an answer changes nothing for it.
LEMMA CoversData ==
  ASSUME NEW q \in Seq(DownMessage), NEW w \in Values, NEW held, NEW v,
         Covers(q, held, v)
  PROVE  Covers(Append(q, Data(w)), held, v)
<1> DEFINE p == Append(q, Data(w))
<1> SUFFICES ASSUME NEW j, LastAnswerIsOk(p, j)
             PROVE  Uncovers(p, j, held, v)
  BY DEF Covers
<1>1. Data(w) \in DownMessage /\ Data(w).kind = "data"
  BY MessageTypes DEF Data
<1>2. /\ At(p, {"ok"}) = At(q, {"ok"})
      /\ At(p, AnswerKinds) = At(q, AnswerKinds)
      /\ At(p, {"data"}) = At(q, {"data"}) \cup {Len(q) + 1}
  BY <1>1, AtAppended DEF AnswerKinds
<1>3. Len(q) \in Nat /\ \A i \in 1..Len(q) : p[i] = q[i]
  BY <1>1, AppendProperties, LenProperties
<1> HIDE DEF p
<1>4. LastAnswerIsOk(q, j) /\ j \in 1..Len(q)
  BY <1>2 DEF LastAnswerIsOk, At
<1>5. Uncovers(q, j, held, v)
  BY <1>4 DEF Covers
<1>6. j > 1 => p[j-1] = q[j-1]
  BY <1>3, <1>4
<1>7. (\A i \in At(q, {"data"}) : i > j) => \A i \in At(p, {"data"}) : i > j
  BY <1>2, <1>3, <1>4
<1> QED
  BY <1>5, <1>6, <1>7 DEF Uncovers

\* Nor does the response to a listen.
LEMMA CoversListening ==
  ASSUME NEW q \in Seq(DownMessage), NEW held, NEW v, Covers(q, held, v)
  PROVE  Covers(Append(q, Listening), held, v)
<1> DEFINE p == Append(q, Listening)
<1> SUFFICES ASSUME NEW j, LastAnswerIsOk(p, j)
             PROVE  Uncovers(p, j, held, v)
  BY DEF Covers
<1>1. Listening \in DownMessage /\ Listening.kind = "listening"
  BY MessageTypes DEF Listening
<1>2. /\ At(p, {"ok"}) = At(q, {"ok"})
      /\ At(p, AnswerKinds) = At(q, AnswerKinds)
      /\ At(p, {"data"}) = At(q, {"data"})
  BY <1>1, AtAppended DEF AnswerKinds
<1>3. Len(q) \in Nat /\ \A i \in 1..Len(q) : p[i] = q[i]
  BY <1>1, AppendProperties, LenProperties
<1> HIDE DEF p
<1>4. LastAnswerIsOk(q, j) /\ j \in 1..Len(q)
  BY <1>2 DEF LastAnswerIsOk, At
<1>5. Uncovers(q, j, held, v)
  BY <1>4 DEF Covers
<1>6. j > 1 => p[j-1] = q[j-1]
  BY <1>3, <1>4
<1> QED
  BY <1>2, <1>5, <1>6 DEF Uncovers

\* An answer queued last is the last answer.
LEMMA LastAnswerAppended ==
  ASSUME NEW q \in Seq(DownMessage), NEW e \in {Ok, Rejected}, NEW j,
         LastAnswerIsOk(Append(q, e), j)
  PROVE  e = Ok /\ j = Len(q) + 1
<1>1. e \in DownMessage /\ e.kind \in AnswerKinds
  BY MessageTypes DEF Ok, Rejected, AnswerKinds
<1>2. At(Append(q, e), AnswerKinds) = At(q, AnswerKinds) \cup {Len(q) + 1}
  BY <1>1, AtAppended
<1>3. /\ Len(q) \in Nat /\ Len(Append(q, e)) = Len(q) + 1
      /\ Append(q, e)[Len(q) + 1] = e
  BY <1>1, AppendProperties, LenProperties
<1>4. /\ j \in 1..(Len(q) + 1) /\ Append(q, e)[j].kind = "ok"
      /\ Len(q) + 1 <= j
  BY <1>2, <1>3 DEF LastAnswerIsOk, At
<1>5. j = Len(q) + 1
  BY <1>3, <1>4
<1>6. Rejected.kind # "ok"
  BY DEF Rejected
<1> QED
  BY <1>3, <1>4, <1>5, <1>6

\* A refusal queued last leaves no success to speak of.
LEMMA CoversRejected ==
  ASSUME NEW q \in Seq(DownMessage), NEW held, NEW v
  PROVE  Covers(Append(q, Rejected), held, v)
<1>1. Ok # Rejected
  BY DEF Ok, Rejected
<1> QED
  BY <1>1, LastAnswerAppended DEF Covers

\* A success queued behind the data it confirms, or for a device that was told
\* nothing yet.
LEMMA CoversOk ==
  ASSUME NEW q \in Seq(DownMessage), NEW held, NEW v,
         \/ q # <<>> /\ q[Len(q)] = Data(v)
         \/ held = NoValue /\ At(q, {"data"}) = {}
  PROVE  Covers(Append(q, Ok), held, v)
<1> DEFINE p == Append(q, Ok)
<1> SUFFICES ASSUME NEW j, LastAnswerIsOk(p, j)
             PROVE  Uncovers(p, j, held, v)
  BY DEF Covers
<1>1. j = Len(q) + 1
  BY LastAnswerAppended
<1>2. Ok \in DownMessage /\ Ok.kind # "data"
  BY MessageTypes DEF Ok
<1>3. At(p, {"data"}) = At(q, {"data"})
  BY <1>2, AtAppended
<1>4. Len(q) \in Nat /\ \A i \in 1..Len(q) : p[i] = q[i]
  BY <1>2, AppendProperties, LenProperties
<1> HIDE DEF p
<1>5. CASE q # <<>> /\ q[Len(q)] = Data(v)
  <2>1. Len(q) # 0
    BY <1>5, EmptySeq
  <2>2. j > 1 /\ j - 1 = Len(q) /\ Len(q) \in 1..Len(q)
    BY <1>1, <1>4, <2>1
  <2>3. p[j-1] = Data(v)
    BY <1>4, <1>5, <2>2
  <2> QED
    BY <2>2, <2>3 DEF Uncovers
<1>6. CASE held = NoValue /\ At(q, {"data"}) = {}
  BY <1>3, <1>6 DEF Uncovers
<1> QED
  BY <1>5, <1>6

\* Receiving the oldest message keeps what the last answer will uncover.
LEMMA CoversConsumed ==
  ASSUME NEW q \in Seq(DownMessage), q # <<>>, NEW held, NEW held2, NEW v,
         Head(q).kind = "data" => held2 = Head(q).value,
         Head(q).kind # "data" => held2 = held,
         Covers(q, held, v)
  PROVE  Covers(Tail(q), held2, v)
<1> SUFFICES ASSUME NEW j, LastAnswerIsOk(Tail(q), j)
             PROVE  Uncovers(Tail(q), j, held2, v)
  BY DEF Covers
<1>1. /\ Len(q) \in Nat \ {0} /\ Head(q) = q[1]
      /\ Len(Tail(q)) = Len(q) - 1
      /\ \A i \in 1..(Len(q) - 1) : Tail(q)[i] = q[i+1]
  BY HeadTailProperties, LenProperties, EmptySeq
<1>2. \A kinds : At(Tail(q), kinds) =
                   {i \in 1..(Len(q) - 1) : i + 1 \in At(q, kinds)}
  BY AtConsumed
<1>3. j \in 1..(Len(q) - 1) /\ j + 1 \in At(q, {"ok"})
  BY <1>2 DEF LastAnswerIsOk
<1>4. \A i \in At(q, AnswerKinds) : i <= j + 1
  <2> SUFFICES ASSUME NEW i \in At(q, AnswerKinds), i > j + 1
               PROVE  FALSE
    BY <1>1, <1>3 DEF At
  <2>1. i \in 1..Len(q)
    BY DEF At
  <2>2. i - 1 \in 1..(Len(q) - 1) /\ (i - 1) + 1 = i
    BY <1>1, <1>3, <2>1
  <2>3. i - 1 \in At(Tail(q), AnswerKinds)
    BY <1>2, <2>2
  <2>4. i - 1 <= j
    BY <2>3 DEF LastAnswerIsOk
  <2> QED
    BY <1>1, <1>3, <2>1, <2>4
<1>5. PICK k \in 2..Len(q) : k = j + 1
  BY <1>1, <1>3
<1>6. Uncovers(q, k, held, v)
  BY <1>3, <1>4, <1>5 DEF Covers, LastAnswerIsOk
<1>7. CASE k > 1 /\ q[k-1] = Data(v)
  <2>1. q[j] = Data(v)
    BY <1>1, <1>3, <1>5, <1>7
  <2>2. CASE j = 1
    <3>1. Head(q) = Data(v)
      BY <1>1, <2>1, <2>2
    <3>2. held2 = v
      BY <3>1 DEF Data
    <3> QED
      BY <2>2, <3>2 DEF Uncovers
  <2>3. CASE j # 1
    <3>1. j > 1 /\ j - 1 \in 1..(Len(q) - 1) /\ (j - 1) + 1 = j
      BY <1>1, <1>3, <2>3
    <3>2. Tail(q)[j - 1] = Data(v)
      BY <1>1, <2>1, <3>1
    <3> QED
      BY <3>1, <3>2 DEF Uncovers
  <2> QED
    BY <2>2, <2>3
<1>8. CASE held = NoValue /\ \A i \in At(q, {"data"}) : i > k
  <2>1. 1 \notin At(q, {"data"})
    BY <1>1, <1>3, <1>5, <1>8
  <2>2. Head(q).kind # "data"
    BY <1>1, <2>1 DEF At
  <2>3. \A i \in At(Tail(q), {"data"}) : i > j
    BY <1>1, <1>2, <1>3, <1>5, <1>8
  <2> QED
    BY <1>8, <2>2, <2>3 DEF Uncovers
<1>9. k # 1
  BY <1>5
<1> QED
  BY <1>6, <1>7, <1>8, <1>9 DEF Uncovers

Latest(writes) == writes[Len(writes)]

\* A device knows the value, is told of it or asks for it only when one of its
\* controllers listens.
AskedFor ==
  \A c \in Clients :
    c \in listeners \/ cache[c] # NoValue \/ At(up[c], {"listen"}) # {}
      => registered[c] # {}

\* On a connection the server does not count as listening no data is on its
\* way, and a device that knows a value already asks for it first of all.
AsksFirst ==
  \A c \in online \ listeners :
    /\ At(down[c], {"data"}) = {}
    /\ cache[c] # NoValue => up[c] # <<>> /\ Head(up[c]) = ListenRequest

\* Once the server has dealt with all the puts of a device, the last answer on
\* its way, when it is a success, uncovers the latest write.
LastIsConfirmed ==
  \A c \in online :
    At(up[c], {"put"}) = {} => Covers(down[c], cache[c], Latest(pending[c]))

SilentInv == PutInv /\ AskedFor /\ AsksFirst /\ LastIsConfirmed

\* The same of one device after a step.
StaysSilent(d) ==
  /\ \/ d \in listeners' \/ cache'[d] # NoValue
     \/ At(up'[d], {"listen"}) # {}
     => registered'[d] # {}
  /\ d \in online' /\ d \notin listeners' =>
       /\ At(down'[d], {"data"}) = {}
       /\ cache'[d] # NoValue => up'[d] # <<>> /\ Head(up'[d]) = ListenRequest
  /\ d \in online' /\ At(up'[d], {"put"}) = {} =>
       Covers(down'[d], cache'[d], Latest(pending'[d]))

\* The invariant after a step, device by device.
LEMMA InTermsOfDevices ==
  ASSUME PathTypeOK'
  PROVE  AskedFor' /\ AsksFirst' /\ LastIsConfirmed' <=>
           \A d \in Clients : StaysSilent(d)
<1>1. online' \subseteq Clients
  BY DEF PathTypeOK
<1>2. AskedFor' <=>
        \A d \in Clients :
          \/ d \in listeners' \/ cache'[d] # NoValue
          \/ At(up'[d], {"listen"}) # {}
          => registered'[d] # {}
  BY DEF AskedFor, At
<1>3. AsksFirst' <=>
        \A d \in Clients : d \in online' /\ d \notin listeners' =>
          /\ At(down'[d], {"data"}) = {}
          /\ cache'[d] # NoValue =>
               up'[d] # <<>> /\ Head(up'[d]) = ListenRequest
  BY <1>1 DEF AsksFirst, At
<1>4. LastIsConfirmed' <=>
        \A d \in Clients : d \in online' /\ At(up'[d], {"put"}) = {} =>
          Covers(down'[d], cache'[d], Latest(pending'[d]))
  BY <1>1
  DEF LastIsConfirmed, Covers, LastAnswerIsOk, Uncovers, Latest, At, Data,
      AnswerKinds
<1> QED
  BY <1>2, <1>3, <1>4 DEF StaysSilent

\* The invariant before a step, of one device.
LEMMA SilentNow ==
  ASSUME SilentInv, NEW d \in Clients
  PROVE  /\ \/ d \in listeners \/ cache[d] # NoValue
            \/ At(up[d], {"listen"}) # {}
            => registered[d] # {}
         /\ d \in online /\ d \notin listeners =>
              /\ At(down[d], {"data"}) = {}
              /\ cache[d] # NoValue => up[d] # <<>> /\ Head(up[d]) = ListenRequest
         /\ d \in online /\ At(up[d], {"put"}) = {} =>
              Covers(down[d], cache[d], Latest(pending[d]))
         /\ d \notin online =>
              up[d] = <<>> /\ down[d] = <<>> /\ d \notin listeners
         /\ up[d] \in Seq(UpMessage) /\ down[d] \in Seq(DownMessage)
         /\ pending[d] \in Seq(Values)
<1>1. up[d] \in Seq(UpMessage) /\ down[d] \in Seq(DownMessage)
      /\ pending[d] \in Seq(Values)
  BY QueueTypes DEF SilentInv, PutInv, DueInv
<1>2. d \notin online => up[d] = <<>> /\ down[d] = <<>> /\ d \notin listeners
  BY DEF SilentInv, PutInv, DueInv, OfflineIsEmpty
<1>3. \/ d \in listeners \/ cache[d] # NoValue
      \/ At(up[d], {"listen"}) # {}
      => registered[d] # {}
  BY DEF SilentInv, AskedFor
<1>4. d \in online /\ d \notin listeners =>
        /\ At(down[d], {"data"}) = {}
        /\ cache[d] # NoValue => up[d] # <<>> /\ Head(up[d]) = ListenRequest
  BY DEF SilentInv, AsksFirst
<1>5. d \in online /\ At(up[d], {"put"}) = {} =>
        Covers(down[d], cache[d], Latest(pending[d]))
  BY DEF SilentInv, LastIsConfirmed
<1> QED
  BY <1>1, <1>2, <1>3, <1>4, <1>5

\* What a queue holds of some kinds, from its first message and the rest.
LEMMA FirstAndRest ==
  ASSUME NEW S, NEW q \in Seq(S), q # <<>>, NEW kinds
  PROVE  /\ Head(q).kind \in kinds => At(q, kinds) # {}
         /\ At(Tail(q), kinds) # {} => At(q, kinds) # {}
         /\ Head(q).kind \notin kinds /\ At(Tail(q), kinds) = {}
              => At(q, kinds) = {}
<1>1. Len(q) \in Nat \ {0} /\ Head(q) = q[1]
  BY HeadTailProperties, LenProperties, EmptySeq
<1>2. At(Tail(q), kinds) = {i \in 1..(Len(q) - 1) : i + 1 \in At(q, kinds)}
  BY AtConsumed
<1>3. Head(q).kind \in kinds <=> 1 \in At(q, kinds)
  BY <1>1 DEF At
<1>4. ASSUME Head(q).kind \notin kinds, NEW i \in At(q, kinds)
      PROVE  At(Tail(q), kinds) # {}
  <2>1. i \in 1..Len(q) /\ i # 1
    BY <1>3, <1>4 DEF At
  <2>2. i - 1 \in 1..(Len(q) - 1) /\ (i - 1) + 1 = i
    BY <1>1, <2>1
  <2>3. i - 1 \in At(Tail(q), kinds)
    BY <1>2, <1>4, <2>2
  <2> QED
    BY <2>3
<1> QED
  BY <1>2, <1>3, <1>4

\* A device nothing happens to, except that the server may send it data.
LEMMA KeptSilent ==
  ASSUME SilentInv, NEW d \in Clients,
         d \in online' <=> d \in online, d \in listeners' <=> d \in listeners,
         up'[d] = up[d], cache'[d] = cache[d], pending'[d] = pending[d],
         registered'[d] = registered[d],
         \/ down'[d] = down[d]
         \/ /\ d \in listeners
            /\ \E w \in Values : down'[d] = Append(down[d], Data(w))
  PROVE  StaysSilent(d)
<1>1. CASE down'[d] = down[d]
  BY <1>1, SilentNow DEF StaysSilent
<1>2. ASSUME d \in listeners, NEW w \in Values,
             down'[d] = Append(down[d], Data(w))
      PROVE  StaysSilent(d)
  <2>1. d \in online /\ At(up[d], {"put"}) = {} =>
          Covers(Append(down[d], Data(w)), cache[d], Latest(pending[d]))
    BY SilentNow, CoversData
  <2> QED
    BY <1>2, <2>1, SilentNow DEF StaysSilent
<1> QED
  BY <1>1, <1>2

\* A message queued behind others does not come before them.
LEMMA FirstStays ==
  ASSUME NEW S, NEW q \in Seq(S), q # <<>>, NEW e \in S
  PROVE  Append(q, e) # <<>> /\ Head(Append(q, e)) = Head(q)
<1>1. Len(q) \in Nat \ {0} /\ Head(q) = q[1]
  BY HeadTailProperties, LenProperties, EmptySeq
<1>2. /\ Append(q, e) \in Seq(S) /\ Append(q, e) # <<>>
      /\ Append(q, e)[1] = q[1]
  BY <1>1, AppendProperties
<1> QED
  BY <1>1, <1>2, HeadTailProperties

\* A step of one device keeps the others as they were.
LEMMA OthersStaySilent ==
  ASSUME SilentInv, NEW c \in Clients, NEW d \in Clients, d # c,
         \/ \E r \in Regs, carry \in BOOLEAN : Register(c, r, carry)
         \/ \E v \in Values : Write(c, v)
         \/ Read(c)
         \/ \E reading \in BOOLEAN : Deliver(c, reading)
         \/ \E r \in Regs : RaiseAgain(c, r)
         \/ ServerStep(c) \/ Receive(c)
         \/ Disconnect(c)
         \/ \E reading \in BOOLEAN : Reconnect(c, reading)
         \/ Kill(c)
  PROVE  StaysSilent(d)
<1>q. PathTypeOK /\ PutInv
  BY DEF SilentInv, PutInv, DueInv
<1>1. /\ d \in online' <=> d \in online
      /\ up'[d] = up[d] /\ pending'[d] = pending[d]
  BY <1>q, OthersMatch
<1>2. CASE \/ \E r \in Regs, carry \in BOOLEAN : Register(c, r, carry)
           \/ \E v \in Values : Write(c, v)
           \/ Read(c)
           \/ \E reading \in BOOLEAN : Deliver(c, reading) \/ Reconnect(c, reading)
           \/ \E r \in Regs : RaiseAgain(c, r)
  <2>1. /\ d \in listeners' <=> d \in listeners
        /\ down'[d] = down[d] /\ cache'[d] = cache[d]
    BY <1>2 DEF Register, Write, Read, Deliver, RaiseAgain, Reconnect
  <2>2. registered'[d] = registered[d]
    BY <1>2, <1>q
    DEF Register, Write, Read, Deliver, RaiseAgain, Reconnect, PathTypeOK
  <2> QED
    BY <1>1, <2>1, <2>2, KeptSilent
<1>3. CASE ServerListen(c) \/ ServerRead(c) \/ ServerReject(c)
  <2>1. /\ d \in listeners' <=> d \in listeners
        /\ cache'[d] = cache[d] /\ registered'[d] = registered[d]
    BY <1>3 DEF ServerListen, ServerRead, ServerReject
  <2>2. down'[d] = down[d]
    BY <1>3, <1>q DEF ServerListen, ServerRead, ServerReject, PathTypeOK
  <2> QED
    BY <1>1, <2>1, <2>2, KeptSilent
<1>4. CASE ServerApply(c)
  <2>1. /\ d \in listeners' <=> d \in listeners
        /\ cache'[d] = cache[d] /\ registered'[d] = registered[d]
        /\ down'[d] = IF d \in listeners THEN Append(down[d], Data(db'))
                      ELSE down[d]
    BY <1>4 DEF ServerApply
  <2>2. db' \in Values
    BY <1>4, <1>q, ServerStepType DEF ServerStep, PathTypeOK
  <2> QED
    BY <1>1, <2>1, <2>2, KeptSilent
<1>5. CASE Receive(c)
  <2>1. PICK kinds : TakeDown(c, kinds)
    BY <1>5
    DEF Receive, ReceiveData, ReceiveOk, ReceiveRejected, ReceiveAnswer,
        ReceiveListening
  <2>2. /\ d \in listeners' <=> d \in listeners
        /\ registered'[d] = registered[d] /\ down'[d] = down[d]
    BY <2>1, <1>q DEF TakeDown, PathTypeOK
  <2>3. cache'[d] = cache[d]
    BY <1>5, <1>q
    DEF Receive, ReceiveData, ReceiveOk, ReceiveRejected, ReceiveAnswer,
        ReceiveListening, PathTypeOK
  <2> QED
    BY <1>1, <2>2, <2>3, KeptSilent
<1>6. CASE Disconnect(c) \/ Kill(c)
  <2>1. /\ d \in listeners' <=> d \in listeners
        /\ cache'[d] = cache[d] /\ registered'[d] = registered[d]
        /\ down'[d] = down[d]
    BY <1>6, <1>q DEF Disconnect, Kill, PathTypeOK
  <2> QED
    BY <1>1, <2>1, KeptSilent
<1> QED
  BY <1>2, <1>3, <1>4, <1>5, <1>6 DEF ServerStep

\* The device itself: its own calls.
LEMMA CallerStaysSilent ==
  ASSUME SilentInv, NEW c \in Clients,
         \/ \E r \in Regs, carry \in BOOLEAN : Register(c, r, carry)
         \/ \E v \in Values : Write(c, v)
         \/ Read(c)
         \/ \E reading \in BOOLEAN : Deliver(c, reading)
         \/ \E r \in Regs : RaiseAgain(c, r)
  PROVE  StaysSilent(c)
<1>q. /\ up \in [Clients -> Seq(UpMessage)]
      /\ pending \in [Clients -> Seq(Values)]
      /\ registered \in [Clients -> SUBSET Regs]
      /\ up[c] \in Seq(UpMessage)
  BY DEF SilentInv, PutInv, DueInv, PathTypeOK
<1>1. ASSUME NEW r \in Regs, NEW carry \in BOOLEAN, Register(c, r, carry)
      PROVE  StaysSilent(c)
  <2>1. /\ online' = online /\ listeners' = listeners
        /\ down' = down /\ cache' = cache /\ pending' = pending
        /\ registered'[c] # {}
        /\ up'[c] = up[c] \/ up'[c] = Append(up[c], ListenRequest)
    BY <1>1, <1>q DEF Register, SendListen
  <2> DEFINE longer == Append(up[c], ListenRequest)
  <2>2. ListenRequest \in UpMessage /\ ListenRequest.kind # "put"
    BY MessageTypes DEF ListenRequest
  <2>3. At(longer, {"put"}) = At(up[c], {"put"})
    BY <1>q, <2>2, AtAppended
  <2>4. up[c] # <<>> => longer # <<>> /\ Head(longer) = Head(up[c])
    BY <1>q, <2>2, FirstStays
  <2> HIDE DEF longer
  <2> QED
    BY <2>1, <2>3, <2>4, SilentNow DEF StaysSilent, longer
<1>2. ASSUME NEW v \in Values, Write(c, v)
      PROVE  StaysSilent(c)
  <2>1. /\ online' = online /\ listeners' = listeners
        /\ down' = down /\ cache' = cache /\ registered' = registered
        /\ up'[c] = IF c \in online THEN Append(up[c], Put(v)) ELSE up[c]
    BY <1>2, <1>q DEF Write
  <2> DEFINE longer == Append(up[c], Put(v))
  <2>2. Put(v) \in UpMessage /\ Put(v).kind = "put"
    BY MessageTypes DEF Put
  <2>3. /\ At(longer, {"put"}) = At(up[c], {"put"}) \cup {Len(up[c]) + 1}
        /\ At(longer, {"listen"}) = At(up[c], {"listen"})
    <3>1. Put(v).kind \in {"put"} /\ Put(v).kind \notin {"listen"}
      BY <2>2
    <3> QED
      BY <1>q, <2>2, <3>1, AtAppended
  <2>4. up[c] # <<>> => longer # <<>> /\ Head(longer) = Head(up[c])
    BY <1>q, <2>2, FirstStays
  <2> HIDE DEF longer
  <2> QED
    BY <2>1, <2>3, <2>4, SilentNow DEF StaysSilent, longer
<1>3. ASSUME NEW reading \in BOOLEAN, Read(c) \/ Deliver(c, reading)
      PROVE  StaysSilent(c)
  <2>1. /\ online' = online /\ listeners' = listeners
        /\ down' = down /\ cache' = cache /\ pending' = pending
        /\ registered' = registered
        /\ up'[c] = up[c] \/ up'[c] = Append(up[c], ReadRequest)
    BY <1>3, <1>q DEF Read, Deliver, ReadElsewhere, SendListen
  <2> DEFINE longer == Append(up[c], ReadRequest)
  <2>2. /\ ReadRequest \in UpMessage
        /\ ReadRequest.kind \notin {"put"} /\ ReadRequest.kind \notin {"listen"}
    BY MessageTypes DEF ReadRequest
  <2>3. /\ At(longer, {"put"}) = At(up[c], {"put"})
        /\ At(longer, {"listen"}) = At(up[c], {"listen"})
    BY <1>q, <2>2, AtAppended
  <2>4. up[c] # <<>> => longer # <<>> /\ Head(longer) = Head(up[c])
    BY <1>q, <2>2, FirstStays
  <2> HIDE DEF longer
  <2> QED
    BY <2>1, <2>3, <2>4, SilentNow DEF StaysSilent, longer
<1>4. ASSUME NEW r \in Regs, RaiseAgain(c, r) PROVE StaysSilent(c)
  BY <1>4, KeptSilent DEF RaiseAgain
<1> QED
  BY <1>1, <1>2, <1>3, <1>4

\* The server deals with a message of the device.
LEMMA ServedStaysSilent ==
  ASSUME SilentInv, NEW c \in Clients, ServerStep(c)
  PROVE  StaysSilent(c)
<1>q. /\ PathTypeOK /\ PutInv /\ db \in Values
      /\ up \in [Clients -> Seq(UpMessage)]
      /\ down \in [Clients -> Seq(DownMessage)]
      /\ up[c] \in Seq(UpMessage) /\ down[c] \in Seq(DownMessage)
  BY DEF SilentInv, PutInv, DueInv, PathTypeOK
<1>1. /\ up[c] # <<>> /\ up'[c] = Tail(up[c]) /\ c \in online
      /\ online' = online /\ cache' = cache /\ pending' = pending
      /\ registered' = registered
  <2>1. up[c] # <<>> /\ up'[c] = Tail(up[c])
    BY <1>q
    DEF ServerStep, ServerListen, ServerRead, ServerApply, ServerReject, TakeUp
  <2> QED
    BY <2>1, SilentNow
    DEF ServerStep, ServerListen, ServerRead, ServerApply, ServerReject
<1>2. /\ At(up'[c], {"listen"}) # {} => At(up[c], {"listen"}) # {}
      /\ Head(up[c]).kind = "listen" => At(up[c], {"listen"}) # {}
      /\ Head(up[c]).kind \notin {"put"} /\ At(up'[c], {"put"}) = {}
           => At(up[c], {"put"}) = {}
  BY <1>q, <1>1, FirstAndRest
<1>3. CASE ServerListen(c)
  <2> DEFINE told == Append(down[c], Data(db))
  <2>1. /\ Head(up[c]).kind = "listen" /\ c \in listeners'
        /\ down'[c] = Append(told, Listening)
    BY <1>3, <1>q DEF ServerListen, TakeUp
  <2>2. told \in Seq(DownMessage)
    BY <1>q, MessageTypes, AppendProperties
  <2>3. At(up[c], {"put"}) = {} => Covers(told, cache[c], Latest(pending[c]))
    BY <1>q, <1>1, SilentNow, CoversData
  <2> HIDE DEF told
  <2>4. At(up[c], {"put"}) = {} =>
          Covers(down'[c], cache[c], Latest(pending[c]))
    BY <2>1, <2>2, <2>3, CoversListening
  <2> QED
    BY <1>1, <1>2, <2>1, <2>4, SilentNow DEF StaysSilent
<1>7. CASE ServerRead(c)
  <2>1. /\ Head(up[c]).kind = "read" /\ listeners' = listeners
        /\ down'[c] = Append(down[c], Listening)
    BY <1>7, <1>q DEF ServerRead, TakeUp
  <2>2. At(up[c], {"put"}) = {} =>
          Covers(down'[c], cache[c], Latest(pending[c]))
    BY <1>q, <1>1, <2>1, SilentNow, CoversListening
  <2>3. At(down'[c], {"data"}) = At(down[c], {"data"})
    <3>1. Listening \in DownMessage /\ Listening.kind \notin {"data"}
      BY MessageTypes DEF Listening
    <3> QED
      BY <1>q, <2>1, <3>1, AtAppended
  <2>4. Head(up[c]) # ListenRequest
    BY <2>1 DEF ListenRequest
  <2> QED
    BY <1>1, <1>2, <2>1, <2>2, <2>3, <2>4, SilentNow DEF StaysSilent
<1>4. ASSUME TakeUp(c, "put"), listeners' = listeners
      PROVE  /\ c \in listeners \/ cache[c] # NoValue
                \/ At(up'[c], {"listen"}) # {} => registered[c] # {}
             /\ c \notin listeners =>
                  cache[c] = NoValue /\ At(down[c], {"data"}) = {}
             /\ At(up'[c], {"put"}) = {} =>
                  Head(up[c]).value = Latest(pending[c])
  <2>1. Head(up[c]) # ListenRequest
    BY <1>4 DEF TakeUp, ListenRequest
  <2>2. c \notin listeners => cache[c] = NoValue /\ At(down[c], {"data"}) = {}
    BY <1>1, <2>1, SilentNow
  <2>3. /\ Dealt(c) \in Nat
        /\ Head(up[c]).value = pending[c][Dealt(c) + 1]
        /\ Matches(up'[c], pending[c], Dealt(c) + 1)
    BY <1>q, <1>1, <1>4, ServedIsNext, QueueTypes
  <2>4. ASSUME At(up'[c], {"put"}) = {}
        PROVE  Len(pending[c]) = Dealt(c) + 1
    <3>1. Len(pending[c]) = Dealt(c) + 1 + Cardinality({})
      BY <2>3, <2>4 DEF Matches
    <3> QED
      BY <2>3, <3>1, FS_EmptySet
  <2> QED
    BY <1>2, <2>2, <2>3, <2>4, SilentNow DEF Latest
<1>5. CASE ServerReject(c)
  <2>1. /\ TakeUp(c, "put") /\ listeners' = listeners
        /\ down'[c] = Append(down[c], Rejected)
    BY <1>5, <1>q DEF ServerReject
  <2>2. Rejected \in DownMessage /\ Rejected.kind # "data"
    BY MessageTypes DEF Rejected
  <2>3. At(down'[c], {"data"}) = At(down[c], {"data"})
    BY <1>q, <2>1, <2>2, AtAppended
  <2>4. Covers(down'[c], cache[c], Latest(pending[c]))
    BY <1>q, <2>1, CoversRejected
  <2> QED
    BY <1>1, <1>4, <2>1, <2>3, <2>4 DEF StaysSilent
<1>6. CASE ServerApply(c)
  <2> DEFINE v    == Head(up[c]).value
             told == IF c \in listeners THEN Append(down[c], Data(v))
                     ELSE down[c]
  <2>1. /\ TakeUp(c, "put") /\ listeners' = listeners /\ db' = v
        /\ down'[c] = Append(told, Ok)
    BY <1>6 DEF ServerApply
  <2>2. v \in Values
    BY <1>6, <1>q, <2>1, ServerStepType DEF ServerStep, PathTypeOK
  <2>3. Data(v) \in DownMessage
    BY <2>2, MessageTypes
  <2> HIDE DEF v
  <2>4. told \in Seq(DownMessage)
    BY <1>q, <2>3, AppendProperties
  <2>5. c \in listeners => told # <<>> /\ told[Len(told)] = Data(v)
    <3>1. Len(Append(down[c], Data(v))) = Len(down[c]) + 1
          /\ Append(down[c], Data(v))[Len(down[c]) + 1] = Data(v)
          /\ Append(down[c], Data(v)) # <<>>
      BY <1>q, <2>3, AppendProperties
    <3> QED
      BY <3>1
  <2>6. c \notin listeners =>
          cache[c] = NoValue /\ told = down[c] /\ At(told, {"data"}) = {}
    BY <1>4, <2>1
  <2> HIDE DEF told
  <2>7. Ok \in DownMessage /\ Ok.kind # "data"
    BY MessageTypes DEF Ok
  <2>8. At(down'[c], {"data"}) = At(told, {"data"})
    BY <2>1, <2>4, <2>7, AtAppended
  <2>9. Covers(down'[c], cache[c], v)
    BY <2>1, <2>4, <2>5, <2>6, CoversOk
  <2>10. At(up'[c], {"put"}) = {} => v = Latest(pending[c])
    BY <1>4, <2>1 DEF v
  <2> QED
    BY <1>1, <1>4, <2>1, <2>6, <2>8, <2>9, <2>10 DEF StaysSilent
<1> QED
  BY <1>3, <1>5, <1>6, <1>7 DEF ServerStep

\* Without an answer among its messages a queue has no last answer.
LEMMA NoLastAnswer ==
  ASSUME NEW q, At(q, AnswerKinds) = {}, NEW held, NEW v
  PROVE  Covers(q, held, v)
BY DEF Covers, LastAnswerIsOk, At, AnswerKinds

\* Forgetting the oldest writes leaves the latest, unless they were all.
LEMMA LatestStays ==
  ASSUME NEW writes \in Seq(Values), NEW n \in Nat, n < Len(writes)
  PROVE  Latest(SubSeq(writes, n + 1, Len(writes))) = Latest(writes)
<1> DEFINE left == SubSeq(writes, n + 1, Len(writes))
<1>1. Len(writes) \in Nat
  BY LenProperties
<1>2. /\ Len(left) = Len(writes) - n
      /\ \A i \in 1..(Len(writes) - n) : left[i] = writes[n + i]
  BY <1>1, PartIsOver
<1> HIDE DEF left
<1>3. /\ Len(writes) - n \in 1..(Len(writes) - n)
      /\ n + (Len(writes) - n) = Len(writes)
  BY <1>1
<1>4. left[Len(left)] = writes[Len(writes)]
  BY <1>2, <1>3
<1> QED
  BY <1>4 DEF Latest, left

\* Once nothing is pending there is no answer on its way.
LEMMA NothingLeftToCover ==
  ASSUME PutInv', NEW c \in Clients, c \in online', pending'[c] = <<>>,
         NEW held, NEW v
  PROVE  Covers(down'[c], held, v)
<1>1. /\ PathTypeOK' /\ EveryPutIsAnswered'
      /\ down'[c] \in Seq(DownMessage) /\ up'[c] \in Seq(UpMessage)
      /\ deferred'[c] \in Nat
  BY DEF PutInv, DueInv, PathTypeOK
<1>2. Matches(up'[c], pending'[c], Dealt(c)')
  BY <1>1, InTermsOfMatches
<1>3. Len(pending'[c]) = Dealt(c)' + Cardinality(At(up'[c], {"put"}))
  BY <1>2 DEF Matches
<1>4. AnswersIn(down'[c]) \in Nat /\ Cardinality(At(up'[c], {"put"})) \in Nat
  BY <1>1, AnswersCount, PutCounts
<1>5. Dealt(c)' = deferred'[c] + AnswersIn(down'[c])
  BY DealtNow, AnswersNow
<1>6. Len(pending'[c]) = 0
  BY EmptySeq
<1>7. AnswersIn(down'[c]) = 0
  BY <1>1, <1>3, <1>4, <1>5, <1>6
<1>8. At(down'[c], AnswerKinds) \in SUBSET (1..Len(down'[c]))
      /\ Len(down'[c]) \in Nat
  BY <1>1, LenProperties DEF At
<1>9. IsFiniteSet(At(down'[c], AnswerKinds))
  BY <1>8, PositionsFinite
<1>10. At(down'[c], AnswerKinds) = {}
  BY <1>7, <1>9, FS_EmptySet DEF AnswersIn
<1> QED
  BY <1>10, NoLastAnswer

\* What a message but data makes of the pending writes: some of the oldest are
\* forgotten, or none.
LEMMA OldestForgotten ==
  ASSUME DueInv, NEW c \in Clients,
         ReceiveOk(c) \/ ReceiveRejected(c) \/ ReceiveListening(c)
  PROVE  \E n \in 0..Len(pending[c]) :
           pending'[c] = SubSeq(pending[c], n + 1, Len(pending[c]))
<1>1. /\ pending[c] \in Seq(Values) /\ Len(pending[c]) \in Nat
      /\ deferred[c] \in 0..Len(pending[c]) /\ unacked[c] \in Nat
      /\ pending \in [Clients -> Seq(Values)]
  BY DueHere DEF DueInv, PathTypeOK
<1>2. SubSeq(pending[c], 0 + 1, Len(pending[c])) = pending[c]
  BY <1>1, SubSeqFull
<1>3. pending' = pending =>
        \E n \in 0..Len(pending[c]) :
          pending'[c] = SubSeq(pending[c], n + 1, Len(pending[c]))
  BY <1>1, <1>2
<1>4. CASE ReceiveListening(c)
  <2>1. unacked[c] = 1 =>
          pending'[c] = SubSeq(pending[c], deferred[c] + 1, Len(pending[c]))
    BY <1>1, <1>4, ListeningIs
  <2>2. unacked[c] # 1 => pending' = pending
    BY <1>1, <1>4, ListeningIs
  <2> QED
    BY <1>1, <1>3, <2>1, <2>2
<1>5. CASE ReceiveOk(c) \/ ReceiveRejected(c)
  <2>1. PICK kind \in AnswerKinds : ReceiveAnswer(c, kind)
    BY <1>5 DEF ReceiveOk, ReceiveRejected, AnswerKinds
  <2>2. unacked[c] > 0 => pending' = pending
    BY <2>1, AnswerIs
  <2>3. unacked[c] = 0 => pending[c] # <<>> /\ pending'[c] = Tail(pending[c])
    BY <1>1, <2>1, AnswerIs
  <2>4. CASE unacked[c] > 0
    BY <1>3, <2>2, <2>4
  <2>5. CASE unacked[c] = 0
    <3>1. Tail(pending[c]) = SubSeq(pending[c], 2, Len(pending[c]))
      BY <1>1, <2>3, <2>5, TailIsSubSeq
    <3>2. Len(pending[c]) # 0
      BY <1>1, <2>3, <2>5, EmptySeq
    <3>3. 1 \in 0..Len(pending[c]) /\ 1 + 1 = 2
      BY <1>1, <3>2
    <3> QED
      BY <2>3, <2>5, <3>1, <3>3
  <2> QED
    BY <1>1, <2>4, <2>5
<1> QED
  BY <1>4, <1>5

\* The device receives a message.
LEMMA ReceiverStaysSilent ==
  ASSUME SilentInv, PutInv', NEW c \in Clients, Receive(c)
  PROVE  StaysSilent(c)
<1>q. /\ PathTypeOK /\ DueInv
      /\ down \in [Clients -> Seq(DownMessage)]
      /\ pending \in [Clients -> Seq(Values)]
      /\ cache \in [Clients -> Known]
      /\ down[c] \in Seq(DownMessage) /\ pending[c] \in Seq(Values)
  BY DEF SilentInv, PutInv, DueInv, PathTypeOK
<1>1. /\ down[c] # <<>> /\ down'[c] = Tail(down[c]) /\ c \in online
      /\ online' = online /\ listeners' = listeners /\ up' = up
      /\ registered' = registered
  <2>1. PICK kinds : TakeDown(c, kinds)
    BY DEF Receive, ReceiveData, ReceiveOk, ReceiveRejected, ReceiveAnswer,
           ReceiveListening
  <2>2. down[c] # <<>> /\ down'[c] = Tail(down[c])
    BY <1>q, <2>1 DEF TakeDown
  <2> QED
    BY <2>1, <2>2, SilentNow DEF TakeDown
<1>2. /\ Head(down[c]).kind = "data" => At(down[c], {"data"}) # {}
      /\ At(down'[c], {"data"}) # {} => At(down[c], {"data"}) # {}
  BY <1>q, <1>1, FirstAndRest
<1>3. CASE ReceiveData(c)
  <2>1. /\ Head(down[c]).kind = "data" /\ cache'[c] = Head(down[c]).value
        /\ pending' = pending
    BY <1>3, <1>q DEF ReceiveData, TakeDown
  <2>2. c \in listeners
    BY <1>1, <1>2, <2>1, SilentNow
  <2>3. At(up[c], {"put"}) = {} =>
          Covers(down'[c], cache'[c], Latest(pending[c]))
    <3>1. c \in online /\ At(up[c], {"put"}) = {} =>
            Covers(down[c], cache[c], Latest(pending[c]))
      BY SilentNow
    <3> QED
      BY <1>q, <1>1, <2>1, <3>1, CoversConsumed
  <2> QED
    BY <1>1, <2>1, <2>2, <2>3, SilentNow DEF StaysSilent
<1>4. CASE ReceiveOk(c) \/ ReceiveRejected(c) \/ ReceiveListening(c)
  <2>1. Head(down[c]).kind # "data" /\ cache' = cache
    BY <1>4 DEF ReceiveOk, ReceiveRejected, ReceiveAnswer, ReceiveListening,
                TakeDown
  <2>2. At(up[c], {"put"}) = {} =>
          Covers(down'[c], cache[c], Latest(pending[c]))
    BY <1>q, <1>1, <2>1, SilentNow, CoversConsumed
  <2>3. ASSUME At(up[c], {"put"}) = {}
        PROVE  Covers(down'[c], cache[c], Latest(pending'[c]))
    <3>1. CASE pending'[c] # <<>>
      <4>1. PICK n \in 0..Len(pending[c]) :
              pending'[c] = SubSeq(pending[c], n + 1, Len(pending[c]))
        BY <1>4, <1>q, OldestForgotten
      <4>2. n \in Nat /\ Len(pending[c]) \in Nat
        BY <1>q, LenProperties
      <4>3. n < Len(pending[c])
        <5>1. n = Len(pending[c]) => Len(pending'[c]) = 0
          BY <1>q, <4>1, <4>2, PartIsOver
        <5>2. pending'[c] \in Seq(Values)
          BY <1>q, <4>1, <4>2, PartIsOver
        <5>3. Len(pending'[c]) # 0
          BY <3>1, <5>2, EmptySeq
        <5> QED
          BY <4>1, <4>2, <5>1, <5>3
      <4>4. Latest(pending'[c]) = Latest(pending[c])
        BY <1>q, <4>1, <4>2, <4>3, LatestStays
      <4> QED
        BY <2>2, <2>3, <4>4
    <3>2. CASE pending'[c] = <<>>
      BY <1>1, <3>2, NothingLeftToCover
    <3> QED
      BY <3>1, <3>2
  <2> QED
    BY <1>1, <1>2, <2>1, <2>3, SilentNow DEF StaysSilent
<1> QED
  BY <1>3, <1>4 DEF Receive

\* What a new connection sends first is this path's listen, if there is one.
LEMMA RestoredListens ==
  ASSUME PathTypeOK, NEW c \in Clients, NEW reading \in BOOLEAN
  PROVE  LET q == RestoreState(c, reading)
         IN  /\ registered[c] # {} => q # <<>> /\ Head(q) = ListenRequest
             /\ registered[c] = {} => At(q, {"listen"}) = {}
<1> DEFINE q    == RestoreState(c, reading)
           l    == Listens(c, reading)
           n    == Len(Outstanding(c))
           read == IF reading THEN <<ReadRequest>> ELSE <<>>
<1>1. /\ l \in 0..2 /\ n \in Nat /\ q \in Seq(UpMessage) /\ Len(q) = l + n
      /\ \A i \in (l + 1)..(l + n) : q[i] = Put(Outstanding(c)[i - l])
      /\ registered[c] # {} => l > 0 /\ q[1] = ListenRequest
  BY RestoredIs
<1>2. CASE registered[c] # {}
  <2>1. q # <<>>
    <3> HIDE DEF q, l, n
    <3>1. Len(q) # 0
      BY <1>1, <1>2
    <3> QED
      BY <1>1, <3>1, EmptySeq
  <2>2. Head(q) = q[1]
    <3> HIDE DEF q, l, n
    <3> QED
      BY <1>1, <2>1, HeadTailProperties
  <2> QED
    BY <1>1, <1>2, <2>1, <2>2
<1>3. CASE registered[c] = {}
  <2>1. ListensIn(q) = l /\ l = IF reading THEN 1 ELSE 0
    BY <1>3, ListensRestored DEF Listens
  <2> DEFINE puts == [i \in 1..n |-> Put(Outstanding(c)[i])]
  <2>2. puts \in Seq(UpMessage) /\ Len(puts) = n
    <3>1. \A i \in 1..n : Put(Outstanding(c)[i]) \in UpMessage
      BY RestoredIs, ElementOfSeq, MessageTypes
    <3> QED
      BY <1>1, <3>1, IsASeq
  <2>3. read \in Seq(UpMessage) /\ (read = <<ReadRequest>> \/ read = <<>>)
    BY MessageTypes
  <2>4. q = read \o puts
    <3>1. <<>> \o read = read
      BY <2>3, ConcatEmptySeq
    <3>2. q = (<<>> \o read) \o puts
      BY <1>3 DEF RestoreState
    <3> QED
      BY <3>1, <3>2
  <2>5. \A i \in 1..Len(read) : read[i].kind # "listen"
    <3>1. ReadRequest.kind # "listen"
      BY DEF ReadRequest
    <3> QED
      BY <3>1
  <2>6. \A i \in 1..n : puts[i].kind # "listen"
    BY DEF Put
  <2> HIDE DEF read, puts, q, n
  <2>7. /\ Len(read \o puts) = Len(read) + n /\ Len(read) \in Nat
        /\ \A i \in 1..(Len(read) + n) :
             (read \o puts)[i] = IF i <= Len(read) THEN read[i]
                                 ELSE puts[i - Len(read)]
    BY <2>2, <2>3, ConcatProperties, LenProperties
  <2>8. \A i \in 1..(Len(read) + n) : (read \o puts)[i].kind # "listen"
    <3> TAKE i \in 1..(Len(read) + n)
    <3>1. CASE i <= Len(read)
      BY <2>5, <2>7, <3>1
    <3>2. CASE ~(i <= Len(read))
      <4>1. i - Len(read) \in 1..n
        BY <1>1, <2>7, <3>2
      <4> QED
        BY <2>6, <2>7, <3>2, <4>1
    <3> QED
      BY <3>1, <3>2
  <2> QED
    BY <1>3, <2>4, <2>7, <2>8 DEF At, q
<1> QED
  BY <1>2, <1>3

\* The device's connection comes and goes.
LEMMA ConnectionStaysSilent ==
  ASSUME SilentInv, NEW c \in Clients, NEW reading \in BOOLEAN,
         Disconnect(c) \/ Reconnect(c, reading) \/ Kill(c)
  PROVE  StaysSilent(c)
<1>q. /\ PathTypeOK
      /\ up \in [Clients -> Seq(UpMessage)]
      /\ cache \in [Clients -> Known]
      /\ registered \in [Clients -> SUBSET Regs]
  BY DEF SilentInv, PutInv, DueInv, PathTypeOK
<1>e. \A kinds : At(<<>>, kinds) = {}
  BY DEF At
<1>1. CASE Disconnect(c)
  <2>1. /\ c \notin online' /\ c \notin listeners' /\ up'[c] = <<>>
        /\ cache' = cache /\ registered' = registered
    BY <1>1, <1>q DEF Disconnect
  <2> QED
    BY <1>e, <2>1, SilentNow DEF StaysSilent
<1>2. CASE Kill(c)
  <2>1. /\ c \notin online' /\ c \notin listeners' /\ up'[c] = <<>>
        /\ cache'[c] = NoValue
    BY <1>2, <1>q DEF Kill
  <2> QED
    BY <1>e, <2>1 DEF StaysSilent
<1>3. CASE Reconnect(c, reading)
  <2>1. /\ c \notin online /\ up'[c] = RestoreState(c, reading)
        /\ listeners' = listeners /\ down' = down
        /\ cache' = cache /\ registered' = registered
    BY <1>3, <1>q DEF Reconnect
  <2>2. c \notin listeners' /\ down'[c] = <<>>
    BY <2>1, SilentNow
  <2>3. Covers(down'[c], cache'[c], Latest(pending'[c]))
    BY <1>e, <2>2, NoLastAnswer
  <2>4. /\ registered[c] # {} => up'[c] # <<>> /\ Head(up'[c]) = ListenRequest
        /\ registered[c] = {} => At(up'[c], {"listen"}) = {}
    BY <1>q, <2>1, RestoredListens
  <2>5. cache[c] # NoValue => registered[c] # {}
    BY SilentNow
  <2> QED
    BY <1>e, <2>1, <2>2, <2>3, <2>4, <2>5 DEF StaysSilent
<1> QED
  BY <1>1, <1>2, <1>3

\* The invariant is inductive.
LEMMA SilentStep == SilentInv /\ [PathNext]_pathVars => SilentInv'
<1> SUFFICES ASSUME SilentInv, [PathNext]_pathVars PROVE SilentInv'
  OBVIOUS
<1>1. PutInv' /\ PathTypeOK'
  BY PutStep DEF SilentInv, PutInv, DueInv
<1>2. ASSUME NEW d \in Clients PROVE StaysSilent(d)
  <2>1. CASE UNCHANGED pathVars
    BY <2>1, KeptSilent DEF pathVars
  <2>2. CASE PathNext
    <3>1. PICK c \in Clients :
            \/ \E r \in Regs, carry \in BOOLEAN : Register(c, r, carry)
            \/ \E v \in Values : Write(c, v)
            \/ Read(c)
            \/ \E reading \in BOOLEAN : Deliver(c, reading)
            \/ \E r \in Regs : RaiseAgain(c, r)
            \/ ServerStep(c) \/ Receive(c)
            \/ Disconnect(c)
            \/ \E reading \in BOOLEAN : Reconnect(c, reading)
            \/ Kill(c)
      BY <2>2 DEF PathNext
    <3>2. CASE d # c
      BY <3>1, <3>2, OthersStaySilent
    <3>3. CASE d = c
      BY <1>1, <3>1, <3>3, CallerStaysSilent, ServedStaysSilent,
         ReceiverStaysSilent, ConnectionStaysSilent
    <3> QED
      BY <3>2, <3>3
  <2> QED
    BY <2>1, <2>2
<1> QED
  BY <1>1, <1>2, InTermsOfDevices DEF SilentInv

LEMMA SilentInit == PathInit => SilentInv
<1> SUFFICES ASSUME PathInit PROVE SilentInv
  OBVIOUS
<1>1. PutInv
  BY PutInit
<1>2. \A kinds : At(<<>>, kinds) = {}
  BY DEF At
<1>3. AskedFor /\ AsksFirst /\ LastIsConfirmed
  BY <1>2 DEF PathInit, AskedFor, AsksFirst, LastIsConfirmed
<1> QED
  BY <1>1, <1>3 DEF SilentInv

\* A success that is handled as it comes is the answer to the oldest write; when
\* it is the only one, the cache holds its value already, if it holds any.
LEMMA LastSuccess ==
  ASSUME SilentInv, SilentInv', NEW c \in Clients, ReceiveOk(c),
         unacked[c] = 0, cache[c] # NoValue, Tail(pending[c]) = <<>>
  PROVE  /\ c \in online /\ At(up[c], {"put"}) = {}
         /\ cache[c] = Latest(pending[c])
<1>q. /\ PathTypeOK /\ PathTypeOK' /\ EveryPutIsAnswered' /\ DueInv
      /\ down[c] \in Seq(DownMessage) /\ pending[c] \in Seq(Values)
      /\ pending \in [Clients -> Seq(Values)]
      /\ down \in [Clients -> Seq(DownMessage)]
      /\ deferred'[c] \in Nat
  BY DEF SilentInv, PutInv, DueInv, PathTypeOK
<1>a. /\ down[c] # <<>> /\ Head(down[c]).kind = "ok"
      /\ down'[c] = Tail(down[c]) /\ cache' = cache
      /\ up' = up /\ online' = online
  BY <1>q DEF ReceiveOk, ReceiveAnswer, TakeDown
<1>p. pending[c] # <<>> /\ pending'[c] = Tail(pending[c])
  BY <1>q, AnswerIs DEF ReceiveOk
<1>b. c \in online
  BY <1>a, SilentNow
<1>1. down'[c] \in Seq(DownMessage) /\ up'[c] \in Seq(UpMessage)
  BY <1>q DEF PathTypeOK
<1>2. Matches(up'[c], pending'[c], Dealt(c)')
  BY <1>q, <1>a, <1>b, InTermsOfMatches
<1>3. /\ AnswersIn(down'[c]) \in Nat
      /\ Cardinality(At(up'[c], {"put"})) \in Nat
      /\ IsFiniteSet(At(up'[c], {"put"}))
      /\ IsFiniteSet(At(down'[c], AnswerKinds))
  <2>1. /\ At(up'[c], {"put"}) \in SUBSET (1..Len(up'[c]))
        /\ At(down'[c], AnswerKinds) \in SUBSET (1..Len(down'[c]))
        /\ Len(up'[c]) \in Nat /\ Len(down'[c]) \in Nat
    BY <1>1, LenProperties DEF At
  <2>2. AnswersIn(down'[c]) \in Nat
    BY <1>1, AnswersCount
  <2> QED
    BY <2>1, <2>2, PositionsFinite
<1>4. 0 = deferred'[c] + AnswersIn(down'[c]) + Cardinality(At(up'[c], {"put"}))
  <2>1. Len(pending'[c]) = Dealt(c)' + Cardinality(At(up'[c], {"put"}))
    BY <1>2 DEF Matches
  <2>2. Dealt(c)' = deferred'[c] + AnswersIn(down'[c])
    BY AnswersNow, DealtNow
  <2>3. Len(pending'[c]) = 0
    <3>1. pending'[c] = <<>>
      BY <1>p
    <3> QED
      BY <3>1, EmptySeq
  <2> QED
    BY <2>1, <2>2, <2>3
<1>5. AnswersIn(down'[c]) = 0 /\ Cardinality(At(up'[c], {"put"})) = 0
  BY <1>q, <1>3, <1>4
<1>6. At(up[c], {"put"}) = {} /\ At(Tail(down[c]), AnswerKinds) = {}
  BY <1>a, <1>3, <1>5, FS_EmptySet DEF AnswersIn
<1>7. LastAnswerIsOk(down[c], 1)
  <2>1. Len(down[c]) \in Nat \ {0} /\ Head(down[c]) = down[c][1]
    BY <1>q, <1>a, HeadTailProperties, LenProperties, EmptySeq
  <2>2. 1 \in At(down[c], {"ok"})
    BY <1>a, <2>1 DEF At
  <2>3. At(Tail(down[c]), AnswerKinds) =
          {i \in 1..(Len(down[c]) - 1) : i + 1 \in At(down[c], AnswerKinds)}
    BY <1>q, <1>a, AtConsumed
  <2>4. ASSUME NEW i \in At(down[c], AnswerKinds) PROVE i <= 1
    <3>1. i \in 1..Len(down[c])
      BY DEF At
    <3>2. CASE i > 1
      <4>1. i - 1 \in 1..(Len(down[c]) - 1) /\ (i - 1) + 1 = i
        BY <2>1, <3>1, <3>2
      <4> QED
        BY <1>6, <2>3, <2>4, <4>1
    <3> QED
      BY <3>1, <3>2
  <2> QED
    BY <2>2, <2>4 DEF LastAnswerIsOk
<1>8. Uncovers(down[c], 1, cache[c], Latest(pending[c]))
  BY <1>b, <1>6, <1>7, SilentNow DEF Covers
<1>9. cache[c] = Latest(pending[c])
  BY <1>8 DEF Uncovers
<1> QED
  BY <1>b, <1>6, <1>9

\* So a success never changes what the device shows.
LEMMA SuccessUncovers ==
  ASSUME SilentInv, SilentInv', NEW c \in Clients, ReceiveOk(c)
  PROVE  View(c)' = View(c)
<1>1. /\ pending[c] \in Seq(Values) /\ cache' = cache
      /\ pending \in [Clients -> Seq(Values)] /\ unacked[c] \in Nat
  BY DueHere DEF ReceiveOk, ReceiveAnswer, SilentInv, PutInv, DueInv, PathTypeOK
<1>2. CASE unacked[c] > 0
  <2>1. pending' = pending
    BY <1>2, AnswerIs DEF ReceiveOk, SilentInv, PutInv
  <2> QED
    BY <1>1, <2>1 DEF View
<1>3. CASE unacked[c] = 0
  <2>1. pending[c] # <<>> /\ pending'[c] = Tail(pending[c])
    BY <1>1, <1>3, AnswerIs DEF ReceiveOk, SilentInv, PutInv
  <2>2. CASE cache[c] = NoValue
    BY <1>1, <2>2 DEF View
  <2>3. CASE cache[c] # NoValue /\ Tail(pending[c]) # <<>>
    <3>1. Tail(pending[c]) = SubSeq(pending[c], 1 + 1, Len(pending[c]))
      BY <1>1, <2>1, TailIsSubSeq
    <3>2. /\ Tail(pending[c]) \in Seq(Values) /\ Len(pending[c]) \in Nat
          /\ Len(Tail(pending[c])) = Len(pending[c]) - 1
      BY <1>1, <2>1, HeadTailProperties, LenProperties
    <3>3. 1 < Len(pending[c])
      <4> DEFINE left == Tail(pending[c])
      <4>1. left \in Seq(Values) /\ left # <<>>
        BY <2>3, <3>2
      <4> HIDE DEF left
      <4>2. Len(left) \in Nat \ {0}
        BY <4>1, EmptySeq
      <4>3. Len(left) # 0
        BY <4>2
      <4>4. Len(pending[c]) - 1 # 0
        BY <3>2, <4>3 DEF left
      <4>5. Len(pending[c]) # 0
        BY <1>1, <2>1, EmptySeq
      <4>6. Len(pending[c]) \in Nat
        BY <3>2
      <4>7. \A n \in Nat : n # 0 /\ n - 1 # 0 => 1 < n
        OBVIOUS
      <4> QED
        BY <4>4, <4>5, <4>6, <4>7, Zenon
    <3>4. Latest(Tail(pending[c])) = Latest(pending[c])
      BY <1>1, <3>1, <3>3, LatestStays
    <3> QED
      BY <1>1, <2>1, <2>3, <3>4 DEF View, Latest
  <2>4. CASE cache[c] # NoValue /\ Tail(pending[c]) = <<>>
    <3>1. cache[c] = Latest(pending[c])
      BY <1>3, <2>4, LastSuccess
    <3> QED
      BY <1>1, <2>1, <2>4, <3>1 DEF View, Latest
  <2> QED
    BY <2>2, <2>3, <2>4
<1> QED
  BY <1>1, <1>2, <1>3

LEMMA SilentAlways == PathSpec => []SilentInv
<1> QED
  BY SilentInit, SilentStep, PTL DEF PathSpec

\* A successful answer never changes what the device shows, whatever other
\* devices write, and however often the put was sent again: handled as it comes
\* it finds the data it confirms received before it, and held back it is not
\* handled yet.
THEOREM AnswersAreSilent == PathSpec => AnswerIsSilent
<1> DEFINE Silent == \A c \in Clients : ReceiveOk(c) => View(c)' = View(c)
<1>1. SilentInv /\ [PathNext]_pathVars => [Silent]_pathVars
  BY SilentStep, SuccessUncovers
<1> QED
  BY <1>1, SilentAlways, PTL DEF PathSpec, AnswerIsSilent

-----------------------------------------------------------------------------
(* A device at rest is settled.                                            *)

\* A device whose connection is up and on which nothing travels, either way.
AtRest(c) == c \in online /\ up[c] = <<>> /\ down[c] = <<>>

\* What is left of such a device: nothing it wrote waits for an answer and, if
\* one of its controllers listens, the server counts it as listening and it
\* shows the server's value.
SettledAtRest ==
  \A c \in Clients : AtRest(c) =>
    /\ pending[c] = <<>>
    /\ registered[c] # {} => c \in listeners /\ View(c) = db

\* A connected device with a listener is counted as listening or asks for it.
ListensOrAsks ==
  \A c \in online :
    registered[c] # {} => c \in listeners \/ At(up[c], {"listen"}) # {}

\* The same of one device after a step.
StillAsks(d) ==
  d \in online' /\ registered'[d] # {} =>
    d \in listeners' \/ At(up'[d], {"listen"}) # {}

\* A step of the path is a step of one device.
StepOf(c) ==
  \/ \E r \in Regs, carry \in BOOLEAN : Register(c, r, carry)
  \/ \E v \in Values : Write(c, v)
  \/ Read(c)
  \/ \E reading \in BOOLEAN : Deliver(c, reading)
  \/ \E r \in Regs : RaiseAgain(c, r)
  \/ ServerStep(c)
  \/ Receive(c)
  \/ Disconnect(c)
  \/ \E reading \in BOOLEAN : Reconnect(c, reading)
  \/ Kill(c)

LEMMA InTermsOfStillAsks ==
  ASSUME PathTypeOK'
  PROVE  ListensOrAsks' <=> \A d \in Clients : StillAsks(d)
<1>1. online' \subseteq Clients
  BY DEF PathTypeOK
<1> QED
  BY <1>1 DEF ListensOrAsks, StillAsks, At

\* A device keeps asking when its connection, its listeners and the listen on
\* its way stay.
LEMMA AsksAsBefore ==
  ASSUME ListensOrAsks, NEW d \in Clients,
         d \in online' => d \in online, d \in listeners => d \in listeners',
         registered'[d] = registered[d],
         At(up[d], {"listen"}) # {} => At(up'[d], {"listen"}) # {}
  PROVE  StillAsks(d)
BY DEF ListensOrAsks, StillAsks

\* The other devices.
LEMMA OthersStillAsk ==
  ASSUME PutInv, ListensOrAsks,
         NEW c \in Clients, NEW d \in Clients, d # c,
         StepOf(c)
  PROVE  StillAsks(d)
<1>q. PathTypeOK /\ registered \in [Clients -> SUBSET Regs]
  BY DEF PutInv, DueInv, PathTypeOK
<1>1. (d \in online' <=> d \in online) /\ up'[d] = up[d]
  BY <1>q, OthersMatch DEF StepOf
<1>2. CASE \/ \E r \in Regs, carry \in BOOLEAN : Register(c, r, carry)
           \/ \E v \in Values : Write(c, v)
           \/ Read(c) \/ \E reading \in BOOLEAN : Deliver(c, reading)
           \/ \E r \in Regs : RaiseAgain(c, r)
           \/ \E reading \in BOOLEAN : Reconnect(c, reading)
  <2>1. listeners' = listeners /\ registered'[d] = registered[d]
    BY <1>2, <1>q DEF Register, Write, Read, Deliver, RaiseAgain, Reconnect
  <2> QED
    BY <1>1, <2>1, AsksAsBefore
<1>3. CASE ServerStep(c)
  <2>1. listeners \subseteq listeners' /\ registered' = registered
    BY <1>3 DEF ServerStep, ServerListen, ServerRead, ServerApply, ServerReject
  <2> QED
    BY <1>1, <2>1, AsksAsBefore
<1>4. CASE Receive(c)
  <2>1. listeners' = listeners /\ registered' = registered
    BY <1>4 DEF Receive, ReceiveData, ReceiveOk, ReceiveRejected,
                ReceiveAnswer, ReceiveListening, TakeDown
  <2> QED
    BY <1>1, <2>1, AsksAsBefore
<1>5. CASE Disconnect(c) \/ Kill(c)
  <2>1. (d \in listeners => d \in listeners') /\ registered'[d] = registered[d]
    BY <1>5, <1>q DEF Disconnect, Kill
  <2> QED
    BY <1>1, <2>1, AsksAsBefore
<1> QED
  BY <1>2, <1>3, <1>4, <1>5 DEF StepOf

\* The device itself: it asks when its first listener is registered and when it
\* connects, and the listen is answered before it is forgotten.
LEMMA ActorStillAsks ==
  ASSUME PutInv, ListensOrAsks, NEW c \in Clients,
         StepOf(c)
  PROVE  StillAsks(c)
<1>q. /\ PathTypeOK
      /\ registered \in [Clients -> SUBSET Regs]
      /\ up \in [Clients -> Seq(UpMessage)] /\ up[c] \in Seq(UpMessage)
  BY DEF PutInv, DueInv, PathTypeOK
<1>1. ASSUME NEW r \in Regs, NEW carry \in BOOLEAN, Register(c, r, carry)
      PROVE  StillAsks(c)
  <2>1. /\ online' = online /\ listeners' = listeners
        /\ up'[c] = IF registered[c] = {} /\ c \in online
                      THEN Append(up[c], ListenRequest) ELSE up[c]
    BY <1>1, <1>q DEF Register, SendListen
  <2>2. CASE registered[c] = {} /\ c \in online
    <3>1. ListenRequest \in UpMessage /\ ListenRequest.kind \in {"listen"}
      BY MessageTypes DEF ListenRequest
    <3>2. At(Append(up[c], ListenRequest), {"listen"}) =
            At(up[c], {"listen"}) \cup {Len(up[c]) + 1}
      BY <1>q, <3>1, AtAppended
    <3>3. Len(up[c]) + 1 \in At(Append(up[c], ListenRequest), {"listen"})
      BY <3>2
    <3> QED
      BY <2>1, <2>2, <3>3 DEF StillAsks
  <2>3. CASE ~(registered[c] = {} /\ c \in online)
    BY <2>1, <2>3 DEF StillAsks, ListensOrAsks
  <2> QED
    BY <2>2, <2>3
<1>2. ASSUME NEW v \in Values, Write(c, v)
      PROVE  StillAsks(c)
  <2>1. /\ online' = online /\ listeners' = listeners
        /\ registered' = registered
        /\ up'[c] = IF c \in online THEN Append(up[c], Put(v)) ELSE up[c]
    BY <1>2, <1>q DEF Write
  <2>2. Put(v) \in UpMessage /\ Put(v).kind \notin {"listen"}
    BY MessageTypes DEF Put
  <2>3. At(Append(up[c], Put(v)), {"listen"}) = At(up[c], {"listen"})
    BY <1>q, <2>2, AtAppended
  <2>4. At(up'[c], {"listen"}) = At(up[c], {"listen"})
    BY <2>1, <2>3
  <2> QED
    BY <2>1, <2>4, AsksAsBefore
<1>3. CASE \/ Read(c) \/ \E reading \in BOOLEAN : Deliver(c, reading)
           \/ \E r \in Regs : RaiseAgain(c, r)
           \/ Receive(c)
  <2>1. online' = online /\ listeners' = listeners
        /\ registered' = registered
    BY <1>3 DEF Read, Deliver, RaiseAgain, Receive, ReceiveData, ReceiveOk,
                ReceiveRejected, ReceiveAnswer, ReceiveListening, TakeDown
  <2>2. up'[c] = up[c] \/ up'[c] = Append(up[c], ReadRequest)
    BY <1>3, <1>q DEF Read, ReadElsewhere, SendListen, Deliver, RaiseAgain,
                      Receive, ReceiveData, ReceiveOk, ReceiveRejected,
                      ReceiveAnswer, ReceiveListening, TakeDown
  <2>3. ReadRequest \in UpMessage /\ ReadRequest.kind \notin {"listen"}
    BY MessageTypes DEF ReadRequest
  <2>4. At(Append(up[c], ReadRequest), {"listen"}) = At(up[c], {"listen"})
    BY <1>q, <2>3, AtAppended
  <2>5. At(up'[c], {"listen"}) = At(up[c], {"listen"})
    BY <2>2, <2>4
  <2> QED
    BY <2>1, <2>5, AsksAsBefore
<1>4. CASE ServerListen(c)
  <2>1. c \in listeners'
    BY <1>4 DEF ServerListen
  <2> QED
    BY <2>1 DEF StillAsks
<1>5. CASE ServerRead(c) \/ ServerApply(c) \/ ServerReject(c)
  <2>1. /\ up[c] # <<>> /\ Head(up[c]).kind \in {"read", "put"}
        /\ up'[c] = Tail(up[c])
        /\ online' = online /\ listeners' = listeners
        /\ registered' = registered
    BY <1>5, <1>q DEF ServerRead, ServerApply, ServerReject, TakeUp
  <2>2. Head(up[c]).kind \notin {"listen"}
    BY <2>1
  <2>3. At(up[c], {"listen"}) # {} => At(Tail(up[c]), {"listen"}) # {}
    BY <1>q, <2>1, <2>2, FirstAndRest
  <2> QED
    BY <2>1, <2>3, AsksAsBefore
<1>6. CASE Disconnect(c) \/ Kill(c)
  BY <1>6 DEF Disconnect, Kill, StillAsks
<1>7. ASSUME NEW reading \in BOOLEAN, Reconnect(c, reading)
      PROVE  StillAsks(c)
  <2>1. up'[c] = RestoreState(c, reading) /\ registered' = registered
    BY <1>7, <1>q DEF Reconnect
  <2>2. PathTypeOK'
    BY <1>7, <1>q, PathStepType DEF PathNext
  <2>3. up'[c] \in Seq(UpMessage)
    BY <2>2 DEF PathTypeOK
  <2>4. ASSUME registered[c] # {} PROVE At(up'[c], {"listen"}) # {}
    <3>1. up'[c] # <<>> /\ Head(up'[c]) = ListenRequest
      BY <1>q, <2>1, <2>4, RestoredListens
    <3>2. Head(up'[c]).kind \in {"listen"}
      BY <3>1 DEF ListenRequest
    <3> QED
      BY <2>3, <3>1, <3>2, FirstAndRest
  <2> QED
    BY <2>1, <2>4 DEF StillAsks
<1> QED
  BY <1>1, <1>2, <1>3, <1>4, <1>5, <1>6, <1>7 DEF StepOf, ServerStep

LEMMA ListensOrAsksStep ==
  PutInv /\ ListensOrAsks /\ [PathNext]_pathVars => ListensOrAsks'
<1> SUFFICES ASSUME PutInv, ListensOrAsks, [PathNext]_pathVars
             PROVE  ListensOrAsks'
  OBVIOUS
<1>1. PathTypeOK'
  BY PutStep DEF PutInv, DueInv
<1>2. ASSUME NEW d \in Clients PROVE StillAsks(d)
  <2>1. CASE UNCHANGED pathVars
    BY <2>1, AsksAsBefore DEF pathVars
  <2>2. CASE PathNext
    <3>1. PICK c \in Clients : StepOf(c)
      BY <2>2 DEF PathNext, StepOf
    <3> QED
      BY <3>1, OthersStillAsk, ActorStillAsks
  <2> QED
    BY <2>1, <2>2
<1> QED
  BY <1>1, <1>2, InTermsOfStillAsks

\* With nothing on its way, every write has been answered and the last data
\* told is in the cache.
LEMMA RestSettles ==
  PutInv /\ ListensOrAsks /\ ListenersAreTold => SettledAtRest
<1> SUFFICES ASSUME PutInv, ListensOrAsks, ListenersAreTold,
                    NEW c \in Clients, AtRest(c)
             PROVE  /\ pending[c] = <<>>
                    /\ registered[c] # {} => c \in listeners /\ View(c) = db
  BY DEF SettledAtRest
<1>1. c \in online /\ \A kinds : At(up[c], kinds) = {} /\ At(down[c], kinds) = {}
  BY EmptySeq DEF AtRest, At
<1>2. pending[c] = <<>>
  <2>1. Answers(c) = 0
    BY <1>1, FS_EmptySet DEF Answers
  <2>2. /\ Cardinality(At(up[c], {"put"})) = 0
        /\ Cardinality(At(up[c], {"listen", "read"})) = 0
        /\ Cardinality(At(down[c], {"listening"})) = 0
    BY <1>1, FS_EmptySet
  <2>a. unacked[c] = 0
    <3>1. unacked[c] = Cardinality(At(up[c], {"listen", "read"}))
                       + Cardinality(At(down[c], {"listening"}))
      BY DEF PutInv, DueInv, HeldBackIsDue
    <3> QED
      BY <2>2, <3>1
  <2>b. deferred[c] = 0
    <3>1. deferred[c] \in Nat /\ (deferred[c] > 0 => unacked[c] > 0)
      BY <1>1 DEF PutInv, DueInv, PathTypeOK, HeldBackIsDue
    <3> QED
      BY <2>a, <3>1
  <2>c. Dealt(c) = 0
    BY <2>1, <2>b DEF Dealt
  <2>3. Len(pending[c]) = 0
    BY <1>1, <2>c, <2>2 DEF PutInv, EveryPutIsAnswered
  <2>4. pending[c] \in Seq(Values)
    BY QueueTypes DEF PutInv, DueInv
  <2> QED
    BY <2>3, <2>4, EmptySeq
<1>3. ASSUME registered[c] # {} PROVE c \in listeners /\ View(c) = db
  <2>1. c \in listeners
    BY <1>1, <1>3 DEF ListensOrAsks
  <2>2. cache[c] = db
    BY <1>1, <2>1 DEF ListenersAreTold, EndsAt
  <2> QED
    BY <1>2, <2>1, <2>2 DEF View
<1> QED
  BY <1>2, <1>3

LEMMA ListensOrAsksAlways == PathSpec => []ListensOrAsks
<1>1. PathInit => ListensOrAsks
  BY DEF PathInit, ListensOrAsks
<1> QED
  BY <1>1, ListensOrAsksStep, PutAlways, PTL DEF PathSpec

\* Nothing is stuck: a connected device that nothing is on its way to or from
\* has all its writes answered and, if it listens, shows the server's value,
\* after any losses, refusals, repeated puts and restarts.  So a device that is
\* behind always has a step of the connection, the server or the client ahead
\* of it (restoreState, FPersistentConnection.m:988-1019).
THEOREM RestIsSettled == PathSpec => []SettledAtRest
<1> QED
  BY RestSettles, PutAlways, ListensOrAsksAlways, ListenersToldCorrect, PTL

-----------------------------------------------------------------------------
(* What the server takes.                                                  *)

\* The value on the server only ever changes to a write that some device still
\* holds as pending.
OnlyPendingLands ==
  db' # db => \E c \in Clients : \E i \in 1..Len(pending[c]) : db' = pending[c][i]

\* Only the server, taking a put, changes its value.
LEMMA OnlyServerApplies ==
  ASSUME PathNext, db' # db
  PROVE  \E c \in Clients : ServerApply(c)
<1>1. ASSUME NEW c \in Clients, NEW r \in Regs, NEW carry \in BOOLEAN,
             Register(c, r, carry)
      PROVE  FALSE
  BY <1>1 DEF Register
<1>2. ASSUME NEW c \in Clients, NEW v \in Values, Write(c, v)
      PROVE  FALSE
  BY <1>2 DEF Write
<1>3. ASSUME NEW c \in Clients, NEW reading \in BOOLEAN,
             Read(c) \/ Deliver(c, reading) \/ Reconnect(c, reading)
      PROVE  FALSE
  BY <1>3 DEF Read, Deliver, Reconnect
<1>4. ASSUME NEW c \in Clients, NEW r \in Regs, RaiseAgain(c, r)
      PROVE  FALSE
  BY <1>4 DEF RaiseAgain
<1>5. ASSUME NEW c \in Clients, ServerStep(c), ~ServerApply(c)
      PROVE  FALSE
  BY <1>5 DEF ServerStep, ServerListen, ServerRead, ServerReject
<1>6. ASSUME NEW c \in Clients, Receive(c)
      PROVE  FALSE
  BY <1>6 DEF Receive, ReceiveData, ReceiveOk, ReceiveRejected, ReceiveAnswer,
             ReceiveListening, TakeDown
<1>7. ASSUME NEW c \in Clients, Disconnect(c) \/ Kill(c)
      PROVE  FALSE
  BY <1>7 DEF Disconnect, Kill
<1> QED
  BY <1>1, <1>2, <1>3, <1>4, <1>5, <1>6, <1>7 DEF PathNext

\* No write lands after its device has forgotten it: one that is answered,
\* taken back or lost with its process never becomes the server's value later,
\* although puts travel for as long as they like and are sent again.
THEOREM OnlyPendingWritesLand == PathSpec => [][OnlyPendingLands]_pathVars
<1>1. PutInv /\ [PathNext]_pathVars => [OnlyPendingLands]_pathVars
  <2> SUFFICES ASSUME PutInv, PathNext, db' # db
               PROVE  \E c \in Clients : \E i \in 1..Len(pending[c]) :
                        db' = pending[c][i]
    BY DEF OnlyPendingLands
  <2>1. PICK c \in Clients : ServerApply(c)
    BY OnlyServerApplies
  <2>2. TakeUp(c, "put") /\ db' = Head(up[c]).value
    BY <2>1 DEF ServerApply
  <2>3. Dealt(c) < Len(pending[c]) /\ db' = pending[c][Dealt(c) + 1]
    BY <2>2, ServedIsNext
  <2>4. Dealt(c) \in Nat /\ Len(pending[c]) \in Nat
    BY QueueTypes, LenProperties DEF PutInv, DueInv
  <2>5. Dealt(c) + 1 \in 1..Len(pending[c])
    BY <2>3, <2>4
  <2> QED
    BY <2>3, <2>5
<1> QED
  BY <1>1, PutAlways, PTL DEF PathSpec
=============================================================================
