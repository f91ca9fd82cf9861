----------------------- MODULE ProfileInterestsProofs -----------------------
(***************************************************************************)
(* Theorems about the interests on the profile screen, for any interests,  *)
(* any list at the start and any number of edits, losses and restarts.     *)
(***************************************************************************)
EXTENDS ProfileInterests, ListNodeProofs

-----------------------------------------------------------------------------
(* Nodes and writes.                                                       *)

Values    == Interests \cup {Gone}
Writes    == [key : Nat, value : Values]
ListNodes == {AsNode(s) : s \in Seq(Interests)}

\* What a node has for a key, nil where it has no child.
At(n, k) == IF k \in DOMAIN n THEN n[k] ELSE Gone

IsNode(n) == n \in [DOMAIN n -> Interests]

LEMMA ListNodeIs ==
  ASSUME NEW n \in ListNodes
  PROVE  IsNode(n) /\ ~HasHole(n)
  <1>1. PICK s \in Seq(Interests) : n = AsNode(s)
    BY DEF ListNodes
  <1>2. DOMAIN n = 0..(Len(s) - 1) /\ n \in [0..(Len(s) - 1) -> Interests]
    BY <1>1, NodeOfList
  <1>3. Len(s) \in Nat
    BY LenProperties
  <1> QED BY <1>2, <1>3 DEF IsNode, HasHole

\* A write changes one key.
LEMMA PutAt ==
  ASSUME NEW n, IsNode(n), NEW w \in Writes
  PROVE  /\ IsNode(Put(n, w))
         /\ \A k : At(Put(n, w), k) = IF k = w.key THEN w.value ELSE At(n, k)
  <1>1. CASE w.value = Gone
    <2>1. Put(n, w) = [j \in DOMAIN n \ {w.key} |-> n[j]]
      BY <1>1 DEF Put, WithoutChild
    <2> QED BY <1>1, <2>1 DEF IsNode, At
  <1>2. CASE w.value # Gone
    <2>1. Put(n, w) = [j \in DOMAIN n \cup {w.key} |-> IF j = w.key THEN w.value ELSE n[j]]
      BY <1>2 DEF Put, WithChild
    <2>2. w.value \in Interests
      BY <1>2 DEF Writes, Values
    <2> QED BY <2>1, <2>2 DEF IsNode, At
  <1> QED BY <1>1, <1>2

\* Nodes with the same children are the same node.
LEMMA SameNode ==
  ASSUME NEW m, IsNode(m), NEW n, IsNode(n), \A k : At(m, k) = At(n, k)
  PROVE  m = n
  <1>1. \A k : k \in DOMAIN m <=> k \in DOMAIN n
    BY GoneAssumption DEF At, IsNode
  <1>2. DOMAIN m = DOMAIN n
    BY <1>1
  <1>3. \A k \in DOMAIN m : m[k] = n[k]
    BY <1>2 DEF At
  <1> QED BY <1>2, <1>3 DEF IsNode

-----------------------------------------------------------------------------
(* The inductive invariant.                                                *)

\* h are the lists the pending writes go through, from before the first to what
\* the client shows.  Whoever has executed the first j of them, over any state,
\* has for a key of one of these what the last one to it wrote.  The server has
\* what it would have without a lost connection, but for the keys of the writes
\* it still has to repeat.
History(h) ==
  /\ h \in Seq(ListNodes)
  /\ Len(h) = Len(writes) + 1
  /\ h[Len(writes) + 1] = node
  /\ \A i \in 1..Len(writes) : \A k :
       At(h[i + 1], k) = IF k = writes[i].key THEN writes[i].value ELSE At(h[i], k)
  /\ \A i, j \in 1..Len(writes) :
       i <= j /\ (\A m \in (i + 1)..j : writes[m].key # writes[i].key)
         => At(h[j + 1], writes[i].key) = writes[i].value
  /\ \A k : (\A m \in (executed + 1)..reached : writes[m].key # k)
              => At(server, k) = At(h[reached + 1], k)

ClientInv ==
  /\ writes \in Seq(Writes)
  /\ executed \in Nat /\ reached \in Nat
  /\ executed <= reached /\ reached <= Len(writes)
  /\ IsNode(server)
  /\ \E h : History(h)

\* Nothing is on the screen before the list is loaded, the snapshot served is
\* what the client shows, and from then on the rows are that list.
ScreenInv ==
  /\ rows \in Seq(Interests)
  /\ reading \in {"open", "served", "done"}
  /\ reading # "done" => rows = <<>>
  /\ reading = "served" => read = node
  /\ reading = "done" => node = AsNode(rows)

RowsInv == ~slip => ClientInv /\ ScreenInv

LEMMA HistoryTypes ==
  ASSUME ClientInv, NEW h, History(h)
  PROVE  /\ Len(writes) \in Nat /\ DOMAIN writes = 1..Len(writes)
         /\ \A i \in 1..Len(writes) : writes[i] \in Writes
         /\ \A i \in 1..(Len(writes) + 1) : h[i] \in ListNodes /\ IsNode(h[i])
         /\ node \in ListNodes
         /\ executed = reached => server = h[reached + 1]
  <1>1. /\ Len(writes) \in Nat /\ DOMAIN writes = 1..Len(writes)
        /\ \A i \in 1..Len(writes) : writes[i] \in Writes
    BY LenProperties, ElementOfSeq DEF ClientInv
  <1>2. \A i \in 1..(Len(writes) + 1) : h[i] \in ListNodes
    BY <1>1, LenProperties, ElementOfSeq DEF History
  <1>3. \A i \in 1..(Len(writes) + 1) : IsNode(h[i])
    BY <1>2, ListNodeIs
  <1>4. Len(writes) + 1 \in 1..(Len(writes) + 1)
    BY <1>1
  <1>5. node \in ListNodes
    BY <1>2, <1>4 DEF History
  <1>6. ASSUME executed = reached
        PROVE  server = h[reached + 1]
    <2>1. reached + 1 \in 1..(Len(writes) + 1) /\ (executed + 1)..reached = {}
      BY <1>1, <1>6 DEF ClientInv
    <2>2. \A k : At(server, k) = At(h[reached + 1], k)
      BY <2>1 DEF History
    <2> QED BY <1>3, <2>1, <2>2, SameNode DEF ClientInv
  <1> QED BY <1>1, <1>2, <1>3, <1>5, <1>6

-----------------------------------------------------------------------------
(* The client and the server.                                              *)

\* A write that makes one more list of what is shown.
LEMMA SetValueKeeps ==
  ASSUME ClientInv, NEW w \in Writes, SetValue(w), Put(node, w) \in ListNodes
  PROVE  ClientInv'
  <1> DEFINE L == Len(writes)
             ws == Append(writes, w)
  <1>1. PICK h : History(h)
    BY DEF ClientInv
  <1>0. PICK g : g = Append(h, Put(node, w))
    OBVIOUS
  <1>2. /\ L \in Nat /\ h \in Seq(ListNodes) /\ Len(h) = L + 1
        /\ h[L + 1] = node /\ IsNode(node)
    BY <1>1, HistoryTypes, ListNodeIs DEF History
  <1>3. /\ node' = Put(node, w) /\ writes' = ws
        /\ server' = server /\ executed' = executed /\ reached' = reached
    BY DEF SetValue
  <1>4. /\ ws \in Seq(Writes) /\ Len(ws) = L + 1
        /\ \A i \in 1..L : ws[i] = writes[i]
        /\ ws[L + 1] = w
    BY AppendProperties DEF ClientInv
  <1>5. /\ g \in Seq(ListNodes) /\ Len(g) = (L + 1) + 1
        /\ \A i \in 1..(L + 1) : g[i] = h[i]
        /\ g[(L + 1) + 1] = Put(node, w)
    BY <1>2, <1>0, AppendProperties
  <1> HIDE DEF L, ws
  <1>6. \A i \in 1..(L + 1) : i \in 1..L \/ i = L + 1
    BY <1>2
  <1>7. \A k : At(g[(L + 1) + 1], k) = IF k = w.key THEN w.value ELSE At(g[L + 1], k)
    <2>1. g[L + 1] = node
      BY <1>2, <1>5
    <2> QED BY <1>2, <1>5, <2>1, PutAt
  <1>8. ASSUME NEW i \in 1..L
        PROVE  \A k : At(g[i + 1], k) = IF k = ws[i].key THEN ws[i].value ELSE At(g[i], k)
    <2>1. i \in 1..(L + 1) /\ i + 1 \in 1..(L + 1)
      BY <1>2
    <2>2. g[i] = h[i] /\ g[i + 1] = h[i + 1] /\ ws[i] = writes[i]
      BY <1>4, <1>5, <2>1
    <2>3. \A k : At(h[i + 1], k) =
                  IF k = writes[i].key THEN writes[i].value ELSE At(h[i], k)
      BY <1>1 DEF History, L
    <2> QED BY <2>2, <2>3
  <1>9. ASSUME NEW i \in 1..(L + 1), NEW j \in 1..(L + 1), i <= j,
               \A m \in (i + 1)..j : ws[m].key # ws[i].key
        PROVE  At(g[j + 1], ws[i].key) = ws[i].value
    <2>1. CASE j \in 1..L
      <3>0. i \in Int /\ j \in Int /\ 1 <= i /\ i <= j /\ j <= L /\ L \in Nat
        BY <1>2, <1>9, <2>1
      <3>1. /\ i \in 1..L /\ j + 1 \in 1..(L + 1)
            /\ \A m \in (i + 1)..j : m \in 1..L
        BY <3>0
      <3>2. \A m \in (i + 1)..j : writes[m].key # writes[i].key
        BY <1>4, <1>9, <3>1
      <3>3. At(h[j + 1], writes[i].key) = writes[i].value
        BY <1>1, <1>9, <2>1, <3>1, <3>2 DEF History, L
      <3> QED BY <1>4, <1>5, <3>1, <3>3
    <2>2. CASE j = L + 1 /\ i = L + 1
      BY <1>4, <1>7, <2>2
    <2>3. CASE j = L + 1 /\ i \in 1..L
      <3>1. /\ L + 1 \in (i + 1)..j /\ \A m \in (i + 1)..L : m \in (i + 1)..j /\ m \in 1..L
            /\ L \in 1..L /\ i <= L /\ L + 1 \in 1..(L + 1)
        BY <1>2, <2>3
      <3>2. ws[i].key # w.key
        BY <1>4, <1>9, <3>1
      <3>3. \A m \in (i + 1)..L : writes[m].key # writes[i].key
        BY <1>4, <1>9, <2>3, <3>1
      <3>4. At(h[L + 1], writes[i].key) = writes[i].value
        BY <1>1, <2>3, <3>1, <3>3 DEF History, L
      <3> QED BY <1>4, <1>5, <1>7, <2>3, <3>1, <3>2, <3>4
    <2> QED BY <1>6, <2>1, <2>2, <2>3
  <1>10. ASSUME NEW k, \A m \in (executed + 1)..reached : ws[m].key # k
         PROVE  At(server, k) = At(g[reached + 1], k)
    <2>1. /\ reached + 1 \in 1..(L + 1)
          /\ \A m \in (executed + 1)..reached : m \in 1..L
      BY <1>2 DEF ClientInv, L
    <2>2. \A m \in (executed + 1)..reached : writes[m].key # k
      BY <1>4, <1>10, <2>1
    <2>3. At(server, k) = At(h[reached + 1], k)
      BY <1>1, <2>2 DEF History
    <2> QED BY <1>5, <2>1, <2>3
  <1>11. History(g)'
    <2>1. \A i \in 1..(L + 1) : \A k :
            At(g[i + 1], k) = IF k = ws[i].key THEN ws[i].value ELSE At(g[i], k)
      BY <1>4, <1>6, <1>7, <1>8
    <2>2. Len(writes') = L + 1
      BY <1>3, <1>4
    <2> QED BY <1>3, <1>5, <1>9, <1>10, <2>1, <2>2 DEF History
  <1>12. reached <= L + 1
    BY <1>2 DEF ClientInv, L
  <1> QED BY <1>3, <1>4, <1>11, <1>12 DEF ClientInv

\* The server executes the next write, for the first time or again.
LEMMA ExecuteKeeps ==
  ASSUME ClientInv, Execute
  PROVE  ClientInv' /\ UNCHANGED node
  <1> DEFINE n == executed + 1
             w == writes[executed + 1]
  <1>1. PICK h : History(h)
    BY DEF ClientInv
  <1>2. /\ executed \in Nat /\ reached \in Nat /\ executed <= reached
        /\ reached <= Len(writes) /\ Len(writes) \in Nat /\ IsNode(server)
        /\ n \in 1..Len(writes) /\ w \in Writes
    BY <1>1, HistoryTypes DEF ClientInv, Execute
  <1>3. /\ UNCHANGED <<writes, node>> /\ executed' = n
        /\ reached' = IF executed < reached THEN reached ELSE n
        /\ server' = Put(server, w)
    BY DEF Execute
  <1>4. /\ IsNode(server')
        /\ \A k : At(server', k) = IF k = w.key THEN w.value ELSE At(server, k)
    BY <1>2, <1>3, PutAt
  <1>5. /\ executed' \in Nat /\ reached' \in Nat
        /\ executed' <= reached' /\ reached' <= Len(writes)
    BY <1>2, <1>3
  <1>6. ASSUME NEW k, \A m \in (executed' + 1)..reached' : writes[m].key # k
        PROVE  At(server', k) = At(h[reached' + 1], k)
    <2>1. CASE executed < reached /\ k = w.key
      <3>1. n <= reached /\ reached \in 1..Len(writes) /\ reached' = reached
        BY <1>2, <1>3, <2>1
      <3>2. \A m \in (n + 1)..reached : writes[m].key # writes[n].key
        BY <1>3, <1>6, <2>1, <3>1
      <3>3. At(h[reached + 1], writes[n].key) = writes[n].value
        BY <1>1, <1>2, <3>1, <3>2 DEF History
      <3> QED BY <1>4, <2>1, <3>1, <3>3
    <2>2. CASE executed < reached /\ k # w.key
      <3>1. reached' = reached
            /\ \A m \in (executed + 1)..reached : m = n \/ m \in (n + 1)..reached
        BY <1>2, <1>3, <2>2
      <3>2. \A m \in (executed + 1)..reached : writes[m].key # k
        BY <1>3, <1>6, <2>2, <3>1
      <3>3. At(server, k) = At(h[reached + 1], k)
        BY <1>1, <3>2 DEF History
      <3> QED BY <1>4, <2>2, <3>1, <3>3
    <2>3. CASE ~(executed < reached)
      <3>1. executed = reached /\ reached' = n
        BY <1>2, <1>3, <2>3
      <3>2. server = h[n]
        BY <1>1, <3>1, HistoryTypes
      <3>3. At(h[n + 1], k) = IF k = w.key THEN w.value ELSE At(h[n], k)
        BY <1>1, <1>2 DEF History
      <3> QED BY <1>4, <3>1, <3>2, <3>3
    <2> QED BY <2>1, <2>2, <2>3
  <1>7. History(h)'
    <2>1. History(h)
      BY <1>1
    <2> QED BY <1>3, <1>6, <2>1 DEF History
  <1> QED BY <1>3, <1>4, <1>5, <1>7 DEF ClientInv

\* The answer to the first write.
LEMMA AnswerKeeps ==
  ASSUME ClientInv, Answer
  PROVE  ClientInv' /\ UNCHANGED node
  <1> DEFINE L == Len(writes)
             ws == Tail(writes)
  <1>1. PICK h : History(h)
    BY DEF ClientInv
  <1>0. PICK g : g = Tail(h)
    OBVIOUS
  <1>2. /\ executed \in Nat /\ reached \in Nat /\ 0 < executed /\ executed <= reached
        /\ reached <= L /\ L \in Nat /\ L > 0 /\ writes # <<>>
        /\ h \in Seq(ListNodes) /\ Len(h) = L + 1 /\ h[L + 1] = node
    BY <1>1, HistoryTypes DEF ClientInv, Answer, History
  <1>3. /\ UNCHANGED <<server, node>> /\ writes' = ws
        /\ executed' = executed - 1 /\ reached' = reached - 1
    BY DEF Answer
  <1>4. ws \in Seq(Writes) /\ Len(ws) = L - 1 /\ \A i \in 1..(L - 1) : ws[i] = writes[i + 1]
    BY <1>2, HeadTailProperties DEF ClientInv
  <1>5. /\ h # <<>> /\ g \in Seq(ListNodes) /\ Len(g) = L
        /\ \A i \in 1..L : g[i] = h[i + 1]
    <2>1. h # <<>>
      BY <1>2, EmptySeq
    <2> QED BY <1>0, <1>2, <2>1, HeadTailProperties
  <1> HIDE DEF ws
  <1>6. ASSUME NEW i \in 1..(L - 1)
        PROVE  \A k : At(g[i + 1], k) = IF k = ws[i].key THEN ws[i].value ELSE At(g[i], k)
    <2>1. i + 1 \in 1..L /\ i \in 1..L
      BY <1>2
    <2>2. g[i] = h[i + 1] /\ g[i + 1] = h[(i + 1) + 1] /\ ws[i] = writes[i + 1]
      BY <1>4, <1>5, <2>1
    <2>3. \A k : At(h[(i + 1) + 1], k) =
                  IF k = writes[i + 1].key THEN writes[i + 1].value ELSE At(h[i + 1], k)
      BY <1>1, <2>1 DEF History
    <2> QED BY <2>2, <2>3
  <1>7. ASSUME NEW i \in 1..(L - 1), NEW j \in 1..(L - 1), i <= j,
               \A m \in (i + 1)..j : ws[m].key # ws[i].key
        PROVE  At(g[j + 1], ws[i].key) = ws[i].value
    <2>1. /\ i + 1 \in 1..L /\ j + 1 \in 1..L /\ i + 1 <= j + 1
          /\ \A m \in ((i + 1) + 1)..(j + 1) :
               m - 1 \in (i + 1)..j /\ m - 1 \in 1..(L - 1) /\ (m - 1) + 1 = m
      BY <1>2, <1>7
    <2>2. ASSUME NEW m \in ((i + 1) + 1)..(j + 1)
          PROVE  writes[m].key # writes[i + 1].key
      <3>1. m - 1 \in (i + 1)..j /\ m - 1 \in 1..(L - 1) /\ (m - 1) + 1 = m
        BY <2>1
      <3>2. ws[m - 1].key # ws[i].key
        BY <1>7, <3>1
      <3>3. ws[m - 1] = writes[m] /\ ws[i] = writes[i + 1]
        BY <1>4, <3>1
      <3> QED BY <3>2, <3>3
    <2>3. At(h[(j + 1) + 1], writes[i + 1].key) = writes[i + 1].value
      BY <1>1, <2>1, <2>2 DEF History
    <2> QED BY <1>4, <1>5, <2>1, <2>3
  <1>8. ASSUME NEW k, \A m \in (executed' + 1)..reached' : ws[m].key # k
        PROVE  At(server', k) = At(g[reached' + 1], k)
    <2>1. /\ reached' + 1 \in 1..L /\ (reached' + 1) + 1 = reached + 1
          /\ \A m \in (executed + 1)..reached :
               m - 1 \in (executed' + 1)..reached' /\ m - 1 \in 1..(L - 1)
               /\ (m - 1) + 1 = m
      BY <1>2, <1>3
    <2>2. \A m \in (executed + 1)..reached : writes[m].key # k
      BY <1>4, <1>8, <2>1
    <2>3. At(server, k) = At(h[reached + 1], k)
      BY <1>1, <2>2 DEF History
    <2> QED BY <1>3, <1>5, <2>1, <2>3
  <1>9. History(g)'
    <2>1. Len(writes') = L - 1 /\ L = Len(writes') + 1
      BY <1>2, <1>3, <1>4
    <2>2. g[Len(writes') + 1] = node'
      <3>1. L \in 1..L
        BY <1>2
      <3> QED BY <1>2, <1>3, <1>5, <2>1, <3>1
    <2>3. \A i \in 1..Len(writes') : \A k :
            At(g[i + 1], k) =
              IF k = writes'[i].key THEN writes'[i].value ELSE At(g[i], k)
      BY <1>3, <1>6, <2>1
    <2>4. \A i, j \in 1..Len(writes') :
            i <= j /\ (\A m \in (i + 1)..j : writes'[m].key # writes'[i].key)
              => At(g[j + 1], writes'[i].key) = writes'[i].value
      BY <1>3, <1>7, <2>1
    <2>5. \A k : (\A m \in (executed' + 1)..reached' : writes'[m].key # k)
                   => At(server', k) = At(g[reached' + 1], k)
      BY <1>3, <1>8
    <2> QED BY <1>5, <2>1, <2>2, <2>3, <2>4, <2>5 DEF History
  <1>10. /\ executed' \in Nat /\ reached' \in Nat
         /\ executed' <= reached' /\ reached' <= L - 1
    BY <1>2, <1>3
  <1> QED BY <1>3, <1>4, <1>9, <1>10 DEF ClientInv

\* After a loss writes that reached the server are to be repeated.
LEMMA LoseKeeps ==
  ASSUME ClientInv, Lose
  PROVE  ClientInv' /\ UNCHANGED node
  <1>1. PICK h : History(h)
    BY DEF ClientInv
  <1>2. PICK held \in 0..executed :
          executed' = held /\ UNCHANGED <<server, writes, reached, node>>
    BY DEF Lose
  <1>3. executed \in Nat /\ reached \in Nat /\ executed <= reached
    BY DEF ClientInv
  <1>4. held \in Nat /\ held <= reached
        /\ \A m \in (executed + 1)..reached : m \in (held + 1)..reached
    BY <1>3
  <1>5. History(h)'
    <2>1. \A k : (\A m \in (executed' + 1)..reached' : writes[m].key # k)
                   => At(server, k) = At(h[reached + 1], k)
      BY <1>1, <1>2, <1>4 DEF History
    <2> QED BY <1>1, <1>2, <2>1 DEF History
  <1> QED BY <1>2, <1>4, <1>5 DEF ClientInv

\* A restart when nothing is being repeated leaves one of the lists.
LEMMA RestartKeeps ==
  ASSUME ClientInv, Restart, executed = reached
  PROVE  ClientInv'
  <1>1. PICK h : History(h)
    BY DEF ClientInv
  <1>2. reached + 1 \in 1..(Len(writes) + 1)
    BY <1>1, HistoryTypes DEF ClientInv
  <1>3. server \in ListNodes
    BY <1>1, <1>2, HistoryTypes
  <1>0. PICK g : g = <<server>>
    OBVIOUS
  <1>4. /\ UNCHANGED server /\ node' = server
        /\ writes' = <<>> /\ executed' = 0 /\ reached' = 0
    BY DEF Restart
  <1>5. g \in Seq(ListNodes) /\ Len(g) = 1 /\ g[1] = server
    BY <1>0, <1>3
  <1>6. writes' \in Seq(Writes) /\ Len(writes') = 0
    BY <1>4, EmptySeq
  <1>7. History(g)'
    BY <1>4, <1>5, <1>6 DEF History
  <1> QED BY <1>4, <1>6, <1>7 DEF ClientInv

-----------------------------------------------------------------------------
(* The screen.                                                             *)

LEMMA LoadKeeps ==
  ASSUME ClientInv, ScreenInv, Load
  PROVE  ClientInv' /\ ScreenInv'
  <1>1. /\ rows = <<>> /\ read = node /\ rows' = rows \o Children(read)
        /\ reading' = "done" /\ UNCHANGED <<server, writes, executed, reached, node>>
    BY DEF Load, ScreenInv, clientVars
  <1>2. node \in ListNodes
    BY HistoryTypes DEF ClientInv
  <1>3. PICK s \in Seq(Interests) : node = AsNode(s)
    BY <1>2 DEF ListNodes
  <1>4. Children(read) = s
    BY <1>1, <1>3, ListReadBack
  <1>5. rows' = s
    BY <1>1, <1>4, ConcatEmptySeq
  <1>6. ClientInv'
    <2>1. PICK h : History(h)
      BY DEF ClientInv
    <2>2. History(h)'
      BY <1>1, <2>1 DEF History
    <2> QED BY <1>1, <2>2 DEF ClientInv
  <1> QED BY <1>1, <1>3, <1>5, <1>6 DEF ScreenInv

LEMMA AddKeeps ==
  ASSUME ClientInv, ScreenInv, NEW x \in Interests, Add(x), ~slip'
  PROVE  ClientInv' /\ ScreenInv'
  <1> DEFINE w == Write(Len(rows') - 1, x)
  <1>1. /\ reading = "done" /\ reading' = reading
        /\ rows \in Seq(Interests) /\ node = AsNode(rows)
        /\ rows' = Append(rows, x) /\ SetValue(w)
    BY DEF Add, ScreenInv
  <1>2. rows' \in Seq(Interests) /\ Len(rows') - 1 = Len(rows) /\ Len(rows) \in Nat
    BY <1>1, AppendProperties, LenProperties
  <1>3. w \in Writes
    BY <1>2 DEF Write, Writes, Values
  <1>4. Put(node, w) = AsNode(rows')
    <2>1. Put(node, w) = WithChild(node, Len(rows), x)
      BY <1>2, GoneAssumption DEF Put, Write
    <2> QED BY <1>1, <2>1, ChildAtEnd
  <1>5. Put(node, w) \in ListNodes
    BY <1>2, <1>4 DEF ListNodes
  <1>6. ClientInv'
    BY <1>1, <1>3, <1>5, SetValueKeeps
  <1>7. node' = Put(node, w)
    BY <1>1 DEF SetValue
  <1> QED BY <1>1, <1>2, <1>4, <1>6, <1>7 DEF ScreenInv

LEMMA RemoveKeeps ==
  ASSUME ClientInv, ScreenInv, NEW i \in DOMAIN rows, Remove(i), ~slip'
  PROVE  ClientInv' /\ ScreenInv'
  <1> DEFINE w == Write(Len(rows) - 1, Gone)
  <1>1. /\ reading = "done" /\ reading' = reading
        /\ rows \in Seq(Interests) /\ node = AsNode(rows)
        /\ rows' = Drop(rows, Len(rows)) /\ SetValue(w)
    BY DEF Remove, ScreenInv
  <1>2. Len(rows) \in 1..Len(rows) /\ rows # <<>> /\ Len(rows) - 1 \in Nat
    BY <1>1, LenProperties, EmptySeq
  <1>3. rows' \in Seq(Interests)
    BY <1>1, <1>2, DropProperties
  <1>4. w \in Writes
    BY <1>2 DEF Write, Writes, Values
  <1>5. Put(node, w) = AsNode(rows')
    <2>1. Put(node, w) = WithoutChild(node, Len(rows) - 1)
      BY DEF Put, Write
    <2> QED BY <1>1, <1>2, <2>1, LastChildRemoved
  <1>6. Put(node, w) \in ListNodes
    BY <1>3, <1>5 DEF ListNodes
  <1>7. ClientInv'
    BY <1>1, <1>4, <1>6, SetValueKeeps
  <1>8. node' = Put(node, w)
    BY <1>1 DEF SetValue
  <1> QED BY <1>1, <1>3, <1>5, <1>7, <1>8 DEF ScreenInv

-----------------------------------------------------------------------------
(* The theorem.                                                            *)

LEMMA InitKeeps == Init => RowsInv
  <1> SUFFICES ASSUME Init PROVE ClientInv /\ ScreenInv
    BY DEF RowsInv
  <1>1. /\ server = AsNode(AtStart) /\ node = server /\ server \in ListNodes
        /\ writes = <<>> /\ executed = 0 /\ reached = 0
    BY StartAssumption DEF Init, ListNodes
  <1>2. writes \in Seq(Writes) /\ Len(writes) = 0
    BY <1>1, EmptySeq
  <1>3. PICK h : h = <<server>>
    OBVIOUS
  <1>4. h \in Seq(ListNodes) /\ Len(h) = 1 /\ h[1] = server
    BY <1>1, <1>3
  <1>5. History(h)
    BY <1>1, <1>2, <1>4 DEF History
  <1>6. ClientInv
    BY <1>1, <1>2, <1>5, ListNodeIs DEF ClientInv
  <1> QED BY <1>6, EmptySeq DEF Init, ScreenInv

LEMMA NextKeeps ==
  ASSUME RowsInv, [Next]_vars
  PROVE  RowsInv'
  <1> SUFFICES ASSUME ~slip' PROVE ClientInv' /\ ScreenInv'
    BY DEF RowsInv
  <1>1. ~slip
    BY DEF Next, vars, Serve, Load, Add, Remove, Reopen, Restart, Execute, Answer,
       Refuse, Lose
  <1>2. ClientInv /\ ScreenInv
    BY <1>1 DEF RowsInv
  <1>3. (UNCHANGED clientVars /\ UNCHANGED node) => ClientInv'
    <2> SUFFICES ASSUME UNCHANGED <<clientVars, node>> PROVE ClientInv'
      OBVIOUS
    <2>1. UNCHANGED <<server, writes, executed, reached, node>>
      BY DEF clientVars
    <2>2. PICK h : History(h)
      BY <1>2 DEF ClientInv
    <2>3. History(h)'
      BY <2>1, <2>2 DEF History
    <2> QED BY <1>2, <2>1, <2>3 DEF ClientInv
  <1>4. CASE Serve
    BY <1>2, <1>3, <1>4 DEF Serve, ScreenInv
  <1>5. CASE Load
    BY <1>2, <1>5, LoadKeeps
  <1>6. ASSUME NEW x \in Interests, Add(x)
        PROVE  ClientInv' /\ ScreenInv'
    BY <1>2, <1>6, AddKeeps
  <1>7. ASSUME NEW i \in DOMAIN rows, Remove(i)
        PROVE  ClientInv' /\ ScreenInv'
    BY <1>2, <1>7, RemoveKeeps
  <1>8. CASE Reopen
    BY <1>3, <1>8, EmptySeq DEF Reopen, ScreenInv
  <1>9. CASE Restart
    <2>1. ~(executed < reached)
      BY <1>9, Zenon DEF Restart
    <2>2. executed = reached
      BY <1>2, <2>1 DEF ClientInv
    <2>3. ClientInv'
      BY <1>2, <1>9, <2>2, RestartKeeps
    <2> QED BY <1>9, <2>3, EmptySeq DEF Restart, ScreenInv
  <1>10. CASE Execute \/ Answer \/ Lose
    <2>1. ClientInv' /\ UNCHANGED <<node, rows, reading, read>>
      BY <1>2, <1>10, ExecuteKeeps, AnswerKeeps, LoseKeeps
         DEF Execute, Answer, Lose, screenVars
    <2> QED BY <1>2, <2>1 DEF ScreenInv
  <1>11. CASE Refuse
    BY <1>11 DEF Refuse
  <1>12. CASE UNCHANGED vars
    BY <1>2, <1>3, <1>12 DEF vars, screenVars, ScreenInv
  <1> QED BY <1>4, <1>5, <1>6, <1>7, <1>8, <1>9, <1>10, <1>11, <1>12 DEF Next

LEMMA RowsInvariant == Spec => []RowsInv
  <1>1. RowsInv /\ [Next]_vars => RowsInv'
    BY NextKeeps
  <1> QED BY InitKeeps, <1>1, PTL DEF Spec

\* The rows are the list the client shows, for any user, any delays, lost
\* connections, logins and restarts, and a restarted app finds a list without a
\* hole: but for an edit before the list is loaded, a removal of a row that is
\* not the last, a refused write and a restart while the server repeats writes
\* (addInterest and removeInterest, ProfileViewController.swift:88-116).
THEOREM RowsStayTheList == Spec => []RowsAreTheList
  <1>1. ASSUME RowsInv
        PROVE  RowsAreTheList
    <2> SUFFICES ASSUME ~slip
                 PROVE  /\ reading = "done" => node = AsNode(rows)
                        /\ executed = reached => ~HasHole(server)
      BY DEF RowsAreTheList
    <2>1. ClientInv /\ ScreenInv
      BY <1>1 DEF RowsInv
    <2>2. PICK h : History(h)
      BY <2>1 DEF ClientInv
    <2>3. reached + 1 \in 1..(Len(writes) + 1)
      BY <2>1, <2>2, HistoryTypes DEF ClientInv
    <2>4. executed = reached => server \in ListNodes
      BY <2>1, <2>2, <2>3, HistoryTypes
    <2> QED BY <2>1, <2>4, ListNodeIs DEF ScreenInv
  <1> QED BY <1>1, RowsInvariant, PTL
=============================================================================
