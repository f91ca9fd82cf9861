-------------------------- MODULE BuddyListsProofs --------------------------
(***************************************************************************)
(* Theorems about the buddies of the signed-in user and their proofs, for  *)
(* any finite set of users, any list at the start and any bounds.          *)
(***************************************************************************)
EXTENDS BuddyLists, ListNodeProofs

-----------------------------------------------------------------------------
(* Queues.                                                                 *)

\* What waits in a queue.
In(q) == {q[i] : i \in DOMAIN q}

LEMMA Appending ==
  ASSUME NEW S, NEW q \in Seq(S), NEW b \in S
  PROVE  /\ Append(q, b) \in Seq(S) /\ Append(q, b) # <<>>
         /\ In(Append(q, b)) = In(q) \cup {b}
  <1> DEFINE r == Append(q, b)
  <1>1. /\ r \in Seq(S) /\ Len(r) = Len(q) + 1 /\ Len(q) \in Nat
        /\ \A i \in 1..Len(q) : r[i] = q[i]
        /\ r[Len(q) + 1] = b
    BY AppendProperties, LenProperties
  <1>2. DOMAIN q = 1..Len(q) /\ DOMAIN r = 1..(Len(q) + 1)
    BY <1>1, LenProperties
  <1> HIDE DEF r
  <1>3. 1..(Len(q) + 1) = 1..Len(q) \cup {Len(q) + 1}
    BY <1>1
  <1>4. In(r) = In(q) \cup {b}
    BY <1>1, <1>2, <1>3 DEF In
  <1>5. r # <<>>
    BY <1>1, EmptySeq
  <1> QED BY <1>1, <1>4, <1>5 DEF r

LEMMA Consuming ==
  ASSUME NEW S, NEW q \in Seq(S), q # <<>>
  PROVE  /\ Head(q) \in S /\ Tail(q) \in Seq(S)
         /\ In(q) = In(Tail(q)) \cup {Head(q)}
  <1> DEFINE r == Tail(q)
  <1>1. /\ r \in Seq(S) /\ Len(q) \in Nat /\ Len(q) > 0 /\ Len(r) = Len(q) - 1
        /\ DOMAIN q = 1..Len(q) /\ DOMAIN r = 1..(Len(q) - 1)
        /\ Head(q) = q[1] /\ Head(q) \in S
    BY HeadTailProperties, EmptySeq, LenProperties
  <1>2. \A i \in 1..(Len(q) - 1) : r[i] = q[i + 1]
    BY <1>1
  <1>3. \A i \in 1..Len(q) : i = 1 \/ (i - 1 \in 1..(Len(q) - 1) /\ r[i - 1] = q[i])
    <2> TAKE i \in 1..Len(q)
    <2>1. i = 1 \/ (i - 1 \in 1..(Len(q) - 1) /\ (i - 1) + 1 = i)
      BY <1>1
    <2> QED BY <1>2, <2>1
  <1> HIDE DEF r
  <1>4. \A i \in 1..(Len(q) - 1) : i + 1 \in 1..Len(q)
    BY <1>1
  <1>5. 1 \in 1..Len(q)
    BY <1>1
  <1>6. In(q) \subseteq In(r) \cup {q[1]}
    BY <1>1, <1>3 DEF In
  <1>7. In(r) \cup {q[1]} \subseteq In(q)
    BY <1>1, <1>2, <1>4, <1>5 DEF In
  <1> QED BY <1>1, <1>6, <1>7 DEF r

LEMMA EmptyQueue ==
  In(<<>>) = {}
  BY DEF In

-----------------------------------------------------------------------------
(* Types.  Nobody is in the list twice, nor in any snapshot that waits: that *)
(* also bounds the keys, since a list of distinct ids is no longer than      *)
(* there are ids.                                                            *)

Keys  == 0..Cardinality(Users)
Lists == {n \in UNION {[D -> Ids] : D \in SUBSET Keys} : Distinct(n)}
Kinds == {"button", "old", "follow", "list"}
Blocks == [kind : Kinds, list : Lists, pressed : Ids]
Bounds == {"sheets", "presses", "removals", "appears"}

TypeInv ==
  /\ node \in Lists
  /\ target \in Ids /\ (sheet => target \in Users)
  /\ sheet \in BOOLEAN /\ button \in {"follow", "hidden"}
  /\ watched \in BOOLEAN /\ told \in BOOLEAN /\ running \in BOOLEAN
  /\ patient \in BOOLEAN
  /\ follows \in Seq(Users) /\ lists \in Nat
  /\ queue \in Seq(Blocks)
  /\ rows \in Seq(Users \ Unreadable)
  /\ fetches \in [Users -> Nat]
  /\ listed \subseteq Users
  /\ budget \in [Bounds -> Nat]

\* A node of distinct ids: a function from some of the keys to the ids.
LEMMA NodeIsList ==
  ASSUME NEW n
  PROVE  n \in Lists <=> /\ n \in [DOMAIN n -> Ids]
                         /\ DOMAIN n \in SUBSET Keys
                         /\ Distinct(n)
  BY DEF Lists

LEMMA KeysFinite ==
  /\ Cardinality(Users) \in Nat /\ Keys \in SUBSET Nat
  /\ \A D \in SUBSET Keys : IsFiniteSet(D) /\ D \in SUBSET Nat
  /\ IsFiniteSet(Ids) /\ Cardinality(Ids) = Cardinality(Users) + 1
  <1>1. Cardinality(Users) \in Nat
    BY FiniteAssumption, FS_CardinalityType
  <1>2. IsFiniteSet(Keys) /\ Keys \in SUBSET Nat
    BY <1>1, FS_Interval DEF Keys
  <1>3. \A D \in SUBSET Keys : IsFiniteSet(D) /\ D \in SUBSET Nat
    BY <1>2, FS_Subset
  <1>4. IsFiniteSet(Ids) /\ Cardinality(Ids) = Cardinality(Users) + 1
    BY FiniteAssumption, IdsAssumption, FS_AddElement DEF Ids
  <1> QED BY <1>1, <1>2, <1>3, <1>4

\* What is read of such a node.
LEMMA ReadList ==
  ASSUME NEW n \in Lists
  PROVE  /\ Children(n) \in Seq(Ids) /\ Distinct(Children(n))
         /\ \A x : InSeq(x, Children(n)) <=> x \in Stored(n)
         /\ Stored(n) \subseteq Ids
  <1>1. /\ n \in [DOMAIN n -> Ids] /\ DOMAIN n \in SUBSET Keys /\ Distinct(n)
    BY NodeIsList
  <1>2. DOMAIN n \in SUBSET Nat /\ IsFiniteSet(DOMAIN n)
    BY <1>1, KeysFinite
  <1>3. \A k \in DOMAIN n : n[k] \in Ids
    BY <1>1
  <1>4. Stored(n) \subseteq Ids
    BY <1>3 DEF Stored
  <1> QED BY <1>1, <1>2, <1>3, <1>4, ChildrenType

\* What a list of distinct ids is written as.
LEMMA WrittenList ==
  ASSUME NEW s \in Seq(Ids), Distinct(s)
  PROVE  AsNode(s) \in Lists
  <1>1. /\ DOMAIN AsNode(s) = 0..(Len(s) - 1)
        /\ AsNode(s) \in [0..(Len(s) - 1) -> Ids]
        /\ Distinct(AsNode(s))
    BY NodeOfList
  <1>2. Len(s) \in Nat /\ DOMAIN s = 1..Len(s) /\ s \in [1..Len(s) -> Ids]
    BY LenProperties
  <1>3. Len(s) <= Cardinality(Users) + 1
    <2>1. s \in Injection(1..Len(s), Ids)
      BY <1>2 DEF Injection, IsInjective, Distinct
    <2>2. Cardinality(1..Len(s)) <= Cardinality(Ids)
      BY <2>1, KeysFinite, FS_Injection
    <2>3. Cardinality(1..Len(s)) = Len(s)
      BY <1>2, FS_Interval
    <2> QED BY <2>2, <2>3, KeysFinite
  <1>4. 0..(Len(s) - 1) \in SUBSET Keys
    BY <1>2, <1>3, KeysFinite DEF Keys
  <1> QED BY <1>1, <1>4, NodeIsList

\* A child less.
LEMMA RemovedChild ==
  ASSUME NEW n \in Lists, NEW k
  PROVE  WithoutChild(n, k) \in Lists /\ Stored(WithoutChild(n, k)) \subseteq Stored(n)
  <1> DEFINE m == WithoutChild(n, k)
  <1>1. /\ n \in [DOMAIN n -> Ids] /\ DOMAIN n \in SUBSET Keys /\ Distinct(n)
    BY NodeIsList
  <1>2. /\ DOMAIN m = DOMAIN n \ {k} /\ \A j \in DOMAIN m : m[j] = n[j]
        /\ m \in [DOMAIN n \ {k} -> Ids]
    BY <1>1 DEF WithoutChild
  <1> HIDE DEF m
  <1>3. Distinct(m) /\ Stored(m) \subseteq Stored(n)
    BY <1>1, <1>2 DEF Distinct, Stored
  <1> QED BY <1>1, <1>2, <1>3, NodeIsList DEF m

\* What addBuddy makes of a list: distinct ids again, never none, and all the
\* others as they were.
LEMMA ToggledList ==
  ASSUME NEW s \in Seq(Ids), Distinct(s), target \in Ids
  PROVE  /\ Toggled(s) \in Seq(Ids) /\ Distinct(Toggled(s)) /\ Toggled(s) # <<>>
         /\ ~InSeq(target, s) =>
              \A x : InSeq(x, Toggled(s)) <=> InSeq(x, s) \/ x = target
  <1>1. CASE ~InSeq(target, s)
    <2> DEFINE t == Append(s, target)
    <2>1. /\ t \in Seq(Ids) /\ t # <<>> /\ Len(t) = Len(s) + 1 /\ Len(s) \in Nat
          /\ DOMAIN t = 1..(Len(s) + 1) /\ DOMAIN s = 1..Len(s)
          /\ \A i \in 1..Len(s) : t[i] = s[i]
          /\ t[Len(s) + 1] = target
      BY Appending, AppendProperties, LenProperties
    <2>2. Toggled(s) = t
      BY <1>1 DEF Toggled
    <2> HIDE DEF t
    <2>3. \A i \in 1..(Len(s) + 1) : i \in 1..Len(s) \/ i = Len(s) + 1
      BY <2>1
    <2>4. \A i \in 1..Len(s) : i \in 1..(Len(s) + 1) /\ s[i] # target
      BY <1>1, <2>1 DEF InSeq
    <2>5. Distinct(t)
      <3> SUFFICES ASSUME NEW i \in 1..(Len(s) + 1), NEW j \in 1..(Len(s) + 1),
                          t[i] = t[j]
                   PROVE  i = j
        BY <2>1 DEF Distinct
      <3> QED BY <2>1, <2>3, <2>4 DEF Distinct
    <2>6. Len(s) + 1 \in 1..(Len(s) + 1)
      BY <2>1
    <2>7. \A x : InSeq(x, t) <=> InSeq(x, s) \/ x = target
      BY <2>1, <2>3, <2>4, <2>6 DEF InSeq
    <2> QED BY <2>1, <2>2, <2>5, <2>7
  <1>2. CASE InSeq(target, s) /\ Without(s, target) = <<>>
    <2>1. Toggled(s) = <<Empty>>
      BY <1>2 DEF Toggled
    <2>2. Empty \in Ids
      BY DEF Ids
    <2>3. <<Empty>> \in Seq(Ids) /\ Distinct(<<Empty>>) /\ <<Empty>> # <<>>
      BY <2>2 DEF Distinct
    <2> QED BY <1>2, <2>1, <2>3
  <1>3. CASE InSeq(target, s) /\ Without(s, target) # <<>>
    <2>1. Toggled(s) = Without(s, target)
      BY <1>3 DEF Toggled
    <2> QED BY <1>3, <2>1, WithoutProperties
  <1> QED BY <1>1, <1>2, <1>3

-----------------------------------------------------------------------------
(* Steps that several actions share.                                       *)

LEMMA BlockType ==
  ASSUME NEW kind \in Kinds, NEW list \in Lists, NEW who \in Ids
  PROVE  /\ Block(kind, list, who) \in Blocks
         /\ Block(kind, list, who).kind = kind
         /\ Block(kind, list, who).list = list
         /\ Block(kind, list, who).pressed = who
  BY DEF Block, Blocks

\* The block a change of the node queues for the observers.
Told(n) == Block(IF told THEN "button" ELSE "old", n, Empty)

LEMMA ToldType ==
  ASSUME TypeInv, NEW n \in Lists
  PROVE  /\ Told(n) \in Blocks /\ Told(n).list = n
         /\ Told(n).kind = IF told THEN "button" ELSE "old"
  <1>1. Empty \in Ids /\ (IF told THEN "button" ELSE "old") \in Kinds
    BY DEF Ids, Kinds
  <1> QED BY <1>1, BlockType DEF Told

\* A write shows at once and queues at most that block.
LEMMA Writing ==
  ASSUME TypeInv, NEW n \in Lists, NEW blocks \in Seq(Blocks), SetNode(n, blocks)
  PROVE  /\ node' = n /\ node' \in Lists
         /\ queue' \in Seq(Blocks)
         /\ In(blocks) \subseteq In(queue')
         /\ In(queue') \subseteq In(blocks) \cup {Told(n)}
         /\ n # node /\ watched => queue' = Append(blocks, Told(n))
                                   /\ Told(n) \in In(queue')
         /\ ~(n # node /\ watched) => queue' = blocks
  <1>1. Told(n) \in Blocks
    BY ToldType
  <1>2. /\ node' = n
        /\ queue' = IF n # node /\ watched THEN Append(blocks, Told(n)) ELSE blocks
    BY DEF SetNode, Told
  <1>3. /\ Append(blocks, Told(n)) \in Seq(Blocks)
        /\ In(Append(blocks, Told(n))) = In(blocks) \cup {Told(n)}
    BY <1>1, Appending
  <1> QED BY <1>2, <1>3

\* A step of the user takes one from a bound and changes no flag.
LEMMA UserStep ==
  ASSUME TypeInv, NEW b \in Bounds, User(b)
  PROVE  /\ budget' \in [Bounds -> Nat]
         /\ \A c \in Bounds : budget'[c] = budget[c] - (IF c = b THEN 1 ELSE 0)
         /\ running /\ running' = running /\ patient' = patient
         /\ patient => Quiet
  BY DEF TypeInv, User

\* The renaming of the blocks of sheets that are gone.
LEMMA Renaming ==
  ASSUME NEW q \in Seq(Blocks)
  PROVE  LET r == [i \in DOMAIN q |->
                     IF q[i].kind = "button"
                       THEN [q[i] EXCEPT !.kind = "old"] ELSE q[i]]
         IN  /\ r \in Seq(Blocks)
             /\ \A b \in In(r) : \E c \in In(q) : b.list = c.list
             /\ \A c \in In(q) : c.kind = "list" => c \in In(r)
             /\ q = <<>> => r = <<>>
  <1> DEFINE new(b) == IF b.kind = "button" THEN [b EXCEPT !.kind = "old"] ELSE b
             r == [i \in DOMAIN q |->
                     IF q[i].kind = "button"
                       THEN [q[i] EXCEPT !.kind = "old"] ELSE q[i]]
  <1>1. Len(q) \in Nat /\ DOMAIN q = 1..Len(q)
        /\ \A i \in 1..Len(q) : q[i] \in Blocks
    BY LenProperties, ElementOfSeq
  <1>2. \A b \in Blocks :
          /\ new(b) \in Blocks /\ new(b).list = b.list
          /\ b.kind = "list" => new(b) = b
    BY DEF Blocks, Kinds
  <1>3. \A i \in 1..Len(q) : r[i] = new(q[i])
    BY <1>1
  <1>4. r \in [1..Len(q) -> Blocks]
    BY <1>1, <1>2
  <1>5. r \in Seq(Blocks)
    BY <1>1, <1>4, SeqDef
  <1>6. \A i \in 1..Len(q) :
          /\ r[i].list = q[i].list
          /\ q[i].kind = "list" => r[i] = q[i]
    BY <1>1, <1>2, <1>3
  <1>7. DOMAIN r = 1..Len(q)
    OBVIOUS
  <1> HIDE DEF r
  <1>8. \A b \in In(r) : \E c \in In(q) : b.list = c.list
    BY <1>1, <1>6, <1>7 DEF In
  <1>9. \A c \in In(q) : c.kind = "list" => c \in In(r)
    BY <1>1, <1>6, <1>7 DEF In
  <1>10. q = <<>> => r = <<>>
    BY <1>5, <1>7, <1>1, EmptySeq, LenProperties
  <1> QED BY <1>5, <1>8, <1>9, <1>10 DEF r

-----------------------------------------------------------------------------
(* Each action keeps the types.                                            *)

LEMMA OpenSheetType ==
  ASSUME TypeInv, NEW u \in Users, OpenSheet(u)
  PROVE  TypeInv'
  <1>1. "sheets" \in Bounds
    BY DEF Bounds
  <1>2. budget' \in [Bounds -> Nat] /\ running' = running /\ patient' = patient
    BY <1>1, UserStep DEF OpenSheet
  <1>3. queue' \in Seq(Blocks)
    BY Renaming DEF OpenSheet, TypeInv
  <1>4. u \in Ids
    BY DEF Ids
  <1> QED BY <1>2, <1>3, <1>4 DEF OpenSheet, profileVars, TypeInv

LEMMA PressType ==
  ASSUME TypeInv, Press
  PROVE  TypeInv'
  <1>1. "presses" \in Bounds
    BY DEF Bounds
  <1>2. budget' \in [Bounds -> Nat] /\ running' = running /\ patient' = patient
    BY <1>1, UserStep DEF Press
  <1>3. follows' \in Seq(Users)
    BY Appending DEF Press, TypeInv
  <1> QED BY <1>2, <1>3 DEF Press, sheetVars, profileVars, TypeInv

LEMMA AppearType ==
  ASSUME TypeInv, Appear
  PROVE  TypeInv'
  <1>1. "appears" \in Bounds
    BY DEF Bounds
  <1>2. budget' \in [Bounds -> Nat] /\ running' = running /\ patient' = patient
    BY <1>1, UserStep DEF Appear
  <1>3. rows' \in Seq(Users \ Unreadable)
    BY EmptySeq DEF Appear
  <1> QED BY <1>2, <1>3 DEF Appear, sheetVars, TypeInv

\* Serving a read or an observer queues a block with the node.
LEMMA ServeType ==
  ASSUME TypeInv, NEW kind \in Kinds, NEW who \in Ids,
         queue' = Append(queue, Block(kind, node, who))
  PROVE  /\ queue' \in Seq(Blocks) /\ queue' # <<>>
         /\ In(queue') = In(queue) \cup {Block(kind, node, who)}
  <1>1. Block(kind, node, who) \in Blocks
    BY BlockType DEF TypeInv
  <1> QED BY <1>1, Appending DEF TypeInv

LEMMA Serving ==
  ASSUME TypeInv, ServeObserver \/ ServeFollow \/ ServeList
  PROVE  \E kind \in Kinds, who \in Ids :
           queue' = Append(queue, Block(kind, node, who))
  <1>1. {"button", "follow", "list"} \subseteq Kinds /\ Empty \in Ids
    BY DEF Kinds, Ids
  <1>2. ServeFollow => Head(follows) \in Ids
    BY Consuming DEF ServeFollow, TypeInv, Ids
  <1> QED BY <1>1, <1>2 DEF ServeObserver, ServeFollow, ServeList

LEMMA ServesType ==
  ASSUME TypeInv, ServeObserver \/ ServeFollow \/ ServeList
  PROVE  TypeInv'
  <1>1. {"button", "follow", "list"} \subseteq Kinds /\ Empty \in Ids /\ Users \subseteq Ids
    BY DEF Kinds, Ids
  <1>2. CASE ServeObserver
    <2>1. queue' \in Seq(Blocks)
      BY <1>1, <1>2, ServeType DEF ServeObserver
    <2> QED BY <1>2, <2>1 DEF ServeObserver, profileVars, TypeInv
  <1>3. CASE ServeFollow
    <2>1. follows' \in Seq(Users) /\ Head(follows) \in Ids
      BY <1>1, <1>3, Consuming DEF ServeFollow, TypeInv
    <2>2. queue' \in Seq(Blocks)
      BY <1>1, <1>3, <2>1, ServeType DEF ServeFollow
    <2> QED BY <1>3, <2>1, <2>2 DEF ServeFollow, sheetVars, profileVars, TypeInv
  <1>4. CASE ServeList
    <2>1. queue' \in Seq(Blocks)
      BY <1>1, <1>4, ServeType DEF ServeList
    <2> QED BY <1>4, <2>1 DEF ServeList, sheetVars, profileVars, TypeInv
  <1> QED BY <1>2, <1>3, <1>4

\* The block at the head of the queue.
LEMMA HeadType ==
  ASSUME TypeInv, NEW kind, Next1(kind)
  PROVE  /\ Head(queue) \in Blocks /\ Head(queue).list \in Lists
         /\ Head(queue).kind = kind /\ running
         /\ Tail(queue) \in Seq(Blocks)
         /\ In(queue) = In(Tail(queue)) \cup {Head(queue)}
  <1>1. /\ Head(queue) \in Blocks /\ Tail(queue) \in Seq(Blocks)
        /\ In(queue) = In(Tail(queue)) \cup {Head(queue)}
    BY Consuming DEF Next1, TypeInv
  <1> QED BY <1>1 DEF Next1, Blocks

LEMMA HandleObserverType ==
  ASSUME TypeInv, HandleObserver
  PROVE  TypeInv'
  <1>1. queue' \in Seq(Blocks)
    BY HeadType DEF HandleObserver
  <1>2. button' \in {"follow", "hidden"}
    BY DEF HandleObserver, ButtonAfter, TypeInv
  <1> QED BY <1>1, <1>2 DEF HandleObserver, profileVars, TypeInv

\* What a press writes back.
LEMMA FollowWrites ==
  ASSUME TypeInv, HandleFollow
  PROVE  /\ AsNode(Toggled(Children(Head(queue).list))) \in Lists
         /\ CastsToStrings(AsNode(Toggled(Children(Head(queue).list))))
  <1> DEFINE s == Children(Head(queue).list)
  <1>1. s \in Seq(Ids) /\ Distinct(s)
    BY HeadType, ReadList DEF HandleFollow
  <1>2. Toggled(s) \in Seq(Ids) /\ Distinct(Toggled(s)) /\ Toggled(s) # <<>>
    BY <1>1, ToggledList DEF TypeInv
  <1> QED BY <1>2, WrittenList, ListCasts

LEMMA HandleFollowType ==
  ASSUME TypeInv, HandleFollow
  PROVE  TypeInv'
  <1>1. Tail(queue) \in Seq(Blocks)
    BY HeadType DEF HandleFollow
  <1>2. node' \in Lists /\ queue' \in Seq(Blocks)
    BY <1>1, FollowWrites, Writing DEF HandleFollow
  <1> QED BY <1>2 DEF HandleFollow, sheetVars, profileVars, TypeInv

\* A list the profile does not trap over holds users.
LEMMA ListsUsers ==
  ASSUME TypeInv, HandleList
  PROVE  listed' \subseteq Users
  <1>1. Head(queue).list \in Lists
    BY HeadType DEF HandleList
  <1>2. Empty \notin Stored(Head(queue).list)
    BY DEF HandleList, Next1, Traps
  <1> QED BY <1>1, <1>2, ReadList DEF HandleList, Ids

LEMMA HandleListType ==
  ASSUME TypeInv, HandleList
  PROVE  TypeInv'
  <1>1. queue' \in Seq(Blocks)
    BY HeadType DEF HandleList
  <1>2. listed' \subseteq Users
    BY ListsUsers
  <1>3. fetches' \in [Users -> Nat]
    BY DEF HandleList, TypeInv
  <1> QED BY <1>1, <1>2, <1>3 DEF HandleList, sheetVars, TypeInv

LEMMA AnswerType ==
  ASSUME TypeInv, NEW u \in Users, Answer(u)
  PROVE  TypeInv'
  <1>1. rows' \in Seq(Users \ Unreadable)
    BY Appending DEF Answer, TypeInv
  <1>2. fetches' \in [Users -> Nat]
    BY DEF Answer, TypeInv
  <1> QED BY <1>1, <1>2 DEF Answer, sheetVars, TypeInv

\* Removing a buddy: a row less, and at most a child less.
LEMMA RemoveStep ==
  ASSUME TypeInv, NEW i \in DOMAIN rows, Remove(i)
  PROVE  \E k \in 1..Len(rows) :
           /\ rows[k] = rows[i] /\ rows' = Drop(rows, k)
           /\ rows' \in Seq(Users \ Unreadable)
           /\ WithoutChild(node, k - 1) \in Lists
           /\ SetNode(WithoutChild(node, k - 1), queue)
  <1> DEFINE k == First(rows, rows[i])
  <1>1. k \in 1..Len(rows) /\ rows[k] = rows[i]
    BY FirstIsThere DEF TypeInv
  <1>2. rows' = Drop(rows, k) /\ SetNode(WithoutChild(node, k - 1), queue)
    BY DEF Remove
  <1>3. Drop(rows, k) \in Seq(Users \ Unreadable)
    BY <1>1, DropProperties DEF TypeInv
  <1>4. WithoutChild(node, k - 1) \in Lists
    BY RemovedChild DEF TypeInv
  <1> QED BY <1>1, <1>2, <1>3, <1>4

LEMMA RemoveType ==
  ASSUME TypeInv, NEW i \in DOMAIN rows, Remove(i)
  PROVE  TypeInv'
  <1>1. "removals" \in Bounds
    BY DEF Bounds
  <1>2. budget' \in [Bounds -> Nat] /\ running' = running /\ patient' = patient
    BY <1>1, UserStep DEF Remove
  <1>3. PICK k \in 1..Len(rows) :
          /\ rows' \in Seq(Users \ Unreadable)
          /\ WithoutChild(node, k - 1) \in Lists
          /\ SetNode(WithoutChild(node, k - 1), queue)
    BY RemoveStep
  <1>4. node' \in Lists /\ queue' \in Seq(Blocks)
    BY <1>3, Writing DEF TypeInv
  <1> QED BY <1>2, <1>3, <1>4 DEF Remove, sheetVars, TypeInv

LEMMA InitType == Init => TypeInv
  <1> SUFFICES ASSUME Init PROVE TypeInv
    OBVIOUS
  <1>1. node \in Lists
    BY StartAssumption, WrittenList DEF Init, Ids, Distinct
  <1>2. budget \in [Bounds -> Nat]
    BY BoundsAssumption DEF Init, Bounds
  <1> QED BY <1>1, <1>2, EmptySeq DEF Init, TypeInv, Ids

LEMMA NextType ==
  ASSUME TypeInv, [Next]_buddyVars
  PROVE  TypeInv'
  <1>1. ASSUME NEW u \in Users \ Unreadable, OpenSheet(u)
        PROVE  TypeInv'
    BY <1>1, OpenSheetType
  <1>2. CASE CloseSheet
    BY <1>2 DEF CloseSheet, profileVars, TypeInv
  <1>3. CASE Press
    BY <1>3, PressType
  <1>4. CASE ServeObserver \/ ServeFollow \/ ServeList
    BY <1>4, ServesType
  <1>5. CASE Trap
    BY <1>5 DEF Trap, sheetVars, profileVars, TypeInv
  <1>6. CASE HandleObserver
    BY <1>6, HandleObserverType
  <1>7. CASE HandleFollow
    BY <1>7, HandleFollowType
  <1>8. CASE Appear
    BY <1>8, AppearType
  <1>9. CASE HandleList
    BY <1>9, HandleListType
  <1>10. ASSUME NEW u \in Users, Answer(u)
         PROVE  TypeInv'
    BY <1>10, AnswerType
  <1>11. ASSUME NEW i \in DOMAIN rows, Remove(i)
         PROVE  TypeInv'
    BY <1>11, RemoveType
  <1>12. CASE UNCHANGED buddyVars
    BY <1>12 DEF buddyVars, sheetVars, profileVars, TypeInv
  <1> QED BY <1>1, <1>2, <1>3, <1>4, <1>5, <1>6, <1>7, <1>8, <1>9, <1>10, <1>11,
             <1>12 DEF Next

LEMMA TypeInvariant == Spec => []TypeInv
  BY InitType, NextType, PTL DEF Spec

\* The screens and the list hold what they are declared to hold, and no list of
\* distinct ids outgrows the ids (BuddyDetailsViewController, ProfileViewController).
THEOREM TypeCorrect == Spec => []TypeOK
  <1>1. ASSUME TypeInv
        PROVE  TypeOK
    <2>1. \A n \in Lists : IsNode(n)
      BY NodeIsList DEF IsNode, Keys
    <2>2. \A i \in DOMAIN queue : queue[i].list \in Lists
      <3>1. queue \in Seq(Blocks)
        BY <1>1 DEF TypeInv
      <3>2. DOMAIN queue = 1..Len(queue)
            /\ \A i \in 1..Len(queue) : queue[i] \in Blocks
        BY <3>1, LenProperties, ElementOfSeq
      <3> QED BY <3>2 DEF Blocks
    <2> QED BY <1>1, <2>1, <2>2 DEF TypeInv, TypeOK, Bounds
  <1> QED BY <1>1, TypeInvariant, PTL

\* Nobody is followed twice, whatever stale list a press writes back
\* (addBuddy, BuddyDetailsViewController.swift:65-86).
THEOREM NobodyEverTwice == Spec => []NobodyTwice
  <1>1. TypeInv => NobodyTwice
    BY NodeIsList DEF TypeInv, NobodyTwice, Distinct
  <1> QED BY <1>1, TypeInvariant, PTL

-----------------------------------------------------------------------------
(* Following never makes the record unreadable for the sheets.             *)

\* What an app that has trapped was about to do: ask for a child with no id.
AsksForNobody ==
  /\ Head(queue).kind = "list"
  /\ Empty \in Stored(Head(queue).list)

\* As long as nothing was removed on the profile, the list and every snapshot
\* of it that waits cast to [String], and nothing but the empty id trapped.
CastInv ==
  /\ budget.removals <= MaxRemovals
  /\ budget.removals = MaxRemovals =>
       /\ CastsToStrings(node)
       /\ \A b \in In(queue) : CastsToStrings(b.list)
       /\ running \/ AsksForNobody

\* A step that spends no removal and queues only what casts.
LEMMA CastKept ==
  ASSUME TypeInv, CastInv, budget'.removals = budget.removals, running',
         CastsToStrings(node) => CastsToStrings(node'),
         \A b \in In(queue') : b \in In(queue) \/ b.list = node \/ b.list = node'
  PROVE  CastInv'
  BY DEF CastInv

LEMMA NextCast ==
  ASSUME TypeInv, CastInv, [Next]_buddyVars
  PROVE  CastInv'
  <1> USE DEF Bounds
  <1>1. ASSUME NEW u \in Users \ Unreadable, OpenSheet(u)
        PROVE  CastInv'
    <2>1. budget'.removals = budget.removals /\ running'
      BY <1>1, UserStep DEF OpenSheet, TypeInv
    <2>2. \A b \in In(queue') : \E c \in In(queue) : b.list = c.list
      BY <1>1, Renaming DEF OpenSheet, TypeInv
    <2> QED BY <1>1, <2>1, <2>2 DEF OpenSheet, CastInv
  <1>2. CASE CloseSheet
    BY <1>2 DEF CloseSheet, CastInv
  <1>3. CASE Press
    <2>1. budget'.removals = budget.removals /\ running'
      BY <1>3, UserStep DEF Press, TypeInv
    <2> QED BY <1>3, <2>1 DEF Press, CastInv
  <1>4. CASE ServeObserver \/ ServeFollow \/ ServeList
    <2>1. \E kind \in Kinds, who \in Ids :
            queue' = Append(queue, Block(kind, node, who))
      BY <1>4, Serving
    <2>2. \A b \in In(queue') : b \in In(queue) \/ b.list = node
      <3>1. PICK kind \in Kinds, who \in Ids :
              queue' = Append(queue, Block(kind, node, who))
        BY <2>1
      <3>2. In(queue') = In(queue) \cup {Block(kind, node, who)}
        BY <3>1, ServeType
      <3>3. Block(kind, node, who).list = node
        BY BlockType DEF TypeInv
      <3> QED BY <3>2, <3>3
    <2> QED BY <1>4, <2>2, CastKept DEF ServeObserver, ServeFollow, ServeList
  <1>5. CASE Trap
    <2>1. Head(queue) \in In(queue)
      BY <1>5, HeadType DEF Trap, Next1
    <2>2. budget.removals = MaxRemovals => AsksForNobody
      BY <1>5, <2>1 DEF CastInv, Trap, Traps, AsksForNobody
    <2> QED BY <1>5, <2>2 DEF Trap, CastInv, AsksForNobody
  <1>6. CASE HandleObserver \/ HandleList
    <2>1. In(queue') \subseteq In(queue) /\ running
      BY <1>6, HeadType DEF HandleObserver, HandleList
    <2> QED BY <1>6, <2>1, CastKept DEF HandleObserver, HandleList
  <1>7. CASE HandleFollow
    <2>1. /\ Tail(queue) \in Seq(Blocks) /\ In(Tail(queue)) \subseteq In(queue)
          /\ running
      BY <1>7, HeadType DEF HandleFollow
    <2>2. /\ node' \in Lists /\ CastsToStrings(node')
          /\ In(queue') \subseteq In(Tail(queue)) \cup {Told(node')}
      BY <1>7, <2>1, FollowWrites, Writing DEF HandleFollow
    <2>3. \A b \in In(queue') : b \in In(queue) \/ b.list = node'
      BY <2>1, <2>2, ToldType
    <2> QED BY <1>7, <2>1, <2>2, <2>3, CastKept DEF HandleFollow
  <1>8. CASE Appear
    <2>1. budget'.removals = budget.removals /\ running'
      BY <1>8, UserStep DEF Appear, TypeInv
    <2> QED BY <1>8, <2>1 DEF Appear, CastInv
  <1>9. ASSUME NEW u \in Users, Answer(u)
        PROVE  CastInv'
    BY <1>9 DEF Answer, CastInv
  <1>10. ASSUME NEW i \in DOMAIN rows, Remove(i)
         PROVE  CastInv'
    <2>1. budget'.removals = budget.removals - 1 /\ budget.removals \in Nat
      BY <1>10, UserStep DEF Remove, TypeInv
    <2>2. budget'.removals \in Int /\ budget'.removals < MaxRemovals
      BY <2>1, BoundsAssumption DEF CastInv
    <2> QED BY <2>2, BoundsAssumption DEF CastInv
  <1>11. CASE UNCHANGED buddyVars
    BY <1>11 DEF buddyVars, CastInv, AsksForNobody
  <1> QED BY <1>1, <1>2, <1>3, <1>4, <1>5, <1>6, <1>7, <1>8, <1>9, <1>10, <1>11
          DEF Next

LEMMA CastInvariant == Spec => []CastInv
  <1>1. Init => CastInv
    BY StartAssumption, BoundsAssumption, ListCasts, EmptyQueue DEF Init, CastInv
  <1>2. TypeInv /\ CastInv /\ [Next]_buddyVars => CastInv'
    BY NextCast
  <1> QED BY <1>1, <1>2, TypeInvariant, PTL DEF Spec

-----------------------------------------------------------------------------
(* No buddy read for the profile gets lost.                                *)

\* A buddy of the last list is in a row, or its read is open, or the next list
\* is on its way.
Due(u) ==
  \/ InSeq(u, rows) \/ fetches[u] > 0 \/ lists > 0
  \/ \E b \in In(queue) : b.kind = "list"

ShownInv == \A u \in listed \ Unreadable : Due(u)

LEMMA NextShown ==
  ASSUME TypeInv, ShownInv, [Next]_buddyVars
  PROVE  ShownInv'
  <1>1. ASSUME NEW u \in Users \ Unreadable, OpenSheet(u)
        PROVE  ShownInv'
    <2>1. \A c \in In(queue) : c.kind = "list" => c \in In(queue')
      BY <1>1, Renaming DEF OpenSheet, TypeInv
    <2> QED BY <1>1, <2>1 DEF OpenSheet, profileVars, ShownInv, Due
  <1>2. CASE CloseSheet \/ Press \/ Trap
    BY <1>2 DEF CloseSheet, Press, Trap, sheetVars, profileVars, ShownInv, Due
  <1>3. CASE ServeObserver \/ ServeFollow
    <2>1. \E kind \in Kinds, who \in Ids :
            queue' = Append(queue, Block(kind, node, who))
      BY <1>3, Serving
    <2>2. In(queue) \subseteq In(queue')
      BY <2>1, ServeType
    <2> QED BY <1>3, <2>2
            DEF ServeObserver, ServeFollow, sheetVars, profileVars, ShownInv, Due
  <1>4. CASE ServeList
    <2>1. "list" \in Kinds /\ Empty \in Ids
      BY DEF Kinds, Ids
    <2>2. queue' = Append(queue, Block("list", node, Empty))
      BY <1>4 DEF ServeList
    <2>3. Block("list", node, Empty) \in In(queue')
      BY <2>1, <2>2, ServeType
    <2>4. Block("list", node, Empty).kind = "list"
      BY DEF Block
    <2> QED BY <2>3, <2>4 DEF ShownInv, Due
  <1>5. CASE HandleObserver
    <2>1. In(queue) = In(queue') \cup {Head(queue)} /\ Head(queue).kind # "list"
      BY <1>5, HeadType DEF HandleObserver
    <2> QED BY <1>5, <2>1 DEF HandleObserver, profileVars, ShownInv, Due
  <1>6. CASE HandleFollow
    <2>1. /\ Tail(queue) \in Seq(Blocks) /\ Head(queue).kind # "list"
          /\ In(queue) = In(Tail(queue)) \cup {Head(queue)}
      BY <1>6, HeadType DEF HandleFollow
    <2>2. In(Tail(queue)) \subseteq In(queue')
      BY <1>6, <2>1, FollowWrites, Writing DEF HandleFollow
    <2> QED BY <1>6, <2>1, <2>2 DEF HandleFollow, profileVars, ShownInv, Due
  <1>7. CASE Appear
    <2>1. lists' > 0
      BY <1>7 DEF Appear, TypeInv
    <2> QED BY <2>1 DEF ShownInv, Due
  <1>8. CASE HandleList
    <2>1. listed' \subseteq Users
      BY <1>8, ListsUsers
    <2>2. \A u \in listed' : fetches'[u] > 0
      BY <1>8, <2>1 DEF HandleList, TypeInv
    <2> QED BY <2>2 DEF ShownInv, Due
  <1>9. ASSUME NEW u \in Users, Answer(u)
        PROVE  ShownInv'
    <2>1. listed' = listed /\ lists' = lists /\ queue' = queue
          /\ \A v \in Users \ {u} : fetches'[v] = fetches[v]
      BY <1>9 DEF Answer, TypeInv
    <2>2. \A v : InSeq(v, rows) => InSeq(v, rows')
      <3>1. CASE u \in Unreadable
        BY <1>9, <3>1 DEF Answer
      <3>2. CASE u \notin Unreadable
        <4>1. /\ rows' = Append(rows, u) /\ DOMAIN rows = 1..Len(rows)
              /\ DOMAIN rows' = 1..(Len(rows) + 1) /\ Len(rows) \in Nat
              /\ \A i \in 1..Len(rows) : rows'[i] = rows[i]
          BY <1>9, <3>2, AppendProperties, LenProperties DEF Answer, TypeInv
        <4> QED BY <4>1 DEF InSeq
      <3> QED BY <3>1, <3>2
    <2>3. u \notin Unreadable => InSeq(u, rows')
      <3> SUFFICES ASSUME u \notin Unreadable PROVE InSeq(u, rows')
        OBVIOUS
      <3>1. /\ rows' = Append(rows, u) /\ Len(rows) \in Nat
            /\ DOMAIN rows' = 1..(Len(rows) + 1)
            /\ rows'[Len(rows) + 1] = u
        BY <1>9, AppendProperties, LenProperties DEF Answer, TypeInv
      <3>2. Len(rows) + 1 \in DOMAIN rows'
        BY <3>1
      <3> QED BY <3>1, <3>2 DEF InSeq
    <2> QED BY <2>1, <2>2, <2>3 DEF ShownInv, Due, TypeInv
  <1>10. ASSUME NEW i \in DOMAIN rows, Remove(i)
         PROVE  ShownInv'
    <2>1. PICK k \in 1..Len(rows) :
            /\ rows[k] = rows[i] /\ rows' = Drop(rows, k)
            /\ WithoutChild(node, k - 1) \in Lists
            /\ SetNode(WithoutChild(node, k - 1), queue)
      BY <1>10, RemoveStep
    <2>2. \A v : InSeq(v, rows) /\ v # rows[i] => InSeq(v, rows')
      BY <2>1, DropKeepsOthers DEF TypeInv
    <2>3. In(queue) \subseteq In(queue')
      BY <2>1, Writing DEF TypeInv
    <2>4. listed' = listed \ {rows[i]} /\ lists' = lists /\ fetches' = fetches
      BY <1>10 DEF Remove
    <2> QED BY <2>2, <2>3, <2>4 DEF ShownInv, Due
  <1>11. CASE UNCHANGED buddyVars
    BY <1>11 DEF buddyVars, profileVars, ShownInv, Due
  <1> QED BY <1>1, <1>2, <1>3, <1>4, <1>5, <1>6, <1>7, <1>8, <1>9, <1>10, <1>11
          DEF Next

LEMMA ShownInvariant == Spec => []ShownInv
  <1>1. Init => ShownInv
    BY DEF Init, ShownInv
  <1>2. TypeInv /\ ShownInv /\ [Next]_buddyVars => ShownInv'
    BY NextShown
  <1> QED BY <1>1, <1>2, TypeInvariant, PTL DEF Spec

-----------------------------------------------------------------------------
(* What the button comes to.                                               *)

\* The sheet's user needs no button for this list.
Followed(n) == target = Me \/ target \in Stored(n)

\* Once the sheet's observer has had its first event, the button is hidden for
\* those who are followed, or a block that will hide it waits.
ButtonInv ==
  /\ told => watched
  /\ sheet /\ told /\ Followed(node) =>
       \/ button = "hidden"
       \/ \E b \in In(queue) : b.kind = "button" /\ Followed(b.list)

\* A write: either the list is as before, or the observer's block waits.
LEMMA ButtonAfterWrite ==
  ASSUME TypeInv, ButtonInv, NEW n \in Lists, NEW blocks \in Seq(Blocks),
         SetNode(n, blocks),
         \A b \in In(queue) : b.kind = "button" => b \in In(blocks),
         UNCHANGED <<sheetVars, watched>>
  PROVE  ButtonInv'
  <1>1. UNCHANGED <<target, sheet, button, told, watched>>
    BY DEF sheetVars
  <1>2. node' = n /\ In(blocks) \subseteq In(queue')
    BY Writing
  <1>3. CASE n = node
    BY <1>1, <1>2, <1>3 DEF ButtonInv, Followed
  <1>4. CASE n # node
    <2> SUFFICES ASSUME sheet, told, Followed(n)
                 PROVE  \E b \in In(queue') : b.kind = "button" /\ Followed(b.list)
      BY <1>1, <1>2 DEF ButtonInv, Followed
    <2>1. Told(n) \in In(queue')
      BY <1>4, Writing DEF ButtonInv
    <2>2. Told(n).kind = "button" /\ Told(n).list = n
      BY ToldType
    <2> QED BY <2>1, <2>2
  <1> QED BY <1>3, <1>4

\* What the observer's block makes of the button.
LEMMA ButtonAfterList ==
  ASSUME TypeInv, NEW n \in Lists
  PROVE  ButtonAfter(Children(n)) = IF Followed(n) THEN "hidden" ELSE button
  BY ReadList DEF ButtonAfter, Followed

LEMMA NextButton ==
  ASSUME TypeInv, ButtonInv, [Next]_buddyVars
  PROVE  ButtonInv'
  <1>1. ASSUME NEW u \in Users \ Unreadable, OpenSheet(u)
        PROVE  ButtonInv'
    BY <1>1 DEF OpenSheet, ButtonInv
  <1>2. CASE CloseSheet \/ Press \/ Trap
    BY <1>2 DEF CloseSheet, Press, Trap, sheetVars, ButtonInv, Followed
  <1>3. CASE ServeObserver
    <2>1. "button" \in Kinds /\ Empty \in Ids
      BY DEF Kinds, Ids
    <2>2. /\ Block("button", node, Empty) \in In(queue')
          /\ Block("button", node, Empty).kind = "button"
          /\ Block("button", node, Empty).list = node
      <3>1. queue' = Append(queue, Block("button", node, Empty))
        BY <1>3 DEF ServeObserver
      <3>2. In(queue') = In(queue) \cup {Block("button", node, Empty)}
        BY <2>1, <3>1, ServeType
      <3>3. node \in Lists
        BY DEF TypeInv
      <3> QED BY <2>1, <3>2, <3>3, BlockType
    <2> QED BY <1>3, <2>2 DEF ServeObserver, ButtonInv, Followed
  <1>4. CASE ServeFollow \/ ServeList
    <2>1. \E kind \in Kinds, who \in Ids :
            queue' = Append(queue, Block(kind, node, who))
      BY <1>4, Serving
    <2>2. In(queue) \subseteq In(queue')
      BY <2>1, ServeType
    <2> QED BY <1>4, <2>2
            DEF ServeFollow, ServeList, sheetVars, ButtonInv, Followed
  <1>5. CASE HandleObserver
    <2>1. /\ Head(queue).list \in Lists
          /\ In(queue) = In(queue') \cup {Head(queue)}
      BY <1>5, HeadType DEF HandleObserver
    <2>2. Next1("button") <=> Head(queue).kind = "button"
      BY <1>5 DEF HandleObserver, Next1
    <2>3. button' = IF Head(queue).kind = "button" /\ Followed(Head(queue).list)
                      THEN "hidden" ELSE button
      BY <1>5, <2>1, <2>2, ButtonAfterList DEF HandleObserver
    <2> QED BY <1>5, <2>1, <2>3 DEF HandleObserver, ButtonInv, Followed
  <1>6. CASE HandleFollow
    <2>1. /\ Tail(queue) \in Seq(Blocks) /\ Head(queue).kind # "button"
          /\ In(queue) = In(Tail(queue)) \cup {Head(queue)}
      BY <1>6, HeadType DEF HandleFollow
    <2>2. \A b \in In(queue) : b.kind = "button" => b \in In(Tail(queue))
      BY <2>1
    <2> QED BY <1>6, <2>1, <2>2, FollowWrites, ButtonAfterWrite DEF HandleFollow
  <1>7. CASE Appear \/ HandleList
    <2>1. UNCHANGED <<target, sheet, button, told, watched, node>>
      BY <1>7 DEF Appear, HandleList, sheetVars
    <2>2. \A b \in In(queue) : b.kind = "button" => b \in In(queue')
      <3>1. CASE Appear
        BY <3>1 DEF Appear
      <3>2. CASE HandleList
        BY <3>2, HeadType DEF HandleList
      <3> QED BY <1>7, <3>1, <3>2
    <2> QED BY <2>1, <2>2 DEF ButtonInv, Followed
  <1>8. ASSUME NEW u \in Users, Answer(u)
        PROVE  ButtonInv'
    BY <1>8 DEF Answer, sheetVars, ButtonInv, Followed
  <1>9. ASSUME NEW i \in DOMAIN rows, Remove(i)
        PROVE  ButtonInv'
    <2>1. PICK k \in 1..Len(rows) :
            /\ WithoutChild(node, k - 1) \in Lists
            /\ SetNode(WithoutChild(node, k - 1), queue)
      BY <1>9, RemoveStep
    <2>2. UNCHANGED <<sheetVars, watched>>
      BY <1>9 DEF Remove
    <2> QED BY <2>1, <2>2, ButtonAfterWrite DEF TypeInv
  <1>10. CASE UNCHANGED buddyVars
    BY <1>10 DEF buddyVars, sheetVars, ButtonInv, Followed
  <1> QED BY <1>1, <1>2, <1>3, <1>4, <1>5, <1>6, <1>7, <1>8, <1>9, <1>10 DEF Next

LEMMA ButtonInvariant == Spec => []ButtonInv
  <1>1. Init => ButtonInv
    BY DEF Init, ButtonInv
  <1>2. TypeInv /\ ButtonInv /\ [Next]_buddyVars => ButtonInv'
    BY NextButton
  <1> QED BY <1>1, <1>2, TypeInvariant, PTL DEF Spec

-----------------------------------------------------------------------------
(* The patient user: one thing at a time.                                  *)

NoFetch == \A u \in Users : fetches[u] = 0

\* What may be under way while a sheet is open: the observer's first event, the
\* event of a change, a press whose read is open, or its block.
AtSheet ==
  sheet =>
    /\ lists = 0 /\ NoFetch
    /\ ~told => queue = <<>> /\ follows = <<>> /\ button = "follow"
    /\ told =>
         \/ /\ queue = <<>> /\ follows = <<>>
            /\ button = "hidden" <=> Followed(node)
         \/ /\ queue = <<Block("button", node, Empty)>> /\ follows = <<>>
            /\ button = "hidden" => Followed(node)
         \/ /\ queue = <<>> /\ follows = <<target>>
            /\ ~Followed(node) /\ button = "follow"
         \/ /\ queue = <<Block("follow", node, target)>> /\ follows = <<>>
            /\ ~Followed(node) /\ button = "follow"

\* What may be under way on the profile: the read of the list or its block,
\* with no rows, the reads of the buddies, or the event of a removal.
AtProfile ==
  ~sheet =>
    /\ told \/ target = Empty
    /\ follows = <<>>
    /\ lists # 0 => lists = 1 /\ queue = <<>> /\ NoFetch /\ rows = <<>>
    /\ \/ queue = <<>>
       \/ queue = <<Block("list", node, Empty)>> /\ NoFetch /\ rows = <<>>
       \/ \E k \in {"button", "old"} :
            queue = <<Block(k, node, Empty)>> /\ NoFetch

\* The rows are buddies of the last list whose read was answered, each once.
RowsInv ==
  /\ \A i \in DOMAIN rows : fetches[rows[i]] = 0 /\ rows[i] \in listed
  /\ Distinct(rows)
  /\ \A u \in Users : fetches[u] \in {0, 1} /\ (fetches[u] = 1 => u \in listed)

PatientInv == patient => AtSheet /\ AtProfile /\ RowsInv

\* The block at the head of a queue of one.
LEMMA OneBlock ==
  ASSUME NEW kind \in Kinds, NEW list \in Lists, NEW who \in Ids,
         queue = <<Block(kind, list, who)>>
  PROVE  /\ Head(queue) = Block(kind, list, who) /\ Tail(queue) = <<>>
         /\ Head(queue).kind = kind /\ Head(queue).list = list
         /\ Head(queue).pressed = who /\ queue # <<>>
  BY BlockType

\* When a block is handled for a patient user it is the only thing under way.
LEMMA OneAtATime ==
  ASSUME TypeInv, PatientInv, patient, queue # <<>>
  PROVE  /\ Tail(queue) = <<>> /\ Head(queue).list = node
         /\ follows = <<>> /\ lists = 0 /\ NoFetch
         /\ \/ /\ sheet /\ told /\ Head(queue).kind = "button"
               /\ button = "hidden" => Followed(node)
            \/ /\ sheet /\ told /\ Head(queue).kind = "follow"
               /\ Head(queue).pressed = target
               /\ ~Followed(node) /\ button = "follow"
            \/ ~sheet /\ Head(queue).kind = "list" /\ rows = <<>>
            \/ ~sheet /\ Head(queue).kind \in {"button", "old"}
  <1>1. /\ {"button", "old", "follow", "list"} \subseteq Kinds
        /\ Empty \in Ids /\ node \in Lists /\ target \in Ids
    BY DEF Kinds, Ids, TypeInv
  <1>2. CASE sheet
    <2>1. told /\ lists = 0 /\ NoFetch /\ follows = <<>>
      BY <1>2 DEF PatientInv, AtSheet
    <2>2. CASE /\ queue = <<Block("button", node, Empty)>>
               /\ button = "hidden" => Followed(node)
      BY <1>1, <1>2, <2>1, <2>2, OneBlock
    <2>3. CASE /\ queue = <<Block("follow", node, target)>>
               /\ ~Followed(node) /\ button = "follow"
      BY <1>1, <1>2, <2>1, <2>3, OneBlock
    <2> QED BY <1>2, <2>1, <2>2, <2>3 DEF PatientInv, AtSheet
  <1>3. CASE ~sheet
    <2>1. follows = <<>> /\ lists = 0
      BY <1>3 DEF PatientInv, AtProfile, TypeInv
    <2>2. CASE queue = <<Block("list", node, Empty)>> /\ NoFetch /\ rows = <<>>
      BY <1>1, <1>3, <2>1, <2>2, OneBlock
    <2>3. ASSUME NEW k \in {"button", "old"},
                 queue = <<Block(k, node, Empty)>> /\ NoFetch
          PROVE  /\ Tail(queue) = <<>> /\ Head(queue).list = node
                 /\ Head(queue).kind = k /\ NoFetch
      BY <1>1, <2>3, OneBlock
    <2> QED BY <1>3, <2>1, <2>2, <2>3 DEF PatientInv, AtProfile
  <1> QED BY <1>2, <1>3

\* Serving something makes a queue of one of the empty queue.
LEMMA QueueOfOne ==
  ASSUME NEW b, queue = <<>>, queue' = Append(queue, b)
  PROVE  queue' = <<b>>
  OBVIOUS

\* A press follows the user of the sheet and nobody else.
LEMMA FollowAdds ==
  ASSUME TypeInv, HandleFollow, Head(queue).list = node, ~Followed(node)
  PROVE  /\ Stored(node') = Stored(node) \cup {target}
         /\ node' \in Lists /\ node' # node
  <1> DEFINE s == Children(node)
  <1>1. s \in Seq(Ids) /\ Distinct(s)
        /\ \A x : InSeq(x, s) <=> x \in Stored(node)
    BY ReadList DEF TypeInv
  <1>2. target \in Ids /\ target \notin Stored(node)
    BY DEF TypeInv, Followed
  <1>3. /\ Toggled(s) \in Seq(Ids)
        /\ \A x : InSeq(x, Toggled(s)) <=> InSeq(x, s) \/ x = target
    BY <1>1, <1>2, ToggledList
  <1>4. node' = AsNode(Toggled(s))
    BY DEF HandleFollow, SetNode
  <1>5. \A x : x \in Stored(node') <=> x \in Stored(node) \/ x = target
    BY <1>1, <1>3, <1>4, NodeOfList
  <1>6. node' \in Lists
    BY <1>4, FollowWrites
  <1> QED BY <1>2, <1>5, <1>6

\* The steps of the user, who finds everything arrived.
LEMMA QuietIs ==
  ASSUME Quiet
  PROVE  queue = <<>> /\ follows = <<>> /\ lists = 0 /\ NoFetch /\ (sheet => told)
  BY DEF Quiet, NoFetch

LEMMA OpenSheetPatient ==
  ASSUME TypeInv, PatientInv, patient, NEW u \in Users, OpenSheet(u)
  PROVE  PatientInv'
  <1>1. "sheets" \in Bounds
    BY DEF Bounds
  <1>2. Quiet /\ patient' = patient
    BY <1>1, UserStep DEF OpenSheet
  <1>3. queue = <<>> /\ follows = <<>> /\ lists = 0 /\ NoFetch
    BY <1>2, QuietIs
  <1>4. queue' = <<>>
    BY <1>3, Renaming DEF OpenSheet, TypeInv
  <1>5. UNCHANGED <<follows, lists, rows, fetches, listed>> /\ sheet' /\ ~told'
        /\ button' = "follow"
    BY DEF OpenSheet, profileVars
  <1>6. AtSheet' /\ AtProfile'
    BY <1>3, <1>4, <1>5 DEF AtSheet, AtProfile, NoFetch
  <1>7. RowsInv'
    BY <1>5 DEF PatientInv, RowsInv
  <1> QED BY <1>6, <1>7 DEF PatientInv

LEMMA CloseSheetPatient ==
  ASSUME TypeInv, PatientInv, patient, CloseSheet
  PROVE  PatientInv'
  <1>1. Quiet /\ sheet
    BY DEF CloseSheet
  <1>2. queue = <<>> /\ follows = <<>> /\ lists = 0 /\ NoFetch /\ told
    BY <1>1, QuietIs
  <1>3. UNCHANGED <<follows, lists, queue, told, rows, fetches, listed>> /\ ~sheet'
    BY DEF CloseSheet, profileVars
  <1>4. AtSheet' /\ AtProfile'
    BY <1>2, <1>3 DEF AtSheet, AtProfile
  <1>5. RowsInv'
    BY <1>3 DEF PatientInv, RowsInv
  <1> QED BY <1>4, <1>5 DEF PatientInv

LEMMA PressPatient ==
  ASSUME TypeInv, PatientInv, patient, Press
  PROVE  PatientInv'
  <1>1. "presses" \in Bounds
    BY DEF Bounds
  <1>2. Quiet /\ sheet /\ button = "follow" /\ patient' = patient
    BY <1>1, UserStep DEF Press
  <1>3. queue = <<>> /\ follows = <<>> /\ lists = 0 /\ NoFetch /\ told
    BY <1>2, QuietIs
  <1>4. ~Followed(node)
    BY <1>2, <1>3 DEF PatientInv, AtSheet
  <1>5. /\ UNCHANGED <<node, target, sheet, button, told, lists, queue>>
        /\ UNCHANGED <<rows, fetches, listed>>
        /\ follows' = <<target>>
    BY <1>3 DEF Press, sheetVars, profileVars
  <1>6. AtSheet' /\ AtProfile'
    BY <1>2, <1>3, <1>4, <1>5 DEF AtSheet, AtProfile, NoFetch, Followed
  <1>7. RowsInv'
    BY <1>5 DEF PatientInv, RowsInv
  <1> QED BY <1>6, <1>7 DEF PatientInv

LEMMA AppearPatient ==
  ASSUME TypeInv, PatientInv, patient, Appear
  PROVE  PatientInv'
  <1>1. "appears" \in Bounds
    BY DEF Bounds
  <1>2. Quiet /\ ~sheet
    BY <1>1, UserStep DEF Appear
  <1>3. queue = <<>> /\ follows = <<>> /\ lists = 0 /\ NoFetch
    BY <1>2, QuietIs
  <1>4. /\ UNCHANGED <<target, sheet, told, queue, follows, fetches, listed>>
        /\ lists' = 1 /\ rows' = <<>>
    BY <1>3 DEF Appear, sheetVars
  <1>5. AtSheet' /\ AtProfile'
    BY <1>2, <1>3, <1>4 DEF PatientInv, AtSheet, AtProfile, NoFetch
  <1>6. RowsInv'
    BY <1>4 DEF PatientInv, RowsInv, Distinct
  <1> QED BY <1>5, <1>6 DEF PatientInv

\* What the client serves.
LEMMA ServesPatient ==
  ASSUME TypeInv, PatientInv, patient, ServeObserver \/ ServeFollow \/ ServeList
  PROVE  PatientInv'
  <1>1. RowsInv'
    BY DEF ServeObserver, ServeFollow, ServeList, profileVars, PatientInv, RowsInv
  <1>2. CASE ServeObserver
    <2>1. sheet /\ ~told /\ queue = <<>> /\ follows = <<>> /\ button = "follow"
          /\ lists = 0 /\ NoFetch
      BY <1>2 DEF ServeObserver, PatientInv, AtSheet, AtProfile
    <2>2. queue' = <<Block("button", node, Empty)>>
      BY <1>2, <2>1, QueueOfOne DEF ServeObserver
    <2>3. UNCHANGED <<node, target, sheet, button, follows, lists, fetches>> /\ told'
      BY <1>2 DEF ServeObserver, profileVars
    <2>4. AtSheet' /\ AtProfile'
      BY <2>1, <2>2, <2>3 DEF AtSheet, AtProfile, NoFetch
    <2> QED BY <1>1, <2>4 DEF PatientInv
  <1>3. CASE ServeFollow
    <2>1. sheet /\ told /\ queue = <<>> /\ follows = <<target>>
          /\ ~Followed(node) /\ button = "follow" /\ lists = 0 /\ NoFetch
      BY <1>3 DEF ServeFollow, PatientInv, AtSheet, AtProfile
    <2>2. Head(follows) = target /\ follows' = <<>>
      BY <1>3, <2>1 DEF ServeFollow
    <2>3. queue' = <<Block("follow", node, target)>>
      BY <1>3, <2>1, <2>2, QueueOfOne DEF ServeFollow
    <2>4. UNCHANGED <<node, target, sheet, button, told, lists, fetches>>
      BY <1>3 DEF ServeFollow, sheetVars, profileVars
    <2>5. AtSheet' /\ AtProfile'
      BY <2>1, <2>2, <2>3, <2>4 DEF AtSheet, AtProfile, NoFetch, Followed
    <2> QED BY <1>1, <2>5 DEF PatientInv
  <1>4. CASE ServeList
    <2>1. ~sheet /\ lists = 1 /\ queue = <<>> /\ NoFetch /\ rows = <<>>
          /\ follows = <<>> /\ (told \/ target = Empty)
      BY <1>4 DEF ServeList, PatientInv, AtSheet, AtProfile, TypeInv
    <2>2. queue' = <<Block("list", node, Empty)>>
      BY <1>4, <2>1, QueueOfOne DEF ServeList
    <2>3. UNCHANGED <<node, target, sheet, told, follows, rows, fetches>> /\ lists' = 0
      BY <1>4, <2>1 DEF ServeList, sheetVars, profileVars
    <2>4. AtSheet' /\ AtProfile'
      BY <2>1, <2>2, <2>3 DEF AtSheet, AtProfile, NoFetch
    <2> QED BY <1>1, <2>4 DEF PatientInv
  <1> QED BY <1>2, <1>3, <1>4

\* The blocks on the main queue.
LEMMA HandlePatient ==
  ASSUME TypeInv, ButtonInv, PatientInv, patient,
         HandleObserver \/ HandleFollow \/ HandleList
  PROVE  PatientInv'
  <1>1. queue # <<>>
    BY DEF HandleObserver, HandleFollow, HandleList, Next1
  <1>2. CASE HandleObserver
    <2>1. /\ queue' = <<>> /\ Head(queue).kind \in {"button", "old"}
          /\ UNCHANGED <<node, target, sheet, told, follows, lists, rows, fetches,
                         listed>>
          /\ Head(queue).kind = "button" =>
               button' = ButtonAfter(Children(Head(queue).list))
      BY <1>1, <1>2, OneAtATime DEF HandleObserver, Next1, profileVars
    <2>2. /\ follows = <<>> /\ lists = 0 /\ NoFetch /\ Head(queue).list = node
          /\ sheet => told /\ Head(queue).kind = "button"
                      /\ (button = "hidden" => Followed(node))
      BY <1>1, <2>1, OneAtATime
    <2>3. sheet => button' = IF Followed(node) THEN "hidden" ELSE button
      BY <2>1, <2>2, ButtonAfterList DEF TypeInv
    <2>4. sheet => (button' = "hidden" <=> Followed(node))
      BY <2>2, <2>3
    <2>5. AtSheet'
      BY <2>1, <2>2, <2>4 DEF AtSheet, NoFetch, Followed
    <2>6. AtProfile'
      BY <2>1, <2>2 DEF PatientInv, AtProfile
    <2>7. RowsInv'
      BY <2>1 DEF PatientInv, RowsInv
    <2> QED BY <2>5, <2>6, <2>7 DEF PatientInv
  <1>3. CASE HandleFollow
    <2>1. Head(queue).kind = "follow"
      BY <1>3 DEF HandleFollow, Next1
    <2>2. /\ Tail(queue) = <<>> /\ Head(queue).list = node
          /\ follows = <<>> /\ lists = 0 /\ NoFetch
          /\ sheet /\ told /\ ~Followed(node) /\ button = "follow"
      BY <1>1, <2>1, OneAtATime
    <2>3. node' \in Lists /\ node' # node /\ watched
          /\ Stored(node') = Stored(node) \cup {target}
      BY <1>3, <2>2, FollowAdds DEF ButtonInv
    <2>4. queue' = <<Block("button", node', Empty)>>
      <3>1. queue' = IF node' # node /\ watched
                       THEN Append(<<>>, Told(node')) ELSE <<>>
        BY <1>3, <2>2 DEF HandleFollow, SetNode, Told
      <3>2. Told(node') = Block("button", node', Empty)
        BY <2>2 DEF Told
      <3> QED BY <2>3, <3>1, <3>2
    <2>5. UNCHANGED <<target, sheet, button, told, follows, lists, rows, fetches,
                      listed>>
      BY <1>3 DEF HandleFollow, sheetVars, profileVars
    <2>6. AtSheet' /\ AtProfile'
      BY <2>2, <2>4, <2>5 DEF AtSheet, AtProfile, NoFetch
    <2>7. RowsInv'
      BY <2>5 DEF PatientInv, RowsInv
    <2> QED BY <2>6, <2>7 DEF PatientInv
  <1>4. CASE HandleList
    <2>1. Head(queue).kind = "list"
      BY <1>4 DEF HandleList, Next1
    <2>2. /\ Tail(queue) = <<>> /\ follows = <<>> /\ lists = 0 /\ NoFetch
          /\ ~sheet /\ rows = <<>>
      BY <1>1, <2>1, OneAtATime
    <2>3. /\ queue' = <<>> /\ UNCHANGED <<target, sheet, told, follows, lists, rows>>
          /\ fetches' = [u \in Users |-> fetches[u] + IF u \in listed' THEN 1 ELSE 0]
      BY <1>4, <2>2 DEF HandleList, sheetVars
    <2>4. \A u \in Users : fetches'[u] = IF u \in listed' THEN 1 ELSE 0
      BY <2>2, <2>3 DEF NoFetch
    <2>5. AtSheet' /\ AtProfile'
      BY <2>2, <2>3 DEF PatientInv, AtSheet, AtProfile
    <2>6. RowsInv'
      BY <2>2, <2>3, <2>4 DEF RowsInv, Distinct
    <2> QED BY <2>5, <2>6 DEF PatientInv
  <1> QED BY <1>2, <1>3, <1>4

LEMMA AnswerPatient ==
  ASSUME TypeInv, PatientInv, patient, NEW u \in Users, Answer(u)
  PROVE  PatientInv'
  <1>1. fetches[u] > 0 /\ ~NoFetch
    BY DEF Answer, NoFetch
  <1>2. ~sheet /\ queue = <<>> /\ follows = <<>> /\ lists = 0
        /\ (told \/ target = Empty)
    BY <1>1 DEF PatientInv, AtSheet, AtProfile
  <1>3. UNCHANGED <<target, sheet, told, queue, follows, lists, listed>>
    BY DEF Answer, sheetVars
  <1>4. AtSheet' /\ AtProfile'
    BY <1>2, <1>3 DEF AtSheet, AtProfile
  <1>5. /\ fetches[u] = 1 /\ u \in listed /\ fetches'[u] = 0
        /\ \A v \in Users \ {u} : fetches'[v] = fetches[v]
    BY <1>1 DEF PatientInv, RowsInv, Answer, TypeInv
  <1>6. \A v \in Users : fetches'[v] \in {0, 1} /\ (fetches'[v] = 1 => v \in listed')
    BY <1>3, <1>5 DEF PatientInv, RowsInv
  <1>7. DOMAIN rows = 1..Len(rows) /\ Len(rows) \in Nat
        /\ \A i \in 1..Len(rows) : rows[i] \in Users
    BY LenProperties, ElementOfSeq DEF TypeInv
  <1>8. \A i \in 1..Len(rows) :
          fetches[rows[i]] = 0 /\ rows[i] # u /\ fetches'[rows[i]] = 0
    BY <1>5, <1>7 DEF PatientInv, RowsInv
  <1>9. CASE u \in Unreadable
    <2>1. rows' = rows
      BY <1>9 DEF Answer
    <2> QED BY <1>3, <1>4, <1>6, <1>7, <1>8, <2>1 DEF PatientInv, RowsInv, Answer
  <1>10. CASE u \notin Unreadable
    <2>1. /\ rows' = Append(rows, u) /\ DOMAIN rows' = 1..(Len(rows) + 1)
          /\ \A i \in 1..Len(rows) : rows'[i] = rows[i]
          /\ rows'[Len(rows) + 1] = u
      BY <1>10, AppendProperties, LenProperties DEF Answer, TypeInv
    <2>2. \A i \in 1..(Len(rows) + 1) : i \in 1..Len(rows) \/ i = Len(rows) + 1
      BY <1>7
    <2>3. \A i \in DOMAIN rows' : fetches'[rows'[i]] = 0 /\ rows'[i] \in listed'
      BY <1>3, <1>5, <1>7, <1>8, <2>1, <2>2 DEF PatientInv, RowsInv
    <2>4. Distinct(rows')
      BY <1>7, <1>8, <2>1, <2>2 DEF PatientInv, RowsInv, Distinct
    <2> QED BY <1>4, <1>6, <2>3, <2>4 DEF PatientInv, RowsInv, Answer
  <1> QED BY <1>9, <1>10

LEMMA RemovePatient ==
  ASSUME TypeInv, PatientInv, patient, NEW i \in DOMAIN rows, Remove(i)
  PROVE  PatientInv'
  <1>1. "removals" \in Bounds
    BY DEF Bounds
  <1>2. Quiet /\ ~sheet
    BY <1>1, UserStep DEF Remove
  <1>3. queue = <<>> /\ follows = <<>> /\ lists = 0 /\ NoFetch
    BY <1>2, QuietIs
  <1>4. PICK k \in 1..Len(rows) :
          /\ rows[k] = rows[i] /\ rows' = Drop(rows, k)
          /\ WithoutChild(node, k - 1) \in Lists
          /\ SetNode(WithoutChild(node, k - 1), queue)
    BY RemoveStep
  <1>5. /\ UNCHANGED <<target, sheet, told, follows, lists, fetches>>
        /\ listed' = listed \ {rows[i]}
    BY DEF Remove, sheetVars
  <1>6. queue' = <<>> \/ \E kind \in {"button", "old"} :
                           queue' = <<Block(kind, node', Empty)>>
    BY <1>3, <1>4 DEF SetNode
  <1>7. AtSheet' /\ AtProfile'
    BY <1>2, <1>3, <1>5, <1>6 DEF PatientInv, AtSheet, AtProfile, NoFetch
  <1>8. /\ \A x : InSeq(x, rows') => InSeq(x, rows)
        /\ Distinct(rows') /\ ~InSeq(rows[i], rows')
    BY <1>4, DropKeepsOthers DEF TypeInv, PatientInv, RowsInv
  <1>9. \A j \in DOMAIN rows' : rows'[j] \in listed' /\ fetches'[rows'[j]] = 0
    BY <1>5, <1>8 DEF PatientInv, RowsInv, InSeq
  <1>10. \A u \in Users : fetches'[u] = 0
    BY <1>3, <1>5 DEF NoFetch
  <1> QED BY <1>7, <1>8, <1>9, <1>10 DEF PatientInv, RowsInv

LEMMA NextPatient ==
  ASSUME TypeInv, ButtonInv, PatientInv, [Next]_buddyVars
  PROVE  PatientInv'
  <1> SUFFICES ASSUME patient' PROVE PatientInv'
    BY DEF PatientInv
  <1>0. CASE ~patient
    BY <1>0 DEF Next, buddyVars, OpenSheet, CloseSheet, Press, ServeObserver,
       ServeFollow, Trap, HandleObserver, HandleFollow, Appear, ServeList,
       HandleList, Answer, Remove, User
  <1>1. ASSUME patient, NEW u \in Users \ Unreadable, OpenSheet(u)
        PROVE  PatientInv'
    BY <1>1, OpenSheetPatient
  <1>2. CASE patient /\ Trap
    <2>1. UNCHANGED <<node, target, sheet, button, told, follows, lists, queue, rows,
                      fetches, listed, patient>>
      BY <1>2 DEF Trap, sheetVars, profileVars
    <2> QED BY <2>1 DEF PatientInv, AtSheet, AtProfile, RowsInv, NoFetch, Followed
  <1>3. ASSUME patient, NEW u \in Users, Answer(u)
        PROVE  PatientInv'
    BY <1>3, AnswerPatient
  <1>4. ASSUME patient, NEW i \in DOMAIN rows, Remove(i)
        PROVE  PatientInv'
    BY <1>4, RemovePatient
  <1>5. CASE patient /\ UNCHANGED buddyVars
    BY <1>5 DEF buddyVars, sheetVars, profileVars, PatientInv, AtSheet, AtProfile,
       RowsInv, NoFetch, Followed
  <1> QED BY <1>0, <1>1, <1>2, <1>3, <1>4, <1>5, CloseSheetPatient, PressPatient,
             AppearPatient, ServesPatient, HandlePatient DEF Next

LEMMA PatientInvariant == Spec => []PatientInv
  <1>1. Init => PatientInv
    <2> SUFFICES ASSUME Init PROVE AtSheet /\ AtProfile /\ RowsInv
      BY DEF PatientInv
    <2>1. /\ ~sheet /\ target = Empty /\ queue = <<>> /\ follows = <<>> /\ lists = 0
          /\ rows = <<>> /\ fetches = [u \in Users |-> 0]
      BY DEF Init
    <2>2. AtSheet /\ AtProfile
      BY <2>1 DEF AtSheet, AtProfile
    <2>3. RowsInv
      BY <2>1 DEF RowsInv, Distinct
    <2> QED BY <2>2, <2>3
  <1>2. TypeInv /\ ButtonInv /\ PatientInv /\ [Next]_buddyVars => PatientInv'
    BY NextPatient
  <1> QED BY <1>1, <1>2, TypeInvariant, ButtonInvariant, PTL DEF Spec

-----------------------------------------------------------------------------
(* The patient user and the empty id.                                      *)

\* As long as a patient user removed nobody on the profile the list has no
\* empty id, in the database or in a snapshot that waits, and the app runs.
AliveInv ==
  patient /\ budget.removals = MaxRemovals /\ ~InSeq(Empty, AtStart) =>
    /\ running
    /\ Empty \notin Stored(node)
    /\ \A b \in In(queue) : Empty \notin Stored(b.list)

\* A step that spends no removal and queues only what has no empty id.
LEMMA AliveKept ==
  ASSUME TypeInv, AliveInv, patient' = patient,
         budget'.removals = budget.removals, running', node' = node,
         \A b \in In(queue') : \/ \E c \in In(queue) : b.list = c.list
                               \/ b.list = node
  PROVE  AliveInv'
  BY DEF AliveInv

LEMMA NextAlive ==
  ASSUME TypeInv, CastInv, ButtonInv, PatientInv, AliveInv, [Next]_buddyVars
  PROVE  AliveInv'
  <1> USE DEF Bounds
  <1>1. ASSUME NEW u \in Users \ Unreadable, OpenSheet(u)
        PROVE  AliveInv'
    <2>1. budget'.removals = budget.removals /\ running' /\ patient' = patient
      BY <1>1, UserStep DEF OpenSheet, TypeInv
    <2>2. \A b \in In(queue') : \E c \in In(queue) : b.list = c.list
      BY <1>1, Renaming DEF OpenSheet, TypeInv
    <2> QED BY <1>1, <2>1, <2>2, AliveKept DEF OpenSheet
  <1>2. CASE CloseSheet
    BY <1>2 DEF CloseSheet, AliveInv
  <1>3. CASE Press
    <2>1. budget'.removals = budget.removals /\ running' /\ patient' = patient
      BY <1>3, UserStep DEF Press, TypeInv
    <2> QED BY <1>3, <2>1 DEF Press, AliveInv
  <1>4. CASE ServeObserver \/ ServeFollow \/ ServeList
    <2>1. PICK kind \in Kinds, who \in Ids :
            queue' = Append(queue, Block(kind, node, who))
      BY <1>4, Serving
    <2>2. In(queue') = In(queue) \cup {Block(kind, node, who)}
      BY <2>1, ServeType
    <2>3. Block(kind, node, who).list = node
      BY BlockType DEF TypeInv
    <2> QED BY <1>4, <2>2, <2>3, AliveKept DEF ServeObserver, ServeFollow, ServeList
  <1>5. CASE Trap
    <2>1. Head(queue) \in In(queue)
      BY <1>5, HeadType DEF Trap, Next1
    <2>2. budget.removals = MaxRemovals => Empty \in Stored(Head(queue).list)
      BY <1>5, <2>1 DEF CastInv, Trap, Traps
    <2> QED BY <1>5, <2>1, <2>2 DEF Trap, AliveInv
  <1>6. CASE HandleObserver \/ HandleList
    <2>1. In(queue') \subseteq In(queue) /\ running
      BY <1>6, HeadType DEF HandleObserver, HandleList
    <2> QED BY <1>6, <2>1, AliveKept DEF HandleObserver, HandleList
  <1>7. CASE HandleFollow
    <2> SUFFICES ASSUME patient, budget.removals = MaxRemovals,
                        ~InSeq(Empty, AtStart)
                 PROVE  /\ running' /\ Empty \notin Stored(node')
                        /\ \A b \in In(queue') : Empty \notin Stored(b.list)
      BY <1>7 DEF HandleFollow, AliveInv
    <2>1. queue # <<>> /\ Head(queue).kind = "follow" /\ running
      BY <1>7 DEF HandleFollow, Next1
    <2>2. /\ Tail(queue) = <<>> /\ Head(queue).list = node
          /\ sheet /\ ~Followed(node)
      BY <2>1, OneAtATime
    <2>3. Stored(node') = Stored(node) \cup {target} /\ node' \in Lists
      BY <1>7, <2>2, FollowAdds
    <2>4. Empty \notin Stored(node')
      BY <2>2, <2>3, IdsAssumption DEF TypeInv, AliveInv
    <2>5. In(queue') \subseteq {Told(node')}
      BY <1>7, <2>2, EmptyQueue, FollowWrites, Writing, EmptySeq DEF HandleFollow
    <2>6. Told(node').list = node'
      BY <2>3, ToldType
    <2> QED BY <1>7, <2>1, <2>4, <2>5, <2>6 DEF HandleFollow
  <1>8. CASE Appear
    <2>1. budget'.removals = budget.removals /\ running' /\ patient' = patient
      BY <1>8, UserStep DEF Appear, TypeInv
    <2> QED BY <1>8, <2>1 DEF Appear, AliveInv
  <1>9. ASSUME NEW u \in Users, Answer(u)
        PROVE  AliveInv'
    BY <1>9 DEF Answer, AliveInv
  <1>10. ASSUME NEW i \in DOMAIN rows, Remove(i)
         PROVE  AliveInv'
    <2>1. budget'.removals = budget.removals - 1 /\ budget.removals \in Nat
      BY <1>10, UserStep DEF Remove, TypeInv
    <2>2. budget'.removals \in Int /\ budget'.removals < MaxRemovals
      BY <2>1, BoundsAssumption DEF CastInv
    <2> QED BY <2>2, BoundsAssumption DEF AliveInv
  <1>11. CASE UNCHANGED buddyVars
    BY <1>11 DEF buddyVars, AliveInv
  <1> QED BY <1>1, <1>2, <1>3, <1>4, <1>5, <1>6, <1>7, <1>8, <1>9, <1>10, <1>11
          DEF Next

LEMMA AliveInvariant == Spec => []AliveInv
  <1>1. Init => AliveInv
    <2> SUFFICES ASSUME Init PROVE AliveInv
      OBVIOUS
    <2>1. running /\ node = AsNode(AtStart) /\ In(queue) = {}
      BY EmptyQueue DEF Init
    <2>2. \A x : x \in Stored(AsNode(AtStart)) <=> InSeq(x, AtStart)
      BY StartAssumption, NodeOfList
    <2> QED BY <2>1, <2>2 DEF AliveInv
  <1>2. TypeInv /\ CastInv /\ ButtonInv /\ PatientInv /\ AliveInv /\ [Next]_buddyVars
          => AliveInv'
    BY NextAlive
  <1> QED BY <1>1, <1>2, TypeInvariant, CastInvariant, ButtonInvariant,
             PatientInvariant, PTL DEF Spec

-----------------------------------------------------------------------------
(* The theorems these invariants are for.                                  *)

\* As long as nobody was removed on the profile, the user's record parses for
\* every sheet, which is what addBuddy stores the empty id for, and that id, on
\* the profile, is all that ever ends the app; a patient user never gets it
\* (BuddyDetailsViewController.swift:74-76, ProfileViewController.swift:67).
THEOREM OnlyTheEmptyIdTraps == Spec => []OnlyEmptyIdTraps
  <1>1. CastInv /\ AliveInv => OnlyEmptyIdTraps
    BY DEF CastInv, AliveInv, AsksForNobody, OnlyEmptyIdTraps
  <1> QED BY <1>1, CastInvariant, AliveInvariant, PTL

\* Once everything has arrived there is no button to follow a buddy, or
\* oneself, a second time; a patient user has it for everybody else
\* (BuddyDetailsViewController.swift:37-54).
THEOREM ButtonIsRight == Spec => []ButtonTellsFollowing
  <1>1. ASSUME TypeInv, ButtonInv, PatientInv
        PROVE  ButtonTellsFollowing
    <2> SUFFICES ASSUME running, Quiet, sheet
                 PROVE  /\ Followed(node) => button = "hidden"
                        /\ patient /\ button = "hidden" => Followed(node)
      BY DEF ButtonTellsFollowing, Followed
    <2>1. queue = <<>> /\ follows = <<>> /\ told /\ In(queue) = {}
      BY QuietIs, EmptyQueue
    <2>2. Followed(node) => button = "hidden"
      BY <1>1, <2>1 DEF ButtonInv
    <2>3. patient /\ button = "hidden" => Followed(node)
      BY <1>1, <2>1 DEF PatientInv, AtSheet
    <2> QED BY <2>2, <2>3
  <1> QED BY <1>1, TypeInvariant, ButtonInvariant, PatientInvariant, PTL

\* For a patient user a press follows the user of the sheet it was made on and
\* changes nothing else, although the list is read before it is written and
\* the user is static (addBuddy, BuddyDetailsViewController.swift:65-86).
THEOREM PressIsRight == Spec => PressFollows
  <1>1. ASSUME TypeInv, ButtonInv, PatientInv, patient, HandleFollow
        PROVE  Stored(node') \ {Empty} =
                 (Stored(node) \ {Empty}) \cup {Head(queue).pressed}
    <2>1. queue # <<>> /\ Head(queue).kind = "follow"
      BY <1>1 DEF HandleFollow, Next1
    <2>2. /\ Head(queue).list = node /\ ~Followed(node) /\ sheet
          /\ Head(queue).pressed = target
      BY <1>1, <2>1, OneAtATime
    <2>3. Stored(node') = Stored(node) \cup {target}
      BY <1>1, <2>2, FollowAdds
    <2>4. target # Empty
      BY <1>1, <2>2, IdsAssumption DEF TypeInv
    <2> QED BY <2>2, <2>3, <2>4
  <1>2. TypeInv /\ ButtonInv /\ PatientInv =>
          [patient /\ HandleFollow =>
             Stored(node') \ {Empty} =
               (Stored(node) \ {Empty}) \cup {Head(queue).pressed}]_buddyVars
    BY <1>1
  <1> QED BY <1>2, TypeInvariant, ButtonInvariant, PatientInvariant, PTL
          DEF PressFollows

\* Once everything has arrived, and unless the app trapped over the list, each
\* buddy read for the profile that parses and was not removed there is in a row;
\* for a patient user these are all the rows, one for each (fetchBuddies,
\* ProfileViewController.swift:61-86).
THEOREM BuddiesAreShown == Spec => []BuddiesShown
  <1>1. ASSUME TypeInv, ShownInv, PatientInv
        PROVE  BuddiesShown
    <2> SUFFICES ASSUME running, Quiet
                 PROVE  /\ \A u \in listed \ Unreadable : InSeq(u, rows)
                        /\ patient =>
                             /\ \A i \in DOMAIN rows : rows[i] \in listed
                             /\ \A i, j \in DOMAIN rows : rows[i] = rows[j] => i = j
      BY DEF BuddiesShown
    <2>1. In(queue) = {} /\ lists = 0
      BY QuietIs, EmptyQueue
    <2>2. \A u \in listed : ~(fetches[u] > 0)
      BY <1>1, QuietIs DEF NoFetch, TypeInv
    <2> QED BY <1>1, <2>1, <2>2 DEF ShownInv, Due, PatientInv, RowsInv, Distinct
  <1> QED BY <1>1, TypeInvariant, ShownInvariant, PatientInvariant, PTL
=============================================================================
