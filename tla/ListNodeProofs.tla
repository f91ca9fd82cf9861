--------------------------- MODULE ListNodeProofs ---------------------------
(***************************************************************************)
(* What the operators on lists in the database do, for lists of any length *)
(* and nodes with any holes.                                               *)
(***************************************************************************)
EXTENDS ListNode, FiniteSetTheorems, SequenceTheorems, TLAPS

-----------------------------------------------------------------------------
(* The order of the keys.                                                  *)

\* How many keys come before k.
Rank(D, k) == Cardinality({j \in D : j < k})

\* The keys of a node are numbered without a gap in their order.
LEMMA KeysRanked ==
  ASSUME NEW D \in SUBSET Nat, IsFiniteSet(D)
  PROVE  /\ Cardinality(D) \in Nat
         /\ \A k \in D : Rank(D, k) \in 0..(Cardinality(D) - 1)
         /\ \A k, l \in D : k < l => Rank(D, k) < Rank(D, l)
         /\ \A n \in 0..(Cardinality(D) - 1) : \E k \in D : Rank(D, k) = n
  <1> DEFINE Before(k) == {j \in D : j < k}
             N == Cardinality(D)
  <1>1. N \in Nat
    BY FS_CardinalityType
  <1>2. ASSUME NEW k \in D
        PROVE  /\ IsFiniteSet(Before(k)) /\ Rank(D, k) \in Nat
               /\ Rank(D, k) < N
    <2>1. Before(k) \in SUBSET D /\ k \notin Before(k)
      BY DEF Before
    <2>2. IsFiniteSet(Before(k)) /\ Cardinality(Before(k)) <= N
          /\ (N = Cardinality(Before(k)) => D = Before(k))
      BY <2>1, FS_Subset
    <2>3. Cardinality(Before(k)) \in Nat
      BY <2>2, FS_CardinalityType
    <2>4. Cardinality(Before(k)) # N
      BY <2>1, <2>2
    <2> QED BY <1>1, <2>2, <2>3, <2>4 DEF Rank
  <1>3. ASSUME NEW k \in D, NEW l \in D, k < l
        PROVE  Rank(D, k) < Rank(D, l)
    <2>1. Before(k) \in SUBSET Before(l)
      <3>1. \A j \in D : j < k => j < l
        BY <1>3
      <3> QED BY <3>1
    <2>2. k \in Before(l) /\ k \notin Before(k)
      BY <1>3
    <2>3. IsFiniteSet(Before(l))
      BY <1>2
    <2>4. Cardinality(Before(k)) <= Cardinality(Before(l))
          /\ (Cardinality(Before(l)) = Cardinality(Before(k))
                => Before(l) = Before(k))
      BY <2>1, <2>3, FS_Subset
    <2>5. Cardinality(Before(k)) # Cardinality(Before(l))
      BY <2>2, <2>4
    <2> QED BY <1>2, <2>4, <2>5 DEF Rank
  <1>4. \A k \in D : Rank(D, k) \in 0..(N - 1)
    <2> TAKE k \in D
    <2>1. Rank(D, k) \in Nat /\ Rank(D, k) < N
      BY <1>2
    <2> QED BY <1>1, <2>1
  <1>5. ASSUME NEW n \in 0..(N - 1)
        PROVE  \E k \in D : Rank(D, k) = n
    <2> DEFINE f == [k \in D |-> Rank(D, k)]
               T == 0..(N - 1)
    <2>1. f \in [D -> T]
      BY <1>4
    <2>2. \A k, l \in D : f[k] = f[l] => k = l
      <3> SUFFICES ASSUME NEW k \in D, NEW l \in D, k # l
                   PROVE  f[k] # f[l]
        OBVIOUS
      <3>1. k < l \/ l < k
        OBVIOUS
      <3>2. Rank(D, k) \in Int /\ Rank(D, l) \in Int
        BY <1>4
      <3>3. Rank(D, k) # Rank(D, l)
        BY <1>3, <3>1, <3>2
      <3> QED BY <3>3
    <2>3. f \in Injection(D, T)
      BY <2>1, <2>2 DEF Injection, IsInjective
    <2>4. IsFiniteSet(T) /\ Cardinality(T) = N
      BY <1>1, FS_Interval
    <2>5. f \in Surjection(D, T)
      BY <2>3, <2>4, FS_Injection
    <2>6. PICK k \in D : f[k] = n
      BY <2>5 DEF Surjection
    <2> QED BY <2>6
  <1> QED BY <1>1, <1>3, <1>4, <1>5

\* Keys without a hole are their own numbers.
LEMMA NoHoleRank ==
  ASSUME NEW n \in Nat, NEW k \in 0..(n - 1)
  PROVE  Rank(0..(n - 1), k) = k
  <1>1. {j \in 0..(n - 1) : j < k} = 0..(k - 1)
    OBVIOUS
  <1>2. Cardinality(0..(k - 1)) = k
    BY FS_Interval
  <1> QED BY <1>1, <1>2 DEF Rank

-----------------------------------------------------------------------------
(* Children.                                                               *)

\* The children are the strings of the node in the order of the keys.
LEMMA ChildrenInOrder ==
  ASSUME NEW node, DOMAIN node \in SUBSET Nat, IsFiniteSet(DOMAIN node)
  PROVE  /\ DOMAIN Children(node) = 1..Cardinality(DOMAIN node)
         /\ \A i \in 1..Cardinality(DOMAIN node) :
              \E k \in DOMAIN node :
                Rank(DOMAIN node, k) = i - 1 /\ Children(node)[i] = node[k]
         /\ \A k \in DOMAIN node :
              /\ Rank(DOMAIN node, k) + 1 \in 1..Cardinality(DOMAIN node)
              /\ Children(node)[Rank(DOMAIN node, k) + 1] = node[k]
  <1> DEFINE D == DOMAIN node
             key(i) == CHOOSE k \in D : Rank(D, k) = i - 1
  <1>1. \A i \in 1..Cardinality(D) : Children(node)[i] = node[key(i)]
    BY DEF Children, Rank
  <1>2. \A i \in 1..Cardinality(D) : key(i) \in D /\ Rank(D, key(i)) = i - 1
    <2> TAKE i \in 1..Cardinality(D)
    <2>1. Cardinality(D) \in Nat
      BY KeysRanked
    <2>2. i - 1 \in 0..(Cardinality(D) - 1)
      BY <2>1
    <2>3. \E k \in D : Rank(D, k) = i - 1
      BY <2>2, KeysRanked
    <2> QED BY <2>3
  <1>3. ASSUME NEW k \in D
        PROVE  /\ Rank(D, k) + 1 \in 1..Cardinality(D)
               /\ Children(node)[Rank(D, k) + 1] = node[k]
    <2> DEFINE i == Rank(D, k) + 1
    <2>1. Rank(D, k) \in 0..(Cardinality(D) - 1) /\ Cardinality(D) \in Nat
      BY KeysRanked
    <2>2. i \in 1..Cardinality(D) /\ i - 1 = Rank(D, k)
      BY <2>1
    <2>3. key(i) \in D /\ Rank(D, key(i)) = Rank(D, k)
      BY <1>2, <2>2
    <2>4. key(i) = k
      <3>1. key(i) \in Nat /\ k \in Nat
        BY <2>3
      <3>2. Rank(D, k) \in Int
        BY <2>1
      <3>3. ~(key(i) < k) /\ ~(k < key(i))
        BY <2>3, <3>2, KeysRanked
      <3> QED BY <3>1, <3>3
    <2> QED BY <1>1, <2>2, <2>4
  <1>4. DOMAIN Children(node) = 1..Cardinality(D)
    BY DEF Children
  <1> QED BY <1>1, <1>2, <1>3, <1>4

\* Nobody is in a list or on a node twice.
Distinct(f) == \A i, j \in DOMAIN f : f[i] = f[j] => i = j

\* The children of a node of strings are a list of those strings, each as
\* often as it is stored.
LEMMA ChildrenType ==
  ASSUME NEW S, NEW node, DOMAIN node \in SUBSET Nat, IsFiniteSet(DOMAIN node),
         \A k \in DOMAIN node : node[k] \in S
  PROVE  /\ Children(node) \in Seq(S)
         /\ Len(Children(node)) = Cardinality(DOMAIN node)
         /\ \A x : InSeq(x, Children(node)) <=> x \in Stored(node)
         /\ Distinct(node) => Distinct(Children(node))
  <1> DEFINE N == Cardinality(DOMAIN node)
             s == Children(node)
  <1>1. N \in Nat
    BY FS_CardinalityType
  <1>2. /\ DOMAIN s = 1..N
        /\ \A i \in 1..N : \E k \in DOMAIN node :
             Rank(DOMAIN node, k) = i - 1 /\ s[i] = node[k]
        /\ \A k \in DOMAIN node : Rank(DOMAIN node, k) + 1 \in 1..N
             /\ s[Rank(DOMAIN node, k) + 1] = node[k]
    BY ChildrenInOrder
  <1>3. s \in Seq(S) /\ Len(s) = N
    <2>1. s = [i \in 1..N |-> s[i]]
      BY DEF Children
    <2>2. \A i \in 1..N : s[i] \in S
      BY <1>2
    <2>3. s \in [1..N -> S]
      BY <2>1, <2>2
    <2>4. s \in Seq(S)
      BY <1>1, <2>3, SeqDef
    <2> QED BY <1>1, <1>2, <2>4, LenProperties
  <1>4. ASSUME NEW x
        PROVE  InSeq(x, s) <=> x \in Stored(node)
    <2>1. InSeq(x, s) => x \in Stored(node)
      BY <1>2 DEF InSeq, Stored
    <2>2. ASSUME x \in Stored(node)
          PROVE  InSeq(x, s)
      <3>1. PICK k \in DOMAIN node : x = node[k]
        BY <2>2 DEF Stored
      <3>2. Rank(DOMAIN node, k) + 1 \in DOMAIN s
            /\ s[Rank(DOMAIN node, k) + 1] = x
        BY <1>2, <3>1
      <3> QED BY <3>2 DEF InSeq
    <2> QED BY <2>1, <2>2
  <1>5. ASSUME Distinct(node)
        PROVE  Distinct(s)
    <2> SUFFICES ASSUME NEW i \in 1..N, NEW j \in 1..N, s[i] = s[j]
                 PROVE  i = j
      BY <1>2 DEF Distinct
    <2>1. PICK k \in DOMAIN node :
            Rank(DOMAIN node, k) = i - 1 /\ s[i] = node[k]
      BY <1>2
    <2>2. PICK l \in DOMAIN node :
            Rank(DOMAIN node, l) = j - 1 /\ s[j] = node[l]
      BY <1>2
    <2>3. k = l
      BY <1>5, <2>1, <2>2 DEF Distinct
    <2>4. i - 1 = j - 1
      BY <2>1, <2>2, <2>3
    <2> QED BY <1>1, <2>4
  <1> QED BY <1>3, <1>4, <1>5

-----------------------------------------------------------------------------
(* The node of a list.                                                     *)

LEMMA NodeOfList ==
  ASSUME NEW S, NEW s \in Seq(S)
  PROVE  /\ DOMAIN AsNode(s) = 0..(Len(s) - 1)
         /\ IsFiniteSet(DOMAIN AsNode(s))
         /\ DOMAIN AsNode(s) \in SUBSET Nat
         /\ Cardinality(DOMAIN AsNode(s)) = Len(s)
         /\ \A k \in 0..(Len(s) - 1) : AsNode(s)[k] = s[k + 1]
         /\ AsNode(s) \in [0..(Len(s) - 1) -> S]
         /\ \A x : x \in Stored(AsNode(s)) <=> InSeq(x, s)
         /\ Distinct(s) => Distinct(AsNode(s))
  <1>1. Len(s) \in Nat /\ DOMAIN s = 1..Len(s) /\ \A i \in 1..Len(s) : s[i] \in S
    BY LenProperties, ElementOfSeq
  <1>2. {i - 1 : i \in DOMAIN s} = 0..(Len(s) - 1)
    <2>1. \A k \in 0..(Len(s) - 1) : k + 1 \in 1..Len(s) /\ k = (k + 1) - 1
      BY <1>1
    <2>2. \A i \in 1..Len(s) : i - 1 \in 0..(Len(s) - 1)
      BY <1>1
    <2> QED BY <1>1, <2>1, <2>2
  <1>3. AsNode(s) = [k \in 0..(Len(s) - 1) |-> s[k + 1]]
    BY <1>2 DEF AsNode
  <1>4. \A k \in 0..(Len(s) - 1) : s[k + 1] \in S /\ k + 1 \in DOMAIN s
    BY <1>1
  <1>5. IsFiniteSet(0..(Len(s) - 1)) /\ Cardinality(0..(Len(s) - 1)) = Len(s)
    <2>1. 0 \in Int /\ Len(s) - 1 \in Int
      BY <1>1
    <2>2. /\ IsFiniteSet(0..(Len(s) - 1))
          /\ Cardinality(0..(Len(s) - 1)) =
               IF 0 > Len(s) - 1 THEN 0 ELSE (Len(s) - 1) - 0 + 1
      BY <2>1, FS_Interval
    <2> QED BY <1>1, <2>2
  <1>6. 0..(Len(s) - 1) \in SUBSET Nat
    BY <1>1
  <1>7. ASSUME NEW x
        PROVE  x \in Stored(AsNode(s)) <=> InSeq(x, s)
    <2>1. x \in Stored(AsNode(s)) => InSeq(x, s)
      BY <1>3, <1>4 DEF Stored, InSeq
    <2>2. ASSUME NEW i \in DOMAIN s, x = s[i]
          PROVE  x \in Stored(AsNode(s))
      <3>1. i - 1 \in 0..(Len(s) - 1) /\ (i - 1) + 1 = i
        BY <1>1
      <3>2. AsNode(s)[i - 1] = x /\ i - 1 \in DOMAIN AsNode(s)
        BY <1>3, <2>2, <3>1
      <3> QED BY <3>2 DEF Stored
    <2> QED BY <2>1, <2>2 DEF InSeq
  <1>8. ASSUME Distinct(s)
        PROVE  Distinct(AsNode(s))
    <2> SUFFICES ASSUME NEW k \in 0..(Len(s) - 1), NEW l \in 0..(Len(s) - 1),
                        s[k + 1] = s[l + 1]
                 PROVE  k = l
      BY <1>3 DEF Distinct
    <2>1. k + 1 = l + 1
      BY <1>4, <1>8 DEF Distinct
    <2> QED BY <2>1
  <1> QED BY <1>3, <1>4, <1>5, <1>6, <1>7, <1>8

\* What is written as a list is read back as that list.
LEMMA ListReadBack ==
  ASSUME NEW S, NEW s \in Seq(S)
  PROVE  Children(AsNode(s)) = s
  <1> DEFINE n == Len(s)
             t == Children(AsNode(s))
  <1>1. n \in Nat /\ DOMAIN AsNode(s) = 0..(n - 1)
        /\ Cardinality(DOMAIN AsNode(s)) = n
    BY NodeOfList, LenProperties
  <1>2. t \in Seq(S) /\ Len(t) = n
    BY NodeOfList, ChildrenType
  <1>3. ASSUME NEW i \in 1..n
        PROVE  t[i] = s[i]
    <2>1. i - 1 \in 0..(n - 1) /\ (i - 1) + 1 = i
      BY <1>1
    <2>2. Rank(DOMAIN AsNode(s), i - 1) = i - 1
      BY <1>1, <2>1, NoHoleRank
    <2>3. \A k \in DOMAIN AsNode(s) :
            t[Rank(DOMAIN AsNode(s), k) + 1] = AsNode(s)[k]
      <3>1. DOMAIN AsNode(s) \in SUBSET Nat /\ IsFiniteSet(DOMAIN AsNode(s))
        BY NodeOfList
      <3> QED BY <3>1, ChildrenInOrder
    <2>5. t[(i - 1) + 1] = AsNode(s)[i - 1]
      BY <1>1, <2>1, <2>2, <2>3
    <2>4. AsNode(s)[i - 1] = s[(i - 1) + 1]
      BY <2>1, NodeOfList
    <2> QED BY <2>1, <2>4, <2>5
  <1> QED BY <1>2, <1>3, SeqEqual

\* A list that is not empty casts to [String] when it is read.
LEMMA ListCasts ==
  ASSUME NEW S, NEW s \in Seq(S), s # <<>>
  PROVE  CastsToStrings(AsNode(s))
  <1>1. Len(s) \in Nat /\ Len(s) > 0
    BY EmptySeq, LenProperties
  <1>2. DOMAIN AsNode(s) = 0..(Len(s) - 1) /\ Cardinality(DOMAIN AsNode(s)) = Len(s)
    BY NodeOfList
  <1>3. 0 \in DOMAIN AsNode(s) /\ \A k \in DOMAIN AsNode(s) : k < 2 * Len(s)
    BY <1>1, <1>2
  <1>4. ~HasHole(AsNode(s))
    BY <1>1, <1>2 DEF HasHole
  <1> QED BY <1>2, <1>3, <1>4 DEF CastsToStrings, ExportsArray

-----------------------------------------------------------------------------
(* What the screens do with lists.                                         *)

\* The first place of something that is in a list.
LEMMA FirstIsThere ==
  ASSUME NEW S, NEW s \in Seq(S), NEW i \in DOMAIN s
  PROVE  /\ First(s, s[i]) \in 1..Len(s)
         /\ s[First(s, s[i])] = s[i]
         /\ \A j \in 1..(First(s, s[i]) - 1) : s[j] # s[i]
  <1> DEFINE x == s[i]
             T == {j \in 1..Len(s) : s[j] = x}
  <1>1. Len(s) \in Nat /\ DOMAIN s = 1..Len(s)
    BY LenProperties
  <1>2. T \in SUBSET Nat /\ IsFiniteSet(T) /\ T # {}
    <2>1. T \in SUBSET (1..Len(s)) /\ i \in T
      BY <1>1
    <2>2. IsFiniteSet(1..Len(s))
      BY <1>1, FS_Interval
    <2>3. IsFiniteSet(T)
      BY <2>1, <2>2, FS_Subset
    <2>4. 1..Len(s) \in SUBSET Nat
      BY <1>1
    <2> QED BY <2>1, <2>3, <2>4
  <1> HIDE DEF T
  <1>3. PICK k \in T : Rank(T, k) = 0
    <2>1. Cardinality(T) # 0 /\ Cardinality(T) \in Nat
      BY <1>2, FS_EmptySet, FS_CardinalityType
    <2>2. 0 \in 0..(Cardinality(T) - 1)
      BY <2>1
    <2> QED BY <1>2, <2>2, KeysRanked
  <1>4. {j \in T : j < k} = {}
    <2>1. {j \in T : j < k} \in SUBSET T
      OBVIOUS
    <2>2. IsFiniteSet({j \in T : j < k})
      BY <1>2, <2>1, FS_Subset
    <2> QED BY <1>3, <2>2, FS_EmptySet DEF Rank
  <1>5. k \in 1..Len(s) /\ s[k] = x /\ \A j \in 1..(k - 1) : s[j] # x
    <2>1. k \in 1..Len(s) /\ s[k] = x
      BY <1>3 DEF T
    <2>2. ASSUME NEW j \in 1..(k - 1), s[j] = x
          PROVE  FALSE
      <3>1. j \in 1..Len(s) /\ j < k
        BY <1>1, <2>1
      <3>2. j \in {l \in T : l < k}
        BY <2>2, <3>1 DEF T
      <3> QED BY <1>4, <3>2
    <2> QED BY <2>1, <2>2
  <1>6. \E l \in DOMAIN s : s[l] = x /\ \A j \in 1..(l - 1) : s[j] # x
    BY <1>1, <1>5
  <1> QED BY <1>1, <1>6 DEF First

\* One element less, the later ones one place forward.
LEMMA DropProperties ==
  ASSUME NEW S, NEW s \in Seq(S), NEW i \in 1..Len(s)
  PROVE  /\ Drop(s, i) \in Seq(S)
         /\ Len(Drop(s, i)) = Len(s) - 1
         /\ \A j \in 1..(Len(s) - 1) :
              Drop(s, i)[j] = IF j < i THEN s[j] ELSE s[j + 1]
  <1> DEFINE n == Len(s)
             a == SubSeq(s, 1, i - 1)
             b == SubSeq(s, i + 1, n)
  <1>1. n \in Nat /\ \A j \in 1..n : s[j] \in S
    BY LenProperties, ElementOfSeq
  <1>2. /\ a \in Seq(S) /\ Len(a) = i - 1
        /\ \A j \in 1..(i - 1) : a[j] = s[j]
    <2>1. 1 \in Int /\ i - 1 \in Int /\ \A j \in 1..(i - 1) : s[j] \in S
      BY <1>1
    <2>2. /\ a \in Seq(S)
          /\ Len(a) = IF 1 <= i - 1 THEN (i - 1) - 1 + 1 ELSE 0
          /\ \A j \in 1..((i - 1) - 1 + 1) : a[j] = s[1 + j - 1]
      BY <2>1, SubSeqProperties
    <2> QED BY <1>1, <2>2
  <1>3. /\ b \in Seq(S) /\ Len(b) = n - i
        /\ \A j \in 1..(n - i) : b[j] = s[i + j]
    <2>1. i + 1 \in Int /\ n \in Int /\ \A j \in (i + 1)..n : s[j] \in S
      BY <1>1
    <2>2. /\ b \in Seq(S)
          /\ Len(b) = IF i + 1 <= n THEN n - (i + 1) + 1 ELSE 0
          /\ \A j \in 1..(n - (i + 1) + 1) : b[j] = s[(i + 1) + j - 1]
      BY <2>1, SubSeqProperties
    <2>3. \A j \in 1..(n - i) :
            j \in 1..(n - (i + 1) + 1) /\ (i + 1) + j - 1 = i + j
      BY <1>1
    <2>4. \A j \in 1..(n - i) : b[j] = s[i + j]
      BY <2>2, <2>3
    <2>5. Len(b) = n - i
      BY <1>1, <2>2
    <2> QED BY <2>2, <2>4, <2>5
  <1>4. /\ a \o b \in Seq(S) /\ Len(a \o b) = Len(a) + Len(b)
        /\ \A j \in 1..(Len(a) + Len(b)) :
             (a \o b)[j] = IF j <= Len(a) THEN a[j] ELSE b[j - Len(a)]
    BY <1>2, <1>3, ConcatProperties
  <1> HIDE DEF a, b
  <1>5. Len(a) + Len(b) = n - 1
    BY <1>1, <1>2, <1>3
  <1>6. ASSUME NEW j \in 1..(n - 1)
        PROVE  (a \o b)[j] = IF j < i THEN s[j] ELSE s[j + 1]
    <2>1. CASE j < i
      <3>1. j <= Len(a) /\ j \in 1..(i - 1)
        BY <1>2, <2>1
      <3> QED BY <1>2, <1>4, <1>5, <2>1, <3>1
    <2>2. CASE ~(j < i)
      <3>1. ~(j <= Len(a)) /\ j - Len(a) = j - i + 1
            /\ j - i + 1 \in 1..(n - i) /\ i + (j - i + 1) = j + 1
        BY <1>1, <1>2, <2>2
      <3>2. (a \o b)[j] = b[j - i + 1]
        BY <1>4, <1>5, <3>1
      <3>3. b[j - i + 1] = s[i + (j - i + 1)]
        BY <1>3, <3>1
      <3> QED BY <2>2, <3>1, <3>2, <3>3
    <2> QED BY <2>1, <2>2
  <1> QED BY <1>4, <1>5, <1>6 DEF Drop, a, b

\* Dropping an element leaves the others, and nobody twice who was not before.
LEMMA DropKeepsOthers ==
  ASSUME NEW S, NEW s \in Seq(S), NEW i \in 1..Len(s)
  PROVE  /\ \A x : InSeq(x, Drop(s, i)) => InSeq(x, s)
         /\ \A x : InSeq(x, s) /\ x # s[i] => InSeq(x, Drop(s, i))
         /\ Distinct(s) => Distinct(Drop(s, i)) /\ ~InSeq(s[i], Drop(s, i))
  <1> DEFINE n == Len(s)
             t == Drop(s, i)
  <1>1. n \in Nat /\ DOMAIN s = 1..n
    BY LenProperties
  <1>2. /\ DOMAIN t = 1..(n - 1)
        /\ \A j \in 1..(n - 1) : t[j] = IF j < i THEN s[j] ELSE s[j + 1]
    <2>1. t \in Seq(S) /\ Len(t) = n - 1
          /\ \A j \in 1..(n - 1) : t[j] = IF j < i THEN s[j] ELSE s[j + 1]
      BY DropProperties
    <2> QED BY <2>1, LenProperties
  <1> HIDE DEF t
  <1> DEFINE from(j) == IF j < i THEN j ELSE j + 1
  <1>3. \A j \in 1..(n - 1) :
          from(j) \in 1..n /\ from(j) # i /\ t[j] = s[from(j)]
    BY <1>1, <1>2
  <1>4. \A j, k \in 1..(n - 1) : from(j) = from(k) => j = k
    BY <1>1
  <1>5. ASSUME NEW l \in 1..n, l # i
        PROVE  \E j \in 1..(n - 1) : t[j] = s[l]
    <2>1. CASE l < i
      <3>1. l \in 1..(n - 1) /\ t[l] = s[l]
        BY <1>1, <1>2, <2>1
      <3> QED BY <3>1
    <2>2. CASE ~(l < i)
      <3>1. l - 1 \in 1..(n - 1) /\ ~(l - 1 < i) /\ (l - 1) + 1 = l
        BY <1>1, <1>5, <2>2
      <3>2. t[l - 1] = s[l]
        BY <1>2, <3>1
      <3> QED BY <3>1, <3>2
    <2> QED BY <2>1, <2>2
  <1>6. \A x : InSeq(x, t) => InSeq(x, s)
    BY <1>1, <1>2, <1>3 DEF InSeq
  <1>7. \A x : InSeq(x, s) /\ x # s[i] => InSeq(x, t)
    BY <1>1, <1>2, <1>5 DEF InSeq
  <1>8. ASSUME Distinct(s)
        PROVE  Distinct(t) /\ ~InSeq(s[i], t)
    <2>1. \A j, k \in 1..n : s[j] = s[k] => j = k
      BY <1>1, <1>8 DEF Distinct
    <2>2. \A j, k \in 1..(n - 1) : t[j] = t[k] => j = k
      <3> SUFFICES ASSUME NEW j \in 1..(n - 1), NEW k \in 1..(n - 1), t[j] = t[k]
                   PROVE  j = k
        OBVIOUS
      <3>1. from(j) = from(k)
        BY <1>3, <2>1
      <3> QED BY <1>4, <3>1
    <2>3. \A j \in 1..(n - 1) : t[j] # s[i]
      BY <1>3, <2>1
    <2> QED BY <1>2, <2>2, <2>3 DEF Distinct, InSeq
  <1> QED BY <1>6, <1>7, <1>8 DEF t

\* What is left when every x is removed.
LEMMA WithoutProperties ==
  ASSUME NEW S, NEW s \in Seq(S), NEW x
  PROVE  /\ Without(s, x) \in Seq(S)
         /\ \A y : InSeq(y, Without(s, x)) <=> InSeq(y, s) /\ y # x
         /\ Distinct(s) => Distinct(Without(s, x))
  <1> DEFINE D == {j \in DOMAIN s : s[j] # x}
             node == [i \in D |-> s[i]]
  <1>1. Len(s) \in Nat /\ DOMAIN s = 1..Len(s) /\ \A i \in 1..Len(s) : s[i] \in S
    BY LenProperties, ElementOfSeq
  <1>2. D \in SUBSET Nat /\ IsFiniteSet(D)
    <2>1. IsFiniteSet(1..Len(s)) /\ 1..Len(s) \in SUBSET Nat
      BY <1>1, FS_Interval
    <2>2. D \in SUBSET (1..Len(s))
      BY <1>1
    <2>3. IsFiniteSet(D)
      BY <2>1, <2>2, FS_Subset
    <2> QED BY <2>1, <2>2, <2>3
  <1>3. /\ DOMAIN node = D /\ \A k \in D : node[k] = s[k] /\ node[k] \in S
        /\ D \in SUBSET DOMAIN s
    BY <1>1
  <1>4. \A y : y \in Stored(node) <=> InSeq(y, s) /\ y # x
    BY DEF Stored, InSeq
  <1>5. Distinct(s) => Distinct(node)
    BY DEF Distinct
  <1>6. Without(s, x) = Children(node)
    BY DEF Without
  <1> HIDE DEF node, D
  <1>7. /\ Children(node) \in Seq(S)
        /\ \A y : InSeq(y, Children(node)) <=> y \in Stored(node)
        /\ Distinct(node) => Distinct(Children(node))
    BY <1>2, <1>3, ChildrenType
  <1> QED BY <1>4, <1>5, <1>6, <1>7

\* Writing the child after the last one adds to the list.
LEMMA ChildAtEnd ==
  ASSUME NEW S, NEW s \in Seq(S), NEW x \in S
  PROVE  WithChild(AsNode(s), Len(s), x) = AsNode(Append(s, x))
  <1> DEFINE n == Len(s)
             t == Append(s, x)
  <1>1. n \in Nat
    BY LenProperties
  <1>2. /\ t \in Seq(S) /\ Len(t) = n + 1
        /\ \A i \in 1..n : t[i] = s[i]
        /\ t[n + 1] = x
    BY AppendProperties, LenProperties
  <1>3. AsNode(s) = [k \in 0..(n - 1) |-> s[k + 1]]
    BY NodeOfList
  <1> HIDE DEF t
  <1>4. AsNode(t) = [k \in 0..n |-> t[k + 1]]
    <2>1. /\ \A k \in 0..(n + 1 - 1) : AsNode(t)[k] = t[k + 1]
          /\ AsNode(t) \in [0..(n + 1 - 1) -> S]
      BY <1>2, NodeOfList
    <2>2. 0..(n + 1 - 1) = 0..n
      BY <1>1
    <2> QED BY <2>1, <2>2
  <1>5. 0..n = 0..(n - 1) \cup {n}
    BY <1>1
  <1>6. WithChild(AsNode(s), n, x) =
          [j \in 0..n |-> IF j = n THEN x ELSE AsNode(s)[j]]
    BY <1>3, <1>5 DEF WithChild
  <1>7. \A j \in 0..n : t[j + 1] = IF j = n THEN x ELSE AsNode(s)[j]
    <2> TAKE j \in 0..n
    <2>1. j = n \/ (j \in 0..(n - 1) /\ j + 1 \in 1..n)
      BY <1>1
    <2> QED BY <1>1, <1>2, <1>3, <2>1
  <1> QED BY <1>4, <1>6, <1>7 DEF t

\* Setting the last child to nil drops the last element.
LEMMA LastChildRemoved ==
  ASSUME NEW S, NEW s \in Seq(S), s # <<>>
  PROVE  WithoutChild(AsNode(s), Len(s) - 1) = AsNode(Drop(s, Len(s)))
  <1> DEFINE n == Len(s)
             t == Drop(s, n)
  <1>1. n \in Nat /\ n > 0 /\ n \in 1..n
    BY EmptySeq, LenProperties
  <1>2. /\ t \in Seq(S) /\ Len(t) = n - 1
        /\ \A j \in 1..(n - 1) : t[j] = s[j]
    BY <1>1, DropProperties
  <1> HIDE DEF t
  <1>3. AsNode(s) = [k \in 0..(n - 1) |-> s[k + 1]]
    BY NodeOfList
  <1>4. AsNode(t) = [k \in 0..(n - 2) |-> t[k + 1]]
    <2>1. /\ \A k \in 0..(n - 1 - 1) : AsNode(t)[k] = t[k + 1]
          /\ AsNode(t) \in [0..(n - 1 - 1) -> S]
      BY <1>2, NodeOfList
    <2>2. 0..(n - 1 - 1) = 0..(n - 2)
      BY <1>1
    <2> QED BY <2>1, <2>2
  <1>5. 0..(n - 2) = 0..(n - 1) \ {n - 1}
    BY <1>1
  <1>6. WithoutChild(AsNode(s), n - 1) = [j \in 0..(n - 2) |-> s[j + 1]]
    BY <1>3, <1>5 DEF WithoutChild
  <1>7. \A j \in 0..(n - 2) : t[j + 1] = s[j + 1]
    <2> TAKE j \in 0..(n - 2)
    <2>1. j + 1 \in 1..(n - 1)
      BY <1>1
    <2> QED BY <1>2, <2>1
  <1> QED BY <1>4, <1>6, <1>7 DEF t
=============================================================================
