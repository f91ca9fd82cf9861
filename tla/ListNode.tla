------------------------------ MODULE ListNode ------------------------------
(***************************************************************************)
(* A list in the Firebase database is a node whose children have the       *)
(* indices as keys.  Setting a child to nil leaves a hole.  A snapshot     *)
(* exports a node as an array, with NSNull in the holes, when its largest  *)
(* key is less than twice the number of its children, and as a dictionary  *)
(* otherwise (FChildrenNode valForExport); Swift's cast to [String] accepts *)
(* neither a null nor a dictionary.                                        *)
(*                                                                         *)
(* A node is a function from its keys to the strings there.                *)
(***************************************************************************)
EXTENDS Naturals, Sequences, FiniteSets

\* The node setValue makes of an array.
AsNode(list) == [k \in {i - 1 : i \in DOMAIN list} |-> list[k + 1]]

\* The node after setValue of one child.
WithChild(node, k, x) ==
  [j \in DOMAIN node \cup {k} |-> IF j = k THEN x ELSE node[j]]

\* The node after setValue(nil) of one child.
WithoutChild(node, k) == [j \in DOMAIN node \ {k} |-> node[j]]

\* The children in the order of their keys (snapshot.children).
Children(node) ==
  [i \in 1..Cardinality(DOMAIN node) |->
     node[CHOOSE k \in DOMAIN node :
            Cardinality({j \in DOMAIN node : j < k}) = i - 1]]

ExportsArray(node) ==
  /\ DOMAIN node # {}
  /\ \A k \in DOMAIN node : k < 2 * Cardinality(DOMAIN node)

HasHole(node) == \E k \in DOMAIN node : \E j \in 0..k : j \notin DOMAIN node

\* Whether the exported value casts to [String].
CastsToStrings(node) == ExportsArray(node) /\ ~HasHole(node)

Stored(node) == {node[k] : k \in DOMAIN node}

-----------------------------------------------------------------------------
(* What the screens do with the lists they hold.                           *)

InSeq(x, s)   == \E i \in DOMAIN s : s[i] = x
First(s, x)   == CHOOSE i \in DOMAIN s : s[i] = x /\ \A j \in 1..(i-1) : s[j] # x
Drop(s, i)    == SubSeq(s, 1, i - 1) \o SubSeq(s, i + 1, Len(s))

\* What is left, in its order, when every x is removed.
Without(s, x) == Children([i \in {j \in DOMAIN s : s[j] # x} |-> s[i]])
=============================================================================
