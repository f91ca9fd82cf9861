----------------------------- MODULE SharedValue -----------------------------
(***************************************************************************)
(* What the app may rely on when its devices write one path of the         *)
(* database: a value that each write replaces as a whole, at once, some    *)
(* time after it was asked for.  The writes of a device are taken in the   *)
(* order they were asked for, are refused or take effect, and are          *)
(* forgotten only after that; before a write is forgotten a device may     *)
(* have to begin again, so that a write takes effect more than once.       *)
(*                                                                         *)
(* FirebasePath is shown to implement this module.                         *)
(***************************************************************************)
EXTENDS Naturals, Sequences

CONSTANTS
  Clients,  \* the devices
  Values,   \* the values they may write
  Initial   \* the value at the start

VARIABLES
  value,    \* the value all devices share
  wanted,   \* device |-> the writes it has asked for, oldest first
  taken     \* device |-> how many of these have been dealt with

vars == <<value, wanted, taken>>

Init ==
  /\ value = Initial
  /\ wanted = [c \in Clients |-> <<>>]
  /\ taken = [c \in Clients |-> 0]

Ask(c, v) ==
  /\ wanted' = [wanted EXCEPT ![c] = Append(@, v)]
  /\ UNCHANGED <<value, taken>>

\* The oldest write not dealt with yet takes effect, or is refused.
Deal(c) ==
  /\ taken[c] < Len(wanted[c])
  /\ taken' = [taken EXCEPT ![c] = @ + 1]
  /\ value' \in {value, wanted[c][taken[c] + 1]}
  /\ UNCHANGED wanted

\* The oldest n writes, which were dealt with, are forgotten.
Forget(c, n) ==
  /\ n > 0 /\ n <= taken[c]
  /\ wanted' = [wanted EXCEPT ![c] = SubSeq(@, n + 1, Len(@))]
  /\ taken' = [taken EXCEPT ![c] = @ - n]
  /\ UNCHANGED value

\* The device learned of only n writes that they were dealt with, and begins
\* again with the others.
BeginAgain(c, n) ==
  /\ n <= taken[c]
  /\ taken' = [taken EXCEPT ![c] = n]
  /\ UNCHANGED <<value, wanted>>

\* The device loses its writes.
GiveUp(c) ==
  /\ wanted' = [wanted EXCEPT ![c] = <<>>]
  /\ taken' = [taken EXCEPT ![c] = 0]
  /\ UNCHANGED value

Next ==
  \E c \in Clients :
    \/ \E v \in Values : Ask(c, v)
    \/ Deal(c)
    \/ \E n \in 0..Len(wanted[c]) : Forget(c, n) \/ BeginAgain(c, n)
    \/ GiveUp(c)

Spec == Init /\ [][Next]_vars
=============================================================================
