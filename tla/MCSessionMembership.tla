------------------------ MODULE MCSessionMembership ------------------------
(* Small instances of SessionMembership: devices c1 and c2, host h, and    *)
(* users u1 and u2.                                                        *)
EXTENDS SessionMembership, TLC

CONSTANTS c1, c2, h, u1, u2
CONSTANT MaxTroubles  \* bound: how much of the budget beside writes is spent

TwoUsers   == c1 :> u1 @@ c2 :> u2   \* two users, a device each
OneUser    == c1 :> u1 @@ c2 :> u1   \* one user with two devices
HostAndOne == c1 :> u1 @@ c2 :> h    \* a user's device and the host's

MCValues  == WellFormedLists
MCInitial == InitialList
MCRegs    == {"list", "details"}

Troubles ==
  (MaxDrops - budget.drops) + (MaxRejects - budget.rejects)
  + (MaxKills - budget.kills) + (MaxReads - budget.reads)
  + (MaxOthers - budget.others)

\* The fair actions can always be taken without trouble.
MCNext     == Next /\ Troubles' <= MaxTroubles
MCSpec     == Init /\ [][MCNext]_vars
MCFairSpec == MCSpec /\ Fairness
=============================================================================
