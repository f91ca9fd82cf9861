--------------------------- MODULE MCFirebasePath ---------------------------
(* FirebasePath alone, with every value writable by every device. *)
EXTENDS FirebasePath

CONSTANT MaxTroubles  \* bound: how much of the budget beside writes is spent

MCRegs == {"screen"}

Troubles ==
  (MaxDrops - budget.drops) + (MaxRejects - budget.rejects)
  + (MaxKills - budget.kills) + (MaxReads - budget.reads)
  + (MaxOthers - budget.others)

\* Deliver always drains a queue and takes part in no property here.
MCNext == PathNext /\ Troubles' <= MaxTroubles
MCSpec == PathInit /\ [][MCNext]_pathVars /\ PathFairness
=============================================================================
