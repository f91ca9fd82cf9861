---------------------------- MODULE MCBuddyLists ----------------------------
(* Small instances of BuddyLists for TLC.                                  *)
EXTENDS BuddyLists

CONSTANTS me, a, b

MCUsers    == {me, a, b}
OneBuddy   == <<a>>
TwoBuddies == <<a, b>>
=============================================================================
