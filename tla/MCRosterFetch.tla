--------------------------- MODULE MCRosterFetch ---------------------------
(* A small instance of RosterFetch: everything is given by the cfg.        *)
EXTENDS RosterFetch
=============================================================================
