-------------------------- MODULE MCSearchWizard --------------------------
(* Small instances of SearchWizard for TLC.                                *)
EXTENDS SearchWizard
=============================================================================
