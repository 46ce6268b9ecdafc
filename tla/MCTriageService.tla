-------------------------- MODULE MCTriageService ---------------------------
(* Instance of TriageService for TLC.                                       *)
EXTENDS TriageService
=============================================================================
