------------------------ MODULE MCObservationTriage -------------------------
(* Instance of ObservationTriage for TLC.                                   *)
EXTENDS ObservationTriage
=============================================================================
