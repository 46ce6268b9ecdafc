---------------------------- MODULE MCDeadmanUnit ----------------------------
(* The dead-man service on a small instance.                                *)
EXTENDS DeadmanUnit

CONSTANTS h1, h2

Answer(reason, healthy, hash) ==
    [reason |-> reason, healthy |-> healthy, hash |-> hash]

(* One answer of every class of the reason map, a contradictory one too.    *)
EveryAnswer ==
    {Answer("heartbeat_current", TRUE, h1),
     Answer("heartbeat_current", FALSE, h1),
     Answer("heartbeat_missing", FALSE, None),
     Answer("invalid_timestamp", FALSE, None),
     Answer("heartbeat_stale", FALSE, h2)}
=============================================================================
