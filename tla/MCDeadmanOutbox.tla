-------------------------- MODULE MCDeadmanOutbox --------------------------
(* The dead-man outbox on small instances: two checkpoint hashes, a handful
   of watchdog answers, one or two event files.                             *)
EXTENDS DeadmanOutbox

CONSTANTS h1, h2

Answer(reason, healthy, hash) ==
    [reason |-> reason, healthy |-> healthy, hash |-> hash]

(* The monitor beats, dies, and its checkpoint vanishes.                    *)
DyingMonitor ==
    {Answer("heartbeat_current", TRUE, h1),
     Answer("heartbeat_stale", FALSE, h1),
     Answer("state_missing", FALSE, None)}
=============================================================================
