------------------------- MODULE MCDeadmanPowerLoss -------------------------
(* Loss of power on a small instance of the dead-man outbox.                *)
EXTENDS DeadmanPowerLoss

CONSTANTS h1, h2

DyingMonitor ==
    {[reason |-> "heartbeat_current", healthy |-> TRUE, hash |-> h1],
     [reason |-> "heartbeat_stale", healthy |-> FALSE, hash |-> h1]}

(* No operation on events or cursor ends between a rename or an unlink and
   the fsync of the directory.                                              *)
OutsideSync == Points \ {"syncEvent", "syncPrune", "syncCursor"}
=============================================================================
