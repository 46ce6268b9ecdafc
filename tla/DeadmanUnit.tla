----------------------------- MODULE DeadmanUnit -----------------------------
(***************************************************************************)
(* The service around the dead-man outbox: DeadmanOutbox.run, which checks *)
(* after every interval and ends at the first check that raises, and the   *)
(* systemd unit deploy/p133/opscat-deadman.service, which starts it again  *)
(* until its start limit is used up.                                       *)
(*                                                                         *)
(* Every step is one of the outbox, with what it means for the service, or *)
(* a step of the service that leaves the outbox alone.  Operators run      *)
(* checks, acknowledgements and retention by hand beside it; each takes    *)
(* the lease and makes an attempt of the service raise meanwhile.          *)
(***************************************************************************)
EXTENDS DeadmanOutbox

CONSTANT StartLimit   \* StartLimitBurst of the unit

ASSUME StartLimitAssumption == StartLimit \in Nat \ {0}

VARIABLES
    unit,     \* the service: about to make its first check, checking,
              \* asleep after a check, ended by an exception, or given up
    starts    \* its starts within the window of the limit

unitVars == <<unit, starts>>
serviceVars == <<vars, unitVars>>

UnitInit ==
    /\ Init
    /\ unit = "started"
    /\ starts = 1

(* The loop calls check_once and gets the lease.                            *)
UnitChecks ==
    /\ unit \in {"started", "asleep"}
    /\ StartCheck
    /\ unit' = "checking"
    /\ UNCHANGED starts

(* The lease is held by somebody else, or the outbox, the cursor or the clock
   is refused: check_once raises, run ends, the process exits with an error. *)
UnitRefused ==
    /\ unit \in {"started", "asleep"}
    /\ cursor.next <= MaxSequence
    /\ \/ pc # "idle"
       \/ ~ClockAcceptable(cursor, clock)
       \/ ~ValidatedEvents
       \/ ~SequenceConsistent(cursor)
    /\ unit' = "down"
    /\ UNCHANGED <<vars, starts>>

CheckByHand == StartCheck /\ UNCHANGED unitVars

(* The steps of operations under way that do not end a check.               *)
OperationGoesOn ==
    /\ \/ CheckDeduplicates \/ CheckPreparesEvent
       \/ WriteEventTemp \/ ReplaceEvent \/ SyncEvent \/ WriteCursor
       \/ RemoveOrphanAck \/ SyncOrphan \/ OrphansDone
       \/ PruneEvent \/ SyncPrune \/ PruneAck \/ SyncPruneAck \/ PruneDone
       \/ ReplaceAck \/ SyncAck
    /\ UNCHANGED unitVars

CheckSucceeds ==
    /\ SyncCursor
    /\ unit' = IF unit = "checking" THEN "asleep" ELSE unit
    /\ UNCHANGED starts

ProcessEnds == unit' = IF unit = "checking" THEN "down" ELSE unit

(* An operation raises by itself.                                           *)
OperationRaises ==
    /\ CheckFailsClosed \/ RetentionFailsClosed \/ BudgetExhausted
    /\ ProcessEnds
    /\ UNCHANGED starts

(* It meets an error or is killed.                                          *)
OperationFails ==
    /\ Abort \/ KillLeavesTemp
    /\ ProcessEnds
    /\ UNCHANGED starts

(* Restart=on-failure: a start within the limit, or none ever again.        *)
Restart ==
    /\ unit = "down"
    /\ IF starts < StartLimit
       THEN unit' = "started" /\ starts' = starts + 1
       ELSE unit' = "failed" /\ UNCHANGED starts
    /\ UNCHANGED vars

(* The window of the limit passes over a service that is running: it has
   made a check since its start.  One whose first check raises is started
   again after RestartSec, so its starts fall into one window.              *)
WindowPasses ==
    /\ unit = "asleep" /\ starts > 1
    /\ starts' = 1
    /\ UNCHANGED <<vars, unit>>

Outside ==
    /\ \/ Tick \/ StepClockBack \/ MonitorChanges
       \/ StartRetention \/ StartAcknowledge
    /\ UNCHANGED unitVars

UnitNext ==
    \/ UnitChecks \/ UnitRefused \/ CheckByHand
    \/ OperationGoesOn \/ CheckSucceeds \/ OperationRaises \/ OperationFails
    \/ Restart \/ WindowPasses \/ Outside

(* Fairness.  A process that holds the lease goes on to its end; the loop
   makes its next attempt, and the unit its next start, when it is due.
   Nothing is assumed of operators.                                         *)
UnitSpec ==
    /\ UnitInit /\ [][UnitNext]_serviceVars
    /\ WF_serviceVars(OperationGoesOn \/ CheckSucceeds \/ OperationRaises)
    /\ WF_serviceVars(UnitChecks \/ UnitRefused)
    /\ WF_serviceVars(Restart)

-----------------------------------------------------------------------------
(* Properties.                                                              *)

(* An outage has an open incident with this answer, a living monitor none.  *)
Reflected(r) ==
    LET s == normalize_watchdog_result(r)
    IN  IF Healthy(s) THEN cursor.active = None
                      ELSE cursor.active # None /\ cursor.active.snap = s

(* A watchdog answer that stays the same is finally reflected by the cursor,
   whatever errors, kills and operators did before, unless the unit has used
   up its start limit and is marked failed: the dead-man never goes on running
   beside an answer it does not reflect.  (Or the bound on sequences is
   reached.)                                                                *)
StableAnswerIsReflected ==
    \A r \in WatchdogResults :
        <>[](monitor = r) =>
            \/ <>[](Reflected(r) \/ cursor.next > MaxSequence)
            \/ <>[](unit = "failed")
=============================================================================
