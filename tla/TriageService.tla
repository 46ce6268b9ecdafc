---------------------------- MODULE TriageService ----------------------------
(***************************************************************************)
(* The service around the supervisor: the loop of P138                     *)
(* (_run_p138_supervisor_loop), which writes a heartbeat and a readiness   *)
(* record after every run, P139 (p139_local_triage_service.py), which      *)
(* rolls the records of the process before it over and leaves an exit      *)
(* receipt, and its systemd unit (deploy/p139/).                           *)
(*                                                                         *)
(* Every step is one of ObservationTriage, with what it means for the      *)
(* service, or a step of the service that leaves the supervisor's and its  *)
(* components' files alone.                                                *)
(*                                                                         *)
(* The hash of a ledger is its cycle; a control record (readiness or       *)
(* heartbeat) is its status, the ledger it names and the generation of the *)
(* exit receipt that the process writing it is to leave.  Records that     *)
(* nothing reads back are left out: the histories, the termination record, *)
(* the status snapshot and the classification of the start.  A write of    *)
(* the service that fails ends the process, like a kill.  _initial_loop_   *)
(* state finds no control record once they are rolled over, so its stale   *)
(* and binding checks never apply under P139.                              *)
(***************************************************************************)
EXTENDS ObservationTriage

CONSTANTS
    StartLimit,     \* StartLimitBurst of the unit
    MaxHandStarts   \* starts of an ended service by an operator (bound)

ASSUME ServiceAssumption == StartLimit \in Nat \ {0} /\ MaxHandStarts \in Nat

VARIABLES
    svc,        \* where the process is, or how it has ended
    last,       \* last_ledger_hash of the loop, in memory
    stopping,   \* the loop has a stop_reason
    ready,      \* the readiness record, or NoRecord
    beat,       \* the heartbeat record, or NoRecord
    archive,    \* restart_control_path: the records being rolled over
    exitIntent, \* exit_intent_path: generation, and whether it is pending
    receipt,    \* generation of the exit receipt, 0 if there is none
    starts,     \* starts of the unit within the window of its limit
    handStarts

loopVars == <<last, stopping>>
controlVars == <<ready, beat, archive>>
exitVars == <<exitIntent, receipt>>
unitVars == <<starts, handStarts>>
serviceVars == <<svc, loopVars, controlVars, exitVars, unitVars>>

NoRecord == [status |-> "none"]
ControlRecord == [status : {"ready", "stopped"}, ledger : Nat, gen : Nat]
NoArchive == [pending |-> FALSE, ready |-> NoRecord, beat |-> NoRecord]

ServiceInit ==
    /\ Init
    /\ svc = "loop" /\ last = 0 /\ stopping = FALSE
    /\ ready = NoRecord /\ beat = NoRecord /\ archive = NoArchive
    /\ exitIntent = [gen |-> 0, pending |-> FALSE] /\ receipt = 0
    /\ starts = 1 /\ handStarts = 0

(* The process that runs now is to leave this receipt.                     *)
Generation == receipt + 1

(* The memory of the loop goes with its process.                           *)
Forget == last' = 0 /\ stopping' = FALSE

-----------------------------------------------------------------------------
(* The start of a process.                                                 *)

(* _recover_exit_commit: an intent is carried through when there is no     *)
(* receipt yet.  A receipt of an earlier generation is a conflict.         *)
ExitRecoverable == receipt = 0 \/ receipt = exitIntent.gen

RecoverExitReceipt ==
    /\ svc = "starting" /\ exitIntent.gen > 0 /\ receipt = 0
    /\ receipt' = exitIntent.gen
    /\ UNCHANGED <<vars, svc, loopVars, controlVars, exitIntent, unitVars>>

CompleteExitRecovery ==
    /\ svc = "starting" /\ receipt = exitIntent.gen
    /\ exitIntent' = [exitIntent EXCEPT !.pending = FALSE]
    /\ svc' = IF archive.pending THEN "rollover" ELSE "controls"
    /\ UNCHANGED <<vars, loopVars, controlVars, receipt, unitVars>>

(* _rollover_prior_controls: the records of the process before name the    *)
(* ledger as it is, and a clean stop is the one of the exit receipt.       *)
Bound(record) == record # NoRecord => record.ledger = ledger.cycle

ControlsAccepted ==
    /\ Bound(ready) /\ Bound(beat)
    /\ receipt > 0 /\ ready.status = "stopped" =>
          ready.gen = receipt /\ beat # NoRecord /\ beat.gen = receipt

ArchiveControls ==
    /\ svc = "controls" /\ ControlsAccepted
    /\ IF ready = NoRecord /\ beat = NoRecord
       THEN svc' = "hydrate" /\ UNCHANGED archive
       ELSE /\ archive' = [pending |-> TRUE, ready |-> ready, beat |-> beat]
            /\ svc' = "rollover"
    /\ UNCHANGED <<vars, loopVars, ready, beat, exitVars, unitVars>>

(* Here and in _recover_restart_control: readiness first, then heartbeat,  *)
(* each only if it is the archived one.                                    *)
UnlinkReadiness ==
    /\ svc = "rollover" /\ ready # NoRecord /\ ready = archive.ready
    /\ ready' = NoRecord
    /\ UNCHANGED <<vars, svc, loopVars, beat, archive, exitVars, unitVars>>

UnlinkHeartbeat ==
    /\ svc = "rollover" /\ ready = NoRecord
    /\ beat # NoRecord /\ beat = archive.beat
    /\ beat' = NoRecord
    /\ UNCHANGED <<vars, svc, loopVars, ready, archive, exitVars, unitVars>>

(* Variant: the archive is not marked as completed.                        *)
VariantStaysPending ==
    /\ svc = "rollover" /\ ready = NoRecord /\ beat = NoRecord
    /\ svc' = "hydrate"
    /\ UNCHANGED <<vars, loopVars, controlVars, exitVars, unitVars>>

CompleteRollover ==
    /\ svc = "rollover" /\ ready = NoRecord /\ beat = NoRecord
    /\ archive' = NoArchive
    /\ svc' = "hydrate"
    /\ UNCHANGED <<vars, loopVars, ready, beat, exitVars, unitVars>>

(* The checkpoint is loaded, _initial_loop_state reads the ledger; a loop  *)
(* that has been told to stop by then makes no run.                        *)
StartLoop ==
    /\ svc = "hydrate"
    /\ Restart
    /\ last' = ledger.cycle
    /\ stopping' \in BOOLEAN
    /\ svc' = IF stopping' THEN "control" ELSE "loop"
    /\ UNCHANGED <<controlVars, exitVars, unitVars>>

(* The checks that make a start raise, and every later one with it.        *)
StartRefused ==
    \/ svc = "starting" /\ ~ExitRecoverable
    \/ svc = "controls" /\ ~ControlsAccepted
    \/ svc = "rollover" /\ \/ ready \notin {NoRecord, archive.ready}
                           \/ beat \notin {NoRecord, archive.beat}

RefuseStart ==
    /\ StartRefused
    /\ svc' = "down"
    /\ UNCHANGED <<vars, loopVars, controlVars, exitVars, unitVars>>

-----------------------------------------------------------------------------
(* The loop.                                                               *)

(* A run goes on.  When it returns, its result names the ledger it has     *)
(* read or written; the loop stops for good when the receipts are used up, *)
(* at a signal, at the threshold of failures or after the last cycle.      *)
RunGoesOn ==
    /\ svc = "loop"
    /\ RunStep
    /\ IF pc' # "idle" THEN UNCHANGED <<svc, loopVars>>
       ELSE /\ svc' = "control"
            /\ last' = ledger'.cycle
            /\ stopping' \in IF ReceiptsExhausted THEN {TRUE} ELSE BOOLEAN
    /\ UNCHANGED <<controlVars, exitVars, unitVars>>

(* A write fails.  The result does not name a ledger that was replaced but *)
(* whose write raised.                                                     *)
RunFails ==
    /\ svc = "loop"
    /\ WriteFails
    /\ svc' = "control"
    /\ stopping' \in BOOLEAN
    /\ last' \in IF pc \in {"checkpoint", "repair_checkpoint"}
                 THEN {last, ledger.cycle} ELSE {ledger.cycle}
    /\ UNCHANGED <<controlVars, exitVars, unitVars>>

(* A signal between two runs: the next one only returns its stop_reason.   *)
StopBetweenRuns ==
    /\ svc = "loop" /\ pc = "idle"
    /\ stopping' = TRUE
    /\ svc' = "control"
    /\ UNCHANGED <<vars, last, controlVars, exitVars, unitVars>>

(* _write_loop_control: heartbeat if it is due, then readiness.            *)
Control ==
    [status |-> IF stopping THEN "stopped" ELSE "ready",
     ledger |-> last, gen |-> Generation]

WriteHeartbeat ==
    /\ svc = "control" /\ last = ledger.cycle
    /\ beat' = Control
    /\ svc' = "readiness"
    /\ UNCHANGED <<vars, loopVars, ready, archive, exitVars, unitVars>>

(* The first heartbeat of a loop and the last one are always due.          *)
HeartbeatNotDue ==
    /\ svc = "control" /\ last = ledger.cycle
    /\ ~stopping /\ beat # NoRecord
    /\ svc' = "readiness"
    /\ UNCHANGED <<vars, loopVars, controlVars, exitVars, unitVars>>

WriteReadiness ==
    /\ svc = "readiness"
    /\ ready' = Control
    /\ svc' = IF stopping THEN "exit_intent" ELSE "loop"
    /\ UNCHANGED <<vars, loopVars, beat, archive, exitVars, unitVars>>

(* loop_control_ledger_binding_mismatch.                                   *)
ControlRaises ==
    /\ svc = "control" /\ last # ledger.cycle
    /\ LoopEnds
    /\ svc' = "down"
    /\ Forget
    /\ UNCHANGED <<controlVars, exitVars, unitVars>>

-----------------------------------------------------------------------------
(* _commit_exit_receipt: intent, receipt, intent completed.                *)

WriteExitIntent ==
    /\ svc = "exit_intent"
    /\ exitIntent' = [gen |-> Generation, pending |-> TRUE]
    /\ svc' = "exit_receipt"
    /\ UNCHANGED <<vars, loopVars, controlVars, receipt, unitVars>>

WriteExitReceipt ==
    /\ svc = "exit_receipt"
    /\ receipt' = exitIntent.gen
    /\ svc' = "exit_complete"
    /\ UNCHANGED <<vars, loopVars, controlVars, exitIntent, unitVars>>

(* The process returns 0.                                                  *)
CompleteExit ==
    /\ svc = "exit_complete"
    /\ LoopEnds
    /\ exitIntent' = [exitIntent EXCEPT !.pending = FALSE]
    /\ svc' = "stopped"
    /\ Forget
    /\ UNCHANGED <<controlVars, receipt, unitVars>>

-----------------------------------------------------------------------------
(* The unit.                                                               *)

Ended == svc \in {"down", "stopped", "failed"}

(* The process is killed, or a write of the service fails.                 *)
Killed ==
    /\ ~Ended
    /\ Crash
    /\ svc' = "down"
    /\ Forget
    /\ UNCHANGED <<controlVars, exitVars, unitVars>>

(* Restart=on-failure: a start within the limit, or none ever again.  A    *)
(* process that returns 0 is not started again.                            *)
UnitRestarts ==
    /\ svc = "down"
    /\ IF starts < StartLimit
       THEN svc' = "starting" /\ starts' = starts + 1
       ELSE svc' = "failed" /\ UNCHANGED starts
    /\ UNCHANGED <<vars, loopVars, controlVars, exitVars, handStarts>>

(* The window of the limit passes over a loop that runs.  A process that   *)
(* is refused at its start is started again after RestartSec, so its       *)
(* starts fall into one window.                                            *)
WindowPasses ==
    /\ svc = "loop" /\ starts > 1
    /\ starts' = 1
    /\ UNCHANGED <<vars, svc, loopVars, controlVars, exitVars, handStarts>>

StartedByHand ==
    /\ svc \in {"stopped", "failed"} /\ handStarts < MaxHandStarts
    /\ svc' = "starting" /\ starts' = 1 /\ handStarts' = handStarts + 1
    /\ UNCHANGED <<vars, loopVars, controlVars, exitVars>>

-----------------------------------------------------------------------------
(* The next steps of the service by itself.                                *)
Serve ==
    \/ RecoverExitReceipt \/ CompleteExitRecovery \/ ArchiveControls
    \/ UnlinkReadiness \/ UnlinkHeartbeat \/ CompleteRollover \/ StartLoop
    \/ RefuseStart \/ RunGoesOn \/ WriteHeartbeat \/ HeartbeatNotDue
    \/ WriteReadiness \/ ControlRaises \/ WriteExitIntent \/ WriteExitReceipt
    \/ CompleteExit \/ UnitRestarts

TriageGoesOn == Triage /\ UNCHANGED serviceVars
OperatorReleases == OperatorDone /\ UNCHANGED serviceVars

(* The producer, the operator and the limits, beside the service.          *)
Beside ==
    /\ Produce \/ OperatorTriage \/ OperatorDies \/ LimitExceeded
    /\ UNCHANGED serviceVars

ServiceNext ==
    \/ Serve \/ RunFails \/ StopBetweenRuns \/ Killed
    \/ WindowPasses \/ StartedByHand
    \/ TriageGoesOn \/ OperatorReleases \/ Beside

ServiceSpec == ServiceInit /\ [][ServiceNext]_<<vars, serviceVars>>

(* A process that runs goes on, the unit starts it again when it is due,   *)
(* and a triage run that has begun goes on to its end.  Nothing is assumed *)
(* of the producer, the faults, the windows of the start limit or when an  *)
(* operator acts.                                                          *)
FairServiceSpec ==
    /\ ServiceSpec
    /\ WF_<<vars, serviceVars>>(Serve)
    /\ WF_<<vars, serviceVars>>(TriageGoesOn \/ OperatorReleases)

-----------------------------------------------------------------------------
(* Properties.                                                             *)

(* Types of the state of the service.                                      *)
ServiceTypeOK ==
    /\ svc \in {"starting", "controls", "rollover", "hydrate", "loop",
                "control", "readiness", "exit_intent", "exit_receipt",
                "exit_complete", "down", "stopped", "failed"}
    /\ last \in Nat /\ stopping \in BOOLEAN
    /\ ready \in ControlRecord \cup {NoRecord}
    /\ beat \in ControlRecord \cup {NoRecord}
    /\ archive \in [pending : BOOLEAN, ready : ControlRecord \cup {NoRecord},
                    beat : ControlRecord \cup {NoRecord}]
    /\ exitIntent \in [gen : Nat, pending : BOOLEAN]
    /\ receipt \in Nat /\ starts \in Nat /\ handStarts \in Nat

(* A record that a process has left names an earlier ledger: it died after *)
(* a run's ledger and before the run's readiness, or its last heartbeat    *)
(* was not due.                                                            *)
Outdated(record) == record # NoRecord /\ record.ledger < ledger.cycle

(* A process after the first exit receipt died between its last readiness  *)
(* and its own exit receipt.                                               *)
ExitCutShort ==
    /\ receipt > 0
    /\ \/ ready.status = "stopped" /\ ready.gen = receipt + 1
       \/ exitIntent.gen = receipt + 1

(* Wherever the processes before have died, a start is refused for what    *)
(* they have left in two situations only: a control record names an        *)
(* earlier ledger, or the exit of a process after the first was cut short. *)
(* A kill anywhere in a start, also between the writes of a rollover or of *)
(* a recovered exit receipt, in a run before its ledger is written, or in  *)
(* the first exit, never keeps the service from being started again.       *)
StartsAreAccepted ==
    StartRefused => Outdated(ready) \/ Outdated(beat) \/ ExitCutShort

(* The supervisor has to stay where it is: the receipts are used up, the   *)
(* triage is in a split commit, or the index is refused.                   *)
Stuck == obs.used = Receipts \/ SplitCommit \/ ~ScanAccepts(obs)

(* Unless the supervisor is stuck for good, or its service has ended for   *)
(* good (stopped as it should, or marked failed by its unit), every entry  *)
(* the producer completes is observed, published, triaged and finalized.   *)
EntriesAreTriaged ==
    \/ <>[]Stuck
    \/ <>[](svc \in {"stopped", "failed"})
    \/ \A e \in 1..MaxEntries : (produced >= e) ~> (ledger.boundary >= e)
=============================================================================
