-------------------------- MODULE ObservationTriage --------------------------
(***************************************************************************)
(* The P138 supervisor (src/app/services/p138_observation_triage_          *)
(* supervisor.py) over the observer, the publisher and the triage runtime: *)
(* every run first reconciles what the earlier ones left on disk, then     *)
(* completes the cycle they left open or carries one cycle through         *)
(*                                                                         *)
(*   cycle_started, p136_completed, handoff_selected, handoff_published,   *)
(*   p137_accepted, cycle_finalized                                        *)
(*                                                                         *)
(* and commits it to the supervisor's ledger and checkpoint.  The process  *)
(* that makes the runs can die anywhere and be started again with the      *)
(* checkpoint it finds; a write can fail with an error, which ends the run *)
(* but not the process; and an operator can run the triage runtime next to *)
(* it.                                                                     *)
(*                                                                         *)
(* This module has the runs (_run_p138_locked) and lets a process start    *)
(* and end at any time.  TriageService restricts the starts and ends to    *)
(* those of the loop around the runs, of the service around the loop and   *)
(* of its unit.                                                            *)
(***************************************************************************)
EXTENDS TriageHandoff

CONSTANTS
    MaxFaults,       \* crashes, failed writes and exceeded limits (bound)
    MaxOperatorRuns  \* runs of the triage runtime by an operator (bound)

ASSUME SupervisorAssumption ==
    /\ MaxFaults \in Nat
    /\ MaxOperatorRuns \in Nat

VARIABLES
    pc,        \* where _run_p138_locked is
    phase,     \* the supervisor's phase file
    ledger,    \* the supervisor's ledger
    sup,       \* the ledger cycle its checkpoint names, 0 if there is none
    seen,      \* triage checkpoint and ledger as the run read them, in memory
    faults,
    operatorRuns

supervisorVars == <<pc, phase, ledger, sup, seen>>
vars == <<producerVars, observerVars, mem, now, publisherVars, triageVars,
          supervisorVars, faults, operatorRuns>>

(* What the phase file carries; result, bundle and triage are filled in as *)
(* the cycle gets there.                                                   *)
PhaseFile ==
    [name : {"cycle_started", "p136_completed", "handoff_selected",
             "handoff_published", "p137_accepted", "cycle_finalized"},
     prev : Nat, start : Checkpoint, result : Checkpoint,
     bundle : BundleName, triage : TriageCheckpoint]

SupervisorLedger ==
    [cycle : Nat, result : Checkpoint, boundary : Nat,
     bundle : BundleName, triage : TriageCheckpoint]

NoPhase == [name |-> None]
NoSupervisorLedger ==
    [cycle |-> 0, result |-> FirstCheckpoint, boundary |-> 0,
     bundle |-> <<0, 0>>, triage |-> NoCheckpoint]

NothingSeen == [checkpoint |-> NoCheckpoint, ledger |-> NoLedger]

Init ==
    /\ ObserverInit
    /\ HandoffInit
    /\ pc = "idle"
    /\ phase = NoPhase
    /\ ledger = NoSupervisorLedger
    /\ sup = 0
    /\ seen = NothingSeen
    /\ faults = 0
    /\ operatorRuns = 0

componentVars == <<producerVars, observerVars, mem, now, publisherVars, triageVars>>
boundVars == <<faults, operatorRuns>>

-----------------------------------------------------------------------------
(* What a run demands of the durable state before it does anything.        *)

Finalized == phase.name = "cycle_finalized"

(* The runtime's checkpoint is the one the last finalized cycle left.      *)
RuntimeMatches ==
    /\ Finalized => mem = phase.result
    /\ phase = NoPhase /\ ledger.cycle > 0 => mem = ledger.result

SupervisorCheckpointValid ==
    ~Finalized /\ sup > 0 => sup = ledger.cycle

(* _validate_p137_durable_membership, on what the run has read.            *)
TriageStateValid ==
    /\ seen.checkpoint.cycles = seen.ledger.cycles
    /\ seen.checkpoint.at = seen.ledger.at
    /\ seen.ledger.cycles > 0 => <<seen.ledger.cycles, seen.ledger.at>> \in tRecords

(* The bundle at the fixed path follows the one the ledger names.          *)
SuccessorOfLedger ==
    /\ fixed.seq = ledger.bundle[1] + 1
    /\ fixed.prev = ledger.bundle[2]

(* _publisher_snapshot and _validate_publisher_against_p138_ledger.        *)
PublisherLineage ==
    /\ fixed = pubState
    /\ IF ledger.cycle = 0 THEN fixed.seq = 1
       ELSE \/ BundleId(fixed) = ledger.bundle
            \/ /\ SuccessorOfLedger
               /\ \/ phase.name = "handoff_selected"
                  \/ /\ phase.name \in {"handoff_published", "p137_accepted",
                                        "cycle_finalized"}
                     /\ phase.bundle = BundleId(fixed)

(* _publisher_acceptance.                                                  *)
Accepted(ck) == BundleId(fixed) = ck.bundle
Pending(ck) == fixed.seq = ck.bundle[1] + 1 /\ fixed.prev = ck.bundle[2]

PhaseFollowsLedger ==
    CASE phase = NoPhase -> TRUE
      [] Finalized -> \/ phase.prev = ledger.cycle /\ sup = ledger.cycle
                      \/ phase.prev + 1 = ledger.cycle /\ sup \in {phase.prev, ledger.cycle}
      [] OTHER -> phase.prev = ledger.cycle

Reconcilable ==
    /\ RuntimeMatches
    /\ SupervisorCheckpointValid
    /\ TriageStateValid
    /\ PublisherLineage
    /\ Accepted(seen.checkpoint) \/ Pending(seen.checkpoint)
    /\ PhaseFollowsLedger

(* Before a new cycle starts: the last one is accepted, published and      *)
(* observed up to the same promotion.                                      *)
PredecessorReconciled ==
    /\ BundleId(fixed) = ledger.bundle
    /\ Accepted(seen.checkpoint)
    /\ Len(mem.promoted) = ledger.boundary

-----------------------------------------------------------------------------
(* The start and the end of a run.                                         *)

(* _hydrate_p136_runtime: a new process takes the persisted checkpoint,    *)
(* after the checks of TriageService.                                      *)
Restart ==
    /\ pc = "down"
    /\ mem' = obs
    /\ pc' = "idle"
    /\ UNCHANGED <<producerVars, observerVars, now, publisherVars, triageVars>>
    /\ UNCHANGED <<phase, ledger, sup, seen, boundVars>>

(* The process ends between two runs.                                      *)
LoopEnds ==
    /\ pc = "idle"
    /\ pc' = "down"
    /\ UNCHANGED <<componentVars, phase, ledger, sup, seen, boundVars>>

(* The files are read; a publication cut short is carried through before   *)
(* the rest is validated.                                                  *)
BeginRun ==
    /\ pc = "idle"
    /\ now' \in {t \in 1..MaxNow : now <= t}
    /\ seen' = [checkpoint |-> tCheckpoint, ledger |-> tLedger]
    /\ IF pubIntent # NoBundle /\ RuntimeMatches /\ SupervisorCheckpointValid
         THEN /\ pc' = "recovering"
              /\ pubPc' = "recover"
         ELSE /\ pc' = "reconcile"
              /\ UNCHANGED pubPc
    /\ UNCHANGED <<producerVars, observerVars, mem, pubIntent, fixed, pubState, triageVars>>
    /\ UNCHANGED <<phase, ledger, sup, boundVars>>

PublicationRecovered ==
    /\ pc = "recovering"
    /\ pubPc = "returned"
    /\ pubPc' = "idle"
    /\ pc' = "reconcile"
    /\ UNCHANGED <<producerVars, observerVars, mem, now, pubIntent, fixed, pubState, triageVars>>
    /\ UNCHANGED <<phase, ledger, sup, seen, boundVars>>

(* The run returns its result to the loop.                                 *)
RunEnds ==
    /\ pc' = "idle"
    /\ seen' = NothingSeen

(* The promotions at the fixed path are the cycle's delta                  *)
(* (_validate_snapshot_for_delta).                                         *)
DeltaPublished ==
    /\ fixed.ckpt = phase.result
    /\ fixed.from = ledger.boundary + 1

(* The errors a run raises by itself, before its next write.               *)
Refused ==
    CASE pc = "recovering" -> pubPc = "raised"
      [] pc = "reconcile" ->
            \/ ~Reconcilable
            \/ phase.name = "handoff_published" /\ phase.bundle # BundleId(fixed)
            \/ phase.name = "p137_accepted" /\ phase.triage # seen.checkpoint
      [] pc = "start" -> ~PredecessorReconciled
      [] pc = "observing" ->
            \/ oPc \in {"scan_refused", "raised"}
            \/ /\ oPc = "returned"
               /\ phase.name # "cycle_started"
               /\ phase.result # oResult
      [] pc = "published" -> ~DeltaPublished
      [] pc = "accept" -> ~Accepted(seen.checkpoint) /\ ~Pending(seen.checkpoint)
      [] pc = "accepted" -> ~Accepted(seen.checkpoint)
      [] OTHER -> FALSE

Refuse ==
    /\ Refused
    /\ oPc' = "idle"
    /\ oResult' = FirstCheckpoint
    /\ pubPc' = "idle"
    /\ RunEnds
    /\ UNCHANGED <<producerVars, obs, records, outcome, mem, now>>
    /\ UNCHANGED <<pubIntent, fixed, pubState, triageVars>>
    /\ UNCHANGED <<phase, ledger, sup, boundVars>>

-----------------------------------------------------------------------------
(* _run_p138_locked once the state is accepted.                            *)

(* A finalized phase: commit what is missing of it, then remove it.        *)
ReconcileFinalized ==
    /\ pc = "reconcile"
    /\ ~Refused
    /\ Finalized
    /\ pc' = CASE phase.prev = ledger.cycle -> "repair_ledger"
               [] phase.prev # ledger.cycle /\ sup # ledger.cycle -> "repair_checkpoint"
               [] phase.prev # ledger.cycle /\ sup = ledger.cycle -> "unlink"
    /\ UNCHANGED <<componentVars, phase, ledger, sup, seen, boundVars>>

RemovePhase ==
    /\ pc \in {"unlink", "unlink_repaired"}
    /\ phase' = NoPhase
    /\ IF pc = "unlink" THEN pc' = "start" /\ UNCHANGED seen ELSE RunEnds
    /\ UNCHANGED <<componentVars, ledger, sup, boundVars>>

NoOpenCycle ==
    /\ pc = "reconcile"
    /\ ~Refused
    /\ phase = NoPhase
    /\ pc' = IF ledger.cycle = 0 THEN "accept" ELSE "start"
    /\ UNCHANGED <<componentVars, phase, ledger, sup, seen, boundVars>>

(* index_read_receipt_pool_exhausted: the run fails, and the loop stops.   *)
ReceiptsExhausted ==
    /\ pc = "start"
    /\ ~Refused
    /\ mem.used = Receipts
    /\ RunEnds
    /\ UNCHANGED <<componentVars, phase, ledger, sup, boundVars>>

(* _start_or_resume_observation.                                           *)
StartCycle ==
    /\ pc = "start"
    /\ ~Refused
    /\ mem.used < Receipts
    /\ phase' = [name |-> "cycle_started", prev |-> ledger.cycle,
                 start |-> mem, result |-> mem,
                 bundle |-> <<0, 0>>, triage |-> NoCheckpoint]
    /\ oPc' = "scan"
    /\ pc' = "observing"
    /\ UNCHANGED <<producerVars, obs, records, outcome, oResult, mem, now>>
    /\ UNCHANGED <<publisherVars, triageVars, ledger, sup, seen, boundVars>>

(* _resume_phase.                                                          *)
ResumeObservation ==
    /\ pc = "reconcile"
    /\ ~Refused
    /\ phase.name \in {"cycle_started", "p136_completed", "handoff_selected"}
    /\ oPc' = "recover"
    /\ pc' = "observing"
    /\ UNCHANGED <<producerVars, obs, records, outcome, oResult, mem, now>>
    /\ UNCHANGED <<publisherVars, triageVars, phase, ledger, sup, seen, boundVars>>

ResumeTriage ==
    /\ pc = "reconcile"
    /\ ~Refused
    /\ \/ phase.name = "handoff_published" /\ pc' = "accept"
       \/ phase.name = "p137_accepted" /\ pc' = "finalize"
    /\ UNCHANGED <<componentVars, phase, ledger, sup, seen, boundVars>>

(* The observation returns; a phase past cycle_started demands the outcome *)
(* it has recorded.                                                        *)
Observed ==
    /\ pc = "observing"
    /\ oPc = "returned"
    /\ ~Refused
    /\ mem' = oResult
    /\ oPc' = "idle"
    /\ oResult' = FirstCheckpoint
    /\ pc' = CASE phase.name = "cycle_started" -> "observed"
               [] phase.name = "p136_completed" -> "select"
               [] phase.name = "handoff_selected" -> "publish"
    /\ UNCHANGED <<producerVars, obs, records, outcome, now>>
    /\ UNCHANGED <<publisherVars, triageVars, phase, ledger, sup, seen, boundVars>>

WriteP136Completed ==
    /\ pc = "observed"
    /\ phase' = [phase EXCEPT !.name = "p136_completed", !.result = mem]
    /\ pc' = "select"
    /\ UNCHANGED <<componentVars, ledger, sup, seen, boundVars>>

HasDelta == Len(phase.result.promoted) > ledger.boundary

(* _continue_after_p136: without new promotions the cycle is finalized     *)
(* with the bundle and the triage of the ledger.                           *)
SelectHandoff ==
    /\ pc = "select"
    /\ phase' = IF HasDelta THEN [phase EXCEPT !.name = "handoff_selected"]
                ELSE [phase EXCEPT !.name = "cycle_finalized",
                                   !.bundle = ledger.bundle,
                                   !.triage = ledger.triage]
    /\ pc' = IF HasDelta THEN "publish" ELSE "ledger"
    /\ UNCHANGED <<componentVars, ledger, sup, seen, boundVars>>

(* _continue_publication: a bundle that already follows the ledger's is    *)
(* not published again.                                                    *)
Publish ==
    /\ pc = "publish"
    /\ IF SuccessorOfLedger
         THEN /\ pc' = "published"
              /\ UNCHANGED pubPc
         ELSE /\ pc' = "publishing"
              /\ pubPc' = "publish"
    /\ UNCHANGED <<producerVars, observerVars, mem, now, pubIntent, fixed, pubState, triageVars>>
    /\ UNCHANGED <<phase, ledger, sup, seen, boundVars>>

Published ==
    /\ pc = "publishing"
    /\ pubPc = "returned"
    /\ pubPc' = "idle"
    /\ pc' = "published"
    /\ UNCHANGED <<producerVars, observerVars, mem, now, pubIntent, fixed, pubState, triageVars>>
    /\ UNCHANGED <<phase, ledger, sup, seen, boundVars>>

(* _validate_snapshot_for_delta, then the phase.                           *)
WriteHandoffPublished ==
    /\ pc = "published"
    /\ ~Refused
    /\ phase' = [phase EXCEPT !.name = "handoff_published", !.bundle = BundleId(fixed)]
    /\ pc' = "accept"
    /\ UNCHANGED <<componentVars, ledger, sup, seen, boundVars>>

(* _accept_and_finalize_published and _bootstrap_current_bundle: a bundle  *)
(* the triage has accepted is not triaged again.                           *)
AlreadyAccepted ==
    /\ pc = "accept"
    /\ Accepted(seen.checkpoint)
    /\ pc' = "accepted"
    /\ UNCHANGED <<componentVars, phase, ledger, sup, seen, boundVars>>

RunTriage ==
    /\ pc = "accept"
    /\ Pending(seen.checkpoint)
    /\ CallTriage("supervisor")
    /\ pc' = "triaging"
    /\ UNCHANGED <<producerVars, observerVars, mem, now, publisherVars>>
    /\ UNCHANGED <<phase, ledger, sup, seen, boundVars>>

TriageLeaseConflict ==
    /\ pc = "accept"
    /\ Pending(seen.checkpoint)
    /\ tCaller # None
    /\ RunEnds
    /\ UNCHANGED <<componentVars, phase, ledger, sup, boundVars>>

Triaged ==
    /\ pc = "triaging"
    /\ tPc = "returned"
    /\ ReleaseTriage
    /\ seen' = [checkpoint |-> tCheckpoint, ledger |-> tLedger]
    /\ pc' = "accepted"
    /\ UNCHANGED <<producerVars, observerVars, mem, now, publisherVars>>
    /\ UNCHANGED <<phase, ledger, sup, boundVars>>

TriageFails ==
    /\ pc = "triaging"
    /\ tPc = "failed"
    /\ ReleaseTriage
    /\ RunEnds
    /\ UNCHANGED <<producerVars, observerVars, mem, now, publisherVars>>
    /\ UNCHANGED <<phase, ledger, sup, boundVars>>

(* The bootstrap has no phase file yet and finalizes directly.             *)
WriteP137Accepted ==
    /\ pc = "accepted"
    /\ ~Refused
    /\ IF phase = NoPhase
         THEN UNCHANGED phase
         ELSE phase' = [phase EXCEPT !.name = "p137_accepted",
                                     !.triage = seen.checkpoint]
    /\ pc' = "finalize"
    /\ UNCHANGED <<componentVars, ledger, sup, seen, boundVars>>

(* Variant: the finalized cycle carries the triage of the one before it.   *)
VariantStaleTriage ==
    /\ pc = "finalize"
    /\ phase' = IF phase = NoPhase
                THEN [name |-> "cycle_finalized", prev |-> 0,
                      start |-> fixed.ckpt, result |-> fixed.ckpt,
                      bundle |-> BundleId(fixed), triage |-> ledger.triage]
                ELSE [phase EXCEPT !.name = "cycle_finalized",
                                   !.triage = ledger.triage]
    /\ pc' = "ledger"
    /\ UNCHANGED <<componentVars, ledger, sup, seen, boundVars>>

(* _finalize_cycle.                                                        *)
WriteCycleFinalized ==
    /\ pc = "finalize"
    /\ phase' = IF phase = NoPhase
                THEN [name |-> "cycle_finalized", prev |-> 0,
                      start |-> fixed.ckpt, result |-> fixed.ckpt,
                      bundle |-> BundleId(fixed), triage |-> seen.checkpoint]
                ELSE [phase EXCEPT !.name = "cycle_finalized"]
    /\ pc' = "ledger"
    /\ UNCHANGED <<componentVars, ledger, sup, seen, boundVars>>

(* _commit_finalized_phase, in the run that finalizes and in one that      *)
(* repairs: ledger history and ledger, then the checkpoint.                *)
WriteLedger ==
    /\ pc \in {"ledger", "repair_ledger"}
    /\ ledger' = [cycle |-> phase.prev + 1, result |-> phase.result,
                  boundary |-> Len(phase.result.promoted),
                  bundle |-> phase.bundle, triage |-> phase.triage]
    /\ pc' = IF pc = "ledger" THEN "checkpoint" ELSE "repair_checkpoint"
    /\ UNCHANGED <<componentVars, phase, sup, seen, boundVars>>

WriteSupervisorCheckpoint ==
    /\ pc \in {"checkpoint", "repair_checkpoint"}
    /\ sup' = ledger.cycle
    /\ IF pc = "checkpoint" THEN RunEnds ELSE pc' = "unlink_repaired" /\ UNCHANGED seen
    /\ UNCHANGED <<componentVars, phase, ledger, boundVars>>

-----------------------------------------------------------------------------
(* The components' own steps while the supervisor waits for them.          *)

Observe ==
    /\ pc = "observing"
    /\ ObserverStep(phase.start)
    /\ UNCHANGED <<publisherVars, triageVars, supervisorVars, boundVars>>

PublishStep ==
    /\ pc \in {"publishing", "recovering"}
    /\ PublisherStep(ledger.boundary, mem)
    /\ UNCHANGED <<supervisorVars, boundVars>>

Triage ==
    /\ TriageStep
    /\ UNCHANGED <<supervisorVars, boundVars>>

(* The operator's own run of the triage runtime.                           *)
OperatorTriage ==
    /\ operatorRuns < MaxOperatorRuns
    /\ CallTriage("operator")
    /\ operatorRuns' = operatorRuns + 1
    /\ UNCHANGED <<producerVars, observerVars, mem, now, publisherVars>>
    /\ UNCHANGED <<supervisorVars, faults>>

OperatorDone ==
    /\ tCaller = "operator"
    /\ tPc \in {"returned", "failed"}
    /\ ReleaseTriage
    /\ UNCHANGED <<producerVars, observerVars, mem, now, publisherVars>>
    /\ UNCHANGED <<supervisorVars, boundVars>>

-----------------------------------------------------------------------------
(* Faults.                                                                 *)

Running == pc \notin {"idle", "down"}

(* What the supervisor holds in its components is gone, the files stay.    *)
RunAborted ==
    /\ faults < MaxFaults
    /\ faults' = faults + 1
    /\ oPc' = "idle"
    /\ oResult' = FirstCheckpoint
    /\ seen' = NothingSeen
    /\ pubPc' = "idle"
    /\ IF tCaller = "supervisor" THEN ReleaseTriage ELSE UNCHANGED triageVars
    /\ UNCHANGED <<producerVars, obs, records, outcome, mem, now>>
    /\ UNCHANGED <<pubIntent, fixed, pubState, phase, ledger, sup, operatorRuns>>

(* The process dies between two writes, in a run or outside.               *)
Crash ==
    /\ RunAborted
    /\ pc' = "down"

(* A write fails with an error: the run ends.  The file may have been      *)
(* replaced all the same (state_durability_uncertain).                     *)
WriteFails ==
    /\ Running
    /\ RunAborted
    /\ pc' = "idle"

OperatorDies ==
    /\ tCaller = "operator"
    /\ faults < MaxFaults
    /\ faults' = faults + 1
    /\ ReleaseTriage
    /\ UNCHANGED <<producerVars, observerVars, mem, now, publisherVars>>
    /\ UNCHANGED <<supervisorVars, operatorRuns>>

LimitExceeded ==
    /\ faults < MaxFaults
    /\ faults' = faults + 1
    /\ StopTriage
    /\ UNCHANGED <<supervisorVars, operatorRuns>>

-----------------------------------------------------------------------------
Produce ==
    /\ Producer
    /\ UNCHANGED <<publisherVars, triageVars, supervisorVars, boundVars>>

RunStep ==
    \/ BeginRun \/ PublicationRecovered \/ Refuse
    \/ ReconcileFinalized \/ RemovePhase \/ NoOpenCycle \/ ReceiptsExhausted
    \/ StartCycle \/ ResumeObservation \/ ResumeTriage
    \/ Observed \/ WriteP136Completed \/ SelectHandoff
    \/ Publish \/ Published \/ WriteHandoffPublished
    \/ AlreadyAccepted \/ RunTriage \/ TriageLeaseConflict \/ Triaged \/ TriageFails
    \/ WriteP137Accepted \/ WriteCycleFinalized
    \/ WriteLedger \/ WriteSupervisorCheckpoint
    \/ Observe \/ PublishStep

Next ==
    \/ Produce
    \/ Restart \/ LoopEnds \/ RunStep
    \/ Triage
    \/ OperatorTriage \/ OperatorDone
    \/ Crash \/ WriteFails \/ OperatorDies \/ LimitExceeded

Spec == Init /\ [][Next]_vars

-----------------------------------------------------------------------------
(* Properties.                                                             *)

(* Types of the durable and in-memory state.                               *)
TypeOK ==
    /\ index \in IndexFile
    /\ produced \in Nat
    /\ obs \in Checkpoint /\ mem \in Checkpoint /\ oResult \in Checkpoint
    /\ records \subseteq Nat \X (1..MaxNow)
    /\ outcome \in OutcomeFile \cup {NoOutcome}
    /\ now \in 1..MaxNow
    /\ pubIntent \in BundleFile \cup {NoBundle}
    /\ fixed \in BundleFile /\ pubState \in BundleFile
    /\ tIntents \subseteq BundleName \X (1..MaxNow)
    /\ tRecords \subseteq Nat \X (1..MaxNow)
    /\ tLedger \in TriageLedger
    /\ tCheckpoint \in TriageCheckpoint
    /\ tCaller \in {None, "supervisor", "operator"}
    /\ tNow \in 1..MaxNow
    /\ tBundle \in BundleFile \cup {NoBundle}
    /\ phase \in PhaseFile \cup {NoPhase}
    /\ ledger \in SupervisorLedger
    /\ sup \in Nat
    /\ seen \in [checkpoint : TriageCheckpoint, ledger : TriageLedger]

(* Whatever was cut short before it, a run that has begun is refused by    *)
(* _run_p138_locked in two situations only: the index itself is refused,   *)
(* or it has read a triage ledger that is one ahead of the triage          *)
(* checkpoint.  Every other state in which kills and failed writes leave   *)
(* the files of observer, publisher and triage and the supervisor's phase, *)
(* ledger and checkpoint is reconciled by the run.  (The service may       *)
(* refuse to begin one: TriageService.)                                    *)
RunsAreAccepted ==
    Refused =>
        \/ pc = "observing" /\ oPc = "scan_refused"
        \/ pc = "reconcile" /\ seen.ledger.cycles = seen.checkpoint.cycles + 1

(* A bundle stays at the fixed path until the triage has accepted it, and  *)
(* the triage has worked on each bundle exactly once.                      *)
BundlesAreTriagedOnce ==
    /\ fixed.seq \in {tCheckpoint.bundle[1], tCheckpoint.bundle[1] + 1}
    /\ tCheckpoint.cycles = tCheckpoint.bundle[1]
    /\ tLedger.cycles \in {tCheckpoint.cycles, tCheckpoint.cycles + 1}

(* What the supervisor has finalized is published, accepted by the triage  *)
(* and backed by its records; the ledger never runs ahead of them.         *)
LedgerIsBacked ==
    ledger.cycle > 0 =>
        /\ ledger.triage.bundle = ledger.bundle
        /\ ledger.bundle[1] <= tCheckpoint.bundle[1]
        /\ <<ledger.triage.cycles, ledger.triage.at>> \in tRecords

(* The promotions of the bundle at the fixed path are those of the durable *)
(* observer checkpoint, and each has its record file under that hash:      *)
(* promotions a repeated cycle has made again are not published.           *)
PublishedIsPromoted ==
    /\ IsPrefix(fixed.ckpt.promoted, obs.promoted)
    /\ \A e \in DOMAIN obs.promoted : <<e, obs.promoted[e]>> \in records

(* A cycle consumes one index read receipt, however often it is repeated.  *)
OneReceiptPerCycle ==
    ledger.cycle > 0 => obs.used \in {ledger.cycle - 1, ledger.cycle}

(* A new bundle follows the one it replaces and starts with the promotion  *)
(* after its last: nothing is published twice and nothing left out.        *)
BundlesAreContiguous ==
    [][fixed' # fixed =>
          /\ fixed'.seq = fixed.seq + 1
          /\ fixed'.prev = fixed.at
          /\ fixed'.from = Len(fixed.ckpt.promoted) + 1]_vars

(* "Known valid crash windows must reconcile deterministically"            *)
(* (docs/operations/p138-plan-review.md): no run is refused because of     *)
(* what an earlier one left behind.                                        *)
CrashWindowsReconcile == pc = "reconcile" => ~Refused

=============================================================================
