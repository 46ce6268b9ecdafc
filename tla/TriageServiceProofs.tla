------------------------ MODULE TriageServiceProofs ------------------------
(***************************************************************************)
(* The service makes only steps of ObservationTriage, so that what is      *)
(* proved of the supervisor holds of it in its service; and what can make  *)
(* a start of the service be refused.                                      *)
(***************************************************************************)
EXTENDS TriageService, ObservationTriageProofs

(* A step of the service is one of the supervisor and its surroundings, or *)
(* leaves all their files alone.                                           *)
LEMMA ServiceStep == [ServiceNext]_<<vars, serviceVars>> => [Next]_vars
<1> SUFFICES ASSUME [ServiceNext]_<<vars, serviceVars>> PROVE [Next]_vars
  OBVIOUS
<1>1. ASSUME Serve PROVE Next \/ UNCHANGED vars
  <2>1. CASE StartLoop
    BY <2>1 DEF StartLoop, Next
  <2>2. CASE RunGoesOn
    BY <2>2 DEF RunGoesOn, Next
  <2>3. CASE ControlRaises \/ CompleteExit
    BY <2>3 DEF ControlRaises, CompleteExit, Next
  <2>4. CASE \/ RecoverExitReceipt \/ CompleteExitRecovery \/ ArchiveControls
             \/ UnlinkReadiness \/ UnlinkHeartbeat \/ CompleteRollover
             \/ RefuseStart \/ WriteHeartbeat \/ HeartbeatNotDue
             \/ WriteReadiness \/ WriteExitIntent \/ WriteExitReceipt
             \/ UnitRestarts
    BY <2>4
    DEF RecoverExitReceipt, CompleteExitRecovery, ArchiveControls,
        UnlinkReadiness, UnlinkHeartbeat, CompleteRollover, RefuseStart,
        WriteHeartbeat, HeartbeatNotDue, WriteReadiness, WriteExitIntent,
        WriteExitReceipt, UnitRestarts
  <2> QED
    BY <1>1, <2>1, <2>2, <2>3, <2>4 DEF Serve
<1>2. CASE Serve
  BY <1>1, <1>2
<1>3. CASE RunFails \/ Killed
  BY <1>3 DEF RunFails, Killed, Next
<1>4. CASE StopBetweenRuns \/ WindowPasses \/ StartedByHand
  BY <1>4 DEF StopBetweenRuns, WindowPasses, StartedByHand
<1>5. CASE TriageGoesOn \/ OperatorReleases \/ Beside
  BY <1>5 DEF TriageGoesOn, OperatorReleases, Beside, Next
<1>6. CASE UNCHANGED <<vars, serviceVars>>
  BY <1>6
<1> QED
  BY <1>2, <1>3, <1>4, <1>5, <1>6 DEF ServiceNext

(* The supervisor in its service (p138 loop, p139, unit) behaves as the    *)
(* supervisor of ObservationTriage: the starts and ends that the service   *)
(* allows are among those the supervisor's own theorems are proved for.    *)
THEOREM ServiceRefines == ServiceSpec => Spec
<1>1. ServiceInit => Init
  BY DEF ServiceInit
<1> QED
  BY <1>1, ServiceStep, PTL DEF ServiceSpec, Spec

(* RunsAreAccepted and LedgerIsBacked of the service: a run that the       *)
(* service lets begin is refused for the index or for the split commit of  *)
(* the triage only, and the ledger it leaves is backed by the triage.      *)
THEOREM ServiceRunsAreAccepted ==
    ServiceSpec => [](RunsAreAccepted /\ LedgerIsBacked)
  BY ServiceRefines, AcceptedRuns, BackedLedger, PTL

-----------------------------------------------------------------------------
(* The control records and the exit receipts.                              *)

(* The process has rolled the records before it over, and has not yet left *)
(* its exit receipt: a readiness record is its own.                        *)
OwnRecords ==
    svc \in {"hydrate", "loop", "control", "readiness", "exit_intent",
             "exit_receipt"}

(* No record names a ledger to come; the one being written names the       *)
(* current one.                                                            *)
RecordsOfThePast ==
    /\ ready # NoRecord => ready.ledger <= ledger.cycle
    /\ beat # NoRecord => beat.ledger <= ledger.cycle
    /\ svc = "readiness" => last = ledger.cycle

(* An archive that is pending holds the records that are left, until the   *)
(* rollover is complete.                                                   *)
ArchiveHoldsControls ==
    /\ archive.pending =>
          /\ ready \in {NoRecord, archive.ready}
          /\ beat \in {NoRecord, archive.beat}
          /\ svc \in {"starting", "rollover", "down", "failed"}
    /\ svc = "rollover" => archive.pending

(* The readiness on disk is of the process of the last exit receipt or of  *)
(* one after it; a stopped one has the heartbeat of the same process.      *)
GenerationsFollow ==
    /\ exitIntent.gen \in {receipt, receipt + 1}
    /\ svc = "exit_receipt" => exitIntent.gen = receipt + 1
    /\ ready # NoRecord => ready.gen \in {receipt, receipt + 1} \ {0}
    /\ ready # NoRecord /\ OwnRecords => ready.gen = receipt + 1
    /\ ready # NoRecord /\ ready.status = "stopped" =>
          beat # NoRecord /\ beat.gen = ready.gen
    /\ svc = "readiness" /\ stopping =>
          beat # NoRecord /\ beat.gen = receipt + 1

ServiceInv ==
    /\ ServiceTypeOK
    /\ RecordsOfThePast
    /\ ArchiveHoldsControls
    /\ GenerationsFollow

(* What NoRecord is not, and what the records consist of.                  *)
LEMMA RecordFacts ==
    /\ NoRecord \notin ControlRecord
    /\ NoRecord.status = "none"
    /\ NoArchive.pending = FALSE
    /\ \A r \in ControlRecord :
          r.status \in {"ready", "stopped"} /\ r.ledger \in Nat /\ r.gen \in Nat
<1>1. NoRecord.status = "none" /\ NoArchive.pending = FALSE
  BY DEF NoRecord, NoArchive
<1>2. \A r \in ControlRecord :
         r.status \in {"ready", "stopped"} /\ r.ledger \in Nat /\ r.gen \in Nat
  BY DEF ControlRecord
<1> QED
  BY <1>1, <1>2

LEMMA ServiceInitInv == ServiceInit => ServiceInv
<1> SUFFICES ASSUME ServiceInit PROVE ServiceInv
  OBVIOUS
<1>1. /\ archive \in [pending : BOOLEAN, ready : ControlRecord \cup {NoRecord},
                      beat : ControlRecord \cup {NoRecord}]
      /\ ~archive.pending
  BY DEF ServiceInit, NoArchive
<1>2. exitIntent \in [gen : Nat, pending : BOOLEAN] /\ exitIntent.gen = 0
  BY DEF ServiceInit
<1> QED
  BY <1>1, <1>2
  DEF ServiceInit, ServiceInv, ServiceTypeOK, RecordsOfThePast,
      ArchiveHoldsControls, GenerationsFollow, OwnRecords

(* The ledger only goes forward (_commit_finalized_phase).                 *)
LEMMA LedgerAdvances ==
    ASSUME IInv, [Next]_vars
    PROVE  ledger.cycle \in Nat /\ ledger'.cycle \in Nat /\ ledger.cycle <= ledger'.cycle
<1>1. ledger.cycle \in Nat
  BY DEF IInv, TypeOK, SupervisorLedger
<1>2. CASE UNCHANGED ledger
  BY <1>1, <1>2
<1>3. CASE WriteLedger
  <2>1. phase.prev = ledger.cycle
    BY <1>3 DEF WriteLedger, IInv, PhaseOfPc
  <2>2. ledger'.cycle = phase.prev + 1
    BY <1>3 DEF WriteLedger
  <2> QED
    BY <1>1, <2>1, <2>2
<1>4. UNCHANGED ledger \/ WriteLedger
  BY SupervisorWrites
  DEF RemovePhase, StartCycle, WriteP136Completed, SelectHandoff,
      WriteHandoffPublished, WriteP137Accepted, WriteCycleFinalized,
      WriteSupervisorCheckpoint
<1> QED
  BY <1>2, <1>3, <1>4

(* The supervisor's state does not change with the service's own steps.    *)
LEMMA LedgerKept == UNCHANGED vars => UNCHANGED ledger
  BY DEF vars, supervisorVars

LEMMA ServiceInvNext ==
    ServiceInv /\ IInv /\ [ServiceNext]_<<vars, serviceVars>> => ServiceInv'
<1> SUFFICES ASSUME ServiceInv, IInv, [ServiceNext]_<<vars, serviceVars>>
             PROVE  ServiceInv'
  OBVIOUS
<1> USE DEF loopVars, controlVars, exitVars, unitVars
<1>1. /\ ledger.cycle \in Nat /\ ledger'.cycle \in Nat
      /\ ledger.cycle <= ledger'.cycle
  BY ServiceStep, LedgerAdvances
<1>2. CASE RecoverExitReceipt
  <2>1. UNCHANGED ledger
    BY <1>2, LedgerKept DEF RecoverExitReceipt
  <2> QED
    BY <1>1, <1>2, <2>1, RecordFacts
    DEF RecoverExitReceipt, ServiceInv, ServiceTypeOK, RecordsOfThePast,
        ArchiveHoldsControls, GenerationsFollow, OwnRecords
<1>3. CASE CompleteExitRecovery
  <2>1. UNCHANGED ledger
    BY <1>3, LedgerKept DEF CompleteExitRecovery
  <2> QED
    BY <1>1, <1>3, <2>1, RecordFacts
    DEF CompleteExitRecovery, ServiceInv, ServiceTypeOK, RecordsOfThePast,
        ArchiveHoldsControls, GenerationsFollow, OwnRecords
<1>4. CASE ArchiveControls
  <2>1. UNCHANGED ledger
    BY <1>4, LedgerKept DEF ArchiveControls
  <2> DEFINE filed == [pending |-> TRUE, ready |-> ready, beat |-> beat]
  <2>2. /\ filed \in [pending : BOOLEAN, ready : ControlRecord \cup {NoRecord},
                      beat : ControlRecord \cup {NoRecord}]
        /\ filed.pending /\ filed.ready = ready /\ filed.beat = beat
    BY DEF ServiceInv, ServiceTypeOK
  <2>3. \/ svc' = "hydrate" /\ archive' = archive /\ ready = NoRecord
        \/ svc' = "rollover" /\ archive' = filed
    BY <1>4 DEF ArchiveControls
  <2>4. svc = "controls" /\ UNCHANGED <<loopVars, ready, beat, exitVars, unitVars>>
    BY <1>4 DEF ArchiveControls
  <2> HIDE DEF filed
  <2> QED
    BY <1>1, <2>1, <2>2, <2>3, <2>4, RecordFacts
    DEF ServiceInv, ServiceTypeOK, RecordsOfThePast, ArchiveHoldsControls,
        GenerationsFollow, OwnRecords
<1>5. CASE UnlinkReadiness \/ UnlinkHeartbeat
  <2>1. UNCHANGED ledger
    BY <1>5, LedgerKept DEF UnlinkReadiness, UnlinkHeartbeat
  <2> QED
    BY <1>1, <1>5, <2>1, RecordFacts
    DEF UnlinkReadiness, UnlinkHeartbeat, ServiceInv, ServiceTypeOK,
        RecordsOfThePast, ArchiveHoldsControls, GenerationsFollow, OwnRecords
<1>6. CASE CompleteRollover
  <2>1. UNCHANGED ledger
    BY <1>6, LedgerKept DEF CompleteRollover
  <2>2. NoArchive \in [pending : BOOLEAN, ready : ControlRecord \cup {NoRecord},
                       beat : ControlRecord \cup {NoRecord}]
    BY DEF NoArchive
  <2> QED
    BY <1>1, <1>6, <2>1, <2>2, RecordFacts
    DEF CompleteRollover, ServiceInv, ServiceTypeOK, RecordsOfThePast,
        ArchiveHoldsControls, GenerationsFollow, OwnRecords
<1>7. CASE StartLoop
  <2>1. UNCHANGED ledger
    BY <1>7 DEF StartLoop, Restart
  <2> QED
    BY <1>1, <1>7, <2>1, RecordFacts
    DEF StartLoop, ServiceInv, ServiceTypeOK, RecordsOfThePast,
        ArchiveHoldsControls, GenerationsFollow, OwnRecords
<1>8. CASE RefuseStart
  <2>1. UNCHANGED ledger
    BY <1>8, LedgerKept DEF RefuseStart
  <2> QED
    BY <1>1, <1>8, <2>1, RecordFacts
    DEF RefuseStart, StartRefused, ServiceInv, ServiceTypeOK, RecordsOfThePast,
        ArchiveHoldsControls, GenerationsFollow, OwnRecords
<1>9. CASE RunGoesOn \/ RunFails
  <2>1. svc = "loop" /\ svc' \in {"loop", "control"}
    BY <1>9 DEF RunGoesOn, RunFails, ServiceInv
  <2>2. last' \in Nat /\ stopping' \in BOOLEAN
    BY <1>1, <1>9 DEF RunGoesOn, RunFails, ServiceInv, ServiceTypeOK
  <2>3. UNCHANGED <<controlVars, exitVars, unitVars>>
    BY <1>9 DEF RunGoesOn, RunFails
  <2> QED
    BY <1>1, <2>1, <2>2, <2>3, RecordFacts
    DEF ServiceInv, ServiceTypeOK, RecordsOfThePast, ArchiveHoldsControls,
        GenerationsFollow, OwnRecords
<1>10. CASE StopBetweenRuns
  <2>1. UNCHANGED ledger
    BY <1>10, LedgerKept DEF StopBetweenRuns
  <2> QED
    BY <1>1, <1>10, <2>1, RecordFacts
    DEF StopBetweenRuns, ServiceInv, ServiceTypeOK, RecordsOfThePast,
        ArchiveHoldsControls, GenerationsFollow, OwnRecords
<1>11. CASE WriteHeartbeat \/ HeartbeatNotDue
  <2>1. UNCHANGED ledger
    BY <1>11, LedgerKept DEF WriteHeartbeat, HeartbeatNotDue
  <2>2. Control \in ControlRecord /\ Control.ledger = last /\ Control.gen = receipt + 1
    BY DEF Control, ControlRecord, Generation, ServiceInv, ServiceTypeOK
  <2> QED
    BY <1>1, <1>11, <2>1, <2>2, RecordFacts
    DEF WriteHeartbeat, HeartbeatNotDue, ServiceInv, ServiceTypeOK,
        RecordsOfThePast, ArchiveHoldsControls, GenerationsFollow, OwnRecords
<1>12. CASE WriteReadiness
  <2>1. UNCHANGED ledger
    BY <1>12, LedgerKept DEF WriteReadiness
  <2>2. /\ Control \in ControlRecord
        /\ Control.ledger = last /\ Control.gen = receipt + 1
        /\ Control.status = "stopped" => stopping
    BY DEF Control, ControlRecord, Generation, ServiceInv, ServiceTypeOK
  <2> QED
    BY <1>1, <1>12, <2>1, <2>2, RecordFacts
    DEF WriteReadiness, ServiceInv, ServiceTypeOK, RecordsOfThePast,
        ArchiveHoldsControls, GenerationsFollow, OwnRecords
<1>13. CASE ControlRaises \/ Killed
  <2>1. UNCHANGED ledger
    BY <1>13 DEF ControlRaises, LoopEnds, Killed, Crash, RunAborted
  <2>2. /\ svc' = "down" /\ last' = 0 /\ stopping' = FALSE
        /\ UNCHANGED <<controlVars, exitVars, unitVars>>
    BY <1>13 DEF ControlRaises, Killed, Forget
  <2> QED
    BY <1>1, <2>1, <2>2, RecordFacts
    DEF ServiceInv, ServiceTypeOK, RecordsOfThePast, ArchiveHoldsControls,
        GenerationsFollow, OwnRecords
<1>14. CASE WriteExitIntent \/ WriteExitReceipt
  <2>1. UNCHANGED ledger
    BY <1>14, LedgerKept DEF WriteExitIntent, WriteExitReceipt
  <2>2. CASE WriteExitIntent
    <3>1. exitIntent' \in [gen : Nat, pending : BOOLEAN] /\ exitIntent'.gen = receipt + 1
      BY <2>2 DEF WriteExitIntent, Generation, ServiceInv, ServiceTypeOK
    <3> QED
      BY <1>1, <2>1, <2>2, <3>1, RecordFacts
      DEF WriteExitIntent, ServiceInv, ServiceTypeOK, RecordsOfThePast,
          ArchiveHoldsControls, GenerationsFollow, OwnRecords
  <2>3. CASE WriteExitReceipt
    BY <1>1, <2>1, <2>3, RecordFacts
    DEF WriteExitReceipt, ServiceInv, ServiceTypeOK, RecordsOfThePast,
        ArchiveHoldsControls, GenerationsFollow, OwnRecords
  <2> QED
    BY <1>14, <2>2, <2>3
<1>15. CASE CompleteExit
  <2>1. UNCHANGED ledger
    BY <1>15 DEF CompleteExit, LoopEnds
  <2> QED
    BY <1>1, <1>15, <2>1, RecordFacts
    DEF CompleteExit, Forget, ServiceInv, ServiceTypeOK, RecordsOfThePast,
        ArchiveHoldsControls, GenerationsFollow, OwnRecords
<1>16. CASE UnitRestarts \/ WindowPasses \/ StartedByHand
  <2>1. UNCHANGED ledger
    BY <1>16, LedgerKept DEF UnitRestarts, WindowPasses, StartedByHand
  <2> QED
    BY <1>1, <1>16, <2>1, RecordFacts
    DEF UnitRestarts, WindowPasses, StartedByHand, ServiceInv, ServiceTypeOK,
        RecordsOfThePast, ArchiveHoldsControls, GenerationsFollow, OwnRecords
<1>17. CASE UNCHANGED serviceVars /\ UNCHANGED ledger
  BY <1>1, <1>17
  DEF serviceVars, ServiceInv, ServiceTypeOK, RecordsOfThePast,
      ArchiveHoldsControls, GenerationsFollow, OwnRecords
<1>18. CASE TriageGoesOn \/ OperatorReleases \/ Beside
  <2>1. UNCHANGED serviceVars /\ UNCHANGED ledger
    BY <1>18
    DEF TriageGoesOn, Triage, OperatorReleases, OperatorDone, Beside, Produce,
        OperatorTriage, OperatorDies, LimitExceeded, supervisorVars
  <2> QED
    BY <1>17, <2>1
<1>19. CASE UNCHANGED <<vars, serviceVars>>
  BY <1>17, <1>19, LedgerKept
<1> QED
  BY <1>2, <1>3, <1>4, <1>5, <1>6, <1>7, <1>8, <1>9, <1>10, <1>11, <1>12, <1>13,
     <1>14, <1>15, <1>16, <1>18, <1>19
  DEF ServiceNext, Serve

(* The state of the service has its type in every reachable state, and its *)
(* control records, archive and exit receipt stay in step.                 *)
THEOREM ServiceInvariance == ServiceSpec => []ServiceInv
<1>1. ServiceSpec => []IInv
  BY ServiceRefines, Invariant, PTL
<1> QED
  BY <1>1, ServiceInitInv, ServiceInvNext, PTL DEF ServiceSpec

(* StartsAreAccepted: wherever the processes before have died, a start is  *)
(* refused only for a control record of an earlier ledger or for an exit   *)
(* of a process after the first that was cut short.                        *)
THEOREM AcceptedStarts == ServiceSpec => []StartsAreAccepted
<1>1. ASSUME ServiceInv, IInv, StartRefused
      PROVE  Outdated(ready) \/ Outdated(beat) \/ ExitCutShort
  <2>1. ledger.cycle \in Nat
    BY <1>1 DEF IInv, TypeOK, SupervisorLedger
  <2>2. CASE svc = "starting" /\ ~ExitRecoverable
    BY <1>1, <2>2
    DEF ExitRecoverable, ExitCutShort, ServiceInv, ServiceTypeOK,
        GenerationsFollow
  <2>3. CASE svc = "controls" /\ ~ControlsAccepted
    <3>1. CASE ~Bound(ready)
      BY <1>1, <2>1, <3>1, RecordFacts
      DEF Bound, Outdated, ServiceInv, ServiceTypeOK, RecordsOfThePast
    <3>2. CASE ~Bound(beat)
      BY <1>1, <2>1, <3>2, RecordFacts
      DEF Bound, Outdated, ServiceInv, ServiceTypeOK, RecordsOfThePast
    <3>3. CASE Bound(ready) /\ Bound(beat)
      <4>1. /\ receipt > 0 /\ ready.status = "stopped"
            /\ ~(ready.gen = receipt /\ beat # NoRecord /\ beat.gen = receipt)
        BY <2>3, <3>3 DEF ControlsAccepted
      <4>2. ready # NoRecord
        BY <4>1, RecordFacts
      <4> QED
        BY <1>1, <4>1, <4>2
        DEF ExitCutShort, ServiceInv, GenerationsFollow
    <3> QED
      BY <3>1, <3>2, <3>3
  <2>4. svc # "rollover"
    BY <1>1 DEF StartRefused, ServiceInv, ArchiveHoldsControls
  <2> QED
    BY <1>1, <2>2, <2>3, <2>4 DEF StartRefused
<1>2. ServiceInv /\ IInv => StartsAreAccepted
  BY <1>1 DEF StartsAreAccepted
<1>3. ServiceSpec => []IInv
  BY ServiceRefines, Invariant, PTL
<1> QED
  BY <1>2, <1>3, ServiceInvariance, PTL
=============================================================================
