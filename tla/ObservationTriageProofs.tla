---------------------- MODULE ObservationTriageProofs ----------------------
(***************************************************************************)
(* The safety of the triage chain for every number of entries, files,      *)
(* receipts, faults and operator runs: what a run finds on disk is always  *)
(* something it can go on from.                                            *)
(*                                                                         *)
(* The inductive invariant has one part per component and one that ties    *)
(* the supervisor's program counter to its phase file.                     *)
(***************************************************************************)
EXTENDS ObservationTriage, FiniteSetTheorems, TLAPS

(* Every promotion of a checkpoint has its record file.                    *)
Recorded(ck) == \A e \in DOMAIN ck.promoted : <<e, ck.promoted[e]>> \in records

(* The checkpoint the observer has to be at when no observation is open.   *)
Settled == IF phase = NoPhase THEN ledger.result ELSE phase.result

Open == phase # NoPhase /\ ~Finalized
PastObservation == Open /\ phase.name # "cycle_started"

(* The bundle the ledger's last cycle has left at the fixed path, and the  *)
(* one the open cycle puts there.                                          *)
OfLedger(b) ==
    /\ BundleId(b) = ledger.bundle
    /\ b.ckpt.promoted = ledger.result.promoted

OfCycle(b) ==
    /\ b.seq = ledger.bundle[1] + 1
    /\ b.prev = ledger.bundle[2]
    /\ b.from = ledger.boundary + 1
    /\ b.ckpt = phase.result

(* Where the supervisor is says which phase file it has written.           *)
PhaseOfPc ==
    /\ pc = "recovering" => phase.name = "handoff_selected"
    /\ pc = "start" => phase = NoPhase /\ ledger.cycle > 0
    /\ pc = "observing" =>
          phase.name \in {"cycle_started", "p136_completed", "handoff_selected"}
    /\ pc = "observed" => phase.name = "cycle_started"
    /\ pc = "select" => phase.name = "p136_completed"
    /\ pc \in {"publish", "publishing", "published"} => phase.name = "handoff_selected"
    /\ pc \in {"accept", "triaging", "accepted"} =>
          phase.name = "handoff_published" \/ (phase = NoPhase /\ ledger.cycle = 0)
    /\ pc = "finalize" =>
          phase.name = "p137_accepted" \/ (phase = NoPhase /\ ledger.cycle = 0)
    /\ pc \in {"ledger", "repair_ledger"} => Finalized /\ phase.prev = ledger.cycle
    /\ pc \in {"checkpoint", "repair_checkpoint", "unlink", "unlink_repaired"} =>
          Finalized /\ phase.prev + 1 = ledger.cycle
    /\ pc \in {"unlink", "unlink_repaired"} => sup = ledger.cycle

(* What the observer and the publisher have handed back.                   *)
ResultsAtPc ==
    /\ pc = "observed" =>
          /\ OutcomeOf(phase.start)
          /\ outcome.kind = "completion"
          /\ obs = outcome.result
          /\ mem = outcome.result
    /\ pc = "published" => OfCycle(fixed)

(* Which component runs while the supervisor is where.                     *)
Waiting ==
    /\ oPc # "idle" => pc = "observing"
    /\ pubPc # "idle" => pc \in {"publishing", "recovering"}
    /\ tCaller = "supervisor" <=> pc = "triaging"
    /\ pubIntent # NoBundle => pc \in {"idle", "down", "publishing", "recovering"}

(* Phase file, ledger and checkpoint of the supervisor.                    *)
LedgerChain ==
    /\ ~Finalized => sup = ledger.cycle
    /\ Open => /\ ledger.cycle > 0
               /\ phase.prev = ledger.cycle
               /\ phase.start = ledger.result
    /\ PastObservation => phase.result.used = phase.prev
    /\ Finalized =>
          /\ phase.result.used = phase.prev
          /\ phase.triage.bundle = phase.bundle
          /\ <<phase.triage.cycles, phase.triage.at>> \in tRecords
          /\ \/ phase.prev = ledger.cycle /\ sup = ledger.cycle
             \/ /\ phase.prev + 1 = ledger.cycle
                /\ sup \in {phase.prev, ledger.cycle}
                /\ ledger.result = phase.result
                /\ ledger.bundle = phase.bundle
    /\ ledger.cycle = 0 => ledger.result = FirstCheckpoint
    /\ ledger.cycle > 0 =>
          /\ ledger.result.used = ledger.cycle - 1
          /\ ledger.boundary = Len(ledger.result.promoted)
          /\ ledger.triage.bundle = ledger.bundle
          /\ <<ledger.triage.cycles, ledger.triage.at>> \in tRecords

(* The checkpoint on disk and in memory against the outcome file.          *)
CycleOutcome ==
    /\ phase.name # "cycle_started" =>
          /\ obs = Settled
          /\ mem = Settled
          /\ outcome # NoOutcome => outcome.start.used < obs.used
    /\ phase.name = "cycle_started" =>
          \/ /\ obs = phase.start
             /\ mem = phase.start
             /\ outcome # NoOutcome => outcome.start.used < obs.used
          \/ /\ outcome # NoOutcome
             /\ outcome.start = phase.start
             /\ outcome.result.used = phase.start.used + 1
             /\ IsPrefix(phase.start.promoted, outcome.result.promoted)
             /\ obs \in {phase.start, outcome.result}
             /\ mem \in {phase.start, obs}
             /\ outcome.kind = "completion" => obs = outcome.result
    /\ phase.name \in {"p136_completed", "handoff_selected"} =>
          /\ outcome = [kind |-> "completion", start |-> phase.start,
                        result |-> phase.result]
          /\ IsPrefix(phase.start.promoted, phase.result.promoted)
    /\ Recorded(obs)
    /\ outcome # NoOutcome => Recorded(outcome.result)

(* The observer's own program counter.                                     *)
ObserverSteps ==
    /\ oPc # "raised"
    /\ oPc \in {"scan", "records"} =>
          /\ phase.name = "cycle_started"
          /\ ~OutcomeOf(phase.start)
          /\ mem = phase.start
          /\ obs = phase.start
    /\ oPc = "records" =>
          /\ oResult.used = mem.used + 1
          /\ IsPrefix(mem.promoted, oResult.promoted)
    /\ oPc \in {"checkpoint", "completion"} =>
          /\ phase.name = "cycle_started"
          /\ OutcomeOf(phase.start)
          /\ outcome.kind = "intent"
          /\ outcome.result = oResult
    /\ oPc = "completion" => obs = oResult
    /\ oPc = "returned" =>
          /\ OutcomeOf(phase.start)
          /\ outcome.kind = "completion"
          /\ obs = outcome.result
          /\ oResult = outcome.result

(* The three files of the publisher.                                       *)
PublisherFiles ==
    /\ ledger.cycle = 0 => /\ fixed = FirstBundle
                           /\ phase.name \in {None, "cycle_finalized"}
    /\ pubIntent = NoBundle => pubState = fixed
    /\ pubIntent # NoBundle =>
          /\ phase.name = "handoff_selected"
          /\ OfCycle(pubIntent)
          /\ \/ fixed = pubIntent /\ pubState = pubIntent
             \/ OfLedger(pubState) /\ fixed \in {pubState, pubIntent}
    /\ ledger.cycle > 0 /\ phase.name \in {None, "cycle_started", "p136_completed"} =>
          OfLedger(fixed)
    /\ phase.name = "handoff_selected" => OfLedger(fixed) \/ OfCycle(fixed)
    /\ phase.name \in {"handoff_published", "p137_accepted"} =>
          OfCycle(fixed) /\ phase.bundle = BundleId(fixed)
    /\ Finalized =>
          /\ phase.bundle = BundleId(fixed)
          /\ fixed.ckpt.promoted = phase.result.promoted
          /\ ledger.cycle > 0 => BundleId(fixed) = ledger.bundle \/ SuccessorOfLedger

(* The publisher's own program counter.                                    *)
PublisherSteps ==
    /\ pubPc \in {"idle", "publish", "recover", "fixed", "state", "unlink", "returned"}
    /\ pubPc = "publish" => pubIntent = NoBundle /\ OfLedger(fixed)
    /\ pubPc \in {"recover", "fixed", "state", "unlink"} => pubIntent # NoBundle
    /\ pubPc = "fixed" => fixed = pubState /\ OfLedger(fixed)
    /\ pubPc \in {"state", "unlink"} => fixed = pubIntent
    /\ pubPc = "unlink" => pubState = pubIntent
    /\ pubPc = "returned" => pubIntent = NoBundle /\ OfCycle(fixed)

(* The triage of the bundle at the fixed path is committed and certified   *)
(* by the supervisor.                                                      *)
Certified ==
    \/ ledger.cycle > 0 /\ BundleId(fixed) = ledger.bundle
    \/ phase.name \in {"p137_accepted", "cycle_finalized"}

LedgerMatches(ck) == tLedger.cycles = ck.cycles /\ tLedger.at = ck.at

(* The files of the triage runtime against the bundle at the fixed path.   *)
TriageFiles ==
    /\ tCheckpoint.cycles = tCheckpoint.bundle[1]
    /\ \/ Accepted(tCheckpoint) /\ LedgerMatches(tCheckpoint)
       \/ Pending(tCheckpoint) /\ (LedgerMatches(tCheckpoint) \/ SplitCommit)
    /\ tLedger.cycles > 0 => <<tLedger.cycles, tLedger.at>> \in tRecords
    /\ tCheckpoint.cycles > 0 => <<tCheckpoint.cycles, tCheckpoint.at>> \in tRecords
    /\ Certified => Accepted(tCheckpoint)
    /\ phase.name = "p137_accepted" => phase.triage = tCheckpoint

(* The triage runtime's own program counter.                               *)
TriageSteps ==
    /\ tPc \in {"ingest", "records", "ledger", "checkpoint"} =>
          tBundle = fixed /\ Pending(tCheckpoint)
    /\ tPc \in {"ingest", "records", "ledger"} => LedgerMatches(tCheckpoint)
    /\ tPc = "ledger" => <<tBundle.seq, tNow>> \in tRecords
    /\ tPc = "checkpoint" => SplitCommit
    /\ tPc = "returned" /\ tCaller = "supervisor" => Accepted(tCheckpoint)

(* What the run has read of the triage files, which may be older than they *)
(* are now.                                                                *)
RunReading ==
    Running =>
        /\ \/ seen.checkpoint = tCheckpoint
           \/ Pending(seen.checkpoint) /\ Accepted(tCheckpoint)
        /\ Certified \/ pc \in {"accepted", "finalize"} => Accepted(seen.checkpoint)
        /\ \/ seen.ledger.cycles = seen.checkpoint.cycles /\ seen.ledger.at = seen.checkpoint.at
           \/ seen.ledger.cycles = seen.checkpoint.cycles + 1
        /\ seen.ledger.cycles > 0 => <<seen.ledger.cycles, seen.ledger.at>> \in tRecords

(* The inductive invariant.                                                *)
IInv ==
    /\ TypeOK
    /\ PhaseOfPc
    /\ ResultsAtPc
    /\ Waiting
    /\ LedgerChain
    /\ CycleOutcome
    /\ ObserverSteps
    /\ PublisherFiles
    /\ PublisherSteps
    /\ TriageFiles
    /\ TriageSteps
    /\ RunReading

-----------------------------------------------------------------------------
(* Facts about the records of the model.                                   *)

(* A bundle on disk is named by its sequence and time.                     *)
LEMMA BundleFacts ==
    ASSUME NEW b \in BundleFile
    PROVE  /\ b # NoBundle
           /\ BundleId(b) = <<b.seq, b.at>>
           /\ BundleId(b)[1] = b.seq /\ BundleId(b)[2] = b.at
           /\ BundleId(b) \in BundleName
           /\ b.seq \in Nat \ {0} /\ b.prev \in Nat /\ b.from \in Nat
           /\ b.ckpt \in Checkpoint /\ b.at \in 1..MaxNow
<1>1. b.seq # 0 /\ NoBundle.seq = 0
  BY DEF BundleFile, NoBundle
<1>2. b # NoBundle
  BY <1>1
<1>3. b.at \in Nat
  BY ObserverAssumption DEF BundleFile
<1> QED
  BY <1>2, <1>3 DEF BundleFile, BundleId, BundleName

(* The phase file is missing exactly when its name is none.                *)
LEMMA PhaseFacts ==
    ASSUME phase \in PhaseFile \cup {NoPhase}
    PROVE  /\ phase = NoPhase <=> phase.name = None
           /\ phase # NoPhase <=> phase \in PhaseFile
  BY DEF PhaseFile, NoPhase, None

(* The outcome file is missing exactly when its kind is none.              *)
LEMMA OutcomeFacts ==
    ASSUME outcome \in OutcomeFile \cup {NoOutcome}
    PROVE  /\ outcome = NoOutcome <=> outcome.kind = None
           /\ outcome # NoOutcome <=> outcome \in OutcomeFile
  BY DEF OutcomeFile, NoOutcome, None

(* A checkpoint's fields.                                                  *)
LEMMA CheckpointFacts ==
    ASSUME NEW ck \in Checkpoint
    PROVE  /\ ck.promoted \in Seq(1..MaxNow)
           /\ Len(ck.promoted) \in Nat
           /\ ck.used \in Nat
  BY DEF Checkpoint

(* The first checkpoint and the first bundle are well formed.              *)
LEMMA FirstFacts ==
    /\ FirstCheckpoint \in Checkpoint
    /\ FirstBundle \in BundleFile
    /\ FirstCheckpoint.promoted = <<1>> /\ FirstCheckpoint.used = 0
<1>1. 1 \in 1..MaxNow
  BY ObserverAssumption
<1>2. FirstCheckpoint \in Checkpoint
  BY <1>1 DEF FirstCheckpoint, Checkpoint, NoPending, None
<1> QED
  BY <1>1, <1>2 DEF FirstCheckpoint, FirstBundle, BundleFile

-----------------------------------------------------------------------------
(* Facts about promotions.                                                 *)

(* A sequence is a prefix of itself.                                       *)
LEMMA PrefixSelf ==
    ASSUME NEW S, NEW s \in Seq(S)
    PROVE  IsPrefix(s, s)
  BY DEF IsPrefix

(* What a prefix says, element by element.                                 *)
LEMMA PrefixElements ==
    ASSUME NEW S, NEW s \in Seq(S), NEW t \in Seq(S), IsPrefix(s, t)
    PROVE  /\ Len(s) <= Len(t)
           /\ \A i \in 1..Len(s) : s[i] = t[i]
<1>1. Len(s) <= Len(t) /\ SubSeq(s, 1, Len(s)) = SubSeq(t, 1, Len(s))
  BY DEF IsPrefix
<1>2. ASSUME NEW i \in 1..Len(s) PROVE s[i] = t[i]
  <2>1. SubSeq(s, 1, Len(s))[i] = s[i]
    BY <1>2
  <2>2. SubSeq(t, 1, Len(s))[i] = t[i]
    BY <1>1, <1>2
  <2> QED
    BY <1>1, <2>1, <2>2
<1> QED
  BY <1>1, <1>2

(* A prefix that is not shorter is the sequence.                           *)
LEMMA PrefixWhole ==
    ASSUME NEW S, NEW s \in Seq(S), NEW t \in Seq(S), IsPrefix(s, t),
           Len(t) <= Len(s)
    PROVE  s = t
<1>1. Len(s) = Len(t) /\ \A i \in 1..Len(s) : s[i] = t[i]
  BY PrefixElements
<1> QED
  BY <1>1

(* What is appended to a sequence leaves it as a prefix.                   *)
LEMMA PrefixConcat ==
    ASSUME NEW S, NEW s \in Seq(S), NEW t \in Seq(S)
    PROVE  s \o t \in Seq(S) /\ IsPrefix(s, s \o t)
<1>1. s \o t \in Seq(S) /\ Len(s \o t) = Len(s) + Len(t)
  OBVIOUS
<1>2. \A i \in 1..Len(s) : (s \o t)[i] = s[i]
  OBVIOUS
<1>3. SubSeq(s, 1, Len(s)) = SubSeq(s \o t, 1, Len(s))
  BY <1>1, <1>2
<1> QED
  BY <1>1, <1>3 DEF IsPrefix

(* An element of a sequence over S is in S.                                *)
LEMMA ElementOf ==
    ASSUME NEW S, NEW s \in Seq(S), NEW i \in 1..Len(s)
    PROVE  s[i] \in S
  OBVIOUS

(* The same value a number of times is a sequence.                         *)
LEMMA Repeated ==
    ASSUME NEW S, NEW x \in S, NEW n \in Nat
    PROVE  [i \in 1..n |-> x] \in Seq(S)
  OBVIOUS

(* _advance_observation_checkpoint uses one receipt and only adds          *)
(* promotions.                                                             *)
LEMMA AdvancedFacts ==
    ASSUME TypeOK, NEW ck \in Checkpoint
    PROVE  /\ Advanced(ck) \in Checkpoint
           /\ Advanced(ck).used = ck.used + 1
           /\ IsPrefix(ck.promoted, Advanced(ck).promoted)
<1>1. index.lines \in Seq(Line) /\ index.id \in Nat /\ now \in 1..MaxNow
      /\ index.partial \in {None, "common", "distinct"}
  BY DEF TypeOK, IndexFile
<1>2. Len(index.lines) \in Nat /\ DOMAIN index.lines = 1..Len(index.lines)
  BY <1>1
<1>3. IsFiniteSet(DOMAIN index.lines)
  BY <1>2, FS_Interval
<1>4. IsFiniteSet(Unseen(ck))
  BY <1>3, FS_Subset DEF Unseen
<1>5. Cardinality(Unseen(ck)) \in Nat
  BY <1>4, FS_CardinalityType
<1>6. Promotions(ck) \in Seq(1..MaxNow)
  BY <1>1, <1>5, Repeated, Zenon DEF Promotions
<1>7. ck.promoted \in Seq(1..MaxNow) /\ ck.used \in Nat
  BY CheckpointFacts
<1>8. /\ ck.promoted \o Promotions(ck) \in Seq(1..MaxNow)
      /\ IsPrefix(ck.promoted, ck.promoted \o Promotions(ck))
  BY <1>6, <1>7, PrefixConcat
<1> DEFINE rest == IF index.partial = None THEN NoPending
                   ELSE [at |-> Len(index.lines), kind |-> index.partial]
<1>9. rest \in [at : Nat, kind : {None, "common", "distinct"}]
  BY <1>1, <1>2 DEF NoPending
<1> HIDE DEF rest
<1>10. Advanced(ck) = [id |-> index.id, promoted |-> ck.promoted \o Promotions(ck),
                       used |-> ck.used + 1, pending |-> rest]
  BY DEF Advanced, rest
<1>11. ck.used + 1 \in Nat
  BY <1>7
<1> QED
  BY <1>1, <1>8, <1>9, <1>10, <1>11 DEF Checkpoint

-----------------------------------------------------------------------------
(* The initial state and the steps.                                        *)

USE DEF producerVars, observerVars, publisherVars, triageVars, supervisorVars,
        componentVars, boundVars

(* The state the service is first started in is well formed.               *)
LEMMA TypeInit == Init => TypeOK
<1> SUFFICES ASSUME Init PROVE TypeOK
  OBVIOUS
<1>1. 1 \in 1..MaxNow
  BY ObserverAssumption
<1>2. index \in IndexFile /\ produced \in Nat
  BY DEF Init, ObserverInit, IndexFile, Line
<1>3. records \subseteq Nat \X (1..MaxNow)
  BY <1>1 DEF Init, ObserverInit
<1>4. /\ obs \in Checkpoint /\ mem \in Checkpoint /\ oResult \in Checkpoint
      /\ outcome \in OutcomeFile \cup {NoOutcome} /\ now \in 1..MaxNow
  BY <1>1, FirstFacts DEF Init, ObserverInit
<1>5. /\ pubIntent \in BundleFile \cup {NoBundle}
      /\ fixed \in BundleFile /\ pubState \in BundleFile
      /\ tIntents \subseteq BundleName \X (1..MaxNow)
      /\ tRecords \subseteq Nat \X (1..MaxNow)
      /\ tCaller \in {None, "supervisor", "operator"}
      /\ tNow \in 1..MaxNow
      /\ tBundle \in BundleFile \cup {NoBundle}
  BY <1>1, FirstFacts DEF Init, HandoffInit
<1>6. NoCheckpoint \in TriageCheckpoint /\ NoLedger \in TriageLedger
  BY DEF NoCheckpoint, TriageCheckpoint, NoLedger, TriageLedger, BundleName
<1>7. NoSupervisorLedger \in SupervisorLedger
  BY <1>6, FirstFacts DEF NoSupervisorLedger, SupervisorLedger, BundleName
<1> QED
  BY <1>2, <1>3, <1>4, <1>5, <1>6, <1>7
  DEF TypeOK, Init, HandoffInit, NothingSeen

(* The state the service is first started in satisfies the invariant: one  *)
(* bundle is published, and nothing triaged.                               *)
LEMMA InitInv == Init => IInv
<1> SUFFICES ASSUME Init PROVE IInv
  OBVIOUS
<1> USE DEF Init, ObserverInit, HandoffInit, NoPhase, None, Finalized, Open,
            PastObservation
<1>1. TypeOK
  BY TypeInit
<1>2. PhaseOfPc /\ ResultsAtPc /\ ObserverSteps
  BY DEF PhaseOfPc, ResultsAtPc, ObserverSteps
<1>3. Waiting
  BY DEF Waiting
<1>4. LedgerChain
  BY DEF LedgerChain, NoSupervisorLedger
<1>5. CycleOutcome
  BY FirstFacts DEF CycleOutcome, NoSupervisorLedger, Settled, Recorded
<1>6. PublisherFiles /\ PublisherSteps
  BY DEF PublisherFiles, PublisherSteps, NoSupervisorLedger
<1>7. Pending(NoCheckpoint) /\ LedgerMatches(NoCheckpoint) /\ ~Certified
  BY DEF Pending, NoCheckpoint, FirstBundle, LedgerMatches, NoLedger,
         Certified, NoSupervisorLedger
<1>8. TriageFiles /\ TriageSteps
  BY <1>7 DEF TriageFiles, TriageSteps, NoCheckpoint, NoLedger
<1>9. RunReading
  BY DEF RunReading, Running
<1> QED
  BY <1>1, <1>2, <1>3, <1>4, <1>5, <1>6, <1>8, <1>9 DEF IInv

(* The steps, one by one.                                                  *)
LEMMA StepCases ==
    ASSUME [Next]_vars
    PROVE  \/ UNCHANGED vars \/ Produce
           \/ Restart \/ LoopEnds \/ BeginRun \/ PublicationRecovered \/ Refuse
           \/ ReconcileFinalized \/ RemovePhase \/ NoOpenCycle \/ ReceiptsExhausted
           \/ StartCycle \/ ResumeObservation \/ ResumeTriage
           \/ Observed \/ WriteP136Completed \/ SelectHandoff
           \/ Publish \/ Published \/ WriteHandoffPublished
           \/ AlreadyAccepted \/ RunTriage \/ TriageLeaseConflict
           \/ Triaged \/ TriageFails
           \/ WriteP137Accepted \/ WriteCycleFinalized
           \/ WriteLedger \/ WriteSupervisorCheckpoint
           \/ Observe /\ ReadIndex
           \/ Observe /\ WriteRecord
           \/ Observe /\ WriteOutcomeIntent
           \/ Observe /\ WriteCheckpoint
           \/ Observe /\ WriteCompletion
           \/ Observe /\ RecoverCycle(phase.start)
           \/ PublishStep /\ WritePublisherIntent(ledger.boundary, mem)
           \/ PublishStep /\ RecoverPublication
           \/ PublishStep /\ WriteFixedBundle
           \/ PublishStep /\ WritePublisherState
           \/ PublishStep /\ UnlinkPublisherIntent
           \/ Triage /\ ReadHandoff
           \/ Triage /\ WriteIngestIntent
           \/ Triage /\ WriteTriageRecords
           \/ Triage /\ WriteTriageLedger
           \/ Triage /\ WriteTriageCheckpoint
           \/ OperatorTriage \/ OperatorDone
           \/ Crash \/ WriteFails \/ OperatorDies \/ LimitExceeded
<1>1. CASE Observe
  BY <1>1 DEF Observe, ObserverStep
<1>2. CASE PublishStep
  BY <1>2 DEF PublishStep, PublisherStep
<1>3. CASE Triage
  BY <1>3 DEF Triage, TriageStep
<1> QED
  BY <1>1, <1>2, <1>3 DEF Next, RunStep

(* The steps that write the supervisor's files.                            *)
LEMMA SupervisorWrites ==
    ASSUME [Next]_vars
    PROVE  \/ UNCHANGED <<phase, ledger, sup>>
           \/ RemovePhase \/ StartCycle \/ WriteP136Completed \/ SelectHandoff
           \/ WriteHandoffPublished \/ WriteP137Accepted \/ WriteCycleFinalized
           \/ WriteLedger \/ WriteSupervisorCheckpoint
  BY StepCases
  DEF vars, Produce, Restart, LoopEnds, BeginRun, PublicationRecovered, Refuse,
      ReconcileFinalized, NoOpenCycle, ReceiptsExhausted, ResumeObservation,
      ResumeTriage, Observed, Publish, Published, AlreadyAccepted, RunTriage,
      TriageLeaseConflict, Triaged, TriageFails, Observe, PublishStep, Triage,
      OperatorTriage, OperatorDone, Crash, WriteFails, RunAborted,
      OperatorDies, LimitExceeded

(* The steps that write the observer's files or the checkpoint in memory.  *)
LEMMA ObserverWrites ==
    ASSUME [Next]_vars
    PROVE  \/ UNCHANGED <<obs, records, outcome, mem>>
           \/ Restart \/ Observed
           \/ Observe /\ WriteRecord
           \/ Observe /\ WriteOutcomeIntent
           \/ Observe /\ WriteCheckpoint
           \/ Observe /\ WriteCompletion
  BY StepCases
  DEF vars, Produce, Producer, LoopEnds, BeginRun, PublicationRecovered, Refuse,
      ReconcileFinalized, RemovePhase, NoOpenCycle, ReceiptsExhausted,
      StartCycle, ResumeObservation, ResumeTriage, WriteP136Completed,
      SelectHandoff, Publish, Published, WriteHandoffPublished,
      AlreadyAccepted, RunTriage, TriageLeaseConflict, Triaged, TriageFails,
      WriteP137Accepted, WriteCycleFinalized, WriteLedger,
      WriteSupervisorCheckpoint, Observe, ObserverStep, ReadIndex, RecoverCycle,
      PublishStep, PublisherStep, Triage, TriageStep, OperatorTriage,
      OperatorDone, Crash, WriteFails, RunAborted, OperatorDies,
      LimitExceeded, StopTriage

(* The steps that write the publisher's files.                             *)
LEMMA PublisherWrites ==
    ASSUME [Next]_vars
    PROVE  \/ UNCHANGED <<pubIntent, fixed, pubState>>
           \/ PublishStep /\ WritePublisherIntent(ledger.boundary, mem)
           \/ PublishStep /\ WriteFixedBundle
           \/ PublishStep /\ WritePublisherState
           \/ PublishStep /\ UnlinkPublisherIntent
  BY StepCases
  DEF vars, Produce, Restart, LoopEnds, BeginRun, PublicationRecovered, Refuse,
      ReconcileFinalized, RemovePhase, NoOpenCycle, ReceiptsExhausted,
      StartCycle, ResumeObservation, ResumeTriage, Observed,
      WriteP136Completed, SelectHandoff, Publish, Published,
      WriteHandoffPublished, AlreadyAccepted, RunTriage, TriageLeaseConflict,
      Triaged, TriageFails, WriteP137Accepted, WriteCycleFinalized,
      WriteLedger, WriteSupervisorCheckpoint, Observe, PublishStep,
      RecoverPublication, Triage, TriageStep, OperatorTriage, OperatorDone,
      Crash, WriteFails, RunAborted, OperatorDies, LimitExceeded, StopTriage

(* The steps that write the triage runtime's files.                        *)
LEMMA TriageWrites ==
    ASSUME [Next]_vars
    PROVE  \/ UNCHANGED <<tIntents, tRecords, tLedger, tCheckpoint>>
           \/ Triage /\ WriteIngestIntent
           \/ Triage /\ WriteTriageRecords
           \/ Triage /\ WriteTriageLedger
           \/ Triage /\ WriteTriageCheckpoint
  BY StepCases
  DEF vars, Produce, Restart, LoopEnds, BeginRun, PublicationRecovered, Refuse,
      ReconcileFinalized, RemovePhase, NoOpenCycle, ReceiptsExhausted,
      StartCycle, ResumeObservation, ResumeTriage, Observed,
      WriteP136Completed, SelectHandoff, Publish, Published,
      WriteHandoffPublished, AlreadyAccepted, RunTriage, TriageLeaseConflict,
      Triaged, TriageFails, WriteP137Accepted, WriteCycleFinalized,
      WriteLedger, WriteSupervisorCheckpoint, Observe, PublishStep,
      PublisherStep, Triage, ReadHandoff, OperatorTriage, OperatorDone,
      CallTriage, ReleaseTriage, Crash, WriteFails, RunAborted, OperatorDies,
      LimitExceeded, StopTriage

(* Record files are only added.                                            *)
LEMMA RecordsGrow ==
    ASSUME [Next]_vars
    PROVE  records \subseteq records' /\ tRecords \subseteq tRecords'
<1>1. records \subseteq records'
  BY ObserverWrites
  DEF Restart, Observed, WriteRecord, WriteOutcomeIntent, WriteCheckpoint,
      WriteCompletion
<1>2. tRecords \subseteq tRecords'
  BY TriageWrites
  DEF WriteIngestIntent, WriteTriageRecords, WriteTriageLedger,
      WriteTriageCheckpoint
<1> QED
  BY <1>1, <1>2

-----------------------------------------------------------------------------
(* Types.                                                                  *)

(* Which files the supervisor holds at a place where it rewrites one.      *)
LEMMA HeldFiles ==
    ASSUME TypeOK, PhaseOfPc
    PROVE  /\ pc \in {"recovering", "observing", "observed", "select", "publish",
                      "publishing", "published", "ledger", "repair_ledger",
                      "checkpoint", "repair_checkpoint", "unlink", "unlink_repaired"}
                => phase \in PhaseFile
           /\ pc \in {"accept", "triaging", "accepted", "finalize"} =>
                 phase \in PhaseFile \/ phase = NoPhase
  BY PhaseFacts DEF TypeOK, PhaseOfPc, Finalized, None

(* The supervisor's phase file, ledger and checkpoint stay well formed.    *)
LEMMA SupervisorTypes ==
    ASSUME IInv, [Next]_vars
    PROVE  /\ phase' \in PhaseFile \cup {NoPhase}
           /\ ledger' \in SupervisorLedger
           /\ sup' \in Nat
<1> USE DEF IInv
<1>1. /\ phase \in PhaseFile \cup {NoPhase}
      /\ ledger \in SupervisorLedger
      /\ ledger.cycle \in Nat /\ ledger.bundle \in BundleName
      /\ ledger.triage \in TriageCheckpoint
      /\ sup \in Nat
      /\ mem \in Checkpoint /\ fixed \in BundleFile
      /\ seen.checkpoint \in TriageCheckpoint
  BY DEF TypeOK, SupervisorLedger
<1>2. CASE RemovePhase
  BY <1>1, <1>2 DEF RemovePhase
<1>3. CASE StartCycle
  <2>1. <<0, 0>> \in BundleName /\ NoCheckpoint \in TriageCheckpoint
    BY DEF BundleName, NoCheckpoint, TriageCheckpoint
  <2> QED
    BY <1>1, <1>3, <2>1 DEF StartCycle, PhaseFile
<1>4. CASE WriteP136Completed
  BY <1>1, <1>4, HeldFiles DEF WriteP136Completed, PhaseFile
<1>5. CASE SelectHandoff
  BY <1>1, <1>5, HeldFiles DEF SelectHandoff, PhaseFile
<1>6. CASE WriteHandoffPublished
  BY <1>1, <1>6, HeldFiles, BundleFacts DEF WriteHandoffPublished, PhaseFile
<1>7. CASE WriteP137Accepted
  BY <1>1, <1>7, HeldFiles DEF WriteP137Accepted, PhaseFile
<1>8. CASE WriteCycleFinalized
  <2>1. fixed.ckpt \in Checkpoint /\ BundleId(fixed) \in BundleName
    BY <1>1, BundleFacts
  <2> QED
    BY <1>1, <1>8, <2>1, HeldFiles DEF WriteCycleFinalized, PhaseFile
<1>9. CASE WriteLedger
  <2>1. phase \in PhaseFile
    BY <1>9, HeldFiles DEF WriteLedger
  <2>2. /\ phase.prev + 1 \in Nat /\ phase.result \in Checkpoint
        /\ phase.bundle \in BundleName /\ phase.triage \in TriageCheckpoint
    BY <2>1 DEF PhaseFile
  <2>3. Len(phase.result.promoted) \in Nat
    BY <2>2, CheckpointFacts
  <2> QED
    BY <1>1, <1>9, <2>2, <2>3 DEF WriteLedger, SupervisorLedger
<1>10. CASE WriteSupervisorCheckpoint
  BY <1>1, <1>10 DEF WriteSupervisorCheckpoint
<1>11. CASE UNCHANGED <<phase, ledger, sup>>
  BY <1>1, <1>11
<1> QED
  BY SupervisorWrites, <1>2, <1>3, <1>4, <1>5, <1>6, <1>7, <1>8, <1>9, <1>10, <1>11

-----------------------------------------------------------------------------
(* The supervisor's files and program counter.                             *)

(* In what state the files of a run that has gone past its reading are.    *)
LEMMA NameFacts ==
    ASSUME TypeOK
    PROVE  /\ phase = NoPhase <=> phase.name = None
           /\ phase # NoPhase <=> phase \in PhaseFile
           /\ Open <=> phase.name \in {"cycle_started", "p136_completed",
                          "handoff_selected", "handoff_published", "p137_accepted"}
           /\ Finalized => phase \in PhaseFile
  BY PhaseFacts DEF TypeOK, PhaseFile, Open, Finalized, NoPhase, None

(* Each step of the supervisor leaves the phase file its next place        *)
(* expects.                                                                *)
LEMMA PhaseOfPcNext ==
    ASSUME IInv, [Next]_vars
    PROVE  PhaseOfPc'
<1> USE DEF IInv, Finalized
<1>1. /\ phase = NoPhase <=> phase.name = None
      /\ phase # NoPhase <=> phase \in PhaseFile
      /\ Open <=> phase.name \in {"cycle_started", "p136_completed",
                     "handoff_selected", "handoff_published", "p137_accepted"}
      /\ Finalized => phase \in PhaseFile
  BY NameFacts
<1>2. CASE /\ UNCHANGED <<phase, ledger, sup>>
           /\ pc' = pc \/ pc' \in {"idle", "down", "reconcile"}
  BY <1>2 DEF PhaseOfPc
<1>3. CASE BeginRun
  BY <1>3 DEF BeginRun, PhaseOfPc, PublisherFiles
<1>4. CASE ReconcileFinalized
  <2>1. \/ phase.prev = ledger.cycle /\ pc' = "repair_ledger"
        \/ phase.prev # ledger.cycle /\ sup # ledger.cycle /\ pc' = "repair_checkpoint"
        \/ phase.prev # ledger.cycle /\ sup = ledger.cycle /\ pc' = "unlink"
    BY <1>4 DEF ReconcileFinalized
  <2>2. Finalized /\ UNCHANGED <<phase, ledger, sup>>
    BY <1>4 DEF ReconcileFinalized
  <2>3. phase.prev = ledger.cycle \/ phase.prev + 1 = ledger.cycle
    BY <2>2 DEF LedgerChain
  <2> QED
    BY <2>1, <2>2, <2>3 DEF PhaseOfPc
<1>5. CASE RemovePhase
  <2>1. ledger.cycle > 0
    BY <1>1, <1>5 DEF RemovePhase, PhaseOfPc, PhaseFile
  <2> QED
    BY <1>5, <2>1 DEF RemovePhase, RunEnds, PhaseOfPc
<1>6. CASE NoOpenCycle
  BY <1>6 DEF NoOpenCycle, PhaseOfPc, TypeOK, SupervisorLedger
<1>7. CASE ReceiptsExhausted \/ ResumeObservation \/ ResumeTriage
  BY <1>7 DEF ReceiptsExhausted, RunEnds, ResumeObservation, ResumeTriage,
              PhaseOfPc
<1>8. CASE StartCycle
  BY <1>8 DEF StartCycle, PhaseOfPc
<1>9. CASE Observed
  BY <1>9 DEF Observed, PhaseOfPc
<1>10. CASE WriteP136Completed
  BY <1>1, <1>10, HeldFiles DEF WriteP136Completed, PhaseOfPc, PhaseFile
<1>11. CASE SelectHandoff
  <2>1. phase \in PhaseFile /\ phase.name = "p136_completed" /\ phase.prev = ledger.cycle
    BY <1>1, <1>11 DEF SelectHandoff, PhaseOfPc, LedgerChain, None
  <2> QED
    BY <1>11, <2>1 DEF SelectHandoff, PhaseOfPc, PhaseFile
<1>12. CASE Publish \/ Published
  BY <1>12 DEF Publish, Published, PhaseOfPc
<1>13. CASE WriteHandoffPublished
  BY <1>1, <1>13, HeldFiles DEF WriteHandoffPublished, PhaseOfPc, PhaseFile
<1>14. CASE AlreadyAccepted \/ RunTriage \/ Triaged
  BY <1>14 DEF AlreadyAccepted, RunTriage, Triaged, PhaseOfPc
<1>15. CASE WriteP137Accepted
  <2>1. CASE phase = NoPhase
    BY <1>1, <1>15, <2>1 DEF WriteP137Accepted, PhaseOfPc, None
  <2>2. CASE phase # NoPhase
    <3>1. phase'.name = "p137_accepted"
      BY <1>1, <1>15, <2>2 DEF WriteP137Accepted, PhaseFile
    <3> QED
      BY <1>15, <3>1 DEF WriteP137Accepted, PhaseOfPc
  <2> QED
    BY <2>1, <2>2
<1>16. CASE WriteCycleFinalized
  <2>1. phase'.name = "cycle_finalized" /\ phase'.prev = ledger.cycle
    <3>1. CASE phase = NoPhase
      BY <1>1, <1>16, <3>1 DEF WriteCycleFinalized, PhaseOfPc, None
    <3>2. CASE phase # NoPhase
      <4>1. phase \in PhaseFile /\ phase.prev = ledger.cycle
        BY <1>1, <1>16, <3>2 DEF WriteCycleFinalized, PhaseOfPc, LedgerChain
      <4> QED
        BY <1>16, <3>2, <4>1 DEF WriteCycleFinalized, PhaseFile
    <3> QED
      BY <3>1, <3>2
  <2> QED
    BY <1>16, <2>1 DEF WriteCycleFinalized, PhaseOfPc
<1>17. CASE WriteLedger
  <2>1. /\ Finalized /\ UNCHANGED <<phase, sup>>
        /\ ledger'.cycle = phase.prev + 1
        /\ pc' \in {"checkpoint", "repair_checkpoint"}
    BY <1>17 DEF WriteLedger, PhaseOfPc
  <2> QED
    BY <2>1 DEF PhaseOfPc
<1>18. CASE WriteSupervisorCheckpoint
  BY <1>18 DEF WriteSupervisorCheckpoint, RunEnds, PhaseOfPc
<1> QED
  BY StepCases, <1>2, <1>3, <1>4, <1>5, <1>6, <1>7, <1>8, <1>9, <1>10, <1>11,
     <1>12, <1>13, <1>14, <1>15, <1>16, <1>17, <1>18
  DEF vars, Produce, Restart, LoopEnds, PublicationRecovered, Refuse, RunEnds,
      TriageLeaseConflict, TriageFails, Observe, PublishStep, Triage,
      OperatorTriage, OperatorDone, Crash, WriteFails, RunAborted,
      OperatorDies, LimitExceeded

(* Phase file, ledger and checkpoint of the supervisor follow each other   *)
(* whatever is written of them.                                            *)
LEMMA LedgerChainNext ==
    ASSUME IInv, [Next]_vars
    PROVE  LedgerChain'
<1> USE DEF IInv, Finalized
<1>1. /\ phase = NoPhase <=> phase.name = None
      /\ phase # NoPhase <=> phase \in PhaseFile
      /\ Open <=> phase.name \in {"cycle_started", "p136_completed",
                     "handoff_selected", "handoff_published", "p137_accepted"}
      /\ Finalized => phase \in PhaseFile
  BY NameFacts
<1>2. tRecords \subseteq tRecords'
  BY RecordsGrow
<1>3. ledger.cycle \in Nat /\ sup \in Nat
  BY DEF TypeOK, SupervisorLedger
<1>4. CASE UNCHANGED <<phase, ledger, sup>>
  BY <1>2, <1>4 DEF LedgerChain, Open, PastObservation
<1>5. CASE RemovePhase
  <2>1. pc \in {"unlink", "unlink_repaired"} /\ phase' = NoPhase /\ UNCHANGED <<ledger, sup>>
    BY <1>5 DEF RemovePhase
  <2>2. sup = ledger.cycle
    BY <2>1 DEF PhaseOfPc
  <2> QED
    BY <1>2, <2>1, <2>2 DEF LedgerChain, Open, PastObservation, NoPhase, None
<1>6. CASE StartCycle
  <2>1. /\ phase = NoPhase /\ ledger.cycle > 0 /\ UNCHANGED <<ledger, sup>>
        /\ phase' = [name |-> "cycle_started", prev |-> ledger.cycle,
                     start |-> mem, result |-> mem,
                     bundle |-> <<0, 0>>, triage |-> NoCheckpoint]
    BY <1>6 DEF StartCycle, PhaseOfPc
  <2>2. mem = ledger.result
    BY <2>1, <1>1 DEF CycleOutcome, Settled, None
  <2>3. sup = ledger.cycle
    BY <2>1, <1>1 DEF LedgerChain, None
  <2> QED
    BY <1>2, <2>1, <2>2, <2>3 DEF LedgerChain, Open, PastObservation
<1>7. CASE WriteP136Completed
  <2>1. /\ phase \in PhaseFile /\ phase.name = "cycle_started"
        /\ phase' = [phase EXCEPT !.name = "p136_completed", !.result = mem]
        /\ UNCHANGED <<ledger, sup>>
    BY <1>1, <1>7 DEF WriteP136Completed, PhaseOfPc, None
  <2>2. /\ phase'.name = "p136_completed" /\ phase'.prev = phase.prev
        /\ phase'.start = phase.start /\ phase'.result = mem
    BY <2>1 DEF PhaseFile
  <2>3. mem.used = phase.prev
    BY <1>1, <1>3, <1>7, <2>1, OutcomeFacts
    DEF WriteP136Completed, ResultsAtPc, CycleOutcome, OutcomeOf, LedgerChain, TypeOK
  <2> QED
    BY <1>1, <1>2, <2>1, <2>2, <2>3 DEF LedgerChain, Open, PastObservation, None, NoPhase
<1>8. CASE SelectHandoff
  <2>1. /\ phase \in PhaseFile /\ phase.name = "p136_completed"
        /\ phase' \in {[phase EXCEPT !.name = "handoff_selected"],
                       [phase EXCEPT !.name = "cycle_finalized",
                                     !.bundle = ledger.bundle,
                                     !.triage = ledger.triage]}
        /\ UNCHANGED <<ledger, sup>>
    BY <1>1, <1>8 DEF SelectHandoff, PhaseOfPc, None
  <2>2. /\ phase'.prev = phase.prev /\ phase'.start = phase.start
        /\ phase'.result = phase.result
        /\ \/ phase'.name = "handoff_selected"
           \/ /\ phase'.name = "cycle_finalized"
              /\ phase'.bundle = ledger.bundle /\ phase'.triage = ledger.triage
    BY <2>1 DEF PhaseFile
  <2> QED
    BY <1>1, <1>2, <2>1, <2>2 DEF LedgerChain, Open, PastObservation, None, NoPhase
<1>9. CASE WriteHandoffPublished
  <2>1. /\ phase \in PhaseFile /\ phase.name = "handoff_selected"
        /\ phase' = [phase EXCEPT !.name = "handoff_published", !.bundle = BundleId(fixed)]
        /\ UNCHANGED <<ledger, sup>>
    BY <1>1, <1>9 DEF WriteHandoffPublished, PhaseOfPc, None
  <2>2. /\ phase'.name = "handoff_published" /\ phase'.prev = phase.prev
        /\ phase'.start = phase.start /\ phase'.result = phase.result
    BY <2>1 DEF PhaseFile
  <2> QED
    BY <1>1, <1>2, <2>1, <2>2 DEF LedgerChain, Open, PastObservation, None, NoPhase
<1>10. CASE WriteP137Accepted
  <2>1. CASE phase = NoPhase
    BY <1>2, <1>10, <2>1 DEF WriteP137Accepted, LedgerChain, Open, PastObservation
  <2>2. CASE phase # NoPhase
    <3>1. /\ phase \in PhaseFile /\ phase.name = "handoff_published"
          /\ phase' = [phase EXCEPT !.name = "p137_accepted", !.triage = seen.checkpoint]
          /\ UNCHANGED <<ledger, sup>>
      BY <1>1, <1>10, <2>2 DEF WriteP137Accepted, PhaseOfPc, None
    <3>2. /\ phase'.name = "p137_accepted" /\ phase'.prev = phase.prev
          /\ phase'.start = phase.start /\ phase'.result = phase.result
      BY <3>1 DEF PhaseFile
    <3> QED
      BY <1>1, <1>2, <3>1, <3>2 DEF LedgerChain, Open, PastObservation, None, NoPhase
  <2> QED
    BY <2>1, <2>2
<1>11. CASE WriteCycleFinalized
  <2>1. Accepted(seen.checkpoint) /\ seen.checkpoint = tCheckpoint
    <3>1. Accepted(seen.checkpoint)
      BY <1>11 DEF WriteCycleFinalized, RunReading, Running
    <3>2. ~Pending(seen.checkpoint)
      BY <3>1, BundleFacts DEF Accepted, Pending, TypeOK, TriageCheckpoint, BundleName
    <3> QED
      BY <1>11, <3>1, <3>2 DEF WriteCycleFinalized, RunReading, Running
  <2>2. /\ tCheckpoint.bundle = BundleId(fixed)
        /\ <<tCheckpoint.cycles, tCheckpoint.at>> \in tRecords
    <3>1. tCheckpoint.bundle = BundleId(fixed)
      BY <2>1 DEF Accepted
    <3>2. tCheckpoint.cycles > 0
      BY <3>1, BundleFacts DEF TriageFiles, TypeOK
    <3> QED
      BY <3>1, <3>2 DEF TriageFiles
  <2>3. CASE phase = NoPhase
    <3>1. /\ ledger.cycle = 0 /\ UNCHANGED <<ledger, sup>> /\ sup = ledger.cycle
          /\ phase' = [name |-> "cycle_finalized", prev |-> 0,
                       start |-> fixed.ckpt, result |-> fixed.ckpt,
                       bundle |-> BundleId(fixed), triage |-> seen.checkpoint]
      BY <1>1, <1>11, <2>3 DEF WriteCycleFinalized, PhaseOfPc, LedgerChain, None
    <3>2. fixed.ckpt.used = 0
      BY <3>1, FirstFacts DEF PublisherFiles, FirstBundle
    <3> QED
      BY <1>2, <2>1, <2>2, <3>1, <3>2 DEF LedgerChain, Open, PastObservation
  <2>4. CASE phase # NoPhase
    <3>1. /\ phase \in PhaseFile /\ phase.name = "p137_accepted"
          /\ phase' = [phase EXCEPT !.name = "cycle_finalized"]
          /\ UNCHANGED <<ledger, sup>>
      BY <1>1, <1>11, <2>4 DEF WriteCycleFinalized, PhaseOfPc, None
    <3>2. /\ phase'.name = "cycle_finalized" /\ phase'.prev = phase.prev
          /\ phase'.result = phase.result /\ phase'.bundle = phase.bundle
          /\ phase'.triage = phase.triage
      BY <3>1 DEF PhaseFile
    <3>3. phase.triage = tCheckpoint /\ phase.bundle = BundleId(fixed)
      BY <3>1 DEF TriageFiles, PublisherFiles
    <3> QED
      BY <1>1, <1>2, <2>2, <3>1, <3>2, <3>3
      DEF LedgerChain, Open, PastObservation, None, NoPhase
  <2> QED
    BY <2>3, <2>4
<1>12. CASE WriteLedger
  <2>1. /\ phase \in PhaseFile /\ Finalized /\ phase.prev = ledger.cycle
        /\ sup = ledger.cycle /\ UNCHANGED <<phase, sup>>
        /\ phase.result.used = phase.prev
        /\ phase.triage.bundle = phase.bundle
        /\ <<phase.triage.cycles, phase.triage.at>> \in tRecords
        /\ ledger' = [cycle |-> phase.prev + 1, result |-> phase.result,
                      boundary |-> Len(phase.result.promoted),
                      bundle |-> phase.bundle, triage |-> phase.triage]
    <3>1. Finalized /\ phase.prev = ledger.cycle
      BY <1>12 DEF WriteLedger, PhaseOfPc
    <3> QED
      BY <1>1, <1>3, <1>12, <3>1 DEF WriteLedger, LedgerChain
  <2>2. ledger'.cycle = ledger.cycle + 1
    BY <2>1
  <2> QED
    BY <1>2, <1>3, <2>1, <2>2 DEF LedgerChain, Open, PastObservation
<1>13. CASE WriteSupervisorCheckpoint
  <2>1. /\ Finalized /\ phase.prev + 1 = ledger.cycle
        /\ sup' = ledger.cycle /\ UNCHANGED <<phase, ledger>>
    BY <1>13 DEF WriteSupervisorCheckpoint, PhaseOfPc
  <2>2. phase.prev \in Nat
    BY <1>1, <2>1 DEF PhaseFile
  <2> QED
    BY <1>2, <1>3, <2>1, <2>2 DEF LedgerChain, Open, PastObservation
<1> QED
  BY SupervisorWrites, <1>4, <1>5, <1>6, <1>7, <1>8, <1>9, <1>10, <1>11, <1>12, <1>13

(* A component runs only while the supervisor waits for it.                *)
LEMMA WaitingNext ==
    ASSUME IInv, [Next]_vars
    PROVE  Waiting'
<1> USE DEF IInv
<1>1. CASE UNCHANGED <<oPc, pc, pubPc, tCaller, pubIntent>>
  BY <1>1 DEF Waiting
<1>2. CASE BeginRun
  <2>1. pubIntent # NoBundle => RuntimeMatches /\ SupervisorCheckpointValid
    BY NameFacts DEF PublisherFiles, LedgerChain, RuntimeMatches,
       SupervisorCheckpointValid, Finalized, None
  <2> QED
    BY <1>2, <2>1 DEF BeginRun, Waiting
<1>3. CASE Refuse \/ PublicationRecovered \/ Published
  <2>1. PublicationRecovered \/ Published => pubIntent = NoBundle
    BY DEF PublicationRecovered, Published, PublisherSteps
  <2>2. CASE Refuse
    <3>1. pc # "triaging" /\ pc \notin {"idle", "down", "publishing"}
      BY <2>2 DEF Refuse, Refused
    <3> QED
      BY <2>2, <3>1 DEF Refuse, RunEnds, Waiting
  <2> QED
    BY <1>3, <2>1, <2>2 DEF PublicationRecovered, Published, Waiting
<1>4. CASE Restart \/ LoopEnds \/ ReconcileFinalized \/ RemovePhase \/ NoOpenCycle
           \/ ReceiptsExhausted \/ ResumeTriage \/ WriteP136Completed
           \/ SelectHandoff \/ WriteHandoffPublished \/ AlreadyAccepted
           \/ TriageLeaseConflict \/ WriteP137Accepted \/ WriteCycleFinalized
           \/ WriteLedger \/ WriteSupervisorCheckpoint
  BY <1>4
  DEF Restart, LoopEnds, ReconcileFinalized, RemovePhase, NoOpenCycle, ReceiptsExhausted,
      ResumeTriage, WriteP136Completed, SelectHandoff, WriteHandoffPublished,
      AlreadyAccepted, TriageLeaseConflict, WriteP137Accepted,
      WriteCycleFinalized, WriteLedger, WriteSupervisorCheckpoint, RunEnds, Waiting
<1>5. CASE StartCycle \/ ResumeObservation \/ Observed \/ Publish
  <2>1. Observed => pc' \in {"observed", "select", "publish"}
    BY DEF Observed, PhaseOfPc
  <2> QED
    BY <1>5, <2>1 DEF StartCycle, ResumeObservation, Observed, Publish, Waiting
<1>6. CASE RunTriage \/ Triaged \/ TriageFails \/ OperatorTriage
           \/ OperatorDone \/ OperatorDies
  <2>1. CASE RunTriage
    BY <2>1 DEF RunTriage, CallTriage, Waiting
  <2>2. CASE Triaged \/ TriageFails
    BY <2>2 DEF Triaged, TriageFails, ReleaseTriage, RunEnds, Waiting, None
  <2>3. CASE OperatorTriage
    BY <2>3 DEF OperatorTriage, CallTriage, Waiting, None
  <2>4. CASE OperatorDone \/ OperatorDies
    BY <2>4 DEF OperatorDone, OperatorDies, ReleaseTriage, Waiting, None
  <2> QED
    BY <1>6, <2>1, <2>2, <2>3, <2>4
<1>7. CASE Observe
  BY <1>7 DEF Observe, ObserverStep, Waiting
<1>8. CASE PublishStep
  BY <1>8 DEF PublishStep, PublisherStep, Waiting
<1>9. CASE Triage \/ LimitExceeded \/ Produce
  BY <1>9 DEF Triage, TriageStep, LimitExceeded, StopTriage, Produce, Producer, Waiting
<1>10. CASE Crash \/ WriteFails
  BY <1>10 DEF Crash, WriteFails, RunAborted, ReleaseTriage, Waiting, None
<1>11. CASE UNCHANGED vars
  BY <1>11 DEF vars, Waiting
<1> QED
  BY StepCases, <1>2, <1>3, <1>4, <1>5, <1>6, <1>7, <1>8, <1>9, <1>10, <1>11

(* What the observer and the publisher hand back is what their files say.  *)
LEMMA ResultsAtPcNext ==
    ASSUME IInv, [Next]_vars
    PROVE  ResultsAtPc'
<1> USE DEF IInv
<1>1. CASE pc' \notin {"observed", "published"}
  BY <1>1 DEF ResultsAtPc
<1>2. CASE UNCHANGED <<pc, phase, ledger, outcome, obs, mem, fixed>>
  BY <1>2 DEF ResultsAtPc, OutcomeOf, OfCycle
<1>3. CASE Observed
  <2>1. /\ oPc = "returned" /\ mem' = oResult
        /\ UNCHANGED <<phase, outcome, obs>>
        /\ pc' # "published"
    BY <1>3 DEF Observed, PhaseOfPc
  <2> QED
    BY <2>1 DEF ObserverSteps, ResultsAtPc, OutcomeOf
<1>4. CASE Publish
  <2>1. phase.name = "handoff_selected"
    BY <1>4 DEF Publish, PhaseOfPc
  <2>2. ~OfLedger(fixed) \/ ~SuccessorOfLedger
    <3>1. fixed.seq # fixed.seq + 1
      BY BundleFacts DEF TypeOK
    <3> QED
      BY <3>1, BundleFacts DEF OfLedger, SuccessorOfLedger, TypeOK
  <2> QED
    BY <1>4, <2>1, <2>2
    DEF Publish, PublisherFiles, ResultsAtPc, OfCycle
<1>5. CASE Published
  BY <1>5 DEF Published, PublisherSteps, ResultsAtPc, OfCycle
<1> QED
  BY StepCases, <1>1, <1>2, <1>3, <1>4, <1>5
  DEF vars, Produce, Producer, Restart, LoopEnds, BeginRun, PublicationRecovered, Refuse,
      ReconcileFinalized, RemovePhase, NoOpenCycle, ReceiptsExhausted,
      StartCycle, ResumeObservation, ResumeTriage, WriteP136Completed,
      SelectHandoff, WriteHandoffPublished, AlreadyAccepted, RunTriage,
      TriageLeaseConflict, Triaged, TriageFails, WriteP137Accepted,
      WriteCycleFinalized, WriteLedger, WriteSupervisorCheckpoint, RunEnds,
      Observe, PublishStep, Triage, TriageStep, OperatorTriage, OperatorDone,
      Crash, WriteFails, OperatorDies, LimitExceeded, StopTriage

-----------------------------------------------------------------------------
(* The observer.                                                           *)

(* A recorded checkpoint stays recorded.                                   *)
LEMMA RecordedStays ==
    ASSUME [Next]_vars
    PROVE  \A ck : Recorded(ck) => Recorded(ck)'
  BY RecordsGrow DEF Recorded

(* When the cycle's new records are there, its result is recorded.         *)
LEMMA RecordedResult ==
    ASSUME NEW from \in Checkpoint, NEW to \in Checkpoint,
           Recorded(from), IsPrefix(from.promoted, to.promoted),
           NewRecords(from, to) \subseteq records
    PROVE  Recorded(to)
<1>1. /\ from.promoted \in Seq(1..MaxNow) /\ to.promoted \in Seq(1..MaxNow)
      /\ Len(from.promoted) \in Nat /\ Len(to.promoted) \in Nat
  BY CheckpointFacts
<1>2. \A e \in 1..Len(from.promoted) : from.promoted[e] = to.promoted[e]
  BY <1>1, PrefixElements
<1>3. ASSUME NEW e \in DOMAIN to.promoted
      PROVE  <<e, to.promoted[e]>> \in records
  <2>1. e \in 1..Len(to.promoted)
    BY <1>1, <1>3
  <2>2. CASE e \in 1..Len(from.promoted)
    BY <1>1, <1>2, <2>2 DEF Recorded
  <2>3. CASE e \in (Len(from.promoted) + 1)..Len(to.promoted)
    BY <2>3 DEF NewRecords
  <2> QED
    BY <1>1, <2>1, <2>2, <2>3
<1> QED
  BY <1>3 DEF Recorded

(* The checkpoint on disk and in memory agree with the outcome file and    *)
(* the supervisor's phase, whatever is written of them.                    *)
LEMMA CycleOutcomeNext ==
    ASSUME IInv, [Next]_vars
    PROVE  CycleOutcome'
<1> USE DEF IInv
<1>1. /\ phase = NoPhase <=> phase.name = None
      /\ phase # NoPhase <=> phase \in PhaseFile
      /\ Open <=> phase.name \in {"cycle_started", "p136_completed",
                     "handoff_selected", "handoff_published", "p137_accepted"}
      /\ Finalized => phase \in PhaseFile
  BY NameFacts
<1>2. \A ck : Recorded(ck) => Recorded(ck)'
  BY RecordedStays
<1>3. /\ outcome = NoOutcome <=> outcome.kind = None
      /\ outcome # NoOutcome <=> outcome \in OutcomeFile
  BY OutcomeFacts DEF TypeOK
<1>4. Recorded(obs)' /\ (outcome # NoOutcome => Recorded(outcome.result))'
  <2>1. CASE UNCHANGED <<obs, outcome>>
    BY <1>2, <2>1 DEF CycleOutcome
  <2>2. CASE Observe /\ WriteOutcomeIntent
    <3>1. /\ oPc = "records" /\ NewRecords(mem, oResult) \subseteq records
          /\ outcome' = [kind |-> "intent", start |-> mem, result |-> oResult]
          /\ UNCHANGED <<obs, oResult>>
      BY <2>2 DEF WriteOutcomeIntent
    <3>2. Recorded(mem) /\ IsPrefix(mem.promoted, oResult.promoted)
      BY <3>1 DEF ObserverSteps, CycleOutcome
    <3>3. Recorded(oResult)
      BY <3>1, <3>2, RecordedResult DEF TypeOK
    <3>4. /\ \A e \in DOMAIN oResult.promoted : <<e, oResult.promoted[e]>> \in records'
          /\ \A e \in DOMAIN obs.promoted : <<e, obs.promoted[e]>> \in records'
      BY <3>3, RecordsGrow DEF CycleOutcome, Recorded
    <3>5. outcome'.result = oResult /\ obs' = obs
      BY <3>1
    <3> QED
      BY <3>4, <3>5 DEF Recorded
  <2>3. CASE Observe /\ WriteCheckpoint
    <3>1. oPc = "checkpoint" /\ obs' = oResult /\ UNCHANGED outcome
      BY <2>3 DEF WriteCheckpoint
    <3>2. Recorded(oResult)
      BY <1>3, <3>1 DEF ObserverSteps, CycleOutcome, OutcomeOf
    <3> QED
      BY <1>2, <3>1, <3>2 DEF CycleOutcome, Recorded
  <2>4. CASE Observe /\ WriteCompletion
    <3>1. /\ oPc = "completion" /\ outcome' = [outcome EXCEPT !.kind = "completion"]
          /\ UNCHANGED obs
      BY <2>4 DEF WriteCompletion
    <3>2. outcome \in OutcomeFile
      BY <1>3, <3>1 DEF ObserverSteps, OutcomeOf
    <3>3. outcome'.result = outcome.result
      BY <3>1, <3>2 DEF OutcomeFile
    <3> QED
      BY <1>2, <1>3, <3>1, <3>2, <3>3 DEF CycleOutcome, Recorded
  <2> QED
    BY ObserverWrites, <2>1, <2>2, <2>3, <2>4
    DEF Restart, Observed, WriteRecord
<1> DEFINE Agree ==
       /\ phase.name # "cycle_started" =>
             /\ obs = Settled
             /\ mem = Settled
             /\ outcome # NoOutcome => outcome.start.used < obs.used
       /\ phase.name = "cycle_started" =>
             \/ /\ obs = phase.start
                /\ mem = phase.start
                /\ outcome # NoOutcome => outcome.start.used < obs.used
             \/ /\ outcome # NoOutcome
                /\ outcome.start = phase.start
                /\ outcome.result.used = phase.start.used + 1
                /\ IsPrefix(phase.start.promoted, outcome.result.promoted)
                /\ obs \in {phase.start, outcome.result}
                /\ mem \in {phase.start, obs}
                /\ outcome.kind = "completion" => obs = outcome.result
       /\ phase.name \in {"p136_completed", "handoff_selected"} =>
             /\ outcome = [kind |-> "completion", start |-> phase.start,
                           result |-> phase.result]
             /\ IsPrefix(phase.start.promoted, phase.result.promoted)
<1>5. Agree
  BY DEF CycleOutcome
<1>6. SUFFICES Agree'
  BY <1>4 DEF CycleOutcome
<1>7. CASE UNCHANGED <<phase, ledger, obs, mem, outcome>>
  BY <1>5, <1>7 DEF Settled
<1>8. CASE Restart
  BY <1>5, <1>8 DEF Restart, Settled
<1>9. CASE Observed
  <2>1. /\ mem' = obs /\ UNCHANGED <<phase, ledger, obs, outcome>>
        /\ oPc = "returned"
    BY <1>9 DEF Observed, ObserverSteps
  <2> QED
    BY <1>1, <1>5, <2>1 DEF Settled
<1>10. CASE Observe /\ WriteOutcomeIntent
  <2>1. /\ oPc = "records"
        /\ outcome' = [kind |-> "intent", start |-> mem, result |-> oResult]
        /\ UNCHANGED <<phase, ledger, obs, mem>>
    BY <1>10 DEF Observe, ObserverStep, WriteOutcomeIntent
  <2>2. outcome' # NoOutcome
    BY <2>1 DEF NoOutcome, None
  <2> QED
    BY <2>1, <2>2 DEF ObserverSteps
<1>11. CASE Observe /\ WriteCheckpoint
  <2>1. /\ oPc = "checkpoint" /\ obs' = oResult
        /\ UNCHANGED <<phase, ledger, outcome, mem>>
    BY <1>11 DEF Observe, ObserverStep, WriteCheckpoint
  <2>2. /\ phase.name = "cycle_started" /\ outcome # NoOutcome
        /\ outcome.start = phase.start /\ outcome.result = oResult
        /\ outcome.kind = "intent"
    BY <1>3, <2>1 DEF ObserverSteps, OutcomeOf
  <2>3. mem = phase.start \/ mem = outcome.result
    BY <1>5, <2>2
  <2>4. ~(outcome.start.used < phase.start.used)
    BY <1>1, <2>2, CheckpointFacts DEF PhaseFile, None
  <2>5. outcome.result.used = phase.start.used + 1
        /\ IsPrefix(phase.start.promoted, outcome.result.promoted)
    BY <1>5, <2>2, <2>4
  <2> QED
    BY <2>1, <2>2, <2>3, <2>5
<1>12. CASE Observe /\ WriteCompletion
  <2>1. /\ oPc = "completion" /\ outcome' = [outcome EXCEPT !.kind = "completion"]
        /\ UNCHANGED <<phase, ledger, obs, mem>>
    BY <1>12 DEF Observe, ObserverStep, WriteCompletion
  <2>2. /\ phase.name = "cycle_started" /\ outcome \in OutcomeFile
        /\ outcome.start = phase.start /\ obs = outcome.result
    BY <1>3, <2>1 DEF ObserverSteps, OutcomeOf
  <2>3. /\ outcome' # NoOutcome /\ outcome'.start = outcome.start
        /\ outcome'.result = outcome.result
    BY <2>1, <2>2 DEF OutcomeFile, NoOutcome
  <2>4. ~(outcome.start.used < phase.start.used)
    BY <1>1, <2>2, CheckpointFacts DEF PhaseFile, None
  <2>5. outcome.result.used = phase.start.used + 1
        /\ IsPrefix(phase.start.promoted, outcome.result.promoted)
        /\ mem \in {phase.start, obs}
    BY <1>3, <1>5, <2>2, <2>4
  <2> QED
    BY <2>1, <2>2, <2>3, <2>5
<1>13. CASE RemovePhase
  <2>1. /\ phase' = NoPhase /\ Finalized /\ phase.prev + 1 = ledger.cycle
        /\ UNCHANGED <<ledger, obs, mem, outcome>>
    BY <1>13 DEF RemovePhase, PhaseOfPc
  <2>2. ledger.result = phase.result
    BY <1>1, <2>1 DEF LedgerChain, PhaseFile
  <2>3. Settled = phase.result /\ Settled' = ledger.result
    BY <1>1, <2>1 DEF Settled, Finalized, None
  <2>4. phase'.name = None
    BY <2>1 DEF NoPhase
  <2> QED
    BY <1>5, <2>1, <2>2, <2>3, <2>4 DEF Finalized, None
<1>14. CASE StartCycle
  <2>1. /\ phase = NoPhase /\ UNCHANGED <<ledger, obs, mem, outcome>>
        /\ phase'.name = "cycle_started" /\ phase'.start = mem
    BY <1>14 DEF StartCycle, PhaseOfPc
  <2> QED
    BY <1>1, <1>5, <2>1 DEF None
<1>15. CASE WriteP136Completed
  <2>1. /\ phase.name = "cycle_started" /\ phase \in PhaseFile
        /\ phase' = [phase EXCEPT !.name = "p136_completed", !.result = mem]
        /\ UNCHANGED <<ledger, obs, mem, outcome>>
    BY <1>1, <1>15 DEF WriteP136Completed, PhaseOfPc, None
  <2>2. /\ phase'.name = "p136_completed" /\ phase'.start = phase.start
        /\ phase'.result = mem /\ phase' # NoPhase
    BY <2>1 DEF PhaseFile, NoPhase, None
  <2>3. /\ outcome \in OutcomeFile /\ outcome.start = phase.start
        /\ outcome.kind = "completion" /\ outcome.result = mem /\ obs = mem
    BY <1>3, <1>15 DEF WriteP136Completed, ResultsAtPc, OutcomeOf
  <2>4. outcome = [kind |-> "completion", start |-> phase.start, result |-> mem]
    BY <2>3 DEF OutcomeFile
  <2>5. phase.start.used \in Nat
    BY <2>1, CheckpointFacts DEF PhaseFile
  <2>6. /\ IsPrefix(phase.start.promoted, mem.promoted)
        /\ obs.used = phase.start.used + 1
    BY <1>3, <1>5, <2>1, <2>3, <2>5
  <2> QED
    BY <2>1, <2>2, <2>3, <2>4, <2>5, <2>6 DEF Settled
<1>16. CASE SelectHandoff \/ WriteHandoffPublished
  <2>0. phase \in PhaseFile /\ phase.name \in {"p136_completed", "handoff_selected"}
    BY <1>1, <1>16 DEF SelectHandoff, WriteHandoffPublished, PhaseOfPc, None
  <2>1. /\ phase \in PhaseFile /\ phase.name \in {"p136_completed", "handoff_selected"}
        /\ phase'.name \in {"handoff_selected", "handoff_published", "cycle_finalized"}
        /\ phase'.start = phase.start /\ phase'.result = phase.result
    <3>1. CASE SelectHandoff
      BY <2>0, <3>1 DEF SelectHandoff, PhaseFile
    <3>2. CASE WriteHandoffPublished
      BY <2>0, <3>2 DEF WriteHandoffPublished, PhaseFile
    <3> QED
      BY <1>16, <3>1, <3>2
  <2>2. UNCHANGED <<ledger, obs, mem, outcome>>
    BY <1>16 DEF SelectHandoff, WriteHandoffPublished
  <2>3. phase' # NoPhase /\ phase # NoPhase
    BY <2>1 DEF NoPhase, None
  <2> QED
    BY <1>5, <2>1, <2>2, <2>3 DEF Settled
<1>17. CASE WriteP137Accepted \/ WriteCycleFinalized
  <2>1. UNCHANGED <<ledger, obs, mem, outcome>>
    BY <1>17 DEF WriteP137Accepted, WriteCycleFinalized
  <2>2. CASE phase = NoPhase
    <3>1. CASE WriteP137Accepted
      BY <1>5, <2>1, <2>2, <3>1 DEF WriteP137Accepted, Settled
    <3>2. CASE WriteCycleFinalized
      <4>1. /\ phase'.name = "cycle_finalized" /\ phase'.result = fixed.ckpt
            /\ ledger.cycle = 0 /\ phase' # NoPhase
        BY <1>1, <2>2, <3>2 DEF WriteCycleFinalized, PhaseOfPc, NoPhase, None
      <4>2. fixed.ckpt = FirstCheckpoint /\ obs = ledger.result /\ mem = ledger.result
        BY <1>1, <1>5, <2>2, <4>1 DEF PublisherFiles, FirstBundle, Settled, None
      <4>3. ledger.result = FirstCheckpoint
        BY <4>1 DEF LedgerChain
      <4> QED
        BY <1>1, <1>5, <2>1, <2>2, <4>1, <4>2, <4>3 DEF Settled, None
    <3> QED
      BY <1>17, <3>1, <3>2
  <2>3. CASE phase # NoPhase
    <3>0. phase \in PhaseFile /\ phase.name \in {"handoff_published", "p137_accepted"}
      BY <1>1, <1>17, <2>3 DEF WriteP137Accepted, WriteCycleFinalized, PhaseOfPc
    <3>1. /\ phase.name \in {"handoff_published", "p137_accepted"}
          /\ phase'.name \in {"p137_accepted", "cycle_finalized"}
          /\ phase'.result = phase.result
      <4>1. CASE WriteP137Accepted
        BY <2>3, <3>0, <4>1 DEF WriteP137Accepted, PhaseFile
      <4>2. CASE WriteCycleFinalized
        BY <2>3, <3>0, <4>2 DEF WriteCycleFinalized, PhaseFile
      <4> QED
        BY <1>17, <4>1, <4>2
    <3>2. phase' # NoPhase
      BY <3>1 DEF NoPhase, None
    <3> QED
      BY <1>5, <2>1, <2>3, <3>1, <3>2 DEF Settled
  <2> QED
    BY <2>2, <2>3
<1>18. CASE WriteLedger
  <2>1. /\ Finalized /\ phase # NoPhase /\ UNCHANGED <<phase, obs, mem, outcome>>
    BY <1>1, <1>18 DEF WriteLedger, PhaseOfPc, Finalized, None
  <2> QED
    BY <1>5, <2>1 DEF Settled, Finalized
<1> HIDE DEF Agree
<1> QED
  BY ObserverWrites, SupervisorWrites, <1>7, <1>8, <1>9, <1>10, <1>11, <1>12,
     <1>13, <1>14, <1>15, <1>16, <1>17, <1>18
  DEF RemovePhase, StartCycle, WriteP136Completed, SelectHandoff,
      WriteHandoffPublished, WriteP137Accepted, WriteCycleFinalized, WriteLedger,
      WriteSupervisorCheckpoint, Observe, ObserverStep, WriteRecord, Restart, Observed

(* observe_one_cycle and recover_cycle_outcome go on from where the files  *)
(* say the cycle is.                                                       *)
LEMMA ObserverStepsNext ==
    ASSUME IInv, [Next]_vars
    PROVE  ObserverSteps'
<1> USE DEF IInv
<1>1. /\ outcome = NoOutcome <=> outcome.kind = None
      /\ outcome # NoOutcome <=> outcome \in OutcomeFile
  BY OutcomeFacts DEF TypeOK
<1>2. CASE oPc' = "idle"
  BY <1>2 DEF ObserverSteps
<1>3. CASE UNCHANGED <<oPc, phase, outcome, mem, obs, oResult>>
  BY <1>3 DEF ObserverSteps, OutcomeOf
<1>4. CASE StartCycle
  <2>1. /\ phase = NoPhase /\ oPc' = "scan" /\ UNCHANGED <<obs, outcome, mem>>
        /\ phase'.name = "cycle_started" /\ phase'.start = mem
    BY <1>4 DEF StartCycle, PhaseOfPc
  <2>2. obs = mem /\ (outcome # NoOutcome => outcome.start.used < obs.used)
    BY <2>1, NameFacts DEF CycleOutcome, None
  <2>3. ~(obs.used < obs.used)
    BY CheckpointFacts DEF TypeOK
  <2> QED
    BY <1>1, <2>1, <2>2, <2>3 DEF ObserverSteps, OutcomeOf
<1>5. CASE ResumeObservation
  BY <1>5 DEF ResumeObservation, ObserverSteps
<1>6. CASE Observe /\ ReadIndex
  <2>1. oPc = "scan" /\ UNCHANGED <<phase, outcome, mem, obs>>
    BY <1>6 DEF Observe, ObserverStep, ReadIndex
  <2>2. CASE oPc' = "scan_refused"
    BY <2>2 DEF ObserverSteps
  <2>3. CASE oPc' = "records" /\ oResult' = Advanced(mem)
    <3>1. /\ Advanced(mem).used = mem.used + 1
          /\ IsPrefix(mem.promoted, Advanced(mem).promoted)
      BY AdvancedFacts DEF TypeOK
    <3> QED
      BY <2>1, <2>3, <3>1 DEF ObserverSteps, OutcomeOf
  <2> QED
    BY <1>6, <2>2, <2>3 DEF ReadIndex
<1>7. CASE Observe /\ WriteRecord
  BY <1>7 DEF Observe, ObserverStep, WriteRecord, ObserverSteps, OutcomeOf
<1>8. CASE Observe /\ WriteOutcomeIntent
  <2>1. /\ oPc = "records" /\ oPc' = "checkpoint"
        /\ outcome' = [kind |-> "intent", start |-> mem, result |-> oResult]
        /\ UNCHANGED <<phase, mem, obs, oResult>>
    BY <1>8 DEF Observe, ObserverStep, WriteOutcomeIntent
  <2> QED
    BY <2>1 DEF ObserverSteps, OutcomeOf, None
<1>9. CASE Observe /\ WriteCheckpoint
  <2>1. /\ oPc = "checkpoint" /\ oPc' = "completion" /\ obs' = oResult
        /\ UNCHANGED <<phase, mem, outcome, oResult>>
    BY <1>9 DEF Observe, ObserverStep, WriteCheckpoint
  <2> QED
    BY <2>1 DEF ObserverSteps, OutcomeOf
<1>10. CASE Observe /\ WriteCompletion
  <2>1. /\ oPc = "completion" /\ oPc' = "returned"
        /\ outcome' = [outcome EXCEPT !.kind = "completion"]
        /\ UNCHANGED <<phase, mem, obs, oResult>>
    BY <1>10 DEF Observe, ObserverStep, WriteCompletion
  <2>2. outcome \in OutcomeFile
    BY <1>1, <2>1 DEF ObserverSteps, OutcomeOf
  <2>3. /\ outcome'.kind = "completion" /\ outcome'.start = outcome.start
        /\ outcome'.result = outcome.result
    BY <2>1, <2>2 DEF OutcomeFile
  <2> QED
    BY <2>1, <2>3 DEF ObserverSteps, OutcomeOf, None
<1>11. CASE Observe /\ RecoverCycle(phase.start)
  <2>1. /\ phase.name \in {"cycle_started", "p136_completed", "handoff_selected"}
        /\ UNCHANGED <<phase, mem, obs, outcome>>
    BY <1>11 DEF Observe, ObserverStep, RecoverCycle, PhaseOfPc
  <2>2. OutcomeOf(phase.start) => CheckpointTupleValid
    <3>1. CASE phase.name = "cycle_started"
      <4>1. ~(phase.start.used < phase.start.used)
        BY <3>1, NameFacts, CheckpointFacts DEF PhaseFile, None
      <4> QED
        BY <1>1, <3>1, <4>1 DEF CycleOutcome, CheckpointTupleValid, OutcomeOf
    <3>2. CASE phase.name \in {"p136_completed", "handoff_selected"}
      <4>1. mem = phase.result /\ obs = phase.result
        BY <3>2, NameFacts DEF CycleOutcome, Settled, None
      <4> QED
        BY <3>2, <4>1 DEF CycleOutcome, CheckpointTupleValid, OutcomeOf
    <3> QED
      BY <2>1, <3>1, <3>2
  <2>3. CASE ~OutcomeOf(phase.start)
    <3>1. phase.name = "cycle_started"
      BY <2>1, <2>3 DEF CycleOutcome, OutcomeOf, None
    <3>2. mem = phase.start /\ obs = phase.start
      BY <1>1, <2>3, <3>1 DEF CycleOutcome, OutcomeOf
    <3>3. oPc' = "scan"
      BY <1>11, <2>3, <3>2 DEF RecoverCycle
    <3> QED
      BY <2>1, <2>3, <3>1, <3>2, <3>3 DEF ObserverSteps, OutcomeOf
  <2>4. CASE OutcomeOf(phase.start)
    <3>1. /\ oResult' = outcome.result
          /\ outcome.kind \in {"intent", "completion"}
          /\ outcome.kind = "completion" => obs = outcome.result
          /\ phase.name # "cycle_started" => outcome.kind = "completion"
      <4>1. outcome.kind \in {"intent", "completion"}
        BY <1>1, <2>4 DEF OutcomeOf, OutcomeFile
      <4>2. phase.name # "cycle_started" => outcome.kind = "completion"
        BY <2>1 DEF CycleOutcome
      <4> QED
        BY <1>11, <2>2, <2>4, <4>1, <4>2 DEF RecoverCycle, CheckpointTupleValid
    <3>2. \/ outcome.kind = "completion" /\ oPc' = "returned"
          \/ outcome.kind = "intent" /\ obs = outcome.result /\ oPc' = "completion"
          \/ outcome.kind = "intent" /\ obs # outcome.result /\ oPc' = "checkpoint"
      BY <1>11, <2>2, <2>4, <3>1 DEF RecoverCycle
    <3> QED
      BY <2>1, <2>4, <3>1, <3>2 DEF ObserverSteps, OutcomeOf
  <2> QED
    BY <2>3, <2>4
<1>12. CASE pc # "observing" /\ UNCHANGED oPc
  BY <1>2, <1>12 DEF Waiting
<1> QED
  BY StepCases, <1>2, <1>3, <1>4, <1>5, <1>6, <1>7, <1>8, <1>9, <1>10, <1>11, <1>12
  DEF vars, Produce, Producer, Restart, LoopEnds, BeginRun, PublicationRecovered, Refuse,
      ReconcileFinalized, RemovePhase, NoOpenCycle, ReceiptsExhausted,
      ResumeTriage, Observed, WriteP136Completed, SelectHandoff, Publish,
      Published, WriteHandoffPublished, AlreadyAccepted, RunTriage,
      TriageLeaseConflict, Triaged, TriageFails, WriteP137Accepted,
      WriteCycleFinalized, WriteLedger, WriteSupervisorCheckpoint,
      PublishStep, PublisherStep, Triage, TriageStep, OperatorTriage,
      OperatorDone, Crash, WriteFails, RunAborted, OperatorDies,
      LimitExceeded, StopTriage

-----------------------------------------------------------------------------
(* The publisher.                                                          *)

(* The ledger's bundle does not follow itself.                             *)
LEMMA NotOwnSuccessor ==
    ASSUME NEW b \in BundleFile
    PROVE  ~(OfLedger(b) /\ b.seq = ledger.bundle[1] + 1)
  BY BundleFacts DEF OfLedger

(* The three files of the publisher stay within the windows its recovery   *)
(* knows.                                                                  *)
LEMMA PublisherFilesNext ==
    ASSUME IInv, [Next]_vars
    PROVE  PublisherFiles'
<1> USE DEF IInv, Finalized
<1>1. /\ phase = NoPhase <=> phase.name = None
      /\ phase # NoPhase <=> phase \in PhaseFile
      /\ Open <=> phase.name \in {"cycle_started", "p136_completed",
                     "handoff_selected", "handoff_published", "p137_accepted"}
      /\ Finalized => phase \in PhaseFile
  BY NameFacts
<1>2. ledger.cycle \in Nat /\ fixed \in BundleFile /\ pubState \in BundleFile
  BY DEF TypeOK, SupervisorLedger
<1>3. CASE UNCHANGED <<phase, ledger, fixed, pubIntent, pubState>>
  BY <1>3 DEF PublisherFiles, OfLedger, OfCycle, SuccessorOfLedger
<1>4. CASE PublishStep /\ WritePublisherIntent(ledger.boundary, mem)
  <2>1. /\ pubPc = "publish" /\ pubIntent' = Bundle(ledger.boundary, mem)
        /\ UNCHANGED <<phase, ledger, fixed, pubState>>
    BY <1>4 DEF PublishStep, WritePublisherIntent
  <2>2. pubState = fixed /\ OfLedger(fixed) /\ phase.name = "handoff_selected"
    BY <1>4, <2>1 DEF PublishStep, PublisherSteps, PublisherFiles, PhaseOfPc
  <2>3. mem = phase.result
    BY <1>1, <2>2 DEF CycleOutcome, Settled, None
  <2>4. pubState # NoBundle
    BY <1>2, BundleFacts
  <2>5. /\ pubIntent'.seq = ledger.bundle[1] + 1
        /\ pubIntent'.prev = ledger.bundle[2]
        /\ pubIntent'.from = ledger.boundary + 1
        /\ pubIntent'.ckpt = phase.result
    BY <1>2, <2>1, <2>2, <2>3, <2>4, BundleFacts DEF Bundle, OfLedger
  <2>6. ledger.cycle > 0
    BY <1>1, <2>2 DEF LedgerChain
  <2>7. OfLedger(fixed)' /\ OfCycle(pubIntent)' /\ OfLedger(pubState)'
    BY <2>1, <2>2, <2>5 DEF OfLedger, OfCycle
  <2>8. pubIntent' # NoBundle
    BY <1>2, <2>1, BundleFacts DEF Bundle, NoBundle
  <2> QED
    BY <2>1, <2>2, <2>6, <2>7, <2>8 DEF PublisherFiles, None
<1>5. CASE PublishStep /\ WriteFixedBundle
  <2>1. /\ pubPc = "fixed" /\ fixed' = pubIntent
        /\ UNCHANGED <<phase, ledger, pubIntent, pubState>>
    BY <1>5 DEF PublishStep, WriteFixedBundle
  <2>2. /\ pubIntent # NoBundle /\ phase.name = "handoff_selected"
        /\ OfCycle(pubIntent) /\ OfLedger(pubState)
    BY <2>1 DEF PublisherSteps, PublisherFiles
  <2>3. ledger.cycle > 0
    BY <1>1, <2>2 DEF LedgerChain
  <2>4. OfCycle(pubIntent)' /\ OfLedger(pubState)' /\ OfCycle(fixed)'
    BY <2>1, <2>2 DEF OfLedger, OfCycle
  <2> QED
    BY <2>1, <2>2, <2>3, <2>4 DEF PublisherFiles, None
<1>6. CASE PublishStep /\ WritePublisherState
  <2>1. /\ pubPc = "state" /\ pubState' = fixed
        /\ UNCHANGED <<phase, ledger, pubIntent, fixed>>
    BY <1>6 DEF PublishStep, WritePublisherState
  <2>2. fixed = pubIntent /\ pubIntent # NoBundle
    BY <2>1 DEF PublisherSteps
  <2> QED
    BY <2>1, <2>2 DEF PublisherFiles, OfLedger, OfCycle, SuccessorOfLedger
<1>7. CASE PublishStep /\ UnlinkPublisherIntent
  <2>1. /\ pubPc = "unlink" /\ pubIntent' = NoBundle
        /\ UNCHANGED <<phase, ledger, pubState, fixed>>
    BY <1>7 DEF PublishStep, UnlinkPublisherIntent
  <2>2. fixed = pubIntent /\ pubState = pubIntent /\ pubIntent # NoBundle
    BY <2>1 DEF PublisherSteps
  <2> QED
    BY <2>1, <2>2 DEF PublisherFiles, OfLedger, OfCycle, SuccessorOfLedger
<1>8. pc \notin {"idle", "down", "publishing", "recovering"} =>
         pubIntent = NoBundle /\ pubState = fixed
  BY DEF Waiting, PublisherFiles
<1>9. CASE RemovePhase
  <2>1. /\ phase' = NoPhase /\ Finalized /\ phase.prev + 1 = ledger.cycle
        /\ UNCHANGED <<ledger, fixed, pubIntent, pubState>>
        /\ pubIntent = NoBundle /\ pubState = fixed
    BY <1>8, <1>9 DEF RemovePhase, PhaseOfPc
  <2>2. ledger.result = phase.result /\ ledger.bundle = phase.bundle /\ ledger.cycle > 0
    BY <1>1, <2>1 DEF LedgerChain, PhaseFile
  <2>3. OfLedger(fixed)'
    BY <2>1, <2>2 DEF PublisherFiles, OfLedger
  <2>4. phase'.name = None
    BY <2>1 DEF NoPhase
  <2> QED
    BY <2>1, <2>2, <2>3, <2>4 DEF PublisherFiles, None
<1>10. CASE StartCycle
  <2>1. /\ phase = NoPhase /\ ledger.cycle > 0 /\ phase'.name = "cycle_started"
        /\ UNCHANGED <<ledger, fixed, pubIntent, pubState>>
        /\ pubIntent = NoBundle /\ pubState = fixed
    BY <1>8, <1>10 DEF StartCycle, PhaseOfPc
  <2>2. OfLedger(fixed)'
    BY <1>1, <2>1 DEF PublisherFiles, OfLedger
  <2> QED
    BY <2>1, <2>2 DEF PublisherFiles, None
<1>11. CASE WriteP136Completed
  <2>1. /\ phase.name = "cycle_started" /\ phase \in PhaseFile
        /\ phase' = [phase EXCEPT !.name = "p136_completed", !.result = mem]
        /\ UNCHANGED <<ledger, fixed, pubIntent, pubState>>
        /\ pubIntent = NoBundle /\ pubState = fixed
    BY <1>1, <1>8, <1>11 DEF WriteP136Completed, PhaseOfPc, None
  <2>2. phase'.name = "p136_completed" /\ ledger.cycle > 0
    BY <1>1, <2>1 DEF PhaseFile, LedgerChain
  <2>3. OfLedger(fixed)'
    BY <2>1, <2>2 DEF PublisherFiles, OfLedger
  <2> QED
    BY <2>1, <2>2, <2>3 DEF PublisherFiles, None
<1>12. CASE SelectHandoff
  <2>1. /\ phase.name = "p136_completed" /\ phase \in PhaseFile
        /\ UNCHANGED <<ledger, fixed, pubIntent, pubState>>
        /\ pubIntent = NoBundle /\ pubState = fixed
    BY <1>1, <1>8, <1>12 DEF SelectHandoff, PhaseOfPc, None
  <2>2. ledger.cycle > 0 /\ OfLedger(fixed)
    BY <1>1, <2>1 DEF LedgerChain, PublisherFiles
  <2>3. OfLedger(fixed)'
    BY <2>1, <2>2 DEF OfLedger
  <2>4. CASE HasDelta
    <3>1. phase'.name = "handoff_selected"
      BY <1>12, <2>1, <2>4 DEF SelectHandoff, PhaseFile
    <3> QED
      BY <2>1, <2>2, <2>3, <3>1 DEF PublisherFiles, None
  <2>5. CASE ~HasDelta
    <3>1. /\ phase'.name = "cycle_finalized" /\ phase'.bundle = ledger.bundle
          /\ phase'.result = phase.result
      BY <1>12, <2>1, <2>5 DEF SelectHandoff, PhaseFile
    <3>2. phase.result \in Checkpoint /\ ledger.result \in Checkpoint
      BY <2>1 DEF PhaseFile, TypeOK, SupervisorLedger
    <3>3. /\ IsPrefix(ledger.result.promoted, phase.result.promoted)
          /\ ledger.boundary = Len(ledger.result.promoted)
      BY <1>1, <2>1, <2>2 DEF CycleOutcome, LedgerChain
    <3>4. ledger.result.promoted = phase.result.promoted
      BY <2>5, <3>2, <3>3, CheckpointFacts, PrefixWhole DEF HasDelta
    <3> QED
      BY <2>1, <2>2, <2>3, <3>1, <3>4 DEF PublisherFiles, OfLedger, None
  <2> QED
    BY <2>4, <2>5
<1>13. CASE WriteHandoffPublished
  <2>1. /\ phase.name = "handoff_selected" /\ phase \in PhaseFile
        /\ phase' = [phase EXCEPT !.name = "handoff_published", !.bundle = BundleId(fixed)]
        /\ UNCHANGED <<ledger, fixed, pubIntent, pubState>>
        /\ pubIntent = NoBundle /\ pubState = fixed /\ OfCycle(fixed)
    BY <1>1, <1>8, <1>13 DEF WriteHandoffPublished, PhaseOfPc, ResultsAtPc, None
  <2>2. /\ phase'.name = "handoff_published" /\ phase'.result = phase.result
        /\ phase'.bundle = BundleId(fixed) /\ ledger.cycle > 0
    BY <1>1, <2>1 DEF PhaseFile, LedgerChain
  <2>3. OfCycle(fixed)'
    BY <2>1, <2>2 DEF OfCycle
  <2> QED
    BY <2>1, <2>2, <2>3 DEF PublisherFiles, None
<1>14. CASE WriteP137Accepted
  <2>1. UNCHANGED <<ledger, fixed, pubIntent, pubState>>
    BY <1>14 DEF WriteP137Accepted
  <2>2. CASE phase = NoPhase
    BY <1>3, <1>14, <2>1, <2>2 DEF WriteP137Accepted
  <2>3. CASE phase # NoPhase
    <3>1. phase.name = "handoff_published" /\ phase \in PhaseFile
      BY <1>1, <1>14, <2>3 DEF WriteP137Accepted, PhaseOfPc
    <3>2. /\ phase'.name = "p137_accepted" /\ phase'.result = phase.result
          /\ phase'.bundle = phase.bundle /\ ledger.cycle > 0
          /\ pubIntent = NoBundle /\ pubState = fixed
      BY <1>1, <1>8, <1>14, <2>3, <3>1 DEF WriteP137Accepted, PhaseFile, LedgerChain
    <3>3. OfCycle(fixed)' /\ phase.bundle = BundleId(fixed)
      BY <2>1, <3>1, <3>2 DEF PublisherFiles, OfCycle
    <3> QED
      BY <2>1, <3>2, <3>3 DEF PublisherFiles, None
  <2> QED
    BY <2>2, <2>3
<1>15. CASE WriteCycleFinalized
  <2>1. /\ UNCHANGED <<ledger, fixed, pubIntent, pubState>>
        /\ pubIntent = NoBundle /\ pubState = fixed
    BY <1>8, <1>15 DEF WriteCycleFinalized
  <2>2. CASE phase = NoPhase
    <3>1. /\ ledger.cycle = 0 /\ phase'.name = "cycle_finalized"
          /\ phase'.bundle = BundleId(fixed) /\ phase'.result = fixed.ckpt
      BY <1>1, <1>15, <2>2 DEF WriteCycleFinalized, PhaseOfPc, None
    <3> QED
      BY <2>1, <3>1 DEF PublisherFiles, None
  <2>3. CASE phase # NoPhase
    <3>1. phase.name = "p137_accepted" /\ phase \in PhaseFile
      BY <1>1, <1>15, <2>3 DEF WriteCycleFinalized, PhaseOfPc
    <3>2. /\ phase'.name = "cycle_finalized" /\ phase'.result = phase.result
          /\ phase'.bundle = phase.bundle /\ ledger.cycle > 0
      BY <1>1, <1>15, <2>3, <3>1 DEF WriteCycleFinalized, PhaseFile, LedgerChain
    <3>3. OfCycle(fixed) /\ phase.bundle = BundleId(fixed)
      BY <3>1 DEF PublisherFiles
    <3>4. SuccessorOfLedger' /\ fixed.ckpt = phase.result
      BY <2>1, <3>3 DEF OfCycle, SuccessorOfLedger
    <3> QED
      BY <2>1, <3>2, <3>3, <3>4 DEF PublisherFiles, None
  <2> QED
    BY <2>2, <2>3
<1>16. CASE WriteLedger
  <2>1. /\ Finalized /\ UNCHANGED <<phase, fixed, pubIntent, pubState>>
        /\ pubIntent = NoBundle /\ pubState = fixed
        /\ ledger'.bundle = phase.bundle /\ ledger'.cycle = phase.prev + 1
    BY <1>8, <1>16 DEF WriteLedger, PhaseOfPc
  <2>2. ledger'.cycle > 0
    BY <1>1, <2>1 DEF PhaseFile
  <2> QED
    BY <2>1, <2>2 DEF PublisherFiles, None
<1> QED
  BY SupervisorWrites, PublisherWrites, <1>3, <1>4, <1>5, <1>6, <1>7, <1>9, <1>10,
     <1>11, <1>12, <1>13, <1>14, <1>15, <1>16
  DEF RemovePhase, StartCycle, WriteP136Completed, SelectHandoff,
      WriteHandoffPublished, WriteP137Accepted, WriteCycleFinalized, WriteLedger,
      WriteSupervisorCheckpoint, PublishStep

(* The publisher and its recovery go on from where the files say the       *)
(* publication is, and the recovery refuses nothing.                       *)
LEMMA PublisherStepsNext ==
    ASSUME IInv, [Next]_vars
    PROVE  PublisherSteps'
<1> USE DEF IInv
<1>1. fixed \in BundleFile /\ pubState \in BundleFile /\ ledger.bundle \in BundleName
  BY DEF TypeOK, SupervisorLedger
<1>2. CASE pubPc' = "idle"
  BY <1>2 DEF PublisherSteps
<1>3. CASE UNCHANGED <<pubPc, pubIntent, fixed, pubState, phase, ledger>>
  BY <1>3 DEF PublisherSteps, OfLedger, OfCycle
<1>4. CASE pc \notin {"publishing", "recovering"} /\ UNCHANGED pubPc
  BY <1>2, <1>4 DEF Waiting
<1>5. CASE BeginRun
  BY <1>2, <1>5 DEF BeginRun, PublisherSteps, Waiting
<1>6. CASE Publish
  <2>1. CASE pubPc' = "publish"
    <3>1. /\ ~SuccessorOfLedger /\ phase.name = "handoff_selected"
          /\ UNCHANGED <<pubIntent, fixed, pubState, phase, ledger>>
          /\ pubIntent = NoBundle
      BY <1>6, <2>1 DEF Publish, PhaseOfPc, Waiting
    <3>2. OfLedger(fixed)
      BY <3>1 DEF PublisherFiles, OfCycle, SuccessorOfLedger
    <3> QED
      BY <2>1, <3>1, <3>2 DEF PublisherSteps, OfLedger
  <2> QED
    BY <1>2, <1>6, <2>1 DEF Publish, Waiting
<1>7. CASE PublishStep /\ WritePublisherIntent(ledger.boundary, mem)
  <2>1. /\ pubPc = "publish" /\ pubPc' = "fixed"
        /\ pubIntent' = Bundle(ledger.boundary, mem)
        /\ UNCHANGED <<phase, ledger, fixed, pubState>>
    BY <1>7 DEF PublishStep, WritePublisherIntent
  <2>2. pubState = fixed /\ OfLedger(fixed)
    BY <2>1 DEF PublisherSteps, PublisherFiles
  <2>3. pubIntent' # NoBundle
    BY <1>1, <2>1, BundleFacts DEF Bundle, NoBundle
  <2> QED
    BY <2>1, <2>2, <2>3 DEF PublisherSteps, OfLedger
<1>8. CASE PublishStep /\ RecoverPublication
  <2>1. /\ pubPc = "recover" /\ pubIntent # NoBundle
        /\ UNCHANGED <<phase, ledger, fixed, pubState, pubIntent>>
    BY <1>8 DEF PublishStep, RecoverPublication, PublisherSteps
  <2>2. OfCycle(pubIntent)
    BY <2>1 DEF PublisherFiles
  <2>3. CASE fixed = pubIntent /\ pubState = pubIntent
    <3>1. pubPc' = "unlink"
      BY <1>8, <2>3 DEF RecoverPublication
    <3> QED
      BY <2>1, <2>3, <3>1 DEF PublisherSteps
  <2>4. CASE OfLedger(pubState) /\ fixed \in {pubState, pubIntent}
    <3>1. pubState # pubIntent
      BY <1>1, <2>2, <2>4, NotOwnSuccessor DEF OfCycle
    <3>2. pubIntent.seq = pubState.seq + 1 /\ pubIntent.prev = BundleId(pubState)[2]
      BY <1>1, <2>2, <2>4, BundleFacts DEF OfCycle, OfLedger
    <3>3. pubPc' = IF fixed = pubIntent THEN "state" ELSE "fixed"
      BY <1>8, <2>4, <3>1, <3>2 DEF RecoverPublication
    <3> QED
      BY <2>1, <2>4, <3>1, <3>3 DEF PublisherSteps, OfLedger
  <2> QED
    BY <2>1, <2>3, <2>4 DEF PublisherFiles
<1>9. CASE PublishStep /\ WriteFixedBundle
  <2>1. /\ pubPc = "fixed" /\ pubPc' = "state" /\ fixed' = pubIntent
        /\ UNCHANGED <<phase, ledger, pubIntent, pubState>>
    BY <1>9 DEF PublishStep, WriteFixedBundle
  <2> QED
    BY <2>1 DEF PublisherSteps
<1>10. CASE PublishStep /\ WritePublisherState
  <2>1. /\ pubPc = "state" /\ pubPc' = "unlink" /\ pubState' = fixed
        /\ UNCHANGED <<phase, ledger, pubIntent, fixed>>
    BY <1>10 DEF PublishStep, WritePublisherState
  <2> QED
    BY <2>1 DEF PublisherSteps
<1>11. CASE PublishStep /\ UnlinkPublisherIntent
  <2>1. /\ pubPc = "unlink" /\ pubPc' = "returned" /\ pubIntent' = NoBundle
        /\ UNCHANGED <<phase, ledger, pubState, fixed>>
    BY <1>11 DEF PublishStep, UnlinkPublisherIntent
  <2>2. OfCycle(fixed)
    BY <2>1 DEF PublisherSteps, PublisherFiles
  <2> QED
    BY <2>1, <2>2 DEF PublisherSteps, OfCycle
<1> QED
  BY StepCases, <1>2, <1>3, <1>4, <1>5, <1>6, <1>7, <1>8, <1>9, <1>10, <1>11
  DEF vars, Produce, Producer, Restart, LoopEnds, PublicationRecovered, Refuse,
      ReconcileFinalized, RemovePhase, NoOpenCycle, ReceiptsExhausted,
      StartCycle, ResumeObservation, ResumeTriage, Observed,
      WriteP136Completed, SelectHandoff, Published,
      WriteHandoffPublished, AlreadyAccepted, RunTriage,
      TriageLeaseConflict, Triaged, TriageFails, WriteP137Accepted,
      WriteCycleFinalized, WriteLedger, WriteSupervisorCheckpoint,
      Observe, Triage, TriageStep, OperatorTriage,
      OperatorDone, Crash, WriteFails, RunAborted, OperatorDies,
      LimitExceeded, StopTriage

-----------------------------------------------------------------------------
(* The triage runtime and what the supervisor has read of it.              *)

(* A triage checkpoint that accepts the bundle does not wait for it.       *)
LEMMA AcceptedOrPending ==
    ASSUME TypeOK, NEW ck \in TriageCheckpoint
    PROVE  ~(Accepted(ck) /\ Pending(ck))
  BY BundleFacts DEF Accepted, Pending, TypeOK, TriageCheckpoint, BundleName

(* Past the acceptance, the run has read the triage checkpoint as it is,   *)
(* and it accepts the bundle.                                              *)
LEMMA AcceptanceIsCurrent ==
    ASSUME IInv, pc \in {"accepted", "finalize"}
    PROVE  /\ Accepted(tCheckpoint)
           /\ seen.checkpoint = tCheckpoint
  BY AcceptedOrPending DEF IInv, RunReading, Running, TypeOK

(* Where the publisher replaces the bundle, the old one is accepted.       *)
LEMMA ReplacedIsAccepted ==
    ASSUME IInv, PublishStep, WriteFixedBundle
    PROVE  /\ Certified /\ Accepted(tCheckpoint) /\ ~Pending(tCheckpoint)
           /\ fixed' = pubIntent /\ pubIntent \in BundleFile
           /\ tCheckpoint.bundle = ledger.bundle
           /\ OfCycle(pubIntent)
           /\ phase.name = "handoff_selected"
<1> USE DEF IInv
<1>1. pubPc = "fixed" /\ fixed' = pubIntent
  BY DEF PublishStep, WriteFixedBundle
<1>2. /\ pubIntent # NoBundle /\ OfLedger(fixed) /\ OfCycle(pubIntent)
      /\ phase.name = "handoff_selected"
  BY <1>1 DEF PublisherSteps, PublisherFiles
<1>3. ledger.cycle > 0
  BY <1>2, NameFacts DEF LedgerChain
<1>4. Certified
  BY <1>2, <1>3 DEF Certified, OfLedger
<1>5. Accepted(tCheckpoint)
  BY <1>4 DEF TriageFiles
<1> QED
  BY <1>1, <1>2, <1>4, <1>5, AcceptedOrPending DEF OfLedger, Accepted, TypeOK

(* The triage files follow the bundle at the fixed path, and what the      *)
(* supervisor has certified stays accepted.                                *)
LEMMA TriageFilesNext ==
    ASSUME IInv, [Next]_vars
    PROVE  TriageFiles'
<1> USE DEF IInv
<1>1. /\ fixed \in BundleFile /\ tCheckpoint \in TriageCheckpoint
      /\ tLedger \in TriageLedger /\ ledger.cycle \in Nat
      /\ tCheckpoint.bundle[1] \in Nat /\ tCheckpoint.cycles \in Nat
      /\ tLedger.cycles \in Nat
  BY DEF TypeOK, TriageCheckpoint, TriageLedger, BundleName, SupervisorLedger
<1>2. CASE UNCHANGED <<tCheckpoint, tLedger, fixed, tRecords, ledger, phase>>
  BY <1>2 DEF TriageFiles, Accepted, Pending, LedgerMatches, SplitCommit, Certified
<1>3. CASE PublishStep /\ WriteFixedBundle
  <2>1. /\ Accepted(tCheckpoint) /\ ~Pending(tCheckpoint)
        /\ fixed' = pubIntent /\ pubIntent \in BundleFile
        /\ tCheckpoint.bundle = ledger.bundle /\ OfCycle(pubIntent)
        /\ phase.name = "handoff_selected"
    BY <1>3, ReplacedIsAccepted
  <2>2. UNCHANGED <<tCheckpoint, tLedger, tRecords, ledger, phase>>
    BY <1>3 DEF PublishStep, PublisherStep
  <2>3. Pending(tCheckpoint)'
    BY <2>1, <2>2 DEF Pending, OfCycle
  <2>4. LedgerMatches(tCheckpoint)'
    BY <2>1, <2>2 DEF TriageFiles, LedgerMatches
  <2>5. ~Certified'
    <3>1. pubIntent.seq # ledger.bundle[1]
      BY <1>1, <2>1 DEF OfCycle
    <3>2. BundleId(pubIntent)[1] = pubIntent.seq
      BY <2>1, BundleFacts
    <3>3. BundleId(fixed)' = BundleId(pubIntent)
      BY <2>1 DEF BundleId
    <3>4. BundleId(fixed)' # ledger.bundle
      BY <3>1, <3>2, <3>3
    <3> QED
      BY <2>1, <2>2, <3>4 DEF Certified
  <2> QED
    BY <2>1, <2>2, <2>3, <2>4, <2>5 DEF TriageFiles
<1>4. CASE Triage /\ WriteIngestIntent
  <2>1. UNCHANGED <<tCheckpoint, tLedger, fixed, tRecords, ledger, phase>>
    BY <1>4 DEF Triage, TriageStep, WriteIngestIntent
  <2> QED
    BY <1>2, <2>1
<1>5. CASE Triage /\ WriteTriageRecords
  <2>1. /\ UNCHANGED <<tCheckpoint, tLedger, fixed, ledger, phase>>
        /\ tRecords \subseteq tRecords'
    BY <1>5 DEF Triage, TriageStep, WriteTriageRecords
  <2> QED
    BY <2>1 DEF TriageFiles, Accepted, Pending, LedgerMatches, SplitCommit, Certified
<1>6. CASE Triage /\ WriteTriageLedger
  <2>1. /\ tPc = "ledger" /\ UNCHANGED <<tCheckpoint, tRecords, fixed, ledger, phase>>
        /\ tLedger'.cycles = tLedger.cycles + 1 /\ tLedger'.at = tNow
        /\ tLedger'.prev = tLedger.at
    BY <1>6 DEF Triage, TriageStep, WriteTriageLedger
  <2>2. /\ Pending(tCheckpoint) /\ LedgerMatches(tCheckpoint)
        /\ tBundle = fixed /\ <<tBundle.seq, tNow>> \in tRecords
    BY <2>1 DEF TriageSteps
  <2>3. Pending(tCheckpoint)' /\ SplitCommit'
    BY <2>1, <2>2 DEF Pending, LedgerMatches, SplitCommit
  <2>4. <<tLedger'.cycles, tLedger'.at>> \in tRecords'
    BY <2>1, <2>2 DEF TriageFiles, Pending, LedgerMatches
  <2>5. Certified' => Accepted(tCheckpoint)'
    BY <2>1 DEF Certified, TriageFiles, Accepted
  <2> QED
    BY <2>1, <2>3, <2>4, <2>5 DEF TriageFiles
<1>7. CASE Triage /\ WriteTriageCheckpoint
  <2>1. /\ tPc = "checkpoint" /\ UNCHANGED <<tLedger, tRecords, fixed, ledger, phase>>
        /\ tCheckpoint' = [bundle |-> BundleId(tBundle),
                           cycles |-> tLedger.cycles, at |-> tLedger.at]
    BY <1>7 DEF Triage, TriageStep, WriteTriageCheckpoint
  <2>2. tBundle = fixed /\ Pending(tCheckpoint) /\ SplitCommit
    BY <2>1 DEF TriageSteps
  <2>3. Accepted(tCheckpoint)' /\ LedgerMatches(tCheckpoint)'
    BY <2>1, <2>2 DEF Accepted, LedgerMatches, BundleId
  <2>4. tCheckpoint'.bundle[1] = fixed.seq
    BY <1>1, <2>1, <2>2, BundleFacts
  <2>5. tCheckpoint'.cycles = tCheckpoint'.bundle[1]
    BY <2>1, <2>2, <2>4 DEF TriageFiles, Pending, SplitCommit
  <2>6. phase.name # "p137_accepted"
    BY <1>1, <2>2, AcceptedOrPending DEF TriageFiles, Certified
  <2> QED
    BY <2>1, <2>3, <2>5, <2>6 DEF TriageFiles
<1>8. CASE /\ UNCHANGED <<tCheckpoint, tLedger, fixed, tRecords>>
           /\ Certified' => Accepted(tCheckpoint)
           /\ phase'.name = "p137_accepted" => phase'.triage = tCheckpoint
  BY <1>8 DEF TriageFiles, Accepted, Pending, LedgerMatches, SplitCommit
<1>9. CASE UNCHANGED <<tCheckpoint, tLedger, fixed, tRecords>>
  <2> DEFINE Keeps == /\ Certified' => Accepted(tCheckpoint)
                      /\ phase'.name = "p137_accepted" => phase'.triage = tCheckpoint
  <2>1. Certified => Accepted(tCheckpoint)
    BY DEF TriageFiles
  <2>2. ASSUME RemovePhase PROVE Keeps
    <3>1. Certified /\ phase'.name = None
      BY <2>2 DEF RemovePhase, PhaseOfPc, Finalized, Certified, NoPhase
    <3> QED
      BY <2>1, <3>1 DEF None
  <2>3. ASSUME StartCycle \/ WriteP136Completed \/ WriteHandoffPublished PROVE Keeps
    <3>1. phase'.name \notin {"p137_accepted", "cycle_finalized"} /\ UNCHANGED ledger
      <4>1. CASE StartCycle
        BY <4>1 DEF StartCycle
      <4>2. CASE WriteP136Completed
        BY <4>2, HeldFiles DEF WriteP136Completed, PhaseFile
      <4>3. CASE WriteHandoffPublished
        BY <4>3, HeldFiles DEF WriteHandoffPublished, PhaseFile
      <4> QED
        BY <2>3, <4>1, <4>2, <4>3
    <3> QED
      BY <1>9, <2>1, <3>1 DEF Certified, BundleId
  <2>4. ASSUME SelectHandoff PROVE Keeps
    <3>1. phase.name = "p136_completed" /\ phase \in PhaseFile /\ ledger.cycle > 0
      BY <2>4, NameFacts DEF SelectHandoff, PhaseOfPc, LedgerChain, None
    <3>2. Certified
      BY <3>1 DEF PublisherFiles, OfLedger, Certified
    <3>3. phase'.name # "p137_accepted"
      BY <2>4, <3>1 DEF SelectHandoff, PhaseFile
    <3> QED
      BY <2>1, <3>2, <3>3
  <2>5. ASSUME WriteP137Accepted PROVE Keeps
    <3>1. Accepted(tCheckpoint) /\ seen.checkpoint = tCheckpoint
      BY <2>5, AcceptanceIsCurrent DEF WriteP137Accepted
    <3>2. phase'.name = "p137_accepted" => phase'.triage = seen.checkpoint
      <4>1. CASE phase = NoPhase
        BY <2>5, <4>1 DEF WriteP137Accepted, NoPhase, None
      <4>2. CASE phase # NoPhase
        BY <2>5, <4>2, NameFacts DEF WriteP137Accepted, PhaseFile
      <4> QED
        BY <4>1, <4>2
    <3> QED
      BY <3>1, <3>2
  <2>6. ASSUME WriteCycleFinalized PROVE Keeps
    <3>1. Accepted(tCheckpoint)
      BY <2>6, AcceptanceIsCurrent DEF WriteCycleFinalized
    <3>2. phase'.name = "cycle_finalized"
      <4>1. CASE phase = NoPhase
        BY <2>6, <4>1 DEF WriteCycleFinalized
      <4>2. CASE phase # NoPhase
        BY <2>6, <4>2, NameFacts DEF WriteCycleFinalized, PhaseFile
      <4> QED
        BY <4>1, <4>2
    <3> QED
      BY <3>1, <3>2
  <2>7. ASSUME WriteLedger PROVE Keeps
    <3>1. Finalized /\ UNCHANGED phase
      BY <2>7 DEF WriteLedger, PhaseOfPc
    <3> QED
      BY <2>1, <3>1 DEF Certified, Finalized
  <2>8. CASE WriteSupervisorCheckpoint
    BY <1>2, <1>9, <2>8 DEF WriteSupervisorCheckpoint
  <2>9. CASE UNCHANGED <<phase, ledger, sup>>
    BY <1>2, <1>9, <2>9
  <2>10. CASE Keeps
    BY <1>8, <1>9, <2>10
  <2> HIDE DEF Keeps
  <2> QED
    BY SupervisorWrites, <2>2, <2>3, <2>4, <2>5, <2>6, <2>7, <2>8, <2>9, <2>10
<1>10. UNCHANGED fixed \/ (PublishStep /\ WriteFixedBundle)
  BY PublisherWrites
  DEF WritePublisherIntent, WritePublisherState, UnlinkPublisherIntent
<1>11. CASE PublishStep
  <2>1. UNCHANGED <<tCheckpoint, tLedger, tRecords>>
    BY <1>11 DEF PublishStep, PublisherStep
  <2> QED
    BY <1>3, <1>9, <1>10, <2>1
<1> QED
  BY TriageWrites, <1>4, <1>5, <1>6, <1>7, <1>9, <1>10, <1>11

(* run_p137_runtime_once works on the bundle at the fixed path, one that   *)
(* is not accepted yet, and commits it in the order it is read back.       *)
LEMMA TriageStepsNext ==
    ASSUME IInv, [Next]_vars
    PROVE  TriageSteps'
<1> USE DEF IInv
<1>1. CASE UNCHANGED <<tPc, tBundle, fixed, tCheckpoint, tLedger, tRecords, tNow, tCaller>>
  BY <1>1 DEF TriageSteps, Accepted, Pending, LedgerMatches, SplitCommit
<1>2. CASE tPc' \in {"idle", "read", "failed"}
  BY <1>2 DEF TriageSteps
<1>3. CASE PublishStep /\ WriteFixedBundle
  <2>1. /\ ~Pending(tCheckpoint) /\ UNCHANGED <<tPc, tCaller>>
        /\ pc \in {"publishing", "recovering"}
    BY <1>3, ReplacedIsAccepted DEF PublishStep, PublisherStep
  <2> QED
    BY <2>1 DEF TriageSteps, Waiting
<1>4. CASE Triage /\ ReadHandoff
  <2>1. /\ UNCHANGED <<tRecords, tLedger, tCheckpoint, fixed, tCaller, tNow>>
        /\ tBundle' = fixed
    BY <1>4 DEF Triage, TriageStep, ReadHandoff
  <2>2. CASE SplitCommit
    <3>1. Pending(tCheckpoint) \/ tPc' = "failed"
      <4>1. tCheckpoint.cycles # tCheckpoint.cycles + 1
        BY DEF TypeOK, TriageCheckpoint
      <4> QED
        BY <2>2, <4>1 DEF TriageFiles, SplitCommit, LedgerMatches
    <3>2. tPc' \in {"checkpoint", "failed"}
      BY <1>4, <2>2 DEF ReadHandoff
    <3> QED
      BY <1>2, <2>1, <2>2, <3>1, <3>2 DEF TriageSteps, Pending, SplitCommit
  <2>3. CASE ~SplitCommit /\ NextBundle(fixed)
    <3>1. tPc' = "ingest" /\ Pending(tCheckpoint)
      <4>1. Pending(tCheckpoint)
        BY <2>3 DEF NextBundle, Pending
      <4>2. BundleId(fixed) # tCheckpoint.bundle
        BY <4>1, AcceptedOrPending DEF Accepted, TypeOK
      <4> QED
        BY <1>4, <2>3, <4>1, <4>2 DEF ReadHandoff
    <3>2. LedgerMatches(tCheckpoint)
      BY <2>3, <3>1 DEF TriageFiles
    <3> QED
      BY <2>1, <3>1, <3>2 DEF TriageSteps, Pending, LedgerMatches
  <2>4. CASE ~SplitCommit /\ ~NextBundle(fixed)
    <3>1. tPc' = "failed" \/ (tPc' = "returned" /\ Accepted(tCheckpoint))
      BY <1>4, <2>4 DEF ReadHandoff, Accepted
    <3> QED
      BY <1>2, <2>1, <3>1 DEF TriageSteps, Accepted
  <2> QED
    BY <2>2, <2>3, <2>4
<1>5. CASE Triage /\ WriteIngestIntent
  BY <1>5 DEF Triage, TriageStep, WriteIngestIntent, TriageSteps, Pending, LedgerMatches
<1>6. CASE Triage /\ WriteTriageRecords
  BY <1>6 DEF Triage, TriageStep, WriteTriageRecords, TriageSteps, Pending, LedgerMatches
<1>7. CASE Triage /\ WriteTriageLedger
  <2>1. /\ tPc = "ledger" /\ tPc' = "checkpoint"
        /\ UNCHANGED <<tCheckpoint, tBundle, fixed>>
        /\ tLedger'.cycles = tLedger.cycles + 1 /\ tLedger'.prev = tLedger.at
    BY <1>7 DEF Triage, TriageStep, WriteTriageLedger
  <2> QED
    BY <2>1 DEF TriageSteps, Pending, LedgerMatches, SplitCommit
<1>8. CASE Triage /\ WriteTriageCheckpoint
  <2>1. /\ tPc = "checkpoint" /\ tPc' = "returned" /\ UNCHANGED fixed
        /\ tCheckpoint'.bundle = BundleId(tBundle)
    BY <1>8 DEF Triage, TriageStep, WriteTriageCheckpoint
  <2> QED
    BY <2>1 DEF TriageSteps, Accepted, BundleId
<1>9. CASE PublishStep /\ ~WriteFixedBundle
  BY <1>1, <1>9, PublisherWrites
  DEF PublishStep, PublisherStep, WritePublisherIntent, WritePublisherState,
      UnlinkPublisherIntent
<1> QED
  BY StepCases, <1>1, <1>2, <1>3, <1>4, <1>5, <1>6, <1>7, <1>8, <1>9
  DEF vars, Produce, Producer, Restart, LoopEnds, BeginRun, PublicationRecovered, Refuse,
      ReconcileFinalized, RemovePhase, NoOpenCycle, ReceiptsExhausted,
      StartCycle, ResumeObservation, ResumeTriage, Observed,
      WriteP136Completed, SelectHandoff, Publish, Published,
      WriteHandoffPublished, AlreadyAccepted, RunTriage, CallTriage,
      TriageLeaseConflict, Triaged, TriageFails, ReleaseTriage, WriteP137Accepted,
      WriteCycleFinalized, WriteLedger, WriteSupervisorCheckpoint,
      Observe, OperatorTriage, OperatorDone, Crash, WriteFails, RunAborted,
      OperatorDies, LimitExceeded, StopTriage

(* What the run has read stays good for its decisions: it is the triage    *)
(* checkpoint as it is, or one that waited for the bundle accepted since.  *)
LEMMA RunReadingNext ==
    ASSUME IInv, [Next]_vars
    PROVE  RunReading'
<1> USE DEF IInv
<1>1. /\ tCheckpoint \in TriageCheckpoint /\ seen.checkpoint \in TriageCheckpoint
      /\ fixed \in BundleFile
  BY DEF TypeOK
<1>2. tRecords \subseteq tRecords'
  BY RecordsGrow
<1>3. CASE ~Running'
  BY <1>3 DEF RunReading
<1>4. CASE /\ Running /\ UNCHANGED <<seen, fixed, tCheckpoint>>
           /\ Certified' \/ pc' \in {"accepted", "finalize"} =>
                 Certified \/ pc \in {"accepted", "finalize"} \/ Accepted(seen.checkpoint)
  BY <1>2, <1>4 DEF RunReading, Accepted, Pending
<1>5. CASE BeginRun
  <2>1. /\ seen' = [checkpoint |-> tCheckpoint, ledger |-> tLedger]
        /\ pc' \in {"recovering", "reconcile"}
        /\ UNCHANGED <<fixed, tCheckpoint, tLedger, tRecords, phase, ledger>>
    BY <1>5 DEF BeginRun
  <2>2. Certified' => Accepted(tCheckpoint)'
    BY <2>1 DEF Certified, TriageFiles, Accepted
  <2>3. /\ seen'.checkpoint = tCheckpoint' /\ seen'.ledger = tLedger
    BY <2>1
  <2>4. Accepted(seen.checkpoint)' <=> Accepted(tCheckpoint)'
    BY <2>3 DEF Accepted
  <2> QED
    BY <2>1, <2>2, <2>3, <2>4 DEF RunReading, TriageFiles, LedgerMatches, SplitCommit
<1>6. CASE Triaged
  <2>1. /\ seen' = [checkpoint |-> tCheckpoint, ledger |-> tLedger]
        /\ UNCHANGED <<fixed, tCheckpoint, tLedger, tRecords, phase, ledger>>
        /\ pc = "triaging" /\ tPc = "returned"
    BY <1>6 DEF Triaged, ReleaseTriage
  <2>2. Accepted(tCheckpoint)
    BY <2>1 DEF Waiting, TriageSteps
  <2>3. Accepted(seen.checkpoint)' /\ seen'.checkpoint = tCheckpoint' /\ seen'.ledger = tLedger
    BY <2>1, <2>2 DEF Accepted
  <2> QED
    BY <2>1, <2>3 DEF RunReading, TriageFiles, LedgerMatches, SplitCommit
<1>7. CASE PublishStep /\ WriteFixedBundle
  <2>1. /\ Certified /\ Accepted(tCheckpoint) /\ ~Pending(tCheckpoint)
        /\ fixed' = pubIntent /\ pubIntent \in BundleFile
        /\ tCheckpoint.bundle = ledger.bundle /\ OfCycle(pubIntent)
        /\ phase.name = "handoff_selected"
    BY <1>7, ReplacedIsAccepted
  <2>2. /\ pc \in {"publishing", "recovering"}
        /\ UNCHANGED <<pc, seen, tCheckpoint, tRecords, ledger, phase>>
    BY <1>7 DEF PublishStep, PublisherStep
  <2>3. seen.checkpoint = tCheckpoint
    <3>1. Accepted(seen.checkpoint)
      BY <2>1, <2>2 DEF RunReading, Running
    <3>2. ~Pending(seen.checkpoint)
      BY <1>1, <3>1, AcceptedOrPending
    <3> QED
      BY <2>2, <3>2 DEF RunReading, Running
  <2>4. ~Certified'
    <3>1. pubIntent.seq # ledger.bundle[1]
      BY <2>1 DEF OfCycle, TypeOK, SupervisorLedger, BundleName
    <3>2. BundleId(pubIntent)[1] = pubIntent.seq
      BY <2>1, BundleFacts
    <3>3. BundleId(fixed)' = BundleId(pubIntent)
      BY <2>1 DEF BundleId
    <3> QED
      BY <2>1, <2>2, <3>1, <3>2, <3>3 DEF Certified
  <2> QED
    BY <2>2, <2>3, <2>4 DEF RunReading, Running
<1>8. CASE Triage /\ WriteTriageCheckpoint
  <2>1. /\ tPc = "checkpoint" /\ UNCHANGED <<pc, seen, fixed, tRecords, ledger, phase>>
        /\ tCheckpoint'.bundle = BundleId(tBundle)
    BY <1>8 DEF Triage, TriageStep, WriteTriageCheckpoint
  <2>2. tBundle = fixed /\ Pending(tCheckpoint)
    BY <2>1 DEF TriageSteps
  <2>3. Accepted(tCheckpoint)'
    BY <2>1, <2>2 DEF Accepted, BundleId
  <2>4. ~Accepted(tCheckpoint)
    BY <1>1, <2>2, AcceptedOrPending
  <2>5. CASE Running
    <3>1. seen.checkpoint = tCheckpoint
      BY <2>4, <2>5 DEF RunReading
    <3>2. Pending(seen.checkpoint)'
      BY <2>1, <2>2, <3>1 DEF Pending
    <3>3. ~Certified /\ pc \notin {"accepted", "finalize"}
      BY <2>4, <2>5, <3>1 DEF RunReading
    <3>4. ~Certified' /\ pc' \notin {"accepted", "finalize"}
      BY <2>1, <3>3 DEF Certified, BundleId
    <3> QED
      BY <2>1, <2>3, <2>5, <3>2, <3>4 DEF RunReading
  <2> QED
    BY <1>3, <2>1, <2>5 DEF Running
<1>9. CASE Triage /\ ~WriteTriageCheckpoint
  <2>1. UNCHANGED <<pc, seen, fixed, tCheckpoint, ledger, phase>>
    BY <1>9
    DEF Triage, TriageStep, ReadHandoff, WriteIngestIntent, WriteTriageRecords,
        WriteTriageLedger
  <2> QED
    BY <1>3, <1>4, <2>1 DEF Running, Certified, BundleId
<1>10. CASE RemovePhase \/ WriteLedger
  <2>1. Running /\ Certified /\ UNCHANGED <<fixed, tCheckpoint>>
    BY <1>10 DEF RemovePhase, WriteLedger, PhaseOfPc, Running, Finalized, Certified
  <2>2. UNCHANGED seen \/ ~Running'
    BY <1>10 DEF RemovePhase, WriteLedger, RunEnds, Running
  <2> QED
    BY <1>3, <1>4, <2>1, <2>2
<1>11. CASE SelectHandoff
  <2>1. Running /\ UNCHANGED <<seen, fixed, tCheckpoint>>
    BY <1>11 DEF SelectHandoff, Running
  <2>2. phase.name = "p136_completed" /\ ledger.cycle > 0
    BY <1>11, NameFacts DEF SelectHandoff, PhaseOfPc, LedgerChain, None
  <2>3. Certified
    BY <2>2 DEF PublisherFiles, OfLedger, Certified
  <2> QED
    BY <1>4, <2>1, <2>3
<1>12. CASE WriteP137Accepted \/ WriteCycleFinalized
  <2>1. /\ Running /\ UNCHANGED <<seen, fixed, tCheckpoint>>
        /\ pc \in {"accepted", "finalize"}
    BY <1>12 DEF WriteP137Accepted, WriteCycleFinalized, Running
  <2> QED
    BY <1>4, <2>1
<1>13. CASE StartCycle \/ WriteP136Completed \/ WriteHandoffPublished
  <2>1. phase'.name \notin {"p137_accepted", "cycle_finalized"} /\ UNCHANGED ledger
    <3>1. CASE StartCycle
      BY <3>1 DEF StartCycle
    <3>2. CASE WriteP136Completed
      BY <3>2, HeldFiles DEF WriteP136Completed, PhaseFile
    <3>3. CASE WriteHandoffPublished
      BY <3>3, HeldFiles DEF WriteHandoffPublished, PhaseFile
    <3> QED
      BY <1>13, <3>1, <3>2, <3>3
  <2>2. /\ Running /\ UNCHANGED <<seen, fixed, tCheckpoint>>
        /\ pc' \notin {"accepted", "finalize"}
    BY <1>13 DEF StartCycle, WriteP136Completed, WriteHandoffPublished, Running
  <2> QED
    BY <1>4, <2>1, <2>2 DEF Certified, BundleId
<1>14. CASE ResumeTriage
  <2>1. /\ Running /\ UNCHANGED <<seen, fixed, tCheckpoint, ledger, phase>>
        /\ pc' = "finalize" => phase.name = "p137_accepted"
        /\ pc' # "accepted"
    BY <1>14 DEF ResumeTriage, Running
  <2> QED
    BY <1>4, <2>1 DEF Certified, BundleId
<1>15. CASE AlreadyAccepted
  <2>1. /\ Running /\ UNCHANGED <<seen, fixed, tCheckpoint>>
        /\ Accepted(seen.checkpoint)
    BY <1>15 DEF AlreadyAccepted, Running
  <2> QED
    BY <1>4, <2>1
<1>16. CASE /\ UNCHANGED <<fixed, tCheckpoint, ledger, phase>>
            /\ \/ /\ Running /\ UNCHANGED seen
                  /\ pc' \in {"accepted", "finalize"} => pc \in {"accepted", "finalize"}
               \/ ~Running /\ UNCHANGED pc
  BY <1>3, <1>4, <1>16 DEF Certified, BundleId, Running
<1>17. CASE Observed
  <2>1. pc' \in {"observed", "select", "publish"} /\ Running
    BY <1>17 DEF Observed, PhaseOfPc, Running
  <2> QED
    BY <1>16, <1>17, <2>1 DEF Observed
<1>18. CASE PublishStep /\ ~WriteFixedBundle
  <2>1. UNCHANGED fixed
    BY <1>18, PublisherWrites
    DEF PublishStep, WritePublisherIntent, WritePublisherState, UnlinkPublisherIntent
  <2> QED
    BY <1>16, <1>18, <2>1 DEF PublishStep, PublisherStep, Running
<1>19. CASE ReconcileFinalized
  <2>1. pc' \in {"repair_ledger", "repair_checkpoint", "unlink"} /\ Running
    BY <1>19 DEF ReconcileFinalized, Running
  <2> QED
    BY <1>16, <1>19, <2>1 DEF ReconcileFinalized
<1>20. CASE Publish \/ Published \/ NoOpenCycle \/ RunTriage \/ PublicationRecovered
            \/ ResumeObservation \/ Observe
  BY <1>16, <1>20
  DEF Publish, Published, NoOpenCycle, RunTriage, CallTriage, PublicationRecovered,
      ResumeObservation, Observe, Running
<1>21. CASE WriteSupervisorCheckpoint
  BY <1>3, <1>16, <1>21 DEF WriteSupervisorCheckpoint, RunEnds, Running
<1>22. CASE Produce \/ OperatorTriage \/ OperatorDone \/ OperatorDies
            \/ LimitExceeded \/ UNCHANGED vars
  <2>1. UNCHANGED <<pc, seen, fixed, tCheckpoint, ledger, phase>>
    BY <1>22
    DEF Produce, OperatorTriage, CallTriage, OperatorDone, OperatorDies,
        ReleaseTriage, LimitExceeded, StopTriage, vars
  <2> QED
    BY <1>16, <2>1
<1> QED
  BY StepCases, <1>3, <1>5, <1>6, <1>7, <1>8, <1>9, <1>10, <1>11, <1>12, <1>13,
     <1>14, <1>15, <1>17, <1>18, <1>19, <1>20, <1>21, <1>22
  DEF Restart, LoopEnds, Refuse, ReceiptsExhausted, TriageLeaseConflict, TriageFails,
      RunEnds, Crash, WriteFails, Running

(* The index file stays well formed, whatever the producer does with it.   *)
LEMMA ProducerTypes ==
    ASSUME IInv, [Next]_vars
    PROVE  index' \in IndexFile /\ produced' \in Nat
<1> USE DEF IInv
<1>1. /\ index \in IndexFile /\ produced \in Nat
      /\ index.lines \in Seq(Line) /\ Len(index.lines) \in Nat /\ index.id \in Nat
  BY DEF TypeOK, IndexFile
<1>2. CASE UNCHANGED <<index, produced>>
  BY <1>1, <1>2
<1>3. ASSUME NEW kind \in {"common", "distinct"}, StartLine(kind)
      PROVE  index' \in IndexFile /\ produced' \in Nat
  BY <1>1, <1>3 DEF StartLine, IndexFile
<1>4. CASE GrowLine
  BY <1>1, <1>4 DEF GrowLine, IndexFile
<1>5. CASE FinishLine
  <2> DEFINE rot == IF index.id > 1 /\ index.base = produced THEN produced ELSE 0
             line == [n |-> produced + 1, rot |-> rot]
  <2>1. line \in Line
    BY <1>1 DEF Line
  <2>2. Append(index.lines, line) \in Seq(Line)
    BY <1>1, <2>1
  <2>3. index' = [index EXCEPT !.partial = None, !.lines = Append(index.lines, line)]
    BY <1>5 DEF FinishLine
  <2> HIDE DEF line
  <2>4. index' \in IndexFile
    BY <1>1, <2>2, <2>3 DEF IndexFile
  <2> QED
    BY <1>1, <1>5, <2>4 DEF FinishLine
<1>6. ASSUME NEW kept \in 0..Len(index.lines), RotateIndex(kept)
      PROVE  index' \in IndexFile /\ produced' \in Nat
  <2>1. SubSeq(index.lines, Len(index.lines) - kept + 1, Len(index.lines)) \in Seq(Line)
    BY <1>1
  <2> QED
    BY <1>1, <1>6, <2>1 DEF RotateIndex, IndexFile
<1>7. CASE Produce
  BY <1>3, <1>4, <1>5, <1>6, <1>7 DEF Produce, Producer
<1>8. CASE ~Produce
  <2>1. UNCHANGED <<index, produced>>
    BY <1>8, StepCases
    DEF vars, Restart, LoopEnds, BeginRun, PublicationRecovered, Refuse,
        ReconcileFinalized, RemovePhase, NoOpenCycle, ReceiptsExhausted,
        StartCycle, ResumeObservation, ResumeTriage, Observed,
        WriteP136Completed, SelectHandoff, Publish, Published,
        WriteHandoffPublished, AlreadyAccepted, RunTriage, TriageLeaseConflict,
        Triaged, TriageFails, WriteP137Accepted, WriteCycleFinalized,
        WriteLedger, WriteSupervisorCheckpoint, Observe, ObserverStep,
        PublishStep, PublisherStep, Triage, TriageStep, OperatorTriage,
        OperatorDone, Crash, WriteFails, RunAborted, OperatorDies,
        LimitExceeded, StopTriage
  <2> QED
    BY <1>2, <2>1
<1> QED
  BY <1>7, <1>8

(* The observer's files and checkpoints stay well formed.                  *)
LEMMA ObserverTypes ==
    ASSUME IInv, [Next]_vars
    PROVE  /\ obs' \in Checkpoint /\ mem' \in Checkpoint /\ oResult' \in Checkpoint
           /\ records' \subseteq Nat \X (1..MaxNow)
           /\ outcome' \in OutcomeFile \cup {NoOutcome}
           /\ now' \in 1..MaxNow
<1> USE DEF IInv
<1>1. /\ obs \in Checkpoint /\ mem \in Checkpoint /\ oResult \in Checkpoint
      /\ records \subseteq Nat \X (1..MaxNow)
      /\ outcome \in OutcomeFile \cup {NoOutcome}
      /\ now \in 1..MaxNow
  BY DEF TypeOK
<1>2. now' \in 1..MaxNow
  BY <1>1, StepCases
  DEF vars, Produce, Producer, Restart, LoopEnds, BeginRun, PublicationRecovered, Refuse,
      ReconcileFinalized, RemovePhase, NoOpenCycle, ReceiptsExhausted,
      StartCycle, ResumeObservation, ResumeTriage, Observed,
      WriteP136Completed, SelectHandoff, Publish, Published,
      WriteHandoffPublished, AlreadyAccepted, RunTriage, TriageLeaseConflict,
      Triaged, TriageFails, WriteP137Accepted, WriteCycleFinalized,
      WriteLedger, WriteSupervisorCheckpoint, Observe, ObserverStep,
      PublishStep, PublisherStep, Triage, TriageStep, OperatorTriage,
      OperatorDone, Crash, WriteFails, RunAborted, OperatorDies,
      LimitExceeded, StopTriage
<1>3. oResult' \in Checkpoint
  <2>1. CASE Observe /\ ReadIndex
    BY <1>1, <2>1, AdvancedFacts DEF ReadIndex
  <2>2. CASE Observe /\ RecoverCycle(phase.start)
    BY <1>1, <2>2, OutcomeFacts DEF RecoverCycle, OutcomeOf, OutcomeFile
  <2>3. CASE oResult' = FirstCheckpoint
    BY <2>3, FirstFacts
  <2>4. CASE UNCHANGED oResult
    BY <1>1, <2>4
  <2> QED
    BY StepCases, <2>1, <2>2, <2>3, <2>4
    DEF vars, Produce, Producer, Restart, LoopEnds, BeginRun, PublicationRecovered, Refuse,
        ReconcileFinalized, RemovePhase, NoOpenCycle, ReceiptsExhausted,
        StartCycle, ResumeObservation, ResumeTriage, Observed,
        WriteP136Completed, SelectHandoff, Publish, Published,
        WriteHandoffPublished, AlreadyAccepted, RunTriage, TriageLeaseConflict,
        Triaged, TriageFails, WriteP137Accepted, WriteCycleFinalized,
        WriteLedger, WriteSupervisorCheckpoint, WriteRecord,
        WriteOutcomeIntent, WriteCheckpoint, WriteCompletion,
        PublishStep, PublisherStep, Triage, TriageStep, OperatorTriage,
        OperatorDone, Crash, WriteFails, RunAborted, OperatorDies,
        LimitExceeded, StopTriage
<1>4. CASE UNCHANGED <<obs, records, outcome, mem>>
  BY <1>1, <1>2, <1>3, <1>4
<1>5. CASE Restart \/ Observed
  BY <1>1, <1>2, <1>3, <1>5 DEF Restart, Observed
<1>6. CASE Observe /\ WriteRecord
  <2>1. PICK r \in NewRecords(mem, oResult) : records' = records \cup {r}
    BY <1>6 DEF WriteRecord
  <2>2. r \in Nat \X (1..MaxNow)
    <3>1. PICK e \in (Len(mem.promoted) + 1)..Len(oResult.promoted) :
                  r = <<e, oResult.promoted[e]>>
      BY <2>1 DEF NewRecords
    <3>2. /\ Len(mem.promoted) \in Nat /\ Len(oResult.promoted) \in Nat
          /\ oResult.promoted \in Seq(1..MaxNow)
      BY <1>1, CheckpointFacts
    <3>3. e \in Nat /\ e \in 1..Len(oResult.promoted)
      BY <3>1, <3>2
    <3>4. oResult.promoted[e] \in 1..MaxNow
      BY <3>2, <3>3, ElementOf
    <3> QED
      BY <3>1, <3>3, <3>4
  <2>3. UNCHANGED <<obs, outcome, mem>>
    BY <1>6 DEF Observe, ObserverStep, WriteRecord
  <2> QED
    BY <1>1, <1>2, <1>3, <2>1, <2>2, <2>3
<1>7. CASE Observe /\ WriteOutcomeIntent
  <2>1. outcome' \in OutcomeFile /\ UNCHANGED <<obs, records, mem>>
    BY <1>1, <1>7 DEF Observe, ObserverStep, WriteOutcomeIntent, OutcomeFile
  <2> QED
    BY <1>1, <1>2, <1>3, <2>1
<1>8. CASE Observe /\ WriteCheckpoint
  BY <1>1, <1>2, <1>3, <1>8 DEF Observe, ObserverStep, WriteCheckpoint
<1>9. CASE Observe /\ WriteCompletion
  <2>1. outcome \in OutcomeFile
    BY <1>1, <1>9, OutcomeFacts DEF WriteCompletion, ObserverSteps, OutcomeOf
  <2>2. outcome' \in OutcomeFile /\ UNCHANGED <<obs, records, mem>>
    BY <1>9, <2>1 DEF Observe, ObserverStep, WriteCompletion, OutcomeFile
  <2> QED
    BY <1>1, <1>2, <1>3, <2>2
<1> QED
  BY ObserverWrites, <1>4, <1>5, <1>6, <1>7, <1>8, <1>9

(* The publisher's files stay well formed.                                 *)
LEMMA PublisherTypes ==
    ASSUME IInv, [Next]_vars
    PROVE  /\ pubIntent' \in BundleFile \cup {NoBundle}
           /\ fixed' \in BundleFile /\ pubState' \in BundleFile
<1> USE DEF IInv
<1>1. /\ pubIntent \in BundleFile \cup {NoBundle}
      /\ fixed \in BundleFile /\ pubState \in BundleFile
      /\ mem \in Checkpoint /\ now \in 1..MaxNow /\ ledger.boundary \in Nat
  BY DEF TypeOK, SupervisorLedger
<1>2. CASE PublishStep /\ WritePublisherIntent(ledger.boundary, mem)
  <2>1. pubState.seq + 1 \in Nat \ {0} /\ pubState.at \in Nat
        /\ ledger.boundary + 1 \in Nat /\ pubState # NoBundle
    BY <1>1, BundleFacts, ObserverAssumption
  <2>2. Bundle(ledger.boundary, mem) \in BundleFile
    BY <1>1, <2>1 DEF Bundle, BundleFile
  <2> QED
    BY <1>1, <1>2, <2>2 DEF WritePublisherIntent
<1>3. CASE PublishStep /\ WriteFixedBundle
  BY <1>1, <1>3, ReplacedIsAccepted DEF WriteFixedBundle
<1>4. CASE PublishStep /\ WritePublisherState
  BY <1>1, <1>4 DEF WritePublisherState
<1>5. CASE PublishStep /\ UnlinkPublisherIntent
  BY <1>1, <1>5 DEF UnlinkPublisherIntent
<1>6. CASE UNCHANGED <<pubIntent, fixed, pubState>>
  BY <1>1, <1>6
<1> QED
  BY PublisherWrites, <1>2, <1>3, <1>4, <1>5, <1>6

(* The triage runtime's files stay well formed.                            *)
LEMMA TriageTypes ==
    ASSUME IInv, [Next]_vars
    PROVE  /\ tIntents' \subseteq BundleName \X (1..MaxNow)
           /\ tRecords' \subseteq Nat \X (1..MaxNow)
           /\ tLedger' \in TriageLedger
           /\ tCheckpoint' \in TriageCheckpoint
           /\ tCaller' \in {None, "supervisor", "operator"}
           /\ tNow' \in 1..MaxNow
           /\ tBundle' \in BundleFile \cup {NoBundle}
<1> USE DEF IInv
<1>1. /\ tIntents \subseteq BundleName \X (1..MaxNow)
      /\ tRecords \subseteq Nat \X (1..MaxNow)
      /\ tLedger \in TriageLedger /\ tCheckpoint \in TriageCheckpoint
      /\ tCaller \in {None, "supervisor", "operator"}
      /\ tNow \in 1..MaxNow /\ now \in 1..MaxNow
      /\ tBundle \in BundleFile \cup {NoBundle} /\ fixed \in BundleFile
      /\ 1 \in 1..MaxNow
  BY ObserverAssumption DEF TypeOK
<1>2. tBundle.seq \in Nat /\ BundleId(tBundle) \in BundleName
  BY <1>1, BundleFacts DEF NoBundle, BundleId, BundleName
<1>3. /\ tCaller' \in {None, "supervisor", "operator"}
      /\ tNow' \in 1..MaxNow
      /\ tBundle' \in BundleFile \cup {NoBundle}
  <2>1. CASE UNCHANGED <<tCaller, tNow, tBundle>>
    BY <1>1, <2>1
  <2>2. CASE RunTriage \/ OperatorTriage
    BY <1>1, <2>2 DEF RunTriage, OperatorTriage, CallTriage
  <2>3. CASE ReleaseTriage
    BY <1>1, <2>3 DEF ReleaseTriage
  <2>4. CASE Triage /\ ReadHandoff
    BY <1>1, <2>4 DEF Triage, TriageStep, ReadHandoff
  <2>5. CASE Crash \/ WriteFails
    BY <2>1, <2>3, <2>5 DEF Crash, WriteFails, RunAborted
  <2> QED
    BY StepCases, <2>1, <2>2, <2>3, <2>4, <2>5
    DEF vars, Produce, Restart, LoopEnds, BeginRun, PublicationRecovered, Refuse,
        ReconcileFinalized, RemovePhase, NoOpenCycle, ReceiptsExhausted,
        StartCycle, ResumeObservation, ResumeTriage, Observed,
        WriteP136Completed, SelectHandoff, Publish, Published,
        WriteHandoffPublished, AlreadyAccepted, TriageLeaseConflict,
        Triaged, TriageFails, WriteP137Accepted, WriteCycleFinalized,
        WriteLedger, WriteSupervisorCheckpoint, Observe,
        PublishStep, PublisherStep, Triage, TriageStep, WriteIngestIntent,
        WriteTriageRecords, WriteTriageLedger, WriteTriageCheckpoint,
        OperatorDone, OperatorDies, LimitExceeded, StopTriage
<1>4. CASE UNCHANGED <<tIntents, tRecords, tLedger, tCheckpoint>>
  BY <1>1, <1>3, <1>4
<1>5. CASE Triage /\ WriteIngestIntent
  BY <1>1, <1>2, <1>3, <1>5 DEF WriteIngestIntent
<1>6. CASE Triage /\ WriteTriageRecords
  BY <1>1, <1>2, <1>3, <1>6 DEF WriteTriageRecords
<1>7. CASE Triage /\ WriteTriageLedger
  <2>1. tNow \in Nat /\ tLedger.cycles + 1 \in Nat /\ tLedger.at \in Nat
    BY <1>1, ObserverAssumption DEF TriageLedger
  <2>2. tLedger' \in TriageLedger
    BY <1>7, <2>1 DEF WriteTriageLedger, TriageLedger
  <2> QED
    BY <1>1, <1>3, <1>7, <2>2 DEF WriteTriageLedger
<1>8. CASE Triage /\ WriteTriageCheckpoint
  <2>1. tCheckpoint' \in TriageCheckpoint
    BY <1>1, <1>2, <1>8 DEF WriteTriageCheckpoint, TriageCheckpoint, TriageLedger
  <2> QED
    BY <1>1, <1>3, <1>8, <2>1 DEF WriteTriageCheckpoint
<1> QED
  BY TriageWrites, <1>4, <1>5, <1>6, <1>7, <1>8

(* What the run has read is well formed.                                   *)
LEMMA SeenTypes ==
    ASSUME IInv, [Next]_vars
    PROVE  seen' \in [checkpoint : TriageCheckpoint, ledger : TriageLedger]
<1>1. /\ seen \in [checkpoint : TriageCheckpoint, ledger : TriageLedger]
      /\ tCheckpoint \in TriageCheckpoint /\ tLedger \in TriageLedger
  BY DEF IInv, TypeOK
<1>2. NothingSeen \in [checkpoint : TriageCheckpoint, ledger : TriageLedger]
  BY DEF NothingSeen, NoCheckpoint, TriageCheckpoint, NoLedger, TriageLedger, BundleName
<1>3. \/ UNCHANGED seen
      \/ seen' = NothingSeen
      \/ seen' = [checkpoint |-> tCheckpoint, ledger |-> tLedger]
  BY StepCases
  DEF vars, Produce, Restart, LoopEnds, BeginRun, PublicationRecovered, Refuse,
      ReconcileFinalized, RemovePhase, NoOpenCycle, ReceiptsExhausted,
      StartCycle, ResumeObservation, ResumeTriage, Observed,
      WriteP136Completed, SelectHandoff, Publish, Published,
      WriteHandoffPublished, AlreadyAccepted, RunTriage, TriageLeaseConflict,
      Triaged, TriageFails, WriteP137Accepted, WriteCycleFinalized, RunEnds,
      WriteLedger, WriteSupervisorCheckpoint, Observe, PublishStep, Triage,
      OperatorTriage, OperatorDone, Crash, WriteFails, RunAborted,
      OperatorDies, LimitExceeded
<1> QED
  BY <1>1, <1>2, <1>3

-----------------------------------------------------------------------------
(* The invariant and what it says.                                         *)

(* The invariant is inductive.                                             *)
LEMMA NextInv == IInv /\ [Next]_vars => IInv'
<1> SUFFICES ASSUME IInv, [Next]_vars PROVE IInv'
  OBVIOUS
<1>1. TypeOK'
  BY ProducerTypes, ObserverTypes, PublisherTypes, TriageTypes, SupervisorTypes,
     SeenTypes
  DEF TypeOK
<1> QED
  BY <1>1, PhaseOfPcNext, ResultsAtPcNext, WaitingNext, LedgerChainNext,
     CycleOutcomeNext, ObserverStepsNext, PublisherFilesNext, PublisherStepsNext,
     TriageFilesNext, TriageStepsNext, RunReadingNext
  DEF IInv

(* The inductive invariant holds in every reachable state.                 *)
THEOREM Invariant == Spec => []IInv
  BY InitInv, NextInv, PTL DEF Spec

(* The files and the memory of the chain have their types in every         *)
(* reachable state.                                                        *)
THEOREM TypeCorrect == Spec => []TypeOK
<1>1. IInv => TypeOK
  BY DEF IInv
<1> QED
  BY <1>1, Invariant, PTL

(* What the publisher has put at the fixed path follows the ledger as the  *)
(* reconciliation demands (_validate_publisher_against_p138_ledger).       *)
LEMMA LineageHolds ==
    ASSUME IInv, pubIntent = NoBundle
    PROVE  PublisherLineage
<1> USE DEF IInv
<1>1. fixed = pubState
  BY DEF PublisherFiles
<1>2. CASE ledger.cycle = 0
  BY <1>1, <1>2 DEF PublisherLineage, PublisherFiles, FirstBundle
<1>3. CASE ledger.cycle # 0
  <2>1. ledger.cycle > 0
    BY <1>3 DEF TypeOK, SupervisorLedger
  <2>2. phase.name \in {None, "cycle_started", "p136_completed", "handoff_selected",
                        "handoff_published", "p137_accepted", "cycle_finalized"}
    BY NameFacts DEF PhaseFile
  <2>3. CASE phase.name \in {None, "cycle_started", "p136_completed"}
    BY <1>1, <1>3, <2>1, <2>3 DEF PublisherFiles, PublisherLineage, OfLedger
  <2>4. CASE phase.name = "handoff_selected"
    BY <1>1, <1>3, <2>4
    DEF PublisherFiles, PublisherLineage, OfLedger, OfCycle, SuccessorOfLedger
  <2>5. CASE phase.name \in {"handoff_published", "p137_accepted"}
    BY <1>1, <1>3, <2>5 DEF PublisherFiles, PublisherLineage, OfCycle, SuccessorOfLedger
  <2>6. CASE phase.name = "cycle_finalized"
    BY <1>1, <1>3, <2>1, <2>6 DEF PublisherFiles, PublisherLineage, Finalized
  <2> QED
    BY <2>2, <2>3, <2>4, <2>5, <2>6
<1> QED
  BY <1>2, <1>3

(* A run that has read the triage files between two of their writes is the *)
(* only one the reconciliation refuses.                                    *)
LEMMA ReconciliationAccepts ==
    ASSUME IInv, pc = "reconcile", Refused
    PROVE  seen.ledger.cycles = seen.checkpoint.cycles + 1
<1> USE DEF IInv
<1> SUFFICES ASSUME seen.ledger.cycles # seen.checkpoint.cycles + 1
             PROVE  FALSE
  OBVIOUS
<1>1. Running
  BY DEF Running
<1>2. /\ Reconcilable => \/ phase.name = "handoff_published" /\ phase.bundle # BundleId(fixed)
                         \/ phase.name = "p137_accepted" /\ phase.triage # seen.checkpoint
  BY DEF Refused
<1>3. RuntimeMatches
  <2>1. phase.name # "cycle_started" => mem = Settled
    BY DEF CycleOutcome
  <2>2. phase = NoPhase => phase.name # "cycle_started"
    BY DEF NoPhase, None
  <2>3. Finalized => phase # NoPhase /\ phase.name # "cycle_started"
    BY DEF NoPhase, None, Finalized
  <2> QED
    BY <2>1, <2>2, <2>3 DEF RuntimeMatches, Settled
<1>4. SupervisorCheckpointValid
  BY DEF SupervisorCheckpointValid, LedgerChain
<1>5. TriageStateValid
  BY <1>1 DEF TriageStateValid, RunReading
<1>6. PublisherLineage
  BY LineageHolds DEF Waiting
<1>7. Accepted(seen.checkpoint) \/ Pending(seen.checkpoint)
  BY <1>1 DEF RunReading, TriageFiles
<1>8. PhaseFollowsLedger
  <2>1. Open => phase.prev = ledger.cycle
    BY DEF LedgerChain
  <2>2. Finalized => \/ phase.prev = ledger.cycle /\ sup = ledger.cycle
                     \/ phase.prev + 1 = ledger.cycle /\ sup \in {phase.prev, ledger.cycle}
    BY DEF LedgerChain
  <2>3. phase = NoPhase => ~Finalized
    BY DEF Finalized, NoPhase, None
  <2> QED
    BY <2>1, <2>2, <2>3 DEF PhaseFollowsLedger, Open
<1>9. Reconcilable
  BY <1>3, <1>4, <1>5, <1>6, <1>7, <1>8 DEF Reconcilable
<1>10. phase.name = "handoff_published" => phase.bundle = BundleId(fixed)
  BY DEF PublisherFiles
<1>11. phase.name = "p137_accepted" => phase.triage = seen.checkpoint
  <2>1. ASSUME phase.name = "p137_accepted"
        PROVE  seen.checkpoint = tCheckpoint
    <3>1. Accepted(seen.checkpoint)
      BY <1>1, <2>1 DEF RunReading, Certified
    <3> QED
      BY <1>1, <3>1, AcceptedOrPending DEF RunReading, TypeOK
  <2> QED
    BY <2>1 DEF TriageFiles
<1> QED
  BY <1>2, <1>9, <1>10, <1>11

(* Elsewhere in a run only the index can be refused.                       *)
LEMMA OnlyTheScanRefuses ==
    ASSUME IInv, Refused, pc # "reconcile"
    PROVE  pc = "observing" /\ oPc = "scan_refused"
<1> USE DEF IInv
<1>1. pc # "recovering"
  BY DEF Refused, PublisherSteps
<1>2. ASSUME pc = "start" PROVE FALSE
  <2>1. phase = NoPhase /\ ledger.cycle > 0 /\ phase.name = None /\ Running
    BY <1>2 DEF PhaseOfPc, NoPhase, Running
  <2>2. OfLedger(fixed)
    BY <2>1 DEF PublisherFiles
  <2>3. Accepted(seen.checkpoint)
    BY <2>1, <2>2 DEF RunReading, Certified, OfLedger
  <2>4. mem = ledger.result
    BY <2>1 DEF CycleOutcome, Settled, None
  <2>5. Len(mem.promoted) = ledger.boundary
    BY <2>1, <2>4 DEF LedgerChain
  <2> QED
    BY <1>2, <2>2, <2>3, <2>5 DEF Refused, PredecessorReconciled, OfLedger
<1>3. ASSUME pc = "observing" PROVE oPc = "scan_refused"
  <2>1. \/ oPc \in {"scan_refused", "raised"}
        \/ oPc = "returned" /\ phase.name # "cycle_started" /\ phase.result # oResult
    BY <1>3 DEF Refused
  <2>2. oPc # "raised"
    BY DEF ObserverSteps
  <2>3. ASSUME oPc = "returned", phase.name # "cycle_started"
        PROVE  phase.result = oResult
    <3>1. phase.name \in {"p136_completed", "handoff_selected"}
      BY <1>3, <2>3 DEF PhaseOfPc
    <3>2. oResult = outcome.result /\ outcome.result = phase.result
      BY <2>3, <3>1 DEF ObserverSteps, CycleOutcome
    <3> QED
      BY <3>2
  <2> QED
    BY <2>1, <2>2, <2>3
<1>4. pc # "published"
  BY DEF Refused, DeltaPublished, ResultsAtPc, OfCycle
<1>5. pc # "accept"
  BY DEF Refused, RunReading, Running, TriageFiles
<1>6. pc # "accepted"
  BY DEF Refused, RunReading, Running
<1> QED
  BY <1>1, <1>2, <1>3, <1>4, <1>5, <1>6 DEF Refused

(* RunsAreAccepted: whatever was cut short before it, a run is refused     *)
(* only for the index itself or for a triage ledger that is one ahead of   *)
(* the triage checkpoint.                                                  *)
THEOREM AcceptedRuns == Spec => []RunsAreAccepted
<1>1. IInv => RunsAreAccepted
  BY ReconciliationAccepts, OnlyTheScanRefuses DEF RunsAreAccepted
<1> QED
  BY <1>1, Invariant, PTL

(* BundlesAreTriagedOnce: the triage runtime has worked on each bundle     *)
(* exactly once, and the publisher waits for it.                           *)
THEOREM TriagedOnce == Spec => []BundlesAreTriagedOnce
<1>1. IInv => BundlesAreTriagedOnce
  <2> SUFFICES ASSUME IInv PROVE BundlesAreTriagedOnce
    OBVIOUS
  <2>1. fixed \in BundleFile /\ tCheckpoint \in TriageCheckpoint
    BY DEF IInv, TypeOK
  <2>2. fixed.seq \in {tCheckpoint.bundle[1], tCheckpoint.bundle[1] + 1}
    BY <2>1, BundleFacts DEF IInv, TriageFiles, Accepted, Pending
  <2> QED
    BY <2>2 DEF IInv, TriageFiles, LedgerMatches, SplitCommit, BundlesAreTriagedOnce
<1> QED
  BY <1>1, Invariant, PTL

(* LedgerIsBacked: what the supervisor's ledger names is published,        *)
(* accepted by the triage and backed by its records.                       *)
THEOREM BackedLedger == Spec => []LedgerIsBacked
<1>1. IInv => LedgerIsBacked
  <2> SUFFICES ASSUME IInv, ledger.cycle > 0
               PROVE  /\ ledger.triage.bundle = ledger.bundle
                      /\ ledger.bundle[1] <= tCheckpoint.bundle[1]
                      /\ <<ledger.triage.cycles, ledger.triage.at>> \in tRecords
    BY DEF LedgerIsBacked
  <2> USE DEF IInv
  <2>1. /\ fixed \in BundleFile /\ fixed.seq \in Nat
        /\ tCheckpoint.bundle[1] \in Nat /\ ledger.bundle[1] \in Nat
    BY BundleFacts DEF TypeOK, SupervisorLedger, TriageCheckpoint, BundleName
  <2>2. fixed.seq \in {tCheckpoint.bundle[1], tCheckpoint.bundle[1] + 1}
    BY <2>1, BundleFacts DEF TriageFiles, Accepted, Pending
  <2>3. CASE BundleId(fixed) = ledger.bundle
    <3>1. tCheckpoint.bundle = ledger.bundle
      BY <2>3 DEF TriageFiles, Certified, Accepted
    <3> QED
      BY <2>1, <3>1 DEF LedgerChain
  <2>4. CASE fixed.seq = ledger.bundle[1] + 1
    BY <2>1, <2>2, <2>4 DEF LedgerChain
  <2>5. \/ BundleId(fixed) = ledger.bundle
        \/ fixed.seq = ledger.bundle[1] + 1
    <3>1. phase.name \in {None, "cycle_started", "p136_completed", "handoff_selected",
                          "handoff_published", "p137_accepted", "cycle_finalized"}
      BY NameFacts DEF PhaseFile
    <3> QED
      BY <3>1 DEF PublisherFiles, OfLedger, OfCycle, SuccessorOfLedger, Finalized
  <2> QED
    BY <2>3, <2>4, <2>5
<1> QED
  BY <1>1, Invariant, PTL

(* PublishedIsPromoted: what is published is part of the durable observer  *)
(* checkpoint, and every promotion of that has its record file.            *)
THEOREM PublishedPromotions == Spec => []PublishedIsPromoted
<1>1. IInv => PublishedIsPromoted
  <2> SUFFICES ASSUME IInv PROVE IsPrefix(fixed.ckpt.promoted, obs.promoted)
    BY DEF PublishedIsPromoted, IInv, CycleOutcome, Recorded
  <2> USE DEF IInv
  <2>1. /\ fixed.ckpt \in Checkpoint /\ obs \in Checkpoint
        /\ ledger.result \in Checkpoint /\ ledger.cycle \in Nat
    BY BundleFacts DEF TypeOK, SupervisorLedger
  <2>2. /\ IsPrefix(obs.promoted, obs.promoted)
        /\ IsPrefix(ledger.result.promoted, ledger.result.promoted)
    BY <2>1, CheckpointFacts, PrefixSelf
  <2>3. CASE phase = NoPhase
    <3>1. obs = ledger.result /\ phase.name = None
      BY <2>3 DEF CycleOutcome, Settled, NoPhase, None
    <3>2. fixed.ckpt.promoted = ledger.result.promoted
      <4>1. CASE ledger.cycle = 0
        BY <4>1 DEF PublisherFiles, LedgerChain, FirstBundle
      <4>2. CASE ledger.cycle > 0
        BY <3>1, <4>2 DEF PublisherFiles, OfLedger
      <4> QED
        BY <2>1, <4>1, <4>2
    <3> QED
      BY <2>2, <3>1, <3>2
  <2>4. CASE phase.name = "cycle_started"
    <3>1. fixed.ckpt.promoted = ledger.result.promoted /\ phase.start = ledger.result
      BY <2>4, NameFacts DEF PublisherFiles, LedgerChain, OfLedger
    <3> QED
      BY <2>2, <2>4, <3>1 DEF CycleOutcome
  <2>5. CASE phase.name \in {"p136_completed", "handoff_selected"}
    <3>1. /\ obs = phase.result /\ phase.start = ledger.result
          /\ IsPrefix(phase.start.promoted, phase.result.promoted)
      BY <2>5, NameFacts DEF CycleOutcome, LedgerChain, Settled, None
    <3>2. fixed.ckpt.promoted \in {ledger.result.promoted, phase.result.promoted}
      BY <2>5, NameFacts DEF PublisherFiles, LedgerChain, OfLedger, OfCycle
    <3> QED
      BY <2>2, <3>1, <3>2
  <2>6. CASE phase.name \in {"handoff_published", "p137_accepted", "cycle_finalized"}
    <3>1. obs = phase.result
      BY <2>6, NameFacts DEF CycleOutcome, Settled, None
    <3>2. fixed.ckpt.promoted = phase.result.promoted
      BY <2>6 DEF PublisherFiles, OfCycle, Finalized
    <3> QED
      BY <2>2, <3>1, <3>2
  <2> QED
    BY <2>3, <2>4, <2>5, <2>6, NameFacts DEF PhaseFile
<1> QED
  BY <1>1, Invariant, PTL

(* OneReceiptPerCycle: a cycle consumes one index read receipt, however    *)
(* often it is repeated.                                                   *)
THEOREM ReceiptsPerCycle == Spec => []OneReceiptPerCycle
<1>1. IInv => OneReceiptPerCycle
  <2> SUFFICES ASSUME IInv, ledger.cycle > 0
               PROVE  obs.used \in {ledger.cycle - 1, ledger.cycle}
    BY DEF OneReceiptPerCycle
  <2> USE DEF IInv
  <2>1. ledger.result.used = ledger.cycle - 1 /\ ledger.cycle \in Nat
    BY DEF LedgerChain, TypeOK, SupervisorLedger
  <2>2. CASE phase = NoPhase
    BY <2>1, <2>2, NameFacts DEF CycleOutcome, Settled, None
  <2>3. CASE phase.name = "cycle_started"
    <3>1. phase.start = ledger.result
      BY <2>3, NameFacts DEF LedgerChain
    <3>2. obs.used = phase.start.used \/ obs.used = phase.start.used + 1
      BY <2>3 DEF CycleOutcome
    <3> QED
      BY <2>1, <3>1, <3>2
  <2>4. CASE phase # NoPhase /\ phase.name # "cycle_started"
    <3>1. obs = phase.result
      BY <2>4 DEF CycleOutcome, Settled
    <3>2. phase.result.used = phase.prev
      BY <2>4 DEF LedgerChain, PastObservation, Open
    <3>3. phase.prev = ledger.cycle \/ phase.prev + 1 = ledger.cycle
      BY <2>4 DEF LedgerChain, Open
    <3>4. phase.prev \in Nat
      BY <2>4, NameFacts DEF PhaseFile
    <3> QED
      BY <2>1, <3>1, <3>2, <3>3, <3>4
  <2> QED
    BY <2>2, <2>3, <2>4
<1> QED
  BY <1>1, Invariant, PTL

(* BundlesAreContiguous: a new bundle follows the one it replaces and      *)
(* starts with the promotion after its last.                               *)
THEOREM ContiguousBundles == Spec => BundlesAreContiguous
<1> DEFINE Follows == fixed' # fixed =>
                         /\ fixed'.seq = fixed.seq + 1
                         /\ fixed'.prev = fixed.at
                         /\ fixed'.from = Len(fixed.ckpt.promoted) + 1
<1>1. IInv /\ [Next]_vars => [Follows]_vars
  <2> SUFFICES ASSUME IInv, [Next]_vars, fixed' # fixed
               PROVE  /\ fixed'.seq = fixed.seq + 1
                      /\ fixed'.prev = fixed.at
                      /\ fixed'.from = Len(fixed.ckpt.promoted) + 1
    OBVIOUS
  <2>1. PublishStep /\ WriteFixedBundle
    BY PublisherWrites
    DEF WritePublisherIntent, WritePublisherState, UnlinkPublisherIntent
  <2>2. fixed' = pubIntent /\ OfCycle(pubIntent) /\ phase.name = "handoff_selected"
    BY <2>1, ReplacedIsAccepted
  <2>3. OfLedger(fixed)
    BY <2>1 DEF IInv, WriteFixedBundle, PublisherSteps
  <2>4. fixed.seq = ledger.bundle[1] /\ fixed.at = ledger.bundle[2]
    BY <2>3, BundleFacts DEF OfLedger, IInv, TypeOK
  <2>5. ledger.boundary = Len(fixed.ckpt.promoted)
    BY <2>2, <2>3, NameFacts DEF OfLedger, IInv, LedgerChain
  <2> QED
    BY <2>2, <2>4, <2>5 DEF OfCycle
<1> QED
  BY <1>1, Invariant, PTL DEF Spec, BundlesAreContiguous

(* A promotion is never taken back or made again under another time: the   *)
(* durable observer checkpoint and the published bundle only extend what   *)
(* they say, however often _advance_observation_checkpoint is repeated.    *)
THEOREM PromotionsAreKept ==
    Spec => [][/\ IsPrefix(obs.promoted, obs'.promoted)
               /\ IsPrefix(fixed.ckpt.promoted, fixed'.ckpt.promoted)]_vars
<1> DEFINE Extended == /\ IsPrefix(obs.promoted, obs'.promoted)
                       /\ IsPrefix(fixed.ckpt.promoted, fixed'.ckpt.promoted)
<1>1. IInv /\ [Next]_vars => [Extended]_vars
  <2> SUFFICES ASSUME IInv, [Next]_vars PROVE Extended
    OBVIOUS
  <2> USE DEF IInv
  <2>1. /\ IsPrefix(obs.promoted, obs.promoted)
        /\ IsPrefix(fixed.ckpt.promoted, fixed.ckpt.promoted)
    BY BundleFacts, CheckpointFacts, PrefixSelf DEF TypeOK
  <2>2. IsPrefix(obs.promoted, obs'.promoted)
    <3>1. CASE Observe /\ WriteCheckpoint
      <4>1. oPc = "checkpoint" /\ obs' = oResult
        BY <3>1 DEF WriteCheckpoint
      <4>2. /\ phase.name = "cycle_started" /\ outcome # NoOutcome
            /\ outcome.start = phase.start /\ outcome.result = oResult
        BY <4>1, OutcomeFacts DEF ObserverSteps, OutcomeOf, TypeOK
      <4>3. ~(outcome.start.used < phase.start.used)
        BY <4>2, NameFacts, CheckpointFacts DEF PhaseFile, None
      <4>4. /\ IsPrefix(phase.start.promoted, outcome.result.promoted)
            /\ obs \in {phase.start, outcome.result}
        BY <4>2, <4>3 DEF CycleOutcome
      <4> QED
        BY <2>1, <4>1, <4>2, <4>4
    <3>2. CASE UNCHANGED obs
      BY <2>1, <3>2
    <3> QED
      BY ObserverWrites, <3>1, <3>2
      DEF Restart, Observed, WriteRecord, WriteOutcomeIntent, WriteCompletion
  <2>3. IsPrefix(fixed.ckpt.promoted, fixed'.ckpt.promoted)
    <3>1. CASE PublishStep /\ WriteFixedBundle
      <4>1. /\ fixed' = pubIntent /\ OfCycle(pubIntent)
            /\ phase.name = "handoff_selected"
        BY <3>1, ReplacedIsAccepted
      <4>2. OfLedger(fixed)
        BY <3>1 DEF WriteFixedBundle, PublisherSteps
      <4>3. /\ phase.start = ledger.result
            /\ IsPrefix(phase.start.promoted, phase.result.promoted)
        BY <4>1, NameFacts DEF LedgerChain, CycleOutcome
      <4> QED
        BY <4>1, <4>2, <4>3 DEF OfLedger, OfCycle
    <3>2. CASE UNCHANGED fixed
      BY <2>1, <3>2
    <3> QED
      BY PublisherWrites, <3>1, <3>2
      DEF WritePublisherIntent, WritePublisherState, UnlinkPublisherIntent
  <2> QED
    BY <2>2, <2>3
<1> QED
  BY <1>1, Invariant, PTL DEF Spec

=============================================================================
