---------------------------- MODULE TriageHandoff ----------------------------
(***************************************************************************)
(* The two halves of P137.                                                 *)
(*                                                                         *)
(* The publisher (src/app/services/p137_p136_handoff.py) puts a bundle of  *)
(* promotions at one fixed path: intent, fixed bundle, publisher state,    *)
(* then the intent is removed; an intent found later is carried through.   *)
(*                                                                         *)
(* The triage runtime (src/app/services/p137_runtime.py) reads the fixed   *)
(* bundle and commits its triage: ingest intent, records, ledger and last  *)
(* the checkpoint that names the bundle and the ledger.  It is called by   *)
(* the supervisor and can be run on its own by an operator; its lease      *)
(* admits one run at a time.                                               *)
(*                                                                         *)
(* A bundle's hash stands for all its fields, a triage record's for the    *)
(* bundle and the time of the run that made it.  The atoms, incidents,     *)
(* hypotheses, requests and classifications of one run are one record.     *)
(***************************************************************************)
EXTENDS IncrementalObserver

VARIABLES
    pubIntent,   \* the publisher's intent file, a bundle or NoBundle
    fixed,       \* the bundle at the fixed handoff path
    pubState,    \* the bundle the publisher state names
    pubPc,       \* where the publisher is
    tIntents,    \* ingest intent files: <<bundle, time>>
    tRecords,    \* triage record files: <<bundle sequence, time>>
    tLedger,     \* the investigation ledger
    tCheckpoint, \* the triage checkpoint
    tPc,         \* where run_p137_runtime_once is
    tCaller,     \* who holds the triage lease
    tNow,        \* the time of that run
    tBundle      \* the bundle that run has read

publisherVars == <<pubIntent, fixed, pubState, pubPc>>
triageVars == <<tIntents, tRecords, tLedger, tCheckpoint, tPc, tCaller,
                tNow, tBundle>>

(* A bundle: its sequence, the hash of the one before it, its first        *)
(* promotion, the observer checkpoint it was made from and its time.       *)
BundleFile ==
    [seq : Nat \ {0}, prev : Nat, from : Nat, ckpt : Checkpoint, at : 1..MaxNow]

BundleName == Nat \X Nat
TriageLedger == [cycles : Nat, at : Nat, prev : Nat]
TriageCheckpoint == [bundle : BundleName, cycles : Nat, at : Nat]

NoBundle == [seq |-> 0]
NoLedger == [cycles |-> 0, at |-> 0, prev |-> 0]
NoCheckpoint == [bundle |-> <<0, 0>>, cycles |-> 0, at |-> 0]

(* Variant: the bundle starts with the last promotion published already.   *)
VariantOverlap(boundary, ck) ==
    [seq |-> pubState.seq + 1,
     prev |-> IF pubState = NoBundle THEN 0 ELSE pubState.at,
     from |-> boundary,
     ckpt |-> ck,
     at |-> now]

(* _candidate_bundle: the successor of the state's bundle with the         *)
(* promotions after `boundary` in checkpoint ck.                           *)
Bundle(boundary, ck) ==
    [seq |-> pubState.seq + 1,
     prev |-> IF pubState = NoBundle THEN 0 ELSE pubState.at,
     from |-> boundary + 1,
     ckpt |-> ck,
     at |-> now]

(* The sequence and hash by which the other parts name a bundle.           *)
BundleId(b) == IF b = NoBundle THEN <<0, 0>> ELSE <<b.seq, b.at>>

FirstBundle ==
    [seq |-> 1, prev |-> 0, from |-> 1, ckpt |-> FirstCheckpoint, at |-> 1]

HandoffInit ==
    /\ pubIntent = NoBundle
    /\ fixed = FirstBundle
    /\ pubState = FirstBundle
    /\ pubPc = "idle"
    /\ tIntents = {}
    /\ tRecords = {}
    /\ tLedger = NoLedger
    /\ tCheckpoint = NoCheckpoint
    /\ tPc = "idle"
    /\ tCaller = None
    /\ tNow = 1
    /\ tBundle = NoBundle

-----------------------------------------------------------------------------
(* publish_p136_handoff_bundle and recover_p136_handoff_publication.       *)

(* Variant: a publication replaces the fixed bundle before it records the  *)
(* intent to.                                                              *)
VariantNoPublisherIntent(boundary, ck) ==
    /\ pubPc = "publish"
    /\ pubIntent' = pubIntent
    /\ fixed' = Bundle(boundary, ck)
    /\ pubPc' = "state"
    /\ UNCHANGED pubState

WritePublisherIntent(boundary, ck) ==
    /\ pubPc = "publish"
    /\ pubIntent' = Bundle(boundary, ck)
    /\ pubPc' = "fixed"
    /\ UNCHANGED <<fixed, pubState>>

(* _recover_pending_publication: the state decides what is left to do; any *)
(* other combination of the three files is refused.                        *)
RecoverPublication ==
    /\ pubPc = "recover"
    /\ \/ /\ pubState = pubIntent
          /\ pubPc' = IF fixed = pubIntent THEN "unlink" ELSE "raised"
       \/ /\ pubState # pubIntent
          /\ pubPc' = CASE ~ /\ pubIntent.seq = pubState.seq + 1
                             /\ pubIntent.prev = BundleId(pubState)[2] -> "raised"
                        [] fixed = pubIntent -> "state"
                        [] fixed = pubState -> "fixed"
                        [] OTHER -> "raised"
    /\ UNCHANGED <<pubIntent, fixed, pubState>>

WriteFixedBundle ==
    /\ pubPc = "fixed"
    /\ fixed' = pubIntent
    /\ pubPc' = "state"
    /\ UNCHANGED <<pubIntent, pubState>>

WritePublisherState ==
    /\ pubPc = "state"
    /\ pubState' = fixed
    /\ pubPc' = "unlink"
    /\ UNCHANGED <<pubIntent, fixed>>

UnlinkPublisherIntent ==
    /\ pubPc = "unlink"
    /\ pubIntent' = NoBundle
    /\ pubPc' = "returned"
    /\ UNCHANGED <<fixed, pubState>>

PublisherStep(boundary, ck) ==
    /\ \/ WritePublisherIntent(boundary, ck)
       \/ RecoverPublication
       \/ WriteFixedBundle
       \/ WritePublisherState
       \/ UnlinkPublisherIntent
    /\ UNCHANGED <<producerVars, observerVars, mem, now, triageVars>>

-----------------------------------------------------------------------------
(* run_p137_runtime_once.                                                  *)

(* _split_commit_pending: the ledger of a bundle is durable, its           *)
(* checkpoint is not.                                                      *)
SplitCommit ==
    /\ tLedger.cycles = tCheckpoint.cycles + 1
    /\ tLedger.prev = tCheckpoint.at

(* _validate_split_commit_intent: exactly one ingest intent names it.      *)
SplitRepairable ==
    Cardinality({i \in tIntents : i[1] = BundleId(fixed)}) = 1

(* _check_handoff_sequence.                                                *)
NextBundle(b) ==
    /\ b.seq = tCheckpoint.bundle[1] + 1
    /\ b.prev = tCheckpoint.bundle[2]

(* Variant: a bundle already accepted is taken for a new one.              *)
VariantTriageAgain ==
    /\ tPc = "read"
    /\ tPc' = CASE SplitCommit -> IF SplitRepairable THEN "checkpoint" ELSE "failed"
                [] OTHER -> "ingest"
    /\ tBundle' = fixed
    /\ UNCHANGED <<tIntents, tRecords, tLedger, tCheckpoint>>

ReadHandoff ==
    /\ tPc = "read"
    /\ tPc' = CASE SplitCommit -> IF SplitRepairable THEN "checkpoint" ELSE "failed"
                [] ~SplitCommit /\ NextBundle(fixed) -> "ingest"
                [] ~SplitCommit /\ BundleId(fixed) = tCheckpoint.bundle -> "returned"
                [] OTHER -> "failed"
    /\ tBundle' = fixed
    /\ UNCHANGED <<tIntents, tRecords, tLedger, tCheckpoint>>

WriteIngestIntent ==
    /\ tPc = "ingest"
    /\ tIntents' = tIntents \cup {<<BundleId(tBundle), tNow>>}
    /\ tPc' = "records"
    /\ UNCHANGED <<tRecords, tLedger, tCheckpoint, tBundle>>

(* Atoms, incidents, hypotheses, requests and classifications.             *)
WriteTriageRecords ==
    /\ tPc = "records"
    /\ tRecords' = tRecords \cup {<<tBundle.seq, tNow>>}
    /\ tPc' = "ledger"
    /\ UNCHANGED <<tIntents, tLedger, tCheckpoint, tBundle>>

(* The run stops before the classification: a resource limit is exceeded.  *)
StopTriage ==
    /\ tPc = "records"
    /\ tPc' = "failed"
    /\ UNCHANGED <<tIntents, tRecords, tLedger, tCheckpoint, tBundle, tCaller, tNow>>
    /\ UNCHANGED <<producerVars, observerVars, mem, now, publisherVars>>

WriteTriageLedger ==
    /\ tPc = "ledger"
    /\ tLedger' = [cycles |-> tLedger.cycles + 1, at |-> tNow, prev |-> tLedger.at]
    /\ tPc' = "checkpoint"
    /\ UNCHANGED <<tIntents, tRecords, tCheckpoint, tBundle>>

WriteTriageCheckpoint ==
    /\ tPc = "checkpoint"
    /\ tCheckpoint' = [bundle |-> BundleId(tBundle),
                       cycles |-> tLedger.cycles, at |-> tLedger.at]
    /\ tPc' = "returned"
    /\ UNCHANGED <<tIntents, tRecords, tLedger, tBundle>>

(* Take the triage lease.                                                  *)
CallTriage(caller) ==
    /\ tCaller = None
    /\ tCaller' = caller
    /\ tPc' = "read"
    /\ tNow' = now
    /\ UNCHANGED <<tIntents, tRecords, tLedger, tCheckpoint, tBundle>>

ReleaseTriage ==
    /\ tCaller' = None
    /\ tPc' = "idle"
    /\ tBundle' = NoBundle
    /\ tNow' = 1
    /\ UNCHANGED <<tIntents, tRecords, tLedger, tCheckpoint>>

TriageStep ==
    /\ \/ ReadHandoff
       \/ WriteIngestIntent
       \/ WriteTriageRecords
       \/ WriteTriageLedger
       \/ WriteTriageCheckpoint
    /\ UNCHANGED <<tCaller, tNow, producerVars, observerVars, mem, now, publisherVars>>

=============================================================================
