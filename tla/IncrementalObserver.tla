------------------------- MODULE IncrementalObserver -------------------------
(***************************************************************************)
(* The P136 incremental observer (src/app/services/p136_incremental_       *)
(* observer.py): one cycle reads the whole index file, promotes the entries *)
(* it has not seen, and commits promotions, cycle outcome and checkpoint in *)
(* that order, so that a cycle cut short is completed or repeated.          *)
(*                                                                         *)
(* The index file is written by somebody else while the observer runs.  An *)
(* entry is its entry_sequence; a promotion record is its entry and the    *)
(* time of the cycle that made it, which is part of the record's hash and  *)
(* of its file name.  Of a partial line only two things matter: where it   *)
(* starts and whether its bytes are also the first bytes of the file       *)
(* ("common": every line is canonical JSON and begins alike).              *)
(*                                                                         *)
(* Not modelled: the index read intent and the promotion intent (a cycle   *)
(* that is repeated writes them again under the same name, and no decision *)
(* of the supervised path depends on them), the reading of segments, and a *)
(* file that is changed in place.                                          *)
(***************************************************************************)
EXTENDS Integers, Sequences, FiniteSets, SequencesExt

CONSTANTS
    MaxEntries,     \* entries the producer ever writes (bound)
    MaxFiles,       \* index files the producer ever starts (bound)
    Receipts,       \* number of index_read_receipt_hashes of the configuration
    MaxPromotions,  \* limits.max_promotions_per_cycle
    MaxNow          \* the clock stops advancing here (bound)

ASSUME ObserverAssumption ==
    /\ MaxEntries \in Nat \ {0}
    /\ MaxFiles \in Nat \ {0}
    /\ Receipts \in Nat \ {0}
    /\ MaxPromotions \in Nat \ {0}
    /\ MaxNow \in Nat \ {0}

VARIABLES
    index,      \* the index file: its identity, lines, and unfinished last line
    produced,   \* entries the producer has completed
    obs,        \* the durable observer checkpoint
    records,    \* promotion record files
    outcome,    \* the cycle outcome file of the latest cycle
    mem,        \* p136_runtime["checkpoint"], in memory
    now,        \* the time of the current supervisor run
    oPc,        \* where observe_one_cycle is
    oResult     \* the checkpoint the cycle is about to commit, in memory

producerVars == <<index, produced>>
observerVars == <<obs, records, outcome, oPc, oResult>>

None == "none"

(* A line of the index: the entry and the entry its rotation_from_hash     *)
(* names, 0 for null.                                                      *)
Line == [n : Nat, rot : Nat]

(* base is the last entry completed before the file was started.           *)
IndexFile ==
    [id : Nat, lines : Seq(Line), base : Nat,
     partial : {None, "common", "distinct"}]

(* What the checkpoint keeps: promoted[e] is the time entry e was promoted *)
(* at (promotion_keys), so its length is also the last entry and the last  *)
(* promotion sequence; used counts the consumed receipts.                  *)
Checkpoint ==
    [id : Nat, promoted : Seq(1..MaxNow), used : Nat,
     pending : [at : Nat, kind : {None, "common", "distinct"}]]

(* The checkpoint a cycle started from and the one it leads to.            *)
OutcomeFile ==
    [kind : {"intent", "completion"}, start : Checkpoint, result : Checkpoint]

NoPending == [at |-> 0, kind |-> None]
NoOutcome == [kind |-> None]

(* The first entry was promoted and published before the service started,  *)
(* as _bootstrap_current_bundle requires.                                  *)
FirstCheckpoint ==
    [id |-> 1, promoted |-> <<1>>, used |-> 0, pending |-> NoPending]

ObserverInit ==
    /\ index = [id |-> 1, lines |-> <<[n |-> 1, rot |-> 0]>>,
                base |-> 0, partial |-> None]
    /\ produced = 1
    /\ obs = FirstCheckpoint
    /\ records = {<<1, 1>>}
    /\ outcome = NoOutcome
    /\ mem = FirstCheckpoint
    /\ now = 1
    /\ oPc = "idle"
    /\ oResult = FirstCheckpoint

-----------------------------------------------------------------------------
(* The producer.  It only appends, and the first new entry of a new file   *)
(* names the entry before it in rotation_from_hash.                        *)

StartLine(kind) ==
    /\ index.partial = None
    /\ produced < MaxEntries
    /\ index' = [index EXCEPT !.partial = kind]
    /\ UNCHANGED produced

GrowLine ==
    /\ index.partial = "common"
    /\ index' = [index EXCEPT !.partial = "distinct"]
    /\ UNCHANGED produced

FinishLine ==
    /\ index.partial = "distinct"
    /\ LET rot == IF index.id > 1 /\ index.base = produced THEN produced ELSE 0
       IN  index' = [index EXCEPT
                       !.partial = None,
                       !.lines = Append(@, [n |-> produced + 1, rot |-> rot])]
    /\ produced' = produced + 1

(* A new file begins with the last `kept` lines of the old one.            *)
RotateIndex(kept) ==
    /\ index.partial = None
    /\ index.id < MaxFiles
    /\ index' = [id |-> index.id + 1, base |-> produced, partial |-> None,
                 lines |-> SubSeq(index.lines,
                                  Len(index.lines) - kept + 1, Len(index.lines))]
    /\ UNCHANGED produced

Producer ==
    /\ \/ \E kind \in {"common", "distinct"} : StartLine(kind)
       \/ GrowLine
       \/ FinishLine
       \/ \E kept \in 0..Len(index.lines) : RotateIndex(kept)
    /\ UNCHANGED <<observerVars, mem, now>>

-----------------------------------------------------------------------------
(* scan_incremental_index and resolve_index_entries.                       *)

Rotated(ck) == index.id # ck.id

(* Positions of the lines whose entry is not in promotion_keys; the others *)
(* are replays.                                                            *)
Unseen(ck) == {i \in DOMAIN index.lines : index.lines[i].n > Len(ck.promoted)}

(* The pending bytes are compared with the first bytes of the file, not    *)
(* with the bytes at line_start_cursor.                                    *)
PendingMatches(ck) ==
    ck.pending.kind = None \/ ck.pending.at = 0 \/ ck.pending.kind = "common"

(* The scan raises nothing.  In a rotated file every unseen entry has to   *)
(* name the last committed one.                                            *)
ScanAccepts(ck) ==
    LET last == Len(ck.promoted)
    IN  /\ IF Rotated(ck) THEN ck.pending.kind = None ELSE PendingMatches(ck)
        /\ \A i \in Unseen(ck) :
              /\ index.lines[i].n = last + Cardinality({j \in Unseen(ck) : j <= i})
              /\ Rotated(ck) => index.lines[i].rot = last
        /\ Cardinality(Unseen(ck)) <= MaxPromotions

(* The promotions of a cycle all carry its time.                           *)
Promotions(ck) == [i \in 1..Cardinality(Unseen(ck)) |-> now]

(* Variant: the receipt of the cycle is not added to the consumed ones.    *)
VariantFreeReceipt(ck) ==
    [ck EXCEPT !.id = index.id,
               !.promoted = @ \o Promotions(ck),
               !.pending = IF index.partial = None THEN NoPending
                           ELSE [at |-> Len(index.lines), kind |-> index.partial]]

(* _advance_observation_checkpoint.                                        *)
Advanced(ck) ==
    [id |-> index.id,
     promoted |-> ck.promoted \o Promotions(ck),
     used |-> ck.used + 1,
     pending |-> IF index.partial = None THEN NoPending
                 ELSE [at |-> Len(index.lines), kind |-> index.partial]]

(* The promotion records the cycle from one checkpoint to another makes.   *)
NewRecords(from, to) ==
    {<<e, to.promoted[e]>> : e \in (Len(from.promoted) + 1)..Len(to.promoted)}

-----------------------------------------------------------------------------
(* observe_one_cycle.                                                      *)

ReadIndex ==
    /\ oPc = "scan"
    /\ IF ScanAccepts(mem)
         THEN /\ oResult' = Advanced(mem)
              /\ oPc' = "records"
         ELSE /\ oPc' = "scan_refused"
              /\ UNCHANGED oResult
    /\ UNCHANGED <<obs, records, outcome>>

WriteRecord ==
    /\ oPc = "records"
    /\ \E r \in NewRecords(mem, oResult) \ records :
          /\ \A other \in NewRecords(mem, oResult) \ records : r[1] <= other[1]
          /\ records' = records \cup {r}
    /\ UNCHANGED <<obs, outcome, oPc, oResult>>

(* Variant: the outcome is recorded before the promotions it names are.    *)
VariantOutcomeFirst ==
    /\ oPc = "records"
    /\ outcome' = [kind |-> "intent", start |-> mem, result |-> oResult]
    /\ oPc' = "checkpoint"
    /\ UNCHANGED <<obs, records, oResult>>

WriteOutcomeIntent ==
    /\ oPc = "records"
    /\ NewRecords(mem, oResult) \subseteq records
    /\ outcome' = [kind |-> "intent", start |-> mem, result |-> oResult]
    /\ oPc' = "checkpoint"
    /\ UNCHANGED <<obs, records, oResult>>

WriteCheckpoint ==
    /\ oPc = "checkpoint"
    /\ obs' = oResult
    /\ oPc' = "completion"
    /\ UNCHANGED <<records, outcome, oResult>>

WriteCompletion ==
    /\ oPc = "completion"
    /\ outcome' = [outcome EXCEPT !.kind = "completion"]
    /\ oPc' = "returned"
    /\ UNCHANGED <<obs, records, oResult>>

-----------------------------------------------------------------------------
(* recover_cycle_outcome for the cycle that started at checkpoint start:   *)
(* without an outcome of that cycle the supervisor has it observed again.  *)

OutcomeOf(start) == outcome.kind # None /\ outcome.start = start

CheckpointTupleValid ==
    LET valid == {outcome.start, outcome.result}
    IN  /\ mem \in valid
        /\ obs \in valid
        /\ mem # obs => mem = outcome.start
        /\ outcome.kind = "completion" => obs = outcome.result

RecoverCycle(start) ==
    /\ oPc = "recover"
    /\ \/ /\ ~(OutcomeOf(start) /\ CheckpointTupleValid)
          /\ oPc' = IF ~OutcomeOf(start) /\ mem = start THEN "scan" ELSE "raised"
          /\ UNCHANGED oResult
       \/ /\ OutcomeOf(start)
          /\ CheckpointTupleValid
          /\ oResult' = outcome.result
          /\ oPc' = CASE outcome.kind = "completion" -> "returned"
                      [] outcome.kind = "intent" /\ obs = outcome.result -> "completion"
                      [] outcome.kind = "intent" /\ obs # outcome.result -> "checkpoint"
    /\ UNCHANGED <<obs, records, outcome>>

ObserverStep(start) ==
    /\ \/ ReadIndex
       \/ WriteRecord
       \/ WriteOutcomeIntent
       \/ WriteCheckpoint
       \/ WriteCompletion
       \/ RecoverCycle(start)
    /\ UNCHANGED <<producerVars, mem, now>>

=============================================================================
