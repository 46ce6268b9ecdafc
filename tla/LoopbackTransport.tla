-------------------------- MODULE LoopbackTransport --------------------------
(***************************************************************************)
(* The P142 loopback transport (app/services/p142_loopback_transport_lab.  *)
(* py): a process that runs again and again under a lease of its own,      *)
(* lists P141's envelopes and receipts through P141's readers, and sends   *)
(* every envelope once to each of its routes.  A journal per dispatch,     *)
(* written before and after every step that another process can see, lets  *)
(* the next run go on from where a kill has left the dispatch.             *)
(*                                                                         *)
(* A dispatch is an envelope and one of its routes.  Of its journal the    *)
(* model keeps the number of entries and the last entry: the others are    *)
(* failed connections.  The endpoint is external: it answers a request     *)
(* that reaches it, and `requests' and `answered' are what it has seen.    *)
(* The clock is left out: a deadline that has passed is a choice.          *)
(* _reserve_budget refuses while "labSpace" is among the troubles.  The    *)
(* run file, which nothing reads, and the transport counters are left out. *)
(***************************************************************************)
EXTENDS NotificationAuthority

CONSTANTS
    None,           \* the code's None
    Routes,         \* route_id of every route
    Targets,        \* the pairs of destination and route, in their order
    MaxAttempts,    \* config.max_attempts
    MaxLabCrashes   \* bound: ends of a run by a kill or a failed write

ASSUME LabAssumption ==
    /\ Targets \in Seq(Destinations \X Routes)
    /\ \A i, j \in 1..Len(Targets) : Targets[i] = Targets[j] => i = j
    /\ MaxAttempts \in Nat \ {0} /\ MaxLabCrashes \in Nat
    /\ None \notin {"2xx", "other"}

Status == {"2xx", "other"}          \* classes of HTTP status codes
Dispatch == Attempt \X Routes
Outcome == {"delivered", "rejected", "connection_failed",
            "request_committed_failed", "request_committed_response_unknown"}
Receipt == [outcome : Outcome, attempts : 1..MaxAttempts]

ASSUME NoneAssumption == None \notin Receipt

Phases == {"none", "pre_socket", "request_committed",
           "complete_response_observed", "receipt_written"}
Journal ==
    [attempts : 0..MaxAttempts,              \* entries there are
     phase : Phases,                         \* last phase of the last entry
     failed : BOOLEAN,                       \* its connection_failure
     response : Status \union {None},        \* its response
     intent : Receipt \union {None},         \* its receipt_intent
     hash : Receipt \union {None}]           \* its receipt_hash

VARIABLES
    dispatches, \* dispatch records that exist
    journal,    \* the journal of every dispatch
    receipts,   \* the receipt of every dispatch, or None
    labCursor,  \* last_sequence of P142's cursor
    lpc,        \* where the run is
    listed,     \* envelopes it has listed
    batch,      \* the event it is at
    place,      \* the position in Targets it is at
    draft,      \* the receipt it is about to write
    requests,   \* requests the endpoint has received for each dispatch
    answered,   \* what the endpoint has answered, or None
    labCrashes

labDisk == <<dispatches, journal, receipts, labCursor>>
labRun == <<lpc, listed, batch, place, draft>>
endpoint == <<requests, answered>>
labVars == <<labDisk, labRun, endpoint, labCrashes>>

EmptyJournal ==
    [attempts |-> 0, phase |-> "none", failed |-> FALSE, response |-> None,
     intent |-> None, hash |-> None]

LabInit ==
    /\ dispatches = {} /\ labCursor = 0
    /\ journal = [d \in Dispatch |-> EmptyJournal]
    /\ receipts = [d \in Dispatch |-> None]
    /\ lpc = "idle" /\ listed = {} /\ batch = 1 /\ place = 1 /\ draft = None
    /\ requests = [d \in Dispatch |-> 0]
    /\ answered = [d \in Dispatch |-> None]
    /\ labCrashes = 0

-----------------------------------------------------------------------------
(* Listing P141's artifacts.  Both readers take P141's lease, so they fail  *)
(* during one of its runs, and both fail on a file with a foreign name.     *)

ReadersAccept ==
    /\ apc = "idle"
    /\ ChainAccepted
    /\ strays = 0
    /\ \A a \in envelopes : a[1] \in outbox \ barred

(* The locals of a run end with it.                                         *)
Stop ==
    /\ lpc' = "idle"
    /\ listed' = {} /\ batch' = 1 /\ place' = 1 /\ draft' = None

ListEnvelopes ==
    /\ lpc = "idle"
    /\ ReadersAccept
    /\ listed' = envelopes
    /\ lpc' = "listed"
    /\ UNCHANGED <<batch, place, draft, labDisk, endpoint, labCrashes>>

(* Every listed envelope must have its simulated receipt.                   *)
ListReceipts ==
    /\ lpc = "listed"
    /\ IF ReadersAccept /\ listed \subseteq simulated
       THEN lpc' = "batch" /\ UNCHANGED <<listed, batch, place, draft>>
       ELSE Stop
    /\ UNCHANGED <<labDisk, endpoint, labCrashes>>

(* The lowest event past the cursor that has a listed envelope.             *)
TakeBatch ==
    /\ lpc = "batch"
    /\ LET pending == {a[1] : a \in {b \in listed : b[1] > labCursor}}
       IN  IF pending # {}
           THEN /\ batch' \in {e \in pending : \A f \in pending : e <= f}
                /\ place' = 1
                /\ lpc' = "target"
                /\ UNCHANGED <<listed, draft>>
           ELSE Stop
    /\ UNCHANGED <<labDisk, endpoint, labCrashes>>

(* The routes of the batch's listed envelopes, one after the other; the     *)
(* dispatch record is written first.                                        *)
DispatchAt(i) == <<<<batch, Targets[i][1]>>, Targets[i][2]>>

(* The targets of the batch from the current place on.                      *)
TargetsLeft == {i \in place..Len(Targets) : DispatchAt(i)[1] \in listed}

(* _reserve_budget, also for a dispatch record that is there already.       *)
LabRoom == "labSpace" \notin troubles

TakeTarget ==
    /\ lpc = "target"
    /\ TargetsLeft = {} \/ LabRoom
    /\ LET left == TargetsLeft
       IN  IF left # {}
           THEN /\ place' \in {i \in left : \A j \in left : i <= j}
                /\ dispatches' = dispatches \union {DispatchAt(place')}
                /\ lpc' = "recover"
           ELSE lpc' = "cursor" /\ UNCHANGED <<place, dispatches>>
    /\ UNCHANGED <<listed, batch, draft, journal, receipts, labCursor,
                   endpoint, labCrashes>>

-----------------------------------------------------------------------------
(* _dispatch_or_recover, the part that reads what an earlier run left.      *)

ThisDispatch == DispatchAt(place)
ThisJournal == journal[ThisDispatch]
ThisReceipt == receipts[ThisDispatch]

ReceiptOf(outcome, j) == [outcome |-> outcome, attempts |-> j.attempts]

FromResponse(j) ==
    ReceiptOf(IF j.response = "2xx" THEN "delivered" ELSE "rejected", j)

ExpectedReceipt(j) ==
    IF j.phase = "complete_response_observed" THEN FromResponse(j)
    ELSE j.intent

(* The receipt is there and the journal knows it.                           *)
Settled(j, r) == r # None /\ j.attempts = r.attempts /\ j.hash = r

(* The receipt is there; the journal is still to be marked.                 *)
Unmarked(j, r) ==
    /\ r # None /\ j.hash = None
    /\ r = ExpectedReceipt(j) /\ j.attempts = r.attempts
    /\ j.intent \in {None, r}


(* The journal says which receipt was to be written.                        *)
Intended(j, r) ==
    /\ r = None /\ j.intent # None /\ j.hash = None
    /\ j.intent = ExpectedReceipt(j) /\ j.attempts = j.intent.attempts

NotIntended(j, r) == r = None /\ (j.intent = None \/ j.hash # None)

Unknown(j, r) == NotIntended(j, r) /\ j.phase = "request_committed"
Responded(j, r) ==
    NotIntended(j, r) /\ j.phase = "complete_response_observed"
Retriable(j, r) ==
    /\ NotIntended(j, r)
    /\ j.attempts = 0 \/ (j.phase = "pre_socket" /\ j.failed)

Resumable(j, r) ==
    \/ Settled(j, r) \/ Unmarked(j, r) \/ Intended(j, r)
    \/ Unknown(j, r) \/ Responded(j, r) \/ Retriable(j, r)

(* A step of the run that only moves on.                                    *)
GoTo(step, d) ==
    /\ lpc' = step /\ draft' = d
    /\ UNCHANGED <<listed, batch, place, labDisk, endpoint, labCrashes>>

ReplayReceipt ==
    /\ lpc = "recover" /\ Settled(ThisJournal, ThisReceipt)
    /\ place' = place + 1
    /\ lpc' = "target"
    /\ UNCHANGED <<listed, batch, draft, labDisk, endpoint, labCrashes>>

FinishMark ==
    /\ lpc = "recover" /\ Unmarked(ThisJournal, ThisReceipt)
    /\ GoTo("mark", ThisReceipt)

ReplayIntent ==
    /\ lpc = "recover" /\ Intended(ThisJournal, ThisReceipt)
    /\ LabRoom
    /\ GoTo("receipt", ThisJournal.intent)

(* Variant: a request that was committed may be sent again.                 *)
VariantResend ==
    /\ lpc = "recover" /\ Unknown(ThisJournal, ThisReceipt)
    /\ GoTo("send", draft)

(* A committed request is never sent again.                                 *)
RecoverUnknown ==
    /\ lpc = "recover" /\ Unknown(ThisJournal, ThisReceipt)
    /\ GoTo("intent",
            ReceiptOf("request_committed_response_unknown", ThisJournal))

RecoverResponse ==
    /\ lpc = "recover" /\ Responded(ThisJournal, ThisReceipt)
    /\ GoTo("intent", FromResponse(ThisJournal))

ResumeAttempts ==
    /\ lpc = "recover" /\ Retriable(ThisJournal, ThisReceipt)
    /\ GoTo("attempt", draft)

(* pre_socket_replay_without_failure and the errors of an inconsistent      *)
(* journal.                                                                 *)
RecoveryRaises ==
    /\ lpc = "recover" /\ ~Resumable(ThisJournal, ThisReceipt)
    /\ Stop /\ UNCHANGED <<labDisk, endpoint, labCrashes>>

-----------------------------------------------------------------------------
(* The attempts.                                                            *)

WriteJournal(j, step, d) ==
    /\ journal' = [journal EXCEPT ![ThisDispatch] = j]
    /\ lpc' = step /\ draft' = d
    /\ UNCHANGED <<dispatches, receipts, labCursor, listed, batch, place,
                   labCrashes>>

StartAttempt ==
    /\ lpc = "attempt" /\ ThisJournal.attempts < MaxAttempts
    /\ WriteJournal([EmptyJournal EXCEPT !.phase = "pre_socket",
                          !.attempts = ThisJournal.attempts + 1],
                    "connect", draft)
    /\ UNCHANGED endpoint

(* An earlier run was killed after its last failed attempt.                 *)
AttemptsExhausted ==
    /\ lpc = "attempt" /\ ThisJournal.attempts >= MaxAttempts
    /\ GoTo("intent", ReceiptOf("connection_failed", ThisJournal))

ConnectFails ==
    /\ lpc = "connect"
    /\ WriteJournal([ThisJournal EXCEPT !.failed = TRUE], "failed", draft)
    /\ UNCHANGED endpoint

(* It was the last attempt, or the delay is longer than the time left.      *)
GiveUpConnecting ==
    /\ lpc = "failed"
    /\ GoTo("intent", ReceiptOf("connection_failed", ThisJournal))

(* After the delay, if there is time and an attempt left.                   *)
RetryConnecting ==
    /\ lpc = "failed" /\ ThisJournal.attempts < MaxAttempts
    /\ GoTo("attempt", draft)

(* After the delay the time is over: total_dispatch_timeout ends the run.   *)
DispatchTimesOut ==
    /\ lpc = "failed" /\ ThisJournal.attempts < MaxAttempts
    /\ Stop /\ UNCHANGED <<labDisk, endpoint, labCrashes>>

(* Connected: the journal is written before the first byte is sent.         *)
CommitRequest ==
    /\ lpc = "connect"
    /\ WriteJournal([ThisJournal EXCEPT !.phase = "request_committed"],
                    "send", draft)
    /\ UNCHANGED endpoint

(* The request reaches the endpoint, which answers, or it does not.  An     *)
(* endpoint that does not answer is one whose answer is not read.           *)
SendRequest ==
    /\ lpc = "send"
    /\ \/ UNCHANGED endpoint
       \/ \E s \in Status :
             /\ requests' = [requests EXCEPT ![ThisDispatch] = @ + 1]
             /\ answered' = [answered EXCEPT ![ThisDispatch] = s]
    /\ lpc' = "await"
    /\ UNCHANGED <<listed, batch, place, draft, labDisk, labCrashes>>

ObserveResponse ==
    /\ lpc = "await" /\ answered[ThisDispatch] # None
    /\ LET j == [ThisJournal EXCEPT !.phase = "complete_response_observed",
                                    !.response = answered[ThisDispatch]]
       IN  WriteJournal(j, "intent", FromResponse(j))
    /\ UNCHANGED endpoint

(* The send or the read fails or times out.                                 *)
RequestFails ==
    /\ lpc = "await"
    /\ GoTo("intent", ReceiptOf("request_committed_failed", ThisJournal))

(* What comes back is not a response: the run ends with an error.           *)
MalformedResponse ==
    /\ lpc = "await"
    /\ Stop /\ UNCHANGED <<labDisk, endpoint, labCrashes>>

-----------------------------------------------------------------------------
(* _write_receipt_and_mark: the intent, the receipt, the mark.              *)

(* Variant: no intent is recorded.                                          *)
VariantNoIntent == lpc = "intent" /\ LabRoom /\ GoTo("receipt", draft)

WriteIntent ==
    /\ lpc = "intent" /\ LabRoom
    /\ WriteJournal([ThisJournal EXCEPT !.intent = draft], "receipt", draft)
    /\ UNCHANGED endpoint

WriteReceipt ==
    /\ lpc = "receipt"
    /\ receipts' = [receipts EXCEPT ![ThisDispatch] = draft]
    /\ lpc' = "mark"
    /\ UNCHANGED <<listed, batch, place, draft, dispatches, journal, labCursor,
                   endpoint, labCrashes>>

MarkReceipt ==
    /\ lpc = "mark"
    /\ journal' = [journal EXCEPT ![ThisDispatch].hash = draft,
                      ![ThisDispatch].phase =
                          IF @ = "complete_response_observed"
                          THEN "receipt_written" ELSE @]
    /\ lpc' = "target" /\ place' = place + 1 /\ draft' = None
    /\ UNCHANGED <<listed, batch, dispatches, receipts, labCursor,
                   endpoint, labCrashes>>

WriteLabCursor ==
    /\ lpc = "cursor"
    /\ labCursor' = batch
    /\ lpc' = "batch"
    /\ UNCHANGED <<listed, batch, place, draft, dispatches, journal, receipts,
                   endpoint, labCrashes>>

(* _reserve_budget raises: before a dispatch record, before the receipt of  *)
(* an intent that an earlier run has left, or before an intent.             *)
LabBudgetRefuses ==
    /\ ~LabRoom
    /\ \/ lpc = "target" /\ TargetsLeft # {}
       \/ lpc = "recover" /\ Intended(ThisJournal, ThisReceipt)
       \/ lpc = "intent"
    /\ Stop /\ UNCHANGED <<labDisk, endpoint, labCrashes>>

(* A kill or a write that fails.                                            *)
LabCrash ==
    /\ lpc # "idle"
    /\ labCrashes < MaxLabCrashes
    /\ labCrashes' = labCrashes + 1
    /\ Stop
    /\ UNCHANGED <<labDisk, endpoint>>

Listing == ListEnvelopes \/ ListReceipts
Dispatching ==
    \/ TakeBatch \/ TakeTarget \/ ReplayReceipt \/ FinishMark \/ ReplayIntent
    \/ RecoverUnknown \/ RecoverResponse \/ ResumeAttempts \/ RecoveryRaises
    \/ StartAttempt \/ AttemptsExhausted \/ ConnectFails \/ GiveUpConnecting
    \/ RetryConnecting \/ DispatchTimesOut \/ CommitRequest \/ SendRequest
    \/ ObserveResponse \/ RequestFails \/ MalformedResponse \/ WriteIntent
    \/ WriteReceipt \/ MarkReceipt \/ WriteLabCursor \/ LabBudgetRefuses

LabNext == Listing \/ Dispatching \/ LabCrash
=============================================================================
