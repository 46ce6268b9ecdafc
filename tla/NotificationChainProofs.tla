----------------------- MODULE NotificationChainProofs -----------------------
(***************************************************************************)
(* Proofs about the P141 authority and the P142 transport side by side, for*)
(* every list of destinations and of routes, every number of attempts and  *)
(* any number of events, removals and kills.                               *)
(***************************************************************************)
EXTENDS NotificationChain, NotificationAuthorityProofs

-----------------------------------------------------------------------------
(* The inductive invariant of the transport.                                *)

(* The receipts that fit a journal: what the last phase of its last entry   *)
(* lets a receipt say.                                                      *)
Fitting(j, r) ==
    /\ r.attempts = j.attempts
    /\ \/ j.phase = "pre_socket" /\ j.failed /\ r.outcome = "connection_failed"
       \/ /\ j.phase = "request_committed"
          /\ r.outcome \in {"request_committed_failed",
                            "request_committed_response_unknown"}
       \/ /\ j.phase \in {"complete_response_observed", "receipt_written"}
          /\ r = FromResponse(j)

(* The journal j and the receipt r of a dispatch for which the endpoint has *)
(* seen n requests and answered s.                                          *)
DispatchOK(j, r, n, s) ==
    /\ j.phase = "none" <=> j.attempts = 0
    /\ j.phase = "none" => j.intent = None /\ ~j.failed
    /\ n = 0 <=> s = None
    /\ j.phase \in {"none", "pre_socket"} => n = 0
    /\ j.phase \in {"complete_response_observed", "receipt_written"} =>
          j.response # None /\ j.response = s
    /\ j.intent # None => Fitting(j, j.intent)
    /\ r # None => r = j.intent
    /\ j.hash # None => j.hash = r
    /\ j.phase = "receipt_written" => j.hash # None

FilesInv ==
    \A d \in Dispatch :
        DispatchOK(journal[d], receipts[d], requests[d], answered[d])

AtDispatch == {"recover", "attempt", "connect", "failed", "send", "await",
               "intent", "receipt", "mark"}

(* What a run relies on at each step of a dispatch, with draft r of its     *)
(* receipt, the journal j, the receipt q and n requests.                    *)
StepOK(step, r, j, q, n) ==
    /\ step \in AtDispatch \ {"recover", "receipt", "mark"} =>
          j.intent = None /\ q = None
    /\ step = "attempt" =>
          j.phase = "none" \/ (j.phase = "pre_socket" /\ j.failed)
    /\ step = "connect" => j.phase = "pre_socket" /\ ~j.failed
    /\ step = "failed" => j.phase = "pre_socket" /\ j.failed
    /\ step \in {"send", "await"} => j.phase = "request_committed"
    /\ step = "send" => n = 0
    /\ step = "intent" => r # None /\ Fitting(j, r)
    /\ step = "receipt" => r # None /\ r = j.intent /\ q = None
    /\ step = "mark" => r # None /\ r = q

StepInv ==
    /\ lpc \in AtDispatch \union {"target", "cursor"} => batch \in Event
    /\ lpc \in AtDispatch =>
          /\ place \in 1..Len(Targets)
          /\ StepOK(lpc, draft, ThisJournal, ThisReceipt,
                    requests[ThisDispatch])

(* The lab's share of the type invariant.                                   *)
LabTypeOK ==
    /\ dispatches \subseteq Dispatch
    /\ journal \in [Dispatch -> Journal]
    /\ receipts \in [Dispatch -> Receipt \union {None}]
    /\ labCursor \in 0..MaxEvents
    /\ lpc \in {"idle", "listed", "batch", "target", "cursor"} \union AtDispatch
    /\ listed \subseteq Attempt /\ batch \in Event \union {1}
    /\ place \in 1..(Len(Targets) + 1)
    /\ draft \in Receipt \union {None}
    /\ requests \in [Dispatch -> 0..1]
    /\ answered \in [Dispatch -> Status \union {None}]
    /\ labCrashes \in 0..MaxLabCrashes

LabInv == LabTypeOK /\ FilesInv /\ StepInv

IndInv == AuthorityInv /\ LabInv

-----------------------------------------------------------------------------
(* Facts about the operators.                                               *)

(* The constants of the transport.                                          *)
LEMMA LabConstants ==
    /\ Len(Targets) \in Nat
    /\ \A i \in 1..Len(Targets) : Targets[i] \in Destinations \X Routes
    /\ MaxAttempts \in Nat \ {0} /\ MaxLabCrashes \in Nat
    /\ None \notin Status /\ None \notin Receipt
BY LabAssumption, NoneAssumption DEF Status

(* Every place names a dispatch of the batch.                               *)
LEMMA PlaceIsDispatch ==
    ASSUME batch \in Event, NEW i \in 1..Len(Targets)
    PROVE  DispatchAt(i) \in Dispatch
BY LabConstants DEF DispatchAt, Dispatch, Attempt

(* Receipts made from a journal with an entry are receipts.                 *)
LEMMA ReceiptOfType ==
    ASSUME NEW j \in Journal, j.attempts # 0, NEW o \in Outcome
    PROVE  /\ ReceiptOf(o, j) \in Receipt
           /\ ReceiptOf(o, j).attempts = j.attempts
           /\ ReceiptOf(o, j).outcome = o
BY LabConstants DEF ReceiptOf, Receipt, Journal

(* So is the receipt of a response.                                         *)
LEMMA FromResponseType ==
    ASSUME NEW j \in Journal, j.attempts # 0
    PROVE  /\ FromResponse(j) \in Receipt
           /\ FromResponse(j).attempts = j.attempts
           /\ FromResponse(j).outcome
                = IF j.response = "2xx" THEN "delivered" ELSE "rejected"
BY ReceiptOfType DEF FromResponse, Outcome

-----------------------------------------------------------------------------
(* Before the first run no dispatch is recorded.                            *)
LEMMA LabInitInv == LabInit => LabInv
BY LabConstants, BoundsAreNumbers
   DEF LabInit, LabInv, LabTypeOK, FilesInv, StepInv, EmptyJournal,
       DispatchOK, Journal, AtDispatch, Phases

(* What the invariant says of the dispatch under way.                       *)
LEMMA ThisDispatchInv ==
    ASSUME LabInv, lpc \in AtDispatch
    PROVE  /\ ThisDispatch \in Dispatch
           /\ ThisJournal \in Journal /\ ThisReceipt \in Receipt \union {None}
           /\ requests[ThisDispatch] \in 0..1
           /\ answered[ThisDispatch] \in Status \union {None}
           /\ draft \in Receipt \union {None}
           /\ DispatchOK(ThisJournal, ThisReceipt, requests[ThisDispatch],
                         answered[ThisDispatch])
           /\ StepOK(lpc, draft, ThisJournal, ThisReceipt,
                     requests[ThisDispatch])
BY PlaceIsDispatch
   DEF LabInv, LabTypeOK, FilesInv, StepInv, ThisDispatch, ThisJournal,
       ThisReceipt

(* A step within a dispatch keeps the invariant if it keeps what the        *)
(* invariant says of that dispatch.                                         *)
LEMMA DispatchStepInv ==
    ASSUME LabInv, lpc \in AtDispatch,
           NEW step \in AtDispatch, NEW r \in Receipt \union {None},
           NEW j \in Journal, NEW q \in Receipt \union {None},
           NEW n \in 0..1, NEW s \in Status \union {None},
           lpc' = step, draft' = r,
           journal' = [journal EXCEPT ![ThisDispatch] = j],
           receipts' = [receipts EXCEPT ![ThisDispatch] = q],
           requests' = [requests EXCEPT ![ThisDispatch] = n],
           answered' = [answered EXCEPT ![ThisDispatch] = s],
           UNCHANGED <<dispatches, labCursor, listed, batch, place, labCrashes>>,
           DispatchOK(j, q, n, s),
           StepOK(step, r, j, q, n)
    PROVE  LabInv'
<1>1. ThisDispatch \in Dispatch /\ ThisDispatch' = ThisDispatch
  BY PlaceIsDispatch DEF LabInv, LabTypeOK, StepInv, ThisDispatch, DispatchAt
<1>2. LabTypeOK'
  BY <1>1 DEF LabInv, LabTypeOK
<1>3. /\ journal'[ThisDispatch] = j /\ receipts'[ThisDispatch] = q
      /\ requests'[ThisDispatch] = n /\ answered'[ThisDispatch] = s
      /\ \A d \in Dispatch \ {ThisDispatch} :
            /\ journal'[d] = journal[d] /\ receipts'[d] = receipts[d]
            /\ requests'[d] = requests[d] /\ answered'[d] = answered[d]
  BY <1>1 DEF LabInv, LabTypeOK
<1>4. FilesInv'
  BY <1>3 DEF LabInv, FilesInv
<1>5. StepInv'
  BY <1>1, <1>3 DEF LabInv, StepInv, ThisJournal, ThisReceipt
<1> QED BY <1>2, <1>4, <1>5 DEF LabInv

(* A step that only moves on within the dispatch.                           *)
LEMMA GoToInv ==
    ASSUME LabInv, lpc \in AtDispatch, NEW step \in AtDispatch,
           NEW r \in Receipt \union {None}, GoTo(step, r),
           StepOK(step, r, ThisJournal, ThisReceipt, requests[ThisDispatch])
    PROVE  LabInv'
<1> DEFINE T == ThisDispatch
<1>1. /\ T \in Dispatch /\ ThisJournal \in Journal
      /\ ThisReceipt \in Receipt \union {None}
      /\ requests[T] \in 0..1 /\ answered[T] \in Status \union {None}
      /\ DispatchOK(ThisJournal, ThisReceipt, requests[T], answered[T])
  BY ThisDispatchInv
<1>2. /\ journal' = [journal EXCEPT ![T] = ThisJournal]
      /\ receipts' = [receipts EXCEPT ![T] = ThisReceipt]
      /\ requests' = [requests EXCEPT ![T] = requests[T]]
      /\ answered' = [answered EXCEPT ![T] = answered[T]]
  BY <1>1 DEF LabInv, LabTypeOK, GoTo, labDisk, endpoint, ThisJournal,
              ThisReceipt
<1>3. /\ lpc' = step /\ draft' = r
      /\ UNCHANGED <<dispatches, labCursor, listed, batch, place, labCrashes>>
  BY DEF GoTo, labDisk
<1> QED BY <1>1, <1>2, <1>3, DispatchStepInv

(* A step that replaces the journal of the dispatch.                        *)
LEMMA WriteJournalInv ==
    ASSUME LabInv, lpc \in AtDispatch, NEW step \in AtDispatch,
           NEW r \in Receipt \union {None}, NEW j \in Journal,
           WriteJournal(j, step, r), UNCHANGED endpoint,
           DispatchOK(j, ThisReceipt, requests[ThisDispatch],
                      answered[ThisDispatch]),
           StepOK(step, r, j, ThisReceipt, requests[ThisDispatch])
    PROVE  LabInv'
<1> DEFINE T == ThisDispatch
<1>1. /\ T \in Dispatch /\ ThisReceipt \in Receipt \union {None}
      /\ requests[T] \in 0..1 /\ answered[T] \in Status \union {None}
  BY ThisDispatchInv
<1>2. /\ journal' = [journal EXCEPT ![T] = j]
      /\ receipts' = [receipts EXCEPT ![T] = ThisReceipt]
      /\ requests' = [requests EXCEPT ![T] = requests[T]]
      /\ answered' = [answered EXCEPT ![T] = answered[T]]
  BY <1>1 DEF LabInv, LabTypeOK, WriteJournal, endpoint, ThisReceipt
<1>3. /\ lpc' = step /\ draft' = r
      /\ UNCHANGED <<dispatches, labCursor, listed, batch, place, labCrashes>>
  BY DEF WriteJournal
<1> QED BY <1>1, <1>2, <1>3, DispatchStepInv

(* The end of a run, whatever has caused it, leaves the disk alone.         *)
LEMMA StopInv ==
    ASSUME LabInv, Stop, UNCHANGED <<labDisk, endpoint>>,
           labCrashes' \in 0..MaxLabCrashes
    PROVE  LabInv'
BY LabConstants
   DEF LabInv, LabTypeOK, FilesInv, StepInv, Stop, labDisk, endpoint,
       AtDispatch

(* Listing P141's artifacts and going from batch to batch and from route to *)
(* route.                                                                   *)
LEMMA RunInvNext ==
    ASSUME AuthorityInv, LabInv,
           ListEnvelopes \/ ListReceipts \/ TakeBatch \/ TakeTarget
           \/ ReplayReceipt \/ WriteLabCursor
    PROVE  LabInv'
<1> USE LabConstants, BoundsAreNumbers
<1>1. CASE ListEnvelopes
  BY <1>1 DEF ListEnvelopes, LabInv, LabTypeOK, FilesInv, StepInv, labDisk,
              endpoint, AtDispatch, AuthorityInv, AuthorityTypeInv,
              AuthorityTypeOK
<1>2. CASE ListReceipts
  <2>1. CASE Stop
    BY <1>2, <2>1, StopInv DEF ListReceipts, LabInv, LabTypeOK
  <2>2. CASE ~Stop
    BY <1>2, <2>2 DEF ListReceipts, LabInv, LabTypeOK, FilesInv, StepInv,
                      labDisk, endpoint, AtDispatch
  <2> QED BY <2>1, <2>2
<1>3. CASE TakeBatch
  <2>1. CASE Stop
    BY <1>3, <2>1, StopInv DEF TakeBatch, LabInv, LabTypeOK
  <2>2. CASE ~Stop
    <3>1. batch' \in Event
      BY <1>3, <2>2 DEF TakeBatch, LabInv, LabTypeOK, Attempt
    <3> QED
      BY <1>3, <2>2, <3>1 DEF TakeBatch, LabInv, LabTypeOK, FilesInv, StepInv,
                              labDisk, endpoint, AtDispatch
  <2> QED BY <2>1, <2>2
<1>4. CASE TakeTarget
  <2>1. CASE lpc' = "cursor"
    BY <1>4, <2>1 DEF TakeTarget, LabInv, LabTypeOK, FilesInv, StepInv,
                      endpoint, AtDispatch
  <2>2. CASE lpc' # "cursor"
    <3>1. /\ place' \in 1..Len(Targets) /\ lpc' = "recover"
          /\ dispatches' = dispatches \union {DispatchAt(place')}
          /\ batch' = batch /\ batch \in Event
      BY <1>4, <2>2 DEF TakeTarget, TargetsLeft, LabInv, LabTypeOK, StepInv
    <3>2. dispatches' \subseteq Dispatch
      BY <3>1, PlaceIsDispatch DEF LabInv, LabTypeOK
    <3>3. LabTypeOK'
      BY <1>4, <3>1, <3>2 DEF TakeTarget, LabInv, LabTypeOK, endpoint,
                              AtDispatch
    <3>4. FilesInv'
      BY <1>4 DEF TakeTarget, LabInv, FilesInv, endpoint
    <3>5. StepInv'
      BY <1>4, <3>1 DEF TakeTarget, StepInv, StepOK, AtDispatch
    <3> QED BY <3>3, <3>4, <3>5 DEF LabInv
  <2> QED BY <2>1, <2>2
<1>5. CASE ReplayReceipt
  BY <1>5 DEF ReplayReceipt, LabInv, LabTypeOK, FilesInv, StepInv, labDisk,
              endpoint, AtDispatch
<1>6. CASE WriteLabCursor
  BY <1>6 DEF WriteLabCursor, LabInv, LabTypeOK, FilesInv, StepInv, endpoint,
              AtDispatch, Event
<1> QED BY <1>1, <1>2, <1>3, <1>4, <1>5, <1>6

(* _dispatch_or_recover: what is done with each state an earlier run may    *)
(* have left.                                                               *)
LEMMA RecoverNext ==
    ASSUME LabInv,
           FinishMark \/ ReplayIntent \/ RecoverUnknown \/ RecoverResponse
           \/ ResumeAttempts \/ RecoveryRaises
    PROVE  LabInv'
<1> DEFINE j == ThisJournal
           q == ThisReceipt
           n == requests[ThisDispatch]
<1>0. lpc = "recover" /\ lpc \in AtDispatch
  BY DEF FinishMark, ReplayIntent, RecoverUnknown, RecoverResponse,
         ResumeAttempts, RecoveryRaises, AtDispatch
<1>1. /\ j \in Journal /\ q \in Receipt \union {None}
      /\ draft \in Receipt \union {None}
      /\ DispatchOK(j, q, n, answered[ThisDispatch])
  BY <1>0, ThisDispatchInv
<1> HIDE DEF j, q, n
<1>2. CASE FinishMark
  <2>1. GoTo("mark", q) /\ q # None
    BY <1>2 DEF FinishMark, Unmarked, q
  <2>2. StepOK("mark", q, j, q, n)
    BY <2>1 DEF StepOK, AtDispatch
  <2> QED BY <1>0, <1>1, <2>1, <2>2, GoToInv DEF j, q, n, AtDispatch
<1>3. CASE ReplayIntent
  <2>1. GoTo("receipt", j.intent) /\ q = None /\ j.intent # None
    BY <1>3 DEF ReplayIntent, Intended, j, q
  <2>2. StepOK("receipt", j.intent, j, q, n)
    BY <2>1 DEF StepOK, AtDispatch
  <2>3. j.intent \in Receipt \union {None}
    BY <1>1 DEF Journal
  <2> QED BY <1>0, <2>1, <2>2, <2>3, GoToInv DEF j, q, n, AtDispatch
<1>4. CASE RecoverUnknown
  <2> DEFINE r == ReceiptOf("request_committed_response_unknown", j)
  <2>1. /\ GoTo("intent", r) /\ q = None /\ j.phase = "request_committed"
        /\ j.intent = None \/ j.hash # None
    BY <1>4 DEF RecoverUnknown, Unknown, NotIntended, j, q
  <2>2. j.intent = None /\ j.attempts # 0
    BY <1>1, <2>1 DEF DispatchOK
  <2>3. /\ r \in Receipt /\ r.attempts = j.attempts
        /\ r.outcome = "request_committed_response_unknown"
    BY <1>1, <2>2, ReceiptOfType DEF Outcome
  <2>4. StepOK("intent", r, j, q, n)
    BY <2>1, <2>2, <2>3, LabConstants DEF StepOK, Fitting, AtDispatch
  <2> QED BY <1>0, <2>1, <2>3, <2>4, GoToInv DEF j, q, n, AtDispatch
<1>5. CASE RecoverResponse
  <2> DEFINE r == FromResponse(j)
  <2>1. /\ GoTo("intent", r) /\ q = None
        /\ j.phase = "complete_response_observed"
        /\ j.intent = None \/ j.hash # None
    BY <1>5 DEF RecoverResponse, Responded, NotIntended, j, q
  <2>2. j.intent = None /\ j.attempts # 0
    BY <1>1, <2>1 DEF DispatchOK
  <2>3. r \in Receipt /\ r.attempts = j.attempts
    BY <1>1, <2>2, FromResponseType
  <2>4. StepOK("intent", r, j, q, n)
    BY <2>1, <2>2, <2>3, LabConstants DEF StepOK, Fitting, AtDispatch
  <2> QED BY <1>0, <2>1, <2>3, <2>4, GoToInv DEF j, q, n, AtDispatch
<1>6. CASE ResumeAttempts
  <2>1. /\ GoTo("attempt", draft) /\ q = None
        /\ j.intent = None \/ j.hash # None
        /\ j.attempts = 0 \/ (j.phase = "pre_socket" /\ j.failed)
    BY <1>6 DEF ResumeAttempts, Retriable, NotIntended, j, q
  <2>2. StepOK("attempt", draft, j, q, n)
    BY <1>1, <2>1 DEF DispatchOK, StepOK, AtDispatch
  <2> QED BY <1>0, <1>1, <2>1, <2>2, GoToInv DEF j, q, n, AtDispatch
<1>7. CASE RecoveryRaises
  BY <1>7, StopInv DEF RecoveryRaises, LabInv, LabTypeOK
<1> QED BY <1>2, <1>3, <1>4, <1>5, <1>6, <1>7

(* The attempts: the journal is ahead of every request.                     *)
LEMMA AttemptNext ==
    ASSUME LabInv,
           StartAttempt \/ AttemptsExhausted \/ ConnectFails
           \/ GiveUpConnecting \/ RetryConnecting \/ CommitRequest
           \/ SendRequest \/ ObserveResponse \/ RequestFails
           \/ MalformedResponse
    PROVE  LabInv'
<1> DEFINE j == ThisJournal
           q == ThisReceipt
           n == requests[ThisDispatch]
           s == answered[ThisDispatch]
<1>0. lpc \in {"attempt", "connect", "failed", "send", "await"}
      /\ lpc \in AtDispatch \ {"recover", "receipt", "mark"}
  BY DEF StartAttempt, AttemptsExhausted, ConnectFails, GiveUpConnecting,
         RetryConnecting, CommitRequest, SendRequest, ObserveResponse,
         RequestFails, MalformedResponse, AtDispatch
<1>1. /\ ThisDispatch \in Dispatch
      /\ j \in Journal /\ q \in Receipt \union {None} /\ n \in 0..1
      /\ s \in Status \union {None} /\ draft \in Receipt \union {None}
      /\ DispatchOK(j, q, n, s) /\ StepOK(lpc, draft, j, q, n)
  BY <1>0, ThisDispatchInv
<1> HIDE DEF j, q, n, s
<1>2. j.intent = None /\ q = None /\ j.hash = None
  BY <1>0, <1>1 DEF StepOK, DispatchOK
<1>3. CASE StartAttempt
  <2> DEFINE k == [EmptyJournal EXCEPT !.phase = "pre_socket",
                                       !.attempts = j.attempts + 1]
  <2>1. /\ lpc = "attempt" /\ j.attempts < MaxAttempts
        /\ WriteJournal(k, "connect", draft) /\ UNCHANGED endpoint
    BY <1>3 DEF StartAttempt, j
  <2>2. /\ EmptyJournal \in Journal /\ ~EmptyJournal.failed
        /\ EmptyJournal.intent = None /\ EmptyJournal.hash = None
    BY LabConstants DEF EmptyJournal, Journal, Phases
  <2>3. /\ k \in Journal /\ k.attempts = j.attempts + 1
        /\ k.phase = "pre_socket" /\ ~k.failed /\ k.intent = None
        /\ k.hash = None
    <3>1. j.attempts + 1 \in 0..MaxAttempts
      BY <1>1, <2>1, LabConstants DEF Journal
    <3> QED BY <2>2, <3>1 DEF Journal, Phases
  <2> HIDE DEF k
  <2>4. n = 0
    BY <1>1, <2>1 DEF StepOK, DispatchOK
  <2>5. DispatchOK(k, q, n, s)
    BY <1>1, <1>2, <2>3, <2>4 DEF DispatchOK, Journal
  <2>6. StepOK("connect", draft, k, q, n)
    BY <1>2, <2>3 DEF StepOK, AtDispatch
  <2> QED BY <1>0, <1>1, <2>1, <2>3, <2>5, <2>6, WriteJournalInv
          DEF q, n, s, AtDispatch
<1>4. CASE AttemptsExhausted \/ GiveUpConnecting
  <2> DEFINE r == ReceiptOf("connection_failed", j)
  <2>1. GoTo("intent", r)
    BY <1>4 DEF AttemptsExhausted, GiveUpConnecting, j
  <2>2. /\ j.attempts # 0 /\ j.phase = "pre_socket" /\ j.failed
    BY <1>1, <1>4, LabConstants
       DEF AttemptsExhausted, GiveUpConnecting, StepOK, DispatchOK, j
  <2>3. /\ r \in Receipt /\ r.attempts = j.attempts
        /\ r.outcome = "connection_failed"
    BY <1>1, <2>2, ReceiptOfType DEF Outcome
  <2>4. StepOK("intent", r, j, q, n)
    BY <1>2, <2>2, <2>3, LabConstants DEF StepOK, Fitting, AtDispatch
  <2> HIDE DEF r
  <2> QED BY <1>0, <2>1, <2>3, <2>4, GoToInv DEF j, q, n, AtDispatch
<1>5. CASE ConnectFails
  <2> DEFINE k == [j EXCEPT !.failed = TRUE]
  <2>1. /\ lpc = "connect" /\ WriteJournal(k, "failed", draft)
        /\ UNCHANGED endpoint
    BY <1>5 DEF ConnectFails, j
  <2>2. /\ k \in Journal /\ k.failed /\ k.phase = j.phase
        /\ k.attempts = j.attempts /\ k.intent = None /\ k.hash = None
    BY <1>1, <1>2 DEF Journal
  <2>3. j.phase = "pre_socket"
    BY <1>1, <2>1 DEF StepOK
  <2>4. DispatchOK(k, q, n, s) /\ StepOK("failed", draft, k, q, n)
    BY <1>1, <1>2, <2>2, <2>3 DEF DispatchOK, StepOK, AtDispatch
  <2> HIDE DEF k
  <2> QED BY <1>0, <1>1, <2>1, <2>2, <2>4, WriteJournalInv
          DEF q, n, s, AtDispatch
<1>6. CASE RetryConnecting
  <2>1. lpc = "failed" /\ GoTo("attempt", draft)
    BY <1>6 DEF RetryConnecting
  <2>2. StepOK("attempt", draft, j, q, n)
    BY <1>1, <1>2, <2>1 DEF StepOK, AtDispatch
  <2> QED BY <1>0, <1>1, <2>1, <2>2, GoToInv DEF j, q, n, AtDispatch
<1>7. CASE CommitRequest
  <2> DEFINE k == [j EXCEPT !.phase = "request_committed"]
  <2>1. /\ lpc = "connect" /\ WriteJournal(k, "send", draft)
        /\ UNCHANGED endpoint
    BY <1>7 DEF CommitRequest, j
  <2>2. /\ k \in Journal /\ k.phase = "request_committed"
        /\ k.attempts = j.attempts /\ k.intent = None /\ k.hash = None
    BY <1>1, <1>2 DEF Journal, Phases
  <2>3. j.attempts # 0 /\ n = 0
    BY <1>1, <2>1 DEF StepOK, DispatchOK
  <2>4. DispatchOK(k, q, n, s) /\ StepOK("send", draft, k, q, n)
    BY <1>1, <1>2, <2>2, <2>3 DEF DispatchOK, StepOK, AtDispatch
  <2> HIDE DEF k
  <2> QED BY <1>0, <1>1, <2>1, <2>2, <2>4, WriteJournalInv
          DEF q, n, s, AtDispatch
<1>8. CASE SendRequest
  <2>1. /\ lpc = "send" /\ lpc' = "await" /\ draft' = draft
        /\ UNCHANGED <<dispatches, labCursor, listed, batch, place,
                       labCrashes, journal, receipts>>
    BY <1>8 DEF SendRequest, labDisk
  <2>2. \E m \in 0..1, t \in Status \union {None} :
           /\ requests' = [requests EXCEPT ![ThisDispatch] = m]
           /\ answered' = [answered EXCEPT ![ThisDispatch] = t]
           /\ m = 0 <=> t = None
    <3>1. CASE UNCHANGED endpoint
      <4>1. /\ requests' = [requests EXCEPT ![ThisDispatch] = n]
            /\ answered' = [answered EXCEPT ![ThisDispatch] = s]
        BY <1>1, <3>1 DEF endpoint, LabInv, LabTypeOK, n, s
      <4> QED BY <1>1, <4>1 DEF DispatchOK
    <3>2. CASE \E t \in Status :
                  /\ requests' = [requests EXCEPT ![ThisDispatch] = @ + 1]
                  /\ answered' = [answered EXCEPT ![ThisDispatch] = t]
      <4>1. requests[ThisDispatch] = 0
        BY <1>1, <2>1 DEF StepOK, n
      <4>2. requests' = [requests EXCEPT ![ThisDispatch] = 1]
        BY <3>2, <4>1
      <4>3. PICK t \in Status :
               answered' = [answered EXCEPT ![ThisDispatch] = t]
        BY <3>2
      <4>4. 1 \in 0..1 /\ t \in Status \union {None} /\ t # None
        BY LabConstants
      <4> WITNESS 1 \in 0..1, t \in Status \union {None}
      <4> QED BY <4>2, <4>3, <4>4
    <3> QED BY <1>8, <3>1, <3>2 DEF SendRequest
  <2>3. PICK m \in 0..1, t \in Status \union {None} :
           /\ requests' = [requests EXCEPT ![ThisDispatch] = m]
           /\ answered' = [answered EXCEPT ![ThisDispatch] = t]
           /\ m = 0 <=> t = None
    BY <2>2
  <2>4. /\ journal' = [journal EXCEPT ![ThisDispatch] = j]
        /\ receipts' = [receipts EXCEPT ![ThisDispatch] = q]
    BY <1>1, <2>1 DEF LabInv, LabTypeOK, ThisJournal, ThisReceipt, j, q
  <2>5. j.phase = "request_committed"
    BY <1>1, <2>1 DEF StepOK
  <2>6. DispatchOK(j, q, m, t) /\ StepOK("await", draft, j, q, m)
    BY <1>1, <1>2, <2>3, <2>5 DEF DispatchOK, StepOK, AtDispatch
  <2> QED BY <1>0, <1>1, <2>1, <2>3, <2>4, <2>6, DispatchStepInv
          DEF AtDispatch
<1>9. CASE ObserveResponse
  <2> DEFINE k == [j EXCEPT !.phase = "complete_response_observed",
                            !.response = s]
  <2>1. /\ lpc = "await" /\ s # None
        /\ WriteJournal(k, "intent", FromResponse(k)) /\ UNCHANGED endpoint
    BY <1>9 DEF ObserveResponse, j, s
  <2>2. /\ k \in Journal /\ k.phase = "complete_response_observed"
        /\ k.response = s /\ k.attempts = j.attempts /\ k.intent = None
        /\ k.hash = None
    BY <1>1, <1>2 DEF Journal, Phases
  <2>3. j.attempts # 0
    BY <1>1, <2>1 DEF StepOK, DispatchOK
  <2> HIDE DEF k
  <2>4. /\ FromResponse(k) \in Receipt
        /\ FromResponse(k).attempts = k.attempts
    BY <2>2, <2>3, FromResponseType
  <2>5. DispatchOK(k, q, n, s)
    BY <1>1, <1>2, <2>1, <2>2, <2>3 DEF DispatchOK
  <2>6. StepOK("intent", FromResponse(k), k, q, n)
    BY <1>2, <2>2, <2>4, LabConstants DEF StepOK, Fitting, AtDispatch
  <2> QED BY <1>0, <2>1, <2>2, <2>4, <2>5, <2>6, WriteJournalInv
          DEF q, n, s, AtDispatch
<1>10. CASE RequestFails
  <2> DEFINE r == ReceiptOf("request_committed_failed", j)
  <2>1. lpc = "await" /\ GoTo("intent", r)
    BY <1>10 DEF RequestFails, j
  <2>2. j.phase = "request_committed" /\ j.attempts # 0
    BY <1>1, <2>1 DEF StepOK, DispatchOK
  <2>3. /\ r \in Receipt /\ r.attempts = j.attempts
        /\ r.outcome = "request_committed_failed"
    BY <1>1, <2>2, ReceiptOfType DEF Outcome
  <2>4. StepOK("intent", r, j, q, n)
    BY <1>2, <2>2, <2>3, LabConstants DEF StepOK, Fitting, AtDispatch
  <2> HIDE DEF r
  <2> QED BY <1>0, <2>1, <2>3, <2>4, GoToInv DEF j, q, n, AtDispatch
<1>11. CASE MalformedResponse
  BY <1>11, StopInv DEF MalformedResponse, LabInv, LabTypeOK
<1> QED BY <1>3, <1>4, <1>5, <1>6, <1>7, <1>8, <1>9, <1>10, <1>11

(* _write_receipt_and_mark: the intent, the receipt and the mark follow     *)
(* each other.                                                              *)
LEMMA ReceiptNext ==
    ASSUME LabInv, WriteIntent \/ WriteReceipt \/ MarkReceipt
    PROVE  LabInv'
<1> DEFINE j == ThisJournal
           q == ThisReceipt
           n == requests[ThisDispatch]
           s == answered[ThisDispatch]
<1>0. lpc \in {"intent", "receipt", "mark"} /\ lpc \in AtDispatch
  BY DEF WriteIntent, WriteReceipt, MarkReceipt, AtDispatch
<1>1. /\ ThisDispatch \in Dispatch
      /\ j \in Journal /\ q \in Receipt \union {None} /\ n \in 0..1
      /\ s \in Status \union {None} /\ draft \in Receipt \union {None}
      /\ DispatchOK(j, q, n, s) /\ StepOK(lpc, draft, j, q, n)
  BY <1>0, ThisDispatchInv
<1> HIDE DEF j, q, n, s
<1>2. CASE WriteIntent
  <2> DEFINE k == [j EXCEPT !.intent = draft]
  <2>1. /\ lpc = "intent" /\ WriteJournal(k, "receipt", draft)
        /\ UNCHANGED endpoint
    BY <1>2 DEF WriteIntent, j
  <2>2. q = None /\ draft # None /\ Fitting(j, draft)
    BY <1>0, <1>1, <2>1 DEF StepOK
  <2>3. /\ k \in Journal /\ k.attempts = j.attempts /\ k.phase = j.phase
        /\ k.failed = j.failed /\ k.response = j.response
        /\ k.intent = draft /\ k.hash = j.hash
    BY <1>1 DEF Journal
  <2> HIDE DEF k
  <2>4. Fitting(k, draft) /\ j.phase # "none"
    BY <2>2, <2>3 DEF Fitting, FromResponse, ReceiptOf
  <2>5. DispatchOK(k, q, n, s)
    BY <1>1, <2>2, <2>3, <2>4 DEF DispatchOK
  <2>6. StepOK("receipt", draft, k, q, n)
    BY <2>2, <2>3 DEF StepOK, AtDispatch
  <2> QED BY <1>0, <1>1, <2>1, <2>3, <2>5, <2>6, WriteJournalInv
          DEF q, n, s, AtDispatch
<1>3. CASE WriteReceipt
  <2>1. /\ lpc = "receipt" /\ lpc' = "mark" /\ draft' = draft
        /\ receipts' = [receipts EXCEPT ![ThisDispatch] = draft]
        /\ UNCHANGED <<dispatches, labCursor, listed, batch, place,
                       labCrashes, journal, requests, answered>>
    BY <1>3 DEF WriteReceipt, endpoint
  <2>2. draft # None /\ draft = j.intent /\ q = None
    BY <1>1, <2>1 DEF StepOK
  <2>3. /\ journal' = [journal EXCEPT ![ThisDispatch] = j]
        /\ requests' = [requests EXCEPT ![ThisDispatch] = n]
        /\ answered' = [answered EXCEPT ![ThisDispatch] = s]
    BY <1>1, <2>1 DEF LabInv, LabTypeOK, ThisJournal, j, n, s
  <2>4. DispatchOK(j, draft, n, s) /\ StepOK("mark", draft, j, draft, n)
    BY <1>1, <2>2 DEF DispatchOK, StepOK, AtDispatch
  <2> QED BY <1>0, <1>1, <2>1, <2>3, <2>4, DispatchStepInv DEF AtDispatch
<1>4. CASE MarkReceipt
  <2> DEFINE k == [j EXCEPT !.hash = draft,
                            !.phase = IF @ = "complete_response_observed"
                                      THEN "receipt_written" ELSE @]
  <2>1. /\ lpc = "mark" /\ lpc' = "target" /\ place' = place + 1
        /\ draft' = None
        /\ UNCHANGED <<listed, batch, dispatches, receipts, labCursor,
                       requests, answered, labCrashes>>
    BY <1>4 DEF MarkReceipt, endpoint
  <2>2. draft # None /\ draft = q
    BY <1>1, <2>1 DEF StepOK
  <2>3. journal' = [journal EXCEPT ![ThisDispatch] = k]
    BY <1>1, <1>4 DEF MarkReceipt, LabInv, LabTypeOK, Journal, ThisJournal, j
  <2>4. /\ k \in Journal /\ k.attempts = j.attempts
        /\ k.phase = IF j.phase = "complete_response_observed"
                     THEN "receipt_written" ELSE j.phase
        /\ k.failed = j.failed /\ k.response = j.response
        /\ k.intent = j.intent /\ k.hash = draft
    BY <1>1 DEF Journal, Phases
  <2> HIDE DEF k
  <2>5. Fitting(j, j.intent) => Fitting(k, j.intent)
    BY <2>4 DEF Fitting, FromResponse, ReceiptOf
  <2>6. DispatchOK(k, q, n, s)
    BY <1>1, <2>2, <2>4, <2>5 DEF DispatchOK
  <2>7. LabTypeOK'
    BY <1>0, <1>1, <2>1, <2>3, <2>4, LabConstants
       DEF LabInv, LabTypeOK, StepInv
  <2>8. FilesInv'
    <3>1. /\ journal'[ThisDispatch] = k
          /\ \A d \in Dispatch \ {ThisDispatch} : journal'[d] = journal[d]
      BY <1>1, <2>3 DEF LabInv, LabTypeOK
    <3> QED BY <2>1, <2>6, <3>1 DEF LabInv, FilesInv, ThisReceipt, q, n, s
  <2>9. StepInv'
    BY <1>0, <2>1 DEF LabInv, StepInv, AtDispatch
  <2> QED BY <2>7, <2>8, <2>9 DEF LabInv
<1> QED BY <1>2, <1>3, <1>4

-----------------------------------------------------------------------------
(* The two processes together.                                              *)

(* Every step of P142 keeps its invariant.                                  *)
LEMMA LabNextInv == AuthorityInv /\ LabInv /\ LabNext => LabInv'
<1> SUFFICES ASSUME AuthorityInv, LabInv, LabNext PROVE LabInv'
  OBVIOUS
<1>1. CASE LabCrash
  BY <1>1, StopInv, LabConstants DEF LabCrash, LabInv, LabTypeOK
<1>2. CASE DispatchTimesOut \/ LabBudgetRefuses
  BY <1>2, StopInv DEF DispatchTimesOut, LabBudgetRefuses, LabInv, LabTypeOK
<1> QED
  BY <1>1, <1>2, RunInvNext, RecoverNext, AttemptNext, ReceiptNext
     DEF LabNext, Listing, Dispatching

(* So does a step of P141, which leaves P142's files alone.                 *)
LEMMA LabUnchanged == LabInv /\ UNCHANGED labVars => LabInv'
BY DEF LabInv, LabTypeOK, FilesInv, StepInv, labVars, labDisk, labRun,
       endpoint, ThisDispatch, DispatchAt, ThisJournal, ThisReceipt

(* The invariant of both holds throughout.                                  *)
THEOREM Invariance == Spec => []IndInv
<1>1. Init => IndInv
  BY AuthorityInitInv, LabInitInv DEF Init, IndInv
<1>2. IndInv /\ [Next]_vars => IndInv'
  BY AuthorityNextInv, LabNextInv, LabUnchanged DEF Next, vars, IndInv
<1> QED BY <1>1, <1>2, PTL DEF Spec

(* The files and the locals of both processes are well typed; the endpoint  *)
(* never sees a second request for a dispatch.                              *)
THEOREM TypeCorrect == Spec => []TypeOK
<1>1. IndInv => TypeOK
  BY DEF IndInv, AuthorityInv, AuthorityTypeInv, LabInv, LabTypeOK, TypeOK,
         AtDispatch
<1> QED BY <1>1, Invariance, PTL

(* P141's cursor never passes an event some destination of which lacks its  *)
(* envelope or its receipt, whatever kill comes between the writes of       *)
(* process_pending_notifications, and no receipt stands without its         *)
(* envelope.                                                                *)
THEOREM CursorIsCovered == Spec => []CursorCoversArtifacts
<1>1. IndInv => CursorCoversArtifacts
  BY DEF IndInv, AuthorityInv
<1> QED BY <1>1, Invariance, PTL

(* Once _preflight_event_budget has let an event through, _reserve_budget   *)
(* finds a file left in the budget before each of its writes.               *)
THEOREM AdmittedEventsFit == Spec => []AdmittedEventFits
<1>1. IndInv => AdmittedEventFits
  BY DEF IndInv, AuthorityInv
<1> QED BY <1>1, Invariance, PTL

(* The journal and the receipt that a kill leaves can be taken up by        *)
(* _dispatch_or_recover, unless the attempt has been begun and its          *)
(* connection may have been made.                                           *)
THEOREM OnlyOpenSocketIsRefused == Spec => []OnlyOpenSocketRefused
<1>1. IndInv => OnlyOpenSocketRefused
  <2> SUFFICES ASSUME LabInv, NEW d \in Dispatch
               PROVE  \/ Resumable(journal[d], receipts[d])
                      \/ /\ journal[d].phase = "pre_socket"
                         /\ ~journal[d].failed /\ receipts[d] = None
    BY DEF IndInv, OnlyOpenSocketRefused, OpenSocket
  <2> DEFINE j == journal[d]
             q == receipts[d]
  <2>1. /\ j \in Journal /\ q \in Receipt \union {None}
        /\ DispatchOK(j, q, requests[d], answered[d])
    BY DEF LabInv, LabTypeOK, FilesInv
  <2> HIDE DEF j, q
  <2>2. CASE q # None
    <3>1. /\ j.intent = q /\ Fitting(j, q) /\ j.hash \in {None, q}
      BY <2>1, <2>2 DEF DispatchOK
    <3>2. j.attempts = q.attempts /\ ExpectedReceipt(j) = q
      BY <3>1 DEF Fitting, ExpectedReceipt
    <3> QED BY <2>2, <3>1, <3>2 DEF Resumable, Settled, Unmarked, q, j
  <2>3. CASE q = None /\ j.intent # None
    <3>1. j.hash = None /\ Fitting(j, j.intent)
      BY <2>1, <2>3 DEF DispatchOK
    <3>2. ExpectedReceipt(j) = j.intent
      BY <3>1 DEF Fitting, ExpectedReceipt
    <3> QED BY <2>3, <3>1, <3>2 DEF Resumable, Intended, Fitting, q, j
  <2>4. CASE q = None /\ j.intent = None
    <3>1. NotIntended(j, q)
      BY <2>4 DEF NotIntended
    <3>2. j.phase # "receipt_written" /\ (j.phase = "none" => j.attempts = 0)
      BY <2>1, <2>4 DEF DispatchOK
    <3>3. j.phase \in Phases
      BY <2>1 DEF Journal
    <3> QED BY <2>4, <3>1, <3>2, <3>3
            DEF Resumable, Unknown, Responded, Retriable, Phases, q, j
  <2> QED BY <2>2, <2>3, <2>4
<1> QED BY <1>1, Invariance, PTL

-----------------------------------------------------------------------------
(* The refinement.                                                          *)

(* The outcome DispatchOnce sees.                                           *)
OutcomeOf(q) == IF q = None THEN "open" ELSE q.outcome

(* A request that reaches the endpoint is the first one of a dispatch that  *)
(* has no receipt yet.                                                      *)
LEMMA SendIsRequest ==
    ASSUME LabInv, SendRequest, ~UNCHANGED endpoint
    PROVE  \E s \in {"2xx", "other"} : Once!Request(ThisDispatch, s)
<1> DEFINE T == ThisDispatch
<1>1. PICK s \in Status :
         /\ requests' = [requests EXCEPT ![T] = @ + 1]
         /\ answered' = [answered EXCEPT ![T] = s]
  BY DEF SendRequest
<1>2. lpc = "send" /\ lpc \in AtDispatch /\ receipts' = receipts
  BY DEF SendRequest, AtDispatch, labDisk
<1>3. T \in Dispatch /\ requests[T] = 0 /\ receipts[T] = None
  BY <1>2, ThisDispatchInv DEF StepOK, ThisReceipt
<1>4. requests' = [requests EXCEPT ![T] = 1]
  BY <1>1, <1>3
<1> QED BY <1>1, <1>2, <1>3, <1>4 DEF Once!Request, Status

(* The receipt that is written is the first one of its dispatch, and it     *)
(* claims no more than what the endpoint saw.                               *)
LEMMA WriteIsSettle ==
    ASSUME LabInv, WriteReceipt
    PROVE  /\ ThisDispatch \in Dispatch /\ draft.outcome \in Outcome
           /\ Once!Settle(ThisDispatch, draft.outcome)
<1> DEFINE T == ThisDispatch
<1>1. /\ lpc = "receipt" /\ lpc \in AtDispatch
      /\ receipts' = [receipts EXCEPT ![T] = draft]
      /\ UNCHANGED <<requests, answered>>
  BY DEF WriteReceipt, AtDispatch, endpoint
<1>2. /\ T \in Dispatch /\ draft \in Receipt /\ receipts[T] = None
      /\ Fitting(journal[T], draft) /\ journal[T] \in Journal
      /\ DispatchOK(journal[T], receipts[T], requests[T], answered[T])
  BY <1>1, ThisDispatchInv DEF StepOK, DispatchOK, ThisJournal, ThisReceipt
<1>3. Once!Truthful(draft.outcome, requests[T], answered[T])
  <2>1. CASE journal[T].phase = "pre_socket"
    BY <1>2, <2>1 DEF Fitting, DispatchOK, Once!Truthful
  <2>2. CASE journal[T].phase = "request_committed"
    BY <1>2, <2>2 DEF Fitting, DispatchOK, Once!Truthful
  <2>3. CASE journal[T].phase \in {"complete_response_observed",
                                   "receipt_written"}
    <3>1. /\ journal[T].response = answered[T] /\ answered[T] # None
          /\ draft = FromResponse(journal[T]) /\ journal[T].attempts # 0
      BY <1>2, <2>3 DEF Fitting, DispatchOK
    <3>2. draft.outcome = IF answered[T] = "2xx" THEN "delivered"
                          ELSE "rejected"
      BY <1>2, <3>1, FromResponseType
    <3>3. answered[T] \in Status
      BY <1>2, <3>1 DEF Journal
    <3> QED BY <3>2, <3>3 DEF Once!Truthful, Status
  <2> QED BY <1>2, <2>1, <2>2, <2>3 DEF Fitting
<1>4. /\ draft # None /\ draft.outcome \in Outcome
  BY <1>2, LabConstants DEF Receipt
<1>5. [d \in Dispatch |-> OutcomeOf(receipts'[d])]
        = [[d \in Dispatch |-> OutcomeOf(receipts[d])]
              EXCEPT ![T] = draft.outcome]
  BY <1>1, <1>2, <1>4 DEF LabInv, LabTypeOK, OutcomeOf
<1> QED BY <1>1, <1>2, <1>3, <1>4, <1>5 DEF Once!Settle, OutcomeOf

(* The transport implements DispatchOnce: at most one request for each      *)
(* dispatch, none after its receipt, one receipt that never changes and     *)
(* says no more than the endpoint saw.                                      *)
THEOREM TransportImplementsDispatchOnce == Spec => ImplementsDispatchOnce
<1>1. Init => Once!Init
  BY DEF Init, LabInit, Once!Init
<1>2. IndInv /\ [Next]_vars => [Once!Next]_Once!vars
  <2>0. UNCHANGED <<receipts, requests, answered>> => UNCHANGED Once!vars
    BY DEF Once!vars
  <2> SUFFICES ASSUME IndInv, [Next]_vars
               PROVE  Once!Next \/ UNCHANGED <<receipts, requests, answered>>
    BY <2>0
  <2>1. CASE SendRequest
    <3>1. CASE UNCHANGED endpoint
      BY <2>1, <3>1 DEF SendRequest, endpoint, labDisk
    <3>2. CASE ~UNCHANGED endpoint
      <4>1. ThisDispatch \in Dispatch
        BY <2>1, ThisDispatchInv DEF IndInv, SendRequest, AtDispatch
      <4> QED BY <2>1, <3>2, <4>1, SendIsRequest DEF IndInv, Once!Next
    <3> QED BY <3>1, <3>2
  <2>2. CASE WriteReceipt
    <3>1. /\ ThisDispatch \in Dispatch /\ draft.outcome \in Outcome
          /\ Once!Settle(ThisDispatch, draft.outcome)
      BY <2>2, WriteIsSettle DEF IndInv
    <3> QED BY <3>1, Zenon DEF Once!Next, Once!Settle, Outcome
  <2>3. CASE UNCHANGED <<receipts, requests, answered>>
    BY <2>3
  <2> QED
    BY <2>1, <2>2, <2>3
       DEF vars, Next, LabNext, Listing, Dispatching, labVars, labDisk,
           endpoint, GoTo, WriteJournal, ListEnvelopes, ListReceipts,
           TakeBatch, TakeTarget, ReplayReceipt, FinishMark, ReplayIntent,
           RecoverUnknown, RecoverResponse, ResumeAttempts, RecoveryRaises,
           StartAttempt, AttemptsExhausted, ConnectFails, GiveUpConnecting,
           RetryConnecting, DispatchTimesOut, CommitRequest, ObserveResponse, RequestFails,
           MalformedResponse, WriteIntent, MarkReceipt, WriteLabCursor,
           LabBudgetRefuses, LabCrash
<1> QED
  BY <1>1, <1>2, Invariance, PTL DEF Spec, ImplementsDispatchOnce, Once!Spec
=============================================================================
