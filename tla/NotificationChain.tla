-------------------------- MODULE NotificationChain --------------------------
(***************************************************************************)
(* P141 and P142 side by side.  They share P141's files, which only P141   *)
(* writes, and P141's lease, which P142's listing takes too.               *)
(***************************************************************************)
EXTENDS LoopbackTransport

vars == <<authorityVars, labVars>>

Init == AuthorityInit /\ LabInit

Next ==
    \/ AuthorityNext /\ UNCHANGED labVars
    \/ LabNext /\ UNCHANGED authorityVars

Spec == Init /\ [][Next]_vars

(* A run of P142 that has begun goes on.  Nothing is assumed of its starts: *)
(* no unit runs it, an operator does.                                       *)
FairSpec == Spec /\ WF_vars(Dispatching /\ UNCHANGED authorityVars)

-----------------------------------------------------------------------------
TypeOK ==
    /\ AuthorityTypeOK
    /\ dispatches \subseteq Dispatch
    /\ journal \in [Dispatch -> Journal]
    /\ receipts \in [Dispatch -> Receipt \union {None}]
    /\ labCursor \in 0..MaxEvents
    /\ lpc \in {"idle", "listed", "batch", "target", "recover", "attempt",
                "connect", "failed", "send", "await", "intent", "receipt",
                "mark", "cursor"}
    /\ listed \subseteq Attempt /\ batch \in Event \union {1}
    /\ place \in 1..(Len(Targets) + 1)
    /\ draft \in Receipt \union {None}
    /\ requests \in [Dispatch -> 0..1]
    /\ answered \in [Dispatch -> Status \union {None}]
    /\ labCrashes \in 0..MaxLabCrashes

(* An attempt was begun and its connection may or may not have been made.   *)
OpenSocket(d) == journal[d].phase = "pre_socket" /\ ~journal[d].failed

(* Whatever a kill has cut short, the journal and the receipt of every      *)
(* dispatch can be taken up by the next run: the only state it refuses is   *)
(* an attempt that was begun and whose connection may or may not have been  *)
(* made (pre_socket_replay_without_failure).                                *)
OnlyOpenSocketRefused ==
    \A d \in Dispatch :
        \/ Resumable(journal[d], receipts[d])
        \/ OpenSocket(d) /\ receipts[d] = None

(* The promise of the transport: DispatchOnce.                              *)
Once == INSTANCE DispatchOnce WITH
            outcome <- [d \in Dispatch |-> IF receipts[d] = None THEN "open"
                                           ELSE receipts[d].outcome]
ImplementsDispatchOnce == Once!Spec

=============================================================================
