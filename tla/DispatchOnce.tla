----------------------------- MODULE DispatchOnce -----------------------------
(***************************************************************************)
(* What the P142 transport promises for every dispatch, files, runs and    *)
(* kills left out: at most one request, none after the receipt, one        *)
(* receipt that never changes, and a receipt that does not say more than   *)
(* what the endpoint saw.                                                  *)
(***************************************************************************)
EXTENDS Naturals

CONSTANTS Dispatch, None

VARIABLES
    requests,   \* requests the endpoint has received for each dispatch
    answered,   \* the class of its answer, or None
    outcome     \* what the dispatch's receipt says, or "open"

vars == <<requests, answered, outcome>>

Init ==
    /\ requests = [d \in Dispatch |-> 0]
    /\ answered = [d \in Dispatch |-> None]
    /\ outcome = [d \in Dispatch |-> "open"]

Request(d, s) ==
    /\ outcome[d] = "open" /\ requests[d] = 0
    /\ requests' = [requests EXCEPT ![d] = 1]
    /\ answered' = [answered EXCEPT ![d] = s]
    /\ UNCHANGED outcome

(* What a receipt may say when the endpoint has seen n requests and has     *)
(* answered s: "connection_failed" only if no request has reached it, and   *)
(* a status only if it has answered with one of that class.                 *)
Truthful(o, n, s) ==
    /\ o = "connection_failed" => n = 0
    /\ o = "delivered" => s = "2xx"
    /\ o = "rejected" => s = "other"

Settle(d, o) ==
    /\ outcome[d] = "open"
    /\ Truthful(o, requests[d], answered[d])
    /\ outcome' = [outcome EXCEPT ![d] = o]
    /\ UNCHANGED <<requests, answered>>

Next ==
    \E d \in Dispatch :
        \/ \E s \in {"2xx", "other"} : Request(d, s)
        \/ \E o \in {"delivered", "rejected", "connection_failed",
                     "request_committed_failed",
                     "request_committed_response_unknown"} : Settle(d, o)

Spec == Init /\ [][Next]_vars
=============================================================================
