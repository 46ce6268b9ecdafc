------------------------- MODULE MCIncidentWorkflow -------------------------
(* The incident workflow on small instances: one scenario of each kind the
   mock agent knows, one or two sessions.                                   *)
EXTENDS IncidentWorkflow, TLC

CONSTANTS backlog, regression, storm, protected, ambiguous, unhandled

Kind(policy, requires_approval, hard, ok, recovered) ==
    [policy |-> policy, requires_approval |-> requires_approval,
     hard |-> hard, ok |-> ok, recovered |-> recovered]

(* A worker backlog that a restart cures; a deploy whose rollback does not
   pass the post-check; a duplicate storm with an action that needs no
   approval; an action the policy denies; a diagnosis of low confidence; an
   action type the executor has no handler for.                             *)
Kinds ==
    (backlog    :> Kind("REQUIRE_APPROVAL", TRUE, FALSE, TRUE, TRUE)) @@
    (regression :> Kind("REQUIRE_APPROVAL", TRUE, FALSE, TRUE, FALSE)) @@
    (storm      :> Kind("ALLOW", FALSE, FALSE, TRUE, TRUE)) @@
    (protected  :> Kind("DENY", TRUE, TRUE, TRUE, TRUE)) @@
    (ambiguous  :> Kind("REQUIRE_APPROVAL", TRUE, TRUE, TRUE, TRUE)) @@
    (unhandled  :> Kind("ALLOW", TRUE, FALSE, FALSE, TRUE))

AllKinds == [al \in Alerts |-> Kinds[al]]

Overlapping == Permutations(Sessions)
=============================================================================
