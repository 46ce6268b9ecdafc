--------------------------- MODULE NotificationUnit ---------------------------
(***************************************************************************)
(* The service around P141: the loop of app/p141_notification_cli.py,      *)
(* which makes a run per poll interval and ends at the first one that      *)
(* raises, and the systemd unit deploy/p141/opscat-notification-authority. *)
(* service, which starts it again until its start limit is used up.        *)
(*                                                                         *)
(* Every step is one of P141, with what it means for the service, or a     *)
(* step of the service that leaves P141's files alone.  Operators make     *)
(* runs by hand beside it; these, and the listings of P142, take the lease *)
(* and make a run of the service raise meanwhile.                          *)
(***************************************************************************)
EXTENDS NotificationAuthority

CONSTANT StartLimit   \* StartLimitBurst of the unit

ASSUME StartLimitAssumption == StartLimit \in Nat \ {0}

VARIABLES
    unit,     \* the service: about to make its first run, in a run, asleep
              \* after a run, ended by an exception, or given up
    starts    \* its starts within the window of the limit

unitVars == <<unit, starts>>
serviceVars == <<authorityVars, unitVars>>

UnitInit == AuthorityInit /\ unit = "started" /\ starts = 1

Awake == unit \in {"started", "asleep"}

UnitRuns ==
    /\ Awake /\ BeginAuthorityRun
    /\ unit' = "running"
    /\ UNCHANGED starts

(* A lease is held by somebody else, or the cursor, the clock, the outbox or
   the completed attempts are refused: the process exits with an error.     *)
UnitRefused ==
    /\ Awake /\ ~RunAccepted
    /\ unit' = "down"
    /\ UNCHANGED <<authorityVars, starts>>

RunByHand == BeginAuthorityRun /\ UNCHANGED unitVars

(* Variant: the loop goes on after a run that raised.                       *)
VariantLoopGoesOn ==
    /\ TakeEvent \/ PersistEnvelope \/ PersistReceipt \/ WriteAuthorityCursor
    /\ unit' = IF unit # "running" \/ apc' # "idle" THEN unit ELSE "asleep"
    /\ UNCHANGED starts

(* The rest of a run.  It ends well when no event is left, and by an
   exception otherwise.                                                     *)
RunStep ==
    /\ TakeEvent \/ PersistEnvelope \/ PersistReceipt \/ WriteAuthorityCursor
    /\ unit' = IF unit # "running" \/ apc' # "idle" THEN unit
               ELSE IF apc = "event" /\ current > last THEN "asleep"
               ELSE "down"
    /\ UNCHANGED starts

RunKilled ==
    /\ AuthorityCrash
    /\ unit' = IF unit = "running" THEN "down" ELSE unit
    /\ UNCHANGED starts

(* Restart=on-failure: a start within the limit, or none ever again.        *)
Restart ==
    /\ unit = "down"
    /\ IF starts < StartLimit
       THEN unit' = "started" /\ starts' = starts + 1
       ELSE unit' = "failed" /\ UNCHANGED starts
    /\ UNCHANGED authorityVars

(* The window of the limit passes over a service that has made a run since
   its start.  One whose first run raises is started again after RestartSec,
   so its starts fall into one window.                                      *)
WindowPasses ==
    /\ unit = "asleep" /\ starts > 1
    /\ starts' = 1
    /\ UNCHANGED <<authorityVars, unit>>

Outside ==
    /\ PublishEvent \/ PruneOutbox \/ TroubleComesOrGoes
    /\ UNCHANGED unitVars

UnitNext ==
    \/ UnitRuns \/ UnitRefused \/ RunByHand \/ RunStep \/ RunKilled
    \/ Restart \/ WindowPasses \/ Outside

(* Fairness.  A run that has begun goes on; the loop makes its next run, and
   the unit its next start, when it is due.  Nothing is assumed of operators
   or of the troubles.                                                      *)
UnitSpec ==
    /\ UnitInit /\ [][UnitNext]_serviceVars
    /\ WF_serviceVars(RunStep)
    /\ WF_serviceVars(UnitRuns \/ UnitRefused)
    /\ WF_serviceVars(Restart)

-----------------------------------------------------------------------------
(* Properties.                                                              *)

(* Every event that P133 writes comes to be turned into the envelopes and
   receipts of all its destinations, after any number of kills and refusals,
   unless P133's retention removes it first or the unit has used up its start
   limit and is marked failed: the service never goes on running beside an
   event it does not process.  What makes it fail (an earlier event that
   retention removed, a kind that the configuration rejects, a budget that is
   used up, a lease, a file left in a directory) may last or not.           *)
EventsAreProcessed ==
    \A e \in Event :
        (e \in outbox) ~> (cursor >= e \/ e \notin outbox \/ unit = "failed")
=============================================================================
