-------------------------- MODULE IncidentWorkflow --------------------------
(***************************************************************************)
(* The incident workflow of the OpsCat API: alerts become incidents, the   *)
(* worker or a request investigates them, a human decides on the proposed  *)
(* action, an approved action is executed and verified                     *)
(* (app/services/incident_service.py, workflow_service.py, night_autopilot *)
(* .py, state_machine.py, app/agent/loop.py, scripts/workflow_cli.py).     *)
(*                                                                         *)
(* Every request, and every run of the worker, has a database session of   *)
(* its own and the handlers run in parallel threads.  A handler first      *)
(* reads rows; from its first flush to its commit it holds the write lock  *)
(* of the SQLite database.  So a request is two steps here: one that       *)
(* loads, and one that writes what follows from the rows as they were when *)
(* loaded.  An exception anywhere rolls everything back.                   *)
(*                                                                         *)
(* The scenario of an alert fixes what the deterministic agent, policy     *)
(* engine and mock executor answer; what they compute it from, redaction,  *)
(* tenants and the wording of the timeline are left out.                   *)
(***************************************************************************)
EXTENDS Integers, Sequences, FiniteSets, SequencesExt

CONSTANTS
    Alerts,         \* alerts, each with its own idempotency key
    Scenario,       \* what agent, policy and executor make of each alert
    Sessions,       \* requests and workers that may overlap
    MaxIncidents,   \* bound: incidents when an alert is accepted
    MaxMoves,       \* bound: recorded transitions when a decision starts
    MaxTries        \* bound: runs of one job that raise

Decisions == {"ALLOW", "REQUIRE_APPROVAL", "DENY", "ESCALATE"}

ASSUME ScenarioAssumption ==
    Scenario \in [Alerts -> [policy : Decisions, requires_approval : BOOLEAN,
                             hard : BOOLEAN, ok : BOOLEAN, recovered : BOOLEAN]]

ASSUME WorkflowBounds ==
    /\ MaxIncidents \in Nat
    /\ MaxMoves \in Nat
    /\ MaxTries \in Nat

VARIABLES
    incidents,   \* table of incidents, in order of creation
    timeline,    \* for each incident, its state_transition events
    actions,     \* table of action proposals
    approvals,   \* approval decisions on record
    attempts,    \* action execution attempts on record, in order
    jobs,        \* table of workflow jobs, in order of creation
    tries,       \* history: how often each job has been run by a worker
    sess         \* what each session has loaded

tables == <<incidents, timeline, actions, approvals, attempts, jobs>>
vars == <<tables, tries, sess>>

-----------------------------------------------------------------------------
(* state_machine.py.                                                        *)

ALLOWED_TRANSITIONS ==
    [new                |-> {"queued", "investigating", "failed"},
     queued             |-> {"investigating", "escalated", "failed"},
     investigating      |-> {"needs_more_context", "action_proposed",
                             "escalated", "failed"},
     needs_more_context |-> {"investigating", "escalated", "failed"},
     action_proposed    |-> {"waiting_approval", "executing", "escalated",
                             "failed"},
     waiting_approval   |-> {"executing", "escalated", "failed"},
     executing          |-> {"verifying", "escalated", "failed"},
     verifying          |-> {"resolved", "degraded", "needs_human",
                             "escalated", "failed"},
     degraded           |-> {"needs_human", "escalated", "failed"},
     needs_human        |-> {"escalated", "failed"},
     resolved           |-> {},
     escalated          |-> {"investigating", "failed"},
     false_positive     |-> {},
     failed             |-> {}]

States == DOMAIN ALLOWED_TRANSITIONS

(* Variant: the table is not consulted.                                     *)
VariantAnyTransition(from, to) == TRUE

transition_incident(from, to) == to = from \/ to \in ALLOWED_TRANSITIONS[from]

(* A handler calls transition_incident for each two neighbours of a path;
   one that is not allowed raises.                                          *)
Allowed(path) ==
    \A k \in 1..(Len(path) - 1) : transition_incident(path[k], path[k + 1])

Moves(path) == [k \in 1..(Len(path) - 1) |-> <<path[k], path[k + 1]>>]

-----------------------------------------------------------------------------
(* The statuses an investigation leaves behind: a hard escalation trigger,
   a denial or an escalation by policy keep the action from being executed. *)
Proposal(al) ==
    LET sc == Scenario[al]
    IN  CASE sc.policy = "DENY" ->
                [incident |-> "escalated", action |-> "denied"]
          [] sc.policy = "ESCALATE" \/ (sc.policy # "DENY" /\ sc.hard) ->
                [incident |-> "escalated", action |-> "escalated"]
          [] sc.policy = "ALLOW" /\ ~sc.requires_approval /\ ~sc.hard ->
                [incident |-> "executing", action |-> "proposed"]
          [] OTHER ->
                [incident |-> "waiting_approval", action |-> "proposed"]

(* The policy engine asked again with the approval in hand.  The action of
   the night autopilot is the one its policy allows.                        *)
PolicyAllowsApproved(a) ==
    \/ actions[a].auto
    \/ Scenario[incidents[actions[a].incident].alert].policy
          \in {"ALLOW", "REQUIRE_APPROVAL"}

(* Variant: the post-check is not looked at.                                *)
VariantTrustExecution(al) ==
    IF Scenario[al].ok
    THEN [path |-> <<"executing", "verifying", "resolved">>,
          action |-> "executed", attempt |-> "succeeded"]
    ELSE [path |-> <<"executing", "escalated">>,
          action |-> "failed", attempt |-> "execution_failed"]

(* Execution and post-check of an approved action.                          *)
Execution(al) ==
    CASE ~Scenario[al].ok ->
            [path |-> <<"executing", "escalated">>,
             action |-> "failed", attempt |-> "execution_failed"]
      [] Scenario[al].ok /\ Scenario[al].recovered ->
            [path |-> <<"executing", "verifying", "resolved">>,
             action |-> "executed", attempt |-> "succeeded"]
      [] OTHER ->
            [path |-> <<"executing", "verifying", "escalated">>,
             action |-> "executed", attempt |-> "post_check_failed"]

-----------------------------------------------------------------------------
ActionsOf(i) == {a \in DOMAIN actions : actions[a].incident = i}

Matching(al) == {i \in DOMAIN incidents :
                    incidents[i].alert = al /\ incidents[i].keyed}
JobsFor(al) == {j \in DOMAIN jobs : jobs[j].alert = al}

NewId == Len(incidents) + 1
LastOf(path) == path[Len(path)]

Free == [op |-> "none"]

(* What a session holds of an incident: its status and whether it has
   actions, as they were when it was loaded.                                *)
Loaded(op, i) ==
    [op |-> op, incident |-> i, alert |-> incidents[i].alert,
     status |-> incidents[i].status, acted |-> ActionsOf(i) # {}]

CanStart(s) == sess[s] = Free
HasRoom == FoldSeq(LAMBDA path, n : n + Len(path), 0, timeline) < MaxMoves
End(s) == sess' = [sess EXCEPT ![s] = Free]

(* Writes an incident's last status, records its transitions.               *)
WriteIncident(i, path) ==
    /\ Allowed(path)
    /\ incidents' = [incidents EXCEPT ![i].status = LastOf(path)]
    /\ timeline' = [timeline EXCEPT ![i] = @ \o Moves(path)]

InsertIncident(al, keyed, path) ==
    /\ Allowed(path)
    /\ incidents' = Append(incidents, [alert |-> al, keyed |-> keyed,
                                       status |-> LastOf(path)])
    /\ timeline' = Append(timeline, Moves(path))

InsertAction(i, status, auto) ==
    actions' = Append(actions, [incident |-> i, status |-> status,
                                auto |-> auto])

(* enqueue_incident_workflow: one job for each deduplication key.           *)
Enqueue(al, i) ==
    IF JobsFor(al) # {}
    THEN UNCHANGED <<jobs, tries>>
    ELSE /\ jobs' = Append(jobs, [alert |-> al, incident |-> i,
                                  status |-> "pending", attempt_count |-> 0])
         /\ tries' = Append(tries, 0)

(* AgentLoop.investigate on an incident that was loaded with status from.   *)
Investigate(i, al, from) ==
    /\ WriteIncident(i, <<from, "investigating", "action_proposed",
                          Proposal(al).incident>>)
    /\ InsertAction(i, Proposal(al).action, FALSE)

-----------------------------------------------------------------------------
Init ==
    /\ incidents = <<>> /\ timeline = <<>> /\ actions = <<>>
    /\ approvals = {} /\ attempts = <<>>
    /\ jobs = <<>> /\ tries = <<>>
    /\ sess = [s \in Sessions |-> Free]

(* An alert arrives, to be queued or to be processed at once.  Two incidents
   with its fingerprint make one_or_none raise.                             *)
LoadAlert(s) ==
    /\ CanStart(s)
    /\ \E al \in Alerts, op \in {"enqueue", "process_now"} :
          /\ Matching(al) # {} \/ Len(incidents) < MaxIncidents
          /\ Cardinality(Matching(al)) <= 1
          /\ sess' = [sess EXCEPT ![s] =
                IF Matching(al) = {}
                THEN [op |-> op, incident |-> 0, alert |-> al,
                      status |-> "new", acted |-> FALSE]
                ELSE Loaded(op, CHOOSE i \in Matching(al) : TRUE)]
    /\ UNCHANGED <<tables, tries>>

(* create_and_enqueue for an alert that had no incident when looked for.    *)
EnqueueNew(s) ==
    /\ sess[s].op = "enqueue" /\ sess[s].incident = 0
    /\ InsertIncident(sess[s].alert, TRUE, <<"new", "queued">>)
    /\ Enqueue(sess[s].alert, NewId)
    /\ End(s)
    /\ UNCHANGED <<actions, approvals, attempts>>

EnqueueExisting(s) ==
    /\ sess[s].op = "enqueue" /\ sess[s].incident # 0
    /\ IF ~sess[s].acted /\ sess[s].status \in {"new", "queued"}
       THEN Enqueue(sess[s].alert, sess[s].incident)
       ELSE UNCHANGED <<jobs, tries>>
    /\ End(s)
    /\ UNCHANGED <<incidents, timeline, actions, approvals, attempts>>

(* create_and_investigate.                                                  *)
ProcessNew(s) ==
    /\ sess[s].op = "process_now" /\ sess[s].incident = 0
    /\ InsertIncident(sess[s].alert, TRUE,
            <<"new", "queued", "investigating", "action_proposed",
              Proposal(sess[s].alert).incident>>)
    /\ InsertAction(NewId, Proposal(sess[s].alert).action, FALSE)
    /\ End(s)
    /\ UNCHANGED <<approvals, attempts, jobs, tries>>

ProcessExisting(s) ==
    /\ sess[s].op = "process_now" /\ sess[s].incident # 0
    /\ IF ~sess[s].acted /\ sess[s].status \in {"new", "queued", "investigating"}
       THEN Investigate(sess[s].incident, sess[s].alert, sess[s].status)
       ELSE UNCHANGED <<incidents, timeline, actions>>
    /\ End(s)
    /\ UNCHANGED <<approvals, attempts, jobs, tries>>

(* POST /incidents/{id}/investigate.                                        *)
LoadInvestigate(s) ==
    /\ CanStart(s)
    /\ \E i \in DOMAIN incidents :
          /\ ActionsOf(i) = {}
          /\ sess' = [sess EXCEPT ![s] = Loaded("investigate", i)]
    /\ UNCHANGED <<tables, tries>>

FinishInvestigate(s) ==
    /\ sess[s].op = "investigate"
    /\ Investigate(sess[s].incident, sess[s].alert, sess[s].status)
    /\ End(s)
    /\ UNCHANGED <<approvals, attempts, jobs, tries>>

-----------------------------------------------------------------------------
(* process_next_workflow_job, called and committed by the worker CLI: the
   oldest pending job is taken; nothing keeps others from taking it too.    *)
LoadJob(s) ==
    /\ CanStart(s)
    /\ \E j \in DOMAIN jobs :
          /\ jobs[j].status = "pending"
          /\ \A k \in 1..(j - 1) : jobs[k].status # "pending"
          /\ tries[j] < MaxTries
          /\ sess' = [sess EXCEPT ![s] =
                [op |-> "drain", job |-> j, tried |-> jobs[j].attempt_count,
                 of |-> Loaded("drain", jobs[j].incident)]]
    /\ UNCHANGED <<tables, tries>>

(* Variant: the job is completed without its investigation.                 *)
VariantSkipWork(s) ==
    /\ sess[s].op = "drain"
    /\ jobs' = [jobs EXCEPT ![sess[s].job].status = "completed",
                            ![sess[s].job].attempt_count = sess[s].tried + 1]
    /\ tries' = [tries EXCEPT ![sess[s].job] = @ + 1]
    /\ End(s)
    /\ UNCHANGED <<incidents, timeline, actions, approvals, attempts>>

CompleteJob(s) ==
    /\ sess[s].op = "drain"
    /\ LET l == sess[s].of
       IN  IF ~l.acted /\ l.status \in {"new", "queued", "investigating"}
           THEN Investigate(l.incident, l.alert, l.status)
           ELSE UNCHANGED <<incidents, timeline, actions>>
    /\ jobs' = [jobs EXCEPT ![sess[s].job].status = "completed",
                            ![sess[s].job].attempt_count = sess[s].tried + 1]
    /\ tries' = [tries EXCEPT ![sess[s].job] = @ + 1]
    /\ End(s)
    /\ UNCHANGED <<approvals, attempts>>

(* The investigation raises.  The handler sets the job to failed or pending
   and raises again; the CLI closes the session without a commit.           *)
JobRaises(s) ==
    /\ sess[s].op = "drain"
    /\ tries' = [tries EXCEPT ![sess[s].job] = @ + 1]
    /\ End(s)
    /\ UNCHANGED tables

-----------------------------------------------------------------------------
(* decide_action.  Approving an executed action returns at once.            *)
LoadDecision(s) ==
    /\ CanStart(s)
    /\ HasRoom
    /\ \E a \in DOMAIN actions, decision \in {"approve", "reject"} :
          /\ ~(decision = "approve" /\ actions[a].status = "executed")
          /\ sess' = [sess EXCEPT ![s] =
                [op |-> decision, action |-> a, was |-> actions[a].status,
                 of |-> Loaded(decision, actions[a].incident)]]
    /\ UNCHANGED <<tables, tries>>

(* Variant: the decision is not put on record.                              *)
VariantNoDecision(s) == UNCHANGED approvals

RecordDecision(s) ==
    approvals' = approvals \union {[action   |-> sess[s].action,
                                    decision |-> sess[s].op]}

(* The ORM writes a column only when its value differs from the loaded one. *)
Column(current, loaded, value) == IF value = loaded THEN current ELSE value

Reject(s) ==
    /\ sess[s].op = "reject"
    /\ LET l == sess[s].of
       IN  /\ Allowed(<<l.status, "escalated">>)
           /\ incidents' = [incidents EXCEPT ![l.incident].status =
                                Column(@, l.status, "escalated")]
           /\ timeline' = [timeline EXCEPT ![l.incident] =
                                @ \o Moves(<<l.status, "escalated">>)]
    /\ actions' = [actions EXCEPT ![sess[s].action].status =
                        Column(@, sess[s].was, "rejected")]
    /\ RecordDecision(s)
    /\ End(s)
    /\ UNCHANGED <<attempts, jobs, tries>>

(* The policy does not allow the action even when approved: a human is woken,
   and the incident escalated unless it is already or may not be.           *)
ApproveDenied(s) ==
    /\ sess[s].op = "approve"
    /\ ~PolicyAllowsApproved(sess[s].action)
    /\ LET l == sess[s].of
       IN  IF l.status # "escalated" /\ Allowed(<<l.status, "escalated">>)
           THEN WriteIncident(l.incident, <<l.status, "escalated">>)
           ELSE UNCHANGED <<incidents, timeline>>
    /\ actions' = [actions EXCEPT ![sess[s].action].status =
                        Column(@, sess[s].was, "denied")]
    /\ RecordDecision(s)
    /\ End(s)
    /\ UNCHANGED <<attempts, jobs, tries>>

(* Approved, executed, verified and reported in one transaction.            *)
ApproveAndExecute(s) ==
    /\ sess[s].op = "approve"
    /\ LET l   == sess[s].of
           run == Execution(l.alert)
       IN  /\ PolicyAllowsApproved(sess[s].action)
           /\ WriteIncident(l.incident, <<l.status>> \o run.path)
           /\ actions' = [actions EXCEPT ![sess[s].action].status = run.action]
           /\ attempts' = Append(attempts, [action |-> sess[s].action,
                                            status |-> run.attempt])
    /\ RecordDecision(s)
    /\ End(s)
    /\ UNCHANGED <<jobs, tries>>

-----------------------------------------------------------------------------
(* simulate_night_autopilot: a new incident with a key of its own; the one
   action its policy allows, which the executor can always run, is executed
   without approval when every gate passes, otherwise a human is woken; all
   in one transaction.  What it reads of earlier incidents only feeds the
   gates, whose outcome is free here.                                       *)
NightAutopilot ==
    /\ Len(incidents) < MaxIncidents
    /\ \E al \in Alerts, passed \in BOOLEAN :
          IF passed
          THEN /\ InsertIncident(al, FALSE,
                    <<"new", "queued", "investigating", "action_proposed",
                      "executing", "verifying",
                      IF Scenario[al].recovered THEN "resolved"
                                                ELSE "escalated">>)
               /\ InsertAction(NewId, "executed", TRUE)
          ELSE /\ InsertIncident(al, FALSE,
                    <<"new", "queued", "investigating", "escalated">>)
               /\ UNCHANGED actions
    /\ UNCHANGED <<approvals, attempts, jobs, tries, sess>>

(* A handler raises, or its process dies, before its commit.                *)
Rollback(s) ==
    /\ sess[s].op \notin {"none", "drain"}
    /\ End(s)
    /\ UNCHANGED <<tables, tries>>

Finish(s) ==
    \/ EnqueueNew(s) \/ EnqueueExisting(s) \/ ProcessNew(s) \/ ProcessExisting(s)
    \/ FinishInvestigate(s) \/ CompleteJob(s)
    \/ Reject(s) \/ ApproveDenied(s) \/ ApproveAndExecute(s)

Next ==
    \/ NightAutopilot
    \/ \E s \in Sessions :
          \/ LoadAlert(s) \/ LoadInvestigate(s) \/ LoadJob(s) \/ LoadDecision(s)
          \/ Finish(s) \/ JobRaises(s) \/ Rollback(s)

Spec == Init /\ [][Next]_vars

(* Fairness: a handler that has loaded its rows goes on to its end, and the
   worker CLI is run again whenever a job is pending.                       *)
LiveSpec ==
    /\ Spec
    /\ \A s \in Sessions : /\ WF_vars(Finish(s) \/ Rollback(s))
                          /\ SF_vars(LoadJob(s))

-----------------------------------------------------------------------------
(* Properties.                                                              *)

ActionStates == {"proposed", "approved", "executed", "failed", "rejected",
                 "denied", "escalated"}

(* The tables hold well-formed rows that refer to existing rows.            *)
TypeOK ==
    /\ \A i \in DOMAIN incidents :
          /\ incidents[i].alert \in Alerts /\ incidents[i].keyed \in BOOLEAN
          /\ incidents[i].status \in States
          /\ timeline[i] \in Seq(States \X States)
    /\ DOMAIN timeline = DOMAIN incidents
    /\ \A a \in DOMAIN actions :
          /\ actions[a].incident \in DOMAIN incidents
          /\ actions[a].status \in ActionStates
    /\ \A d \in approvals : d.action \in DOMAIN actions
    /\ \A k \in DOMAIN attempts : attempts[k].action \in DOMAIN actions
    /\ \A j \in DOMAIN jobs :
          /\ jobs[j].incident \in DOMAIN incidents
          /\ jobs[j].status \in {"pending", "completed"}
          /\ jobs[j].attempt_count <= tries[j]

AlertOf(a) == incidents[actions[a].incident].alert

(* However requests overlap, an action is executed only when a human has
   approved it and its investigation neither denied nor escalated it: the
   state machine keeps approvals away from escalated incidents.             *)
ExecutionIsApproved ==
    \A k \in DOMAIN attempts :
        LET a == attempts[k].action
        IN  /\ [action |-> a, decision |-> "approve"] \in approvals
            /\ Proposal(AlertOf(a)).action = "proposed"

(* A failed post-check never ends in a resolved incident: behind every
   resolved one there is an execution whose recovery check passed.          *)
ResolvedIsVerified ==
    \A i \in DOMAIN incidents : incidents[i].status = "resolved" =>
        /\ Scenario[incidents[i].alert].recovered
        /\ \E a \in ActionsOf(i) :
              actions[a].auto \/ \E k \in DOMAIN attempts :
                  attempts[k] = [action |-> a, status |-> "succeeded"]

(* The transitions on record for an incident follow one another: each begins
   at the status at which the one before it ended.                          *)
Chained(t) == \A k \in 1..(Len(t) - 1) : t[k][2] = t[k + 1][1]

Unbroken(i) == Chained(timeline[i])

(* However requests overlap, an action that is executed twice leaves a trace:
   its incident has been investigated twice, or its timeline has a gap.  In
   an incident with one action and an unbroken timeline the action has been
   executed at most once, however often it was approved.                    *)
RepeatsLeaveATrace ==
    \A k, m \in DOMAIN attempts :
        attempts[k].action = attempts[m].action /\ k # m =>
            LET i == actions[attempts[k].action].incident
            IN  Unbroken(i) => \E a, b \in ActionsOf(i) : a # b

(* However requests overlap, a status without outgoing transitions is left
   only by a stale write, which leaves a gap in the incident's timeline.    *)
TerminalLeftWithATrace ==
    [][\A i \in DOMAIN incidents :
          /\ ALLOWED_TRANSITIONS[incidents[i].status] = {}
          /\ incidents'[i].status # incidents[i].status
          => ~Unbroken(i)']_vars

Waiting(i) == i \in DOMAIN incidents /\ incidents[i].status = "queued"

(* An incident that waits in the queue is investigated in the end, unless
   investigations keep raising up to the bound of the model.                *)
QueuedIsInvestigated ==
    \A i \in 1..MaxIncidents :
        Waiting(i) ~> (~Waiting(i) \/ \E j \in DOMAIN jobs : tries[j] >= MaxTries)
=============================================================================
