----------------------- MODULE IncidentWorkflowProofs -----------------------
(***************************************************************************)
(* Proofs about the incident workflow, for every set of alerts, scenarios  *)
(* and sessions.  Two facts carry the theorems for overlapping sessions:   *)
(* rows are never deleted or moved to another owner, and a status from     *)
(* which an action may be executed tells that its investigation proposed   *)
(* one, also when it is read long before it is used.  A third one carries  *)
(* those about executions that repeat: a timeline without a gap ends at    *)
(* the status of its incident, so a write that leaves no gap was not stale.*)
(***************************************************************************)
EXTENDS IncidentWorkflow, TLAPS

Incident == [alert : Alerts, keyed : BOOLEAN, status : States]
Action == [incident : Nat, status : ActionStates, auto : BOOLEAN]
Decision == [action : Nat, decision : {"approve", "reject"}]
Attempt == [action : Nat,
            status : {"succeeded", "execution_failed", "post_check_failed"}]
Job == [alert : Alerts, incident : Nat, status : {"pending", "completed"},
        attempt_count : Nat]
Path == Seq(States \X States)

(* The tables are sequences of rows that refer to rows that exist.          *)
IncidentsOK ==
    /\ incidents \in Seq(Incident) /\ timeline \in Seq(Path)
    /\ Len(timeline) = Len(incidents)

ActionsOK ==
    /\ actions \in Seq(Action)
    /\ \A a \in DOMAIN actions : actions[a].incident \in DOMAIN incidents

DecisionsOK ==
    /\ approvals \subseteq Decision
    /\ \A d \in approvals : d.action \in DOMAIN actions
    /\ attempts \in Seq(Attempt)
    /\ \A k \in DOMAIN attempts : attempts[k].action \in DOMAIN actions

JobsOK ==
    /\ jobs \in Seq(Job) /\ tries \in Seq(Nat) /\ Len(tries) = Len(jobs)
    /\ \A j \in DOMAIN jobs : /\ jobs[j].incident \in DOMAIN incidents
                              /\ jobs[j].attempt_count <= tries[j]

TablesOK == IncidentsOK /\ ActionsOK /\ DecisionsOK /\ JobsOK

(* The statuses from which transition_incident lets an execution start.     *)
Executable == {"action_proposed", "waiting_approval", "executing"}

ExecutableIsProposed(status, al) ==
    status \in Executable => Proposal(al).action = "proposed"

StatusInv ==
    \A i \in DOMAIN incidents :
        ExecutableIsProposed(incidents[i].status, incidents[i].alert)

(* What a session has loaded: an incident that is there and belongs to the
   alert, with a status it had.                                             *)
LoadedOK(l) ==
    /\ l.incident \in DOMAIN incidents
    /\ l.alert = incidents[l.incident].alert
    /\ l.status \in States
    /\ ExecutableIsProposed(l.status, l.alert)

SessionOK(s) ==
    /\ sess[s].op \in {"enqueue", "process_now"} =>
          /\ sess[s].alert \in Alerts
          /\ sess[s].incident # 0 => LoadedOK(sess[s])
    /\ sess[s].op = "investigate" => LoadedOK(sess[s]) /\ ~sess[s].acted
    /\ sess[s].op = "drain" =>
          /\ sess[s].job \in DOMAIN jobs
          /\ sess[s].tried \in Nat /\ sess[s].tried <= tries[sess[s].job]
          /\ LoadedOK(sess[s].of)
    /\ sess[s].op \in {"approve", "reject"} =>
          /\ sess[s].action \in DOMAIN actions
          /\ actions[sess[s].action].incident = sess[s].of.incident
          /\ LoadedOK(sess[s].of)

SessionsOK == DOMAIN sess = Sessions /\ \A s \in Sessions : SessionOK(s)

(* The inductive invariant.                                                 *)
IndInv ==
    /\ TablesOK /\ SessionsOK /\ StatusInv
    /\ ExecutionIsApproved /\ ResolvedIsVerified

-----------------------------------------------------------------------------
(* What a step does to the tables.                                          *)

IncidentsKept ==
    \A i \in DOMAIN incidents :
        /\ i \in DOMAIN incidents'
        /\ incidents'[i].alert = incidents[i].alert

ActionsKept ==
    \A a \in DOMAIN actions :
        /\ a \in DOMAIN actions'
        /\ actions'[a].incident = actions[a].incident
        /\ actions'[a].auto = actions[a].auto

AttemptsKept ==
    \A k \in DOMAIN attempts :
        k \in DOMAIN attempts' /\ attempts'[k] = attempts[k]

JobsKept ==
    \A j \in DOMAIN jobs : j \in DOMAIN jobs' /\ tries[j] <= tries'[j]

Kept ==
    /\ IncidentsKept /\ ActionsKept /\ JobsKept /\ AttemptsKept
    /\ approvals \subseteq approvals'

(* A status that is written is the one that follows from the alert, or one
   that ends the work, resolved only after an execution that helped.        *)
StatusStep ==
    \A i \in DOMAIN incidents' :
        \/ i \in DOMAIN incidents /\ incidents'[i].status = incidents[i].status
        \/ incidents'[i].status \in {"queued", "escalated"}
        \/ incidents'[i].status = Proposal(incidents'[i].alert).incident
        \/ /\ incidents'[i].status = "resolved"
           /\ Scenario[incidents'[i].alert].recovered
           /\ \E a \in DOMAIN actions' :
                 /\ actions'[a].incident = i
                 /\ \/ actions'[a].auto
                    \/ \E k \in DOMAIN attempts' :
                          attempts'[k] = [action |-> a, status |-> "succeeded"]

(* An attempt that is recorded comes with its approval, for an action its
   investigation proposed.                                                  *)
AttemptStep ==
    \A k \in DOMAIN attempts' :
        \/ k \in DOMAIN attempts
        \/ /\ [action |-> attempts'[k].action, decision |-> "approve"]
                 \in approvals'
           /\ Proposal(incidents'[actions'[attempts'[k].action].incident].alert)
                 .action = "proposed"

StepOK == TablesOK' /\ Kept /\ StatusStep /\ AttemptStep

-----------------------------------------------------------------------------
(* The statuses, one by one.                                                *)
LEMMA StatesAre ==
    States = {"new", "queued", "investigating", "needs_more_context",
              "action_proposed", "waiting_approval", "executing", "verifying",
              "degraded", "needs_human", "resolved", "escalated",
              "false_positive", "failed"}
BY DEF States, ALLOWED_TRANSITIONS

(* An execution starts from the statuses of Executable only.                *)
LEMMA ExecutionStarts ==
    ASSUME NEW st \in States, transition_incident(st, "executing")
    PROVE  st \in Executable
BY StatesAre DEF transition_incident, ALLOWED_TRANSITIONS, Executable

(* What an investigation leaves behind: only an action that is proposed
   leaves its incident in a status an execution can start from.             *)
LEMMA ProposalFields ==
    ASSUME NEW al \in Alerts
    PROVE  /\ Proposal(al).incident \in
                 {"escalated", "executing", "waiting_approval"}
           /\ Proposal(al).action \in {"denied", "escalated", "proposed"}
           /\ Proposal(al).incident # "escalated" =>
                 Proposal(al).action = "proposed"
BY ScenarioAssumption DEF Proposal, Decisions

(* What an execution writes.                                                *)
LEMMA ExecutionFields ==
    ASSUME NEW al \in Alerts
    PROVE  /\ Execution(al).path \in Seq(States)
           /\ Len(Execution(al).path) \in {2, 3}
           /\ Execution(al).path[1] = "executing"
           /\ Execution(al).action \in {"executed", "failed"}
           /\ Execution(al).attempt \in
                 {"succeeded", "execution_failed", "post_check_failed"}
           /\ \/ LastOf(Execution(al).path) = "escalated"
              \/ /\ LastOf(Execution(al).path) = "resolved"
                 /\ Scenario[al].recovered
                 /\ Execution(al).attempt = "succeeded"
<1>1. /\ <<"executing", "escalated">> \in Seq(States)
      /\ <<"executing", "verifying", "resolved">> \in Seq(States)
      /\ <<"executing", "verifying", "escalated">> \in Seq(States)
  BY StatesAre
<1>2. CASE ~Scenario[al].ok
  BY <1>1, <1>2 DEF Execution, LastOf
<1>3. CASE Scenario[al].ok /\ Scenario[al].recovered
  BY <1>1, <1>3 DEF Execution, LastOf
<1>4. CASE Scenario[al].ok /\ ~Scenario[al].recovered
  BY <1>1, <1>4 DEF Execution, LastOf
<1> QED BY <1>2, <1>3, <1>4

(* The rows a path of statuses adds.                                        *)
LEMMA PathFields ==
    ASSUME NEW path \in Seq(States), path # <<>>
    PROVE  Moves(path) \in Path /\ LastOf(path) \in States
BY DEF Moves, LastOf, Path

(* A table with one row replaced.                                           *)
LEMMA RowReplaced ==
    ASSUME NEW S, NEW t \in Seq(S), NEW i \in DOMAIN t, NEW x \in S
    PROVE  LET u == [t EXCEPT ![i] = x]
           IN  u \in Seq(S) /\ DOMAIN u = DOMAIN t /\ Len(u) = Len(t)
OBVIOUS

(* One incident gets another status.                                        *)
LEMMA IncidentWritten ==
    ASSUME IncidentsOK, NEW i \in DOMAIN incidents, NEW st \in States,
           NEW moves \in Path,
           incidents' = [incidents EXCEPT ![i].status = st],
           timeline' = [timeline EXCEPT ![i] = @ \o moves]
    PROVE  /\ IncidentsOK' /\ IncidentsKept /\ DOMAIN incidents' = DOMAIN incidents
           /\ incidents'[i].status = st
           /\ \A j \in DOMAIN incidents \ {i} :
                 incidents'[j].status = incidents[j].status
<1>0. /\ incidents \in Seq(Incident) /\ incidents[i] \in Incident
      /\ [incidents[i] EXCEPT !.status = st] \in Incident
  <2>1. incidents \in Seq(Incident) /\ incidents[i] \in Incident
    BY DEF IncidentsOK
  <2>2. [incidents[i] EXCEPT !.status = st] \in Incident
    BY <2>1 DEF Incident
  <2> QED BY <2>1, <2>2
<1>a. incidents' = [incidents EXCEPT ![i] = [incidents[i] EXCEPT !.status = st]]
  BY <1>0
<1>1. incidents' \in Seq(Incident) /\ DOMAIN incidents' = DOMAIN incidents
  BY <1>0, <1>a, RowReplaced
<1>2. timeline[i] \o moves \in Path
  BY DEF IncidentsOK, Path
<1>3. timeline' \in Seq(Path) /\ Len(timeline') = Len(timeline)
  BY <1>2 DEF IncidentsOK
<1>4. Len(incidents') = Len(incidents)
  BY <1>1 DEF IncidentsOK
<1>5. /\ incidents'[i].status = st
      /\ \A j \in DOMAIN incidents : incidents'[j].alert = incidents[j].alert
      /\ \A j \in DOMAIN incidents \ {i} :
            incidents'[j].status = incidents[j].status
  <2>1. incidents'[i] = [incidents[i] EXCEPT !.status = st]
    BY <1>0
  <2>2. \A j \in DOMAIN incidents \ {i} : incidents'[j] = incidents[j]
    BY <1>0
  <2>3. incidents'[i].status = st /\ incidents'[i].alert = incidents[i].alert
    BY <1>0, <2>1 DEF Incident
  <2> QED BY <2>2, <2>3
<1> QED BY <1>1, <1>3, <1>4, <1>5 DEF IncidentsOK, IncidentsKept

(* A new incident.                                                          *)
LEMMA IncidentInserted ==
    ASSUME IncidentsOK, NEW al \in Alerts, NEW keyed \in BOOLEAN,
           NEW st \in States, NEW moves \in Path,
           incidents' = Append(incidents, [alert |-> al, keyed |-> keyed,
                                           status |-> st]),
           timeline' = Append(timeline, moves)
    PROVE  /\ IncidentsOK' /\ IncidentsKept
           /\ NewId \in Nat /\ NewId \notin DOMAIN incidents
           /\ DOMAIN incidents' = DOMAIN incidents \union {NewId}
           /\ incidents'[NewId].status = st /\ incidents'[NewId].alert = al
           /\ \A j \in DOMAIN incidents :
                 incidents'[j].status = incidents[j].status
<1>1. [alert |-> al, keyed |-> keyed, status |-> st] \in Incident
  BY DEF Incident
<1> QED BY <1>1 DEF IncidentsOK, IncidentsKept, NewId

(* A new action.                                                            *)
LEMMA ActionInserted ==
    ASSUME ActionsOK, IncidentsKept, NEW i \in DOMAIN incidents', i \in Nat,
           NEW st \in ActionStates, NEW auto \in BOOLEAN,
           actions' = Append(actions, [incident |-> i, status |-> st,
                                       auto |-> auto])
    PROVE  /\ ActionsOK' /\ ActionsKept
           /\ Len(actions) + 1 \in DOMAIN actions'
           /\ DOMAIN actions' = DOMAIN actions \union {Len(actions) + 1}
           /\ actions'[Len(actions) + 1].incident = i
           /\ actions'[Len(actions) + 1].auto = auto
<1>1. [incident |-> i, status |-> st, auto |-> auto] \in Action
  BY DEF Action
<1> QED BY <1>1 DEF ActionsOK, ActionsKept, IncidentsKept

(* An action gets another status.                                           *)
LEMMA ActionWritten ==
    ASSUME ActionsOK, IncidentsKept, NEW a \in DOMAIN actions,
           NEW st \in ActionStates,
           actions' = [actions EXCEPT ![a].status = st]
    PROVE  ActionsOK' /\ ActionsKept /\ DOMAIN actions' = DOMAIN actions
<1>0. /\ actions \in Seq(Action) /\ actions[a] \in Action
      /\ [actions[a] EXCEPT !.status = st] \in Action
  <2>1. actions \in Seq(Action) /\ actions[a] \in Action
    BY DEF ActionsOK
  <2>2. [actions[a] EXCEPT !.status = st] \in Action
    BY <2>1 DEF Action
  <2> QED BY <2>1, <2>2
<1>a. actions' = [actions EXCEPT ![a] = [actions[a] EXCEPT !.status = st]]
  BY <1>0
<1>1. actions' \in Seq(Action) /\ DOMAIN actions' = DOMAIN actions
  BY <1>0, <1>a, RowReplaced
<1>2. \A b \in DOMAIN actions : /\ actions'[b].incident = actions[b].incident
                                /\ actions'[b].auto = actions[b].auto
  <2>1. /\ actions'[a] = [actions[a] EXCEPT !.status = st]
        /\ \A b \in DOMAIN actions \ {a} : actions'[b] = actions[b]
    BY <1>0
  <2> QED BY <1>0, <2>1 DEF Action
<1> QED BY <1>1, <1>2 DEF ActionsOK, ActionsKept, IncidentsKept

(* The decisions and attempts stay as they are.                             *)
LEMMA DecisionsUntouched ==
    ASSUME DecisionsOK, ActionsKept, UNCHANGED <<approvals, attempts>>
    PROVE  /\ DecisionsOK' /\ AttemptsKept /\ AttemptStep
           /\ approvals \subseteq approvals'
BY DEF DecisionsOK, ActionsKept, AttemptsKept, AttemptStep

(* So do the jobs.                                                          *)
LEMMA JobsUntouched ==
    ASSUME JobsOK, IncidentsKept, UNCHANGED <<jobs, tries>>
    PROVE  JobsOK' /\ JobsKept
BY DEF JobsOK, JobsKept, IncidentsKept

-----------------------------------------------------------------------------
(* What an investigation of an existing incident writes.                    *)
Investigated(i, al) ==
    /\ IncidentsOK' /\ IncidentsKept /\ ActionsOK' /\ ActionsKept
    /\ DOMAIN incidents' = DOMAIN incidents
    /\ incidents'[i].status = Proposal(al).incident
    /\ \A j \in DOMAIN incidents \ {i} :
          incidents'[j].status = incidents[j].status

(* An investigation adds one action and leaves the incident where the
   proposal says.                                                           *)
LEMMA InvestigationStep ==
    ASSUME TablesOK, NEW i \in DOMAIN incidents, NEW al \in Alerts,
           NEW from \in States, Investigate(i, al, from)
    PROVE  Investigated(i, al)
<1> DEFINE path == <<from, "investigating", "action_proposed",
                     Proposal(al).incident>>
<1>1. /\ Proposal(al).incident \in States
      /\ Proposal(al).action \in ActionStates
  BY ProposalFields, StatesAre DEF ActionStates
<1>2. /\ path \in Seq(States) /\ path # <<>>
      /\ LastOf(path) = Proposal(al).incident
  BY <1>1, StatesAre DEF LastOf
<1>3. /\ incidents' = [incidents EXCEPT ![i].status = LastOf(path)]
      /\ timeline' = [timeline EXCEPT ![i] = @ \o Moves(path)]
      /\ actions' = Append(actions, [incident |-> i,
                                     status |-> Proposal(al).action,
                                     auto |-> FALSE])
  BY DEF Investigate, WriteIncident, InsertAction
<1>4. Moves(path) \in Path /\ LastOf(path) \in States
  BY <1>2, PathFields
<1> HIDE DEF path
<1>5. IncidentsOK /\ ActionsOK /\ i \in Nat
  BY DEF TablesOK, IncidentsOK
<1>6. /\ IncidentsOK' /\ IncidentsKept /\ DOMAIN incidents' = DOMAIN incidents
      /\ incidents'[i].status = LastOf(path)
      /\ \A j \in DOMAIN incidents \ {i} :
            incidents'[j].status = incidents[j].status
  BY <1>3, <1>4, <1>5, IncidentWritten
<1>7. i \in DOMAIN incidents' /\ FALSE \in BOOLEAN
  BY <1>6
<1>8. ActionsOK' /\ ActionsKept
  BY <1>1, <1>3, <1>5, <1>6, <1>7, ActionInserted
<1> QED BY <1>2, <1>6, <1>8 DEF Investigated

(* Such a step is one that StepOK describes, whatever becomes of the jobs.  *)
LEMMA InvestigationStepOK ==
    ASSUME TablesOK, NEW i \in DOMAIN incidents,
           Investigated(i, incidents[i].alert),
           UNCHANGED <<approvals, attempts>>, JobsOK', JobsKept
    PROVE  StepOK
<1>1. /\ IncidentsOK' /\ IncidentsKept /\ ActionsOK' /\ ActionsKept
      /\ DOMAIN incidents' = DOMAIN incidents
      /\ incidents'[i].status = Proposal(incidents[i].alert).incident
      /\ \A j \in DOMAIN incidents \ {i} :
            incidents'[j].status = incidents[j].status
  BY DEF Investigated
<1>2. DecisionsOK' /\ AttemptsKept /\ AttemptStep /\ approvals \subseteq approvals'
  BY <1>1, DecisionsUntouched DEF TablesOK
<1>3. StatusStep
  BY <1>1 DEF StatusStep, IncidentsKept
<1> QED BY <1>1, <1>2, <1>3 DEF StepOK, TablesOK, Kept

(* The steps that change no table.                                          *)
LEMMA NothingWritten ==
    ASSUME TablesOK, UNCHANGED tables, JobsOK', JobsKept
    PROVE  StepOK
<1>1. IncidentsOK' /\ ActionsOK' /\ DecisionsOK'
  BY DEF TablesOK, tables, IncidentsOK, ActionsOK, DecisionsOK
<1>2. IncidentsKept /\ ActionsKept /\ AttemptsKept /\ approvals \subseteq approvals'
  BY DEF tables, IncidentsKept, ActionsKept, AttemptsKept
<1>3. StatusStep /\ AttemptStep
  BY DEF tables, StatusStep, AttemptStep
<1> QED BY <1>1, <1>2, <1>3 DEF StepOK, TablesOK, Kept

(* A job is added, unless there is one for the alert.                       *)
LEMMA JobEnqueued ==
    ASSUME JobsOK, IncidentsKept, NEW al \in Alerts,
           NEW i \in DOMAIN incidents', i \in Nat, Enqueue(al, i)
    PROVE  JobsOK' /\ JobsKept
<1>1. CASE UNCHANGED <<jobs, tries>>
  BY <1>1, JobsUntouched
<1>2. CASE /\ jobs' = Append(jobs, [alert |-> al, incident |-> i,
                                    status |-> "pending", attempt_count |-> 0])
           /\ tries' = Append(tries, 0)
  <2>1. [alert |-> al, incident |-> i, status |-> "pending",
         attempt_count |-> 0] \in Job
    BY DEF Job
  <2>2. /\ jobs' \in Seq(Job) /\ tries' \in Seq(Nat) /\ Len(tries') = Len(jobs')
        /\ DOMAIN jobs' = DOMAIN jobs \union {Len(jobs) + 1}
        /\ jobs'[Len(jobs) + 1].incident = i
        /\ jobs'[Len(jobs) + 1].attempt_count = 0
        /\ tries'[Len(jobs) + 1] = 0
    BY <1>2, <2>1 DEF JobsOK
  <2>3. \A j \in DOMAIN jobs : jobs'[j] = jobs[j] /\ tries'[j] = tries[j]
    BY <1>2 DEF JobsOK
  <2>4. \A j \in DOMAIN jobs : tries[j] \in Nat
    BY DEF JobsOK
  <2>5. JobsKept
    BY <2>2, <2>3, <2>4 DEF JobsKept
  <2>6. JobsOK'
    BY <2>2, <2>3 DEF JobsOK, IncidentsKept
  <2> QED BY <2>5, <2>6
<1> QED BY <1>1, <1>2 DEF Enqueue

(* The row of a completed job.                                              *)
LEMMA JobCompleted ==
    ASSUME NEW job \in Job, NEW n \in Nat
    PROVE  LET row == [job EXCEPT !.status = "completed", !.attempt_count = n]
           IN  /\ row \in Job /\ row.incident = job.incident
               /\ row.attempt_count = n
BY DEF Job

(* A job is run, and marked completed when its work is done.                *)
LEMMA JobRun ==
    ASSUME JobsOK, IncidentsKept, NEW j \in DOMAIN jobs,
           NEW tried \in Nat, tried <= tries[j],
           tries' = [tries EXCEPT ![j] = @ + 1],
           \/ UNCHANGED jobs
           \/ jobs' = [jobs EXCEPT ![j].status = "completed",
                                   ![j].attempt_count = tried + 1]
    PROVE  JobsOK' /\ JobsKept
<1>1. /\ jobs \in Seq(Job) /\ tries \in Seq(Nat) /\ DOMAIN tries = DOMAIN jobs
      /\ tries[j] \in Nat /\ tries[j] + 1 \in Nat /\ jobs[j] \in Job
  BY DEF JobsOK
<1>2. tries' \in Seq(Nat) /\ Len(tries') = Len(tries) /\ DOMAIN tries' = DOMAIN tries
  BY <1>1, RowReplaced
<1>3. /\ tries'[j] = tries[j] + 1
      /\ \A k \in DOMAIN jobs : tries[k] \in Nat /\ tries[k] <= tries'[k]
  BY <1>1
<1>4. CASE UNCHANGED jobs
  <2>0. \A k \in DOMAIN jobs : jobs[k] \in Job
    BY <1>1
  <2>1. \A k \in DOMAIN jobs : jobs[k].attempt_count \in Nat
    BY <2>0 DEF Job
  <2>2. \A k \in DOMAIN jobs : tries'[k] \in Nat
    BY <1>1, <1>2
  <2>3. \A k \in DOMAIN jobs : jobs[k].attempt_count <= tries'[k]
    BY <1>3, <2>1, <2>2 DEF JobsOK
  <2> QED BY <1>2, <1>3, <1>4, <2>3 DEF JobsOK, JobsKept, IncidentsKept
<1>5. CASE jobs' = [jobs EXCEPT ![j].status = "completed",
                                ![j].attempt_count = tried + 1]
  <2> DEFINE row == [jobs[j] EXCEPT !.status = "completed",
                                    !.attempt_count = tried + 1]
  <2>1. /\ row \in Job /\ row.incident = jobs[j].incident
        /\ row.attempt_count = tried + 1
    <3>1. tried + 1 \in Nat
      OBVIOUS
    <3> QED BY <1>1, <3>1, JobCompleted
  <2>2. jobs' = [jobs EXCEPT ![j] = row]
    BY <1>1, <1>5
  <2> HIDE DEF row
  <2>3. jobs' \in Seq(Job) /\ Len(jobs') = Len(jobs) /\ DOMAIN jobs' = DOMAIN jobs
    BY <1>1, <2>1, <2>2, RowReplaced
  <2>4. jobs'[j] = row /\ \A k \in DOMAIN jobs \ {j} : jobs'[k] = jobs[k]
    BY <1>1, <2>2
  <2>5. jobs'[j].attempt_count <= tries'[j]
    BY <1>1, <1>3, <2>1, <2>4
  <2>6. \A k \in DOMAIN jobs \ {j} : tries'[k] = tries[k]
    BY <1>1
  <2>7. \A k \in DOMAIN jobs : jobs'[k].incident = jobs[k].incident
    BY <2>1, <2>4
  <2>8. \A k \in DOMAIN jobs' : jobs'[k].attempt_count <= tries'[k]
    BY <2>3, <2>4, <2>5, <2>6 DEF JobsOK
  <2>9. JobsOK'
    BY <1>2, <2>3, <2>7, <2>8 DEF JobsOK, IncidentsKept
  <2> QED BY <1>3, <2>3, <2>9 DEF JobsKept
<1> QED BY <1>4, <1>5

-----------------------------------------------------------------------------
(* The operations, one by one.                                              *)

(* The fields of an incident.                                               *)
LEMMA IncidentFields ==
    ASSUME IncidentsOK, NEW i \in DOMAIN incidents
    PROVE  /\ incidents[i].alert \in Alerts /\ incidents[i].status \in States
           /\ i \in Nat
<1>1. incidents[i] \in Incident /\ i \in Nat
  BY DEF IncidentsOK
<1> QED BY <1>1 DEF Incident

(* A session's view of its own rows.                                        *)
LEMMA SessionFields ==
    ASSUME SessionsOK, NEW s \in Sessions
    PROVE  SessionOK(s) /\ DOMAIN sess = Sessions
BY DEF SessionsOK

(* create_and_enqueue for a new incident.                                   *)
LEMMA EnqueueNewStep ==
    ASSUME IndInv, NEW s \in Sessions, EnqueueNew(s)
    PROVE  StepOK
<1> DEFINE path == <<"new", "queued">>
           al == sess[s].alert
<1>1. TablesOK /\ al \in Alerts /\ TRUE \in BOOLEAN
  BY SessionFields DEF IndInv, EnqueueNew, SessionOK
<1>2. path \in Seq(States) /\ path # <<>> /\ LastOf(path) = "queued"
  BY StatesAre DEF LastOf
<1>3. Moves(path) \in Path /\ LastOf(path) \in States
  BY <1>2, PathFields
<1>4. /\ incidents' = Append(incidents, [alert |-> al, keyed |-> TRUE,
                                         status |-> LastOf(path)])
      /\ timeline' = Append(timeline, Moves(path))
      /\ Enqueue(al, NewId)
      /\ UNCHANGED <<actions, approvals, attempts>>
  BY DEF EnqueueNew, InsertIncident
<1> HIDE DEF path
<1>5. /\ IncidentsOK' /\ IncidentsKept
      /\ NewId \in Nat /\ NewId \notin DOMAIN incidents
      /\ DOMAIN incidents' = DOMAIN incidents \union {NewId}
      /\ incidents'[NewId].status = LastOf(path) /\ incidents'[NewId].alert = al
      /\ \A j \in DOMAIN incidents : incidents'[j].status = incidents[j].status
  BY <1>1, <1>3, <1>4, IncidentInserted DEF TablesOK
<1>6. ActionsOK' /\ ActionsKept
  BY <1>1, <1>4, <1>5 DEF TablesOK, ActionsOK, ActionsKept, IncidentsKept
<1>7. DecisionsOK' /\ AttemptsKept /\ AttemptStep /\ approvals \subseteq approvals'
  BY <1>1, <1>4, <1>6, DecisionsUntouched DEF TablesOK
<1>8. JobsOK' /\ JobsKept
  <2>1. NewId \in DOMAIN incidents'
    BY <1>5
  <2> QED BY <1>1, <1>4, <1>5, <2>1, JobEnqueued DEF TablesOK
<1>9. StatusStep
  BY <1>2, <1>5 DEF StatusStep
<1> QED BY <1>5, <1>6, <1>7, <1>8, <1>9 DEF StepOK, TablesOK, Kept

(* create_and_enqueue for an incident that is there.                        *)
LEMMA EnqueueExistingStep ==
    ASSUME IndInv, NEW s \in Sessions, EnqueueExisting(s)
    PROVE  StepOK
<1>1. /\ TablesOK /\ sess[s].alert \in Alerts
      /\ sess[s].incident \in DOMAIN incidents
  BY SessionFields DEF IndInv, EnqueueExisting, SessionOK, LoadedOK
<1>2. /\ UNCHANGED <<incidents, timeline, actions, approvals, attempts>>
      /\ \/ UNCHANGED <<jobs, tries>>
         \/ Enqueue(sess[s].alert, sess[s].incident)
  BY DEF EnqueueExisting
<1>3. /\ IncidentsKept /\ ActionsKept /\ StatusStep
      /\ IncidentsOK' /\ ActionsOK'
      /\ sess[s].incident \in DOMAIN incidents' /\ sess[s].incident \in Nat
  BY <1>1, <1>2 DEF IncidentsKept, ActionsKept, StatusStep, TablesOK,
                    IncidentsOK, ActionsOK
<1>4. DecisionsOK' /\ AttemptsKept /\ AttemptStep /\ approvals \subseteq approvals'
  BY <1>1, <1>2, <1>3, DecisionsUntouched DEF TablesOK
<1>5. JobsOK' /\ JobsKept
  BY <1>1, <1>2, <1>3, JobEnqueued, JobsUntouched DEF TablesOK
<1> QED BY <1>3, <1>4, <1>5 DEF StepOK, TablesOK, Kept

(* create_and_investigate for a new incident.                               *)
LEMMA ProcessNewStep ==
    ASSUME IndInv, NEW s \in Sessions, ProcessNew(s)
    PROVE  StepOK
<1> DEFINE al == sess[s].alert
           path == <<"new", "queued", "investigating", "action_proposed",
                     Proposal(al).incident>>
<1>1. TablesOK /\ al \in Alerts /\ TRUE \in BOOLEAN
  BY SessionFields DEF IndInv, ProcessNew, SessionOK
<1>2. Proposal(al).incident \in States /\ Proposal(al).action \in ActionStates
  BY <1>1, ProposalFields, StatesAre DEF ActionStates
<1>3. /\ path \in Seq(States) /\ path # <<>>
      /\ LastOf(path) = Proposal(al).incident
  BY <1>2, StatesAre DEF LastOf
<1>4. Moves(path) \in Path /\ LastOf(path) \in States
  BY <1>3, PathFields
<1>5. /\ incidents' = Append(incidents, [alert |-> al, keyed |-> TRUE,
                                         status |-> LastOf(path)])
      /\ timeline' = Append(timeline, Moves(path))
      /\ actions' = Append(actions, [incident |-> NewId,
                                     status |-> Proposal(al).action,
                                     auto |-> FALSE])
      /\ UNCHANGED <<approvals, attempts, jobs, tries>>
  BY DEF ProcessNew, InsertIncident, InsertAction
<1> HIDE DEF path
<1>6. /\ IncidentsOK' /\ IncidentsKept
      /\ NewId \in Nat /\ NewId \notin DOMAIN incidents
      /\ DOMAIN incidents' = DOMAIN incidents \union {NewId}
      /\ incidents'[NewId].status = LastOf(path) /\ incidents'[NewId].alert = al
      /\ \A j \in DOMAIN incidents : incidents'[j].status = incidents[j].status
  BY <1>1, <1>4, <1>5, IncidentInserted DEF TablesOK
<1>7. ActionsOK' /\ ActionsKept
  <2>1. NewId \in DOMAIN incidents' /\ FALSE \in BOOLEAN
    BY <1>6
  <2> QED BY <1>1, <1>2, <1>5, <1>6, <2>1, ActionInserted DEF TablesOK
<1>8. /\ DecisionsOK' /\ AttemptsKept /\ AttemptStep /\ approvals \subseteq approvals'
      /\ JobsOK' /\ JobsKept
  BY <1>1, <1>5, <1>6, <1>7, DecisionsUntouched, JobsUntouched DEF TablesOK
<1>9. StatusStep
  BY <1>3, <1>6 DEF StatusStep
<1> QED BY <1>6, <1>7, <1>8, <1>9 DEF StepOK, TablesOK, Kept

(* create_and_investigate for an incident that is there.                    *)
LEMMA ProcessExistingStep ==
    ASSUME IndInv, NEW s \in Sessions, ProcessExisting(s)
    PROVE  StepOK
<1> DEFINE i == sess[s].incident
<1>1. /\ TablesOK /\ i \in DOMAIN incidents /\ sess[s].status \in States
      /\ sess[s].alert = incidents[i].alert /\ sess[s].alert \in Alerts
  BY SessionFields DEF IndInv, ProcessExisting, SessionOK, LoadedOK
<1>2. UNCHANGED <<approvals, attempts, jobs, tries>>
  BY DEF ProcessExisting
<1>3. CASE UNCHANGED <<incidents, timeline, actions>>
  <2>1. UNCHANGED tables /\ IncidentsKept
    BY <1>2, <1>3 DEF tables, IncidentsKept
  <2> QED BY <1>1, <1>2, <2>1, NothingWritten, JobsUntouched DEF TablesOK
<1>4. CASE Investigate(i, sess[s].alert, sess[s].status)
  <2>1. Investigated(i, sess[s].alert)
    BY <1>1, <1>4, InvestigationStep
  <2>2. IncidentsKept /\ Investigated(i, incidents[i].alert)
    BY <1>1, <2>1 DEF Investigated
  <2>3. JobsOK' /\ JobsKept
    BY <1>1, <1>2, <2>2, JobsUntouched DEF TablesOK
  <2> QED BY <1>1, <1>2, <2>2, <2>3, InvestigationStepOK
<1> QED BY <1>3, <1>4 DEF ProcessExisting

(* POST /incidents/{id}/investigate.                                        *)
LEMMA FinishInvestigateStep ==
    ASSUME IndInv, NEW s \in Sessions, FinishInvestigate(s)
    PROVE  StepOK
<1> DEFINE i == sess[s].incident
<1>1. /\ TablesOK /\ i \in DOMAIN incidents /\ sess[s].status \in States
      /\ sess[s].alert = incidents[i].alert
  BY SessionFields DEF IndInv, FinishInvestigate, SessionOK, LoadedOK
<1>2. sess[s].alert \in Alerts
  BY <1>1, IncidentFields DEF TablesOK
<1>3. /\ UNCHANGED <<approvals, attempts, jobs, tries>>
      /\ Investigate(i, sess[s].alert, sess[s].status)
  BY DEF FinishInvestigate
<1>4. Investigated(i, sess[s].alert)
  BY <1>1, <1>2, <1>3, InvestigationStep
<1>5. IncidentsKept /\ Investigated(i, incidents[i].alert)
  BY <1>1, <1>4 DEF Investigated
<1>6. JobsOK' /\ JobsKept
  BY <1>1, <1>3, <1>5, JobsUntouched DEF TablesOK
<1> QED BY <1>1, <1>3, <1>5, <1>6, InvestigationStepOK

(* The worker ends a job.                                                   *)
LEMMA CompleteJobStep ==
    ASSUME IndInv, NEW s \in Sessions, CompleteJob(s)
    PROVE  StepOK
<1> DEFINE l == sess[s].of
           i == l.incident
           j == sess[s].job
<1>1. /\ TablesOK /\ i \in DOMAIN incidents /\ l.status \in States
      /\ l.alert = incidents[i].alert
      /\ j \in DOMAIN jobs /\ sess[s].tried \in Nat /\ sess[s].tried <= tries[j]
  BY SessionFields DEF IndInv, CompleteJob, SessionOK, LoadedOK
<1>2. l.alert \in Alerts
  BY <1>1, IncidentFields DEF TablesOK
<1>3. /\ UNCHANGED <<approvals, attempts>>
      /\ jobs' = [jobs EXCEPT ![j].status = "completed",
                              ![j].attempt_count = sess[s].tried + 1]
      /\ tries' = [tries EXCEPT ![j] = @ + 1]
      /\ \/ UNCHANGED <<incidents, timeline, actions>>
         \/ Investigate(i, l.alert, l.status)
  BY DEF CompleteJob
<1>4. IncidentsKept => JobsOK' /\ JobsKept
  BY <1>1, <1>3, JobRun DEF TablesOK
<1>5. CASE UNCHANGED <<incidents, timeline, actions>>
  <2>1. /\ IncidentsOK' /\ ActionsOK' /\ DecisionsOK' /\ IncidentsKept
        /\ ActionsKept /\ AttemptsKept /\ approvals \subseteq approvals'
        /\ StatusStep /\ AttemptStep
    BY <1>1, <1>3, <1>5 DEF TablesOK, IncidentsOK, ActionsOK, DecisionsOK,
          IncidentsKept, ActionsKept, AttemptsKept, StatusStep, AttemptStep
  <2> QED BY <1>4, <2>1 DEF StepOK, TablesOK, Kept
<1>6. CASE Investigate(i, l.alert, l.status)
  <2>1. Investigated(i, l.alert)
    BY <1>1, <1>2, <1>6, InvestigationStep
  <2>2. IncidentsKept /\ Investigated(i, incidents[i].alert)
    BY <1>1, <2>1 DEF Investigated
  <2> QED BY <1>1, <1>3, <1>4, <2>2, InvestigationStepOK
<1> QED BY <1>3, <1>5, <1>6

(* The worker's investigation raises.                                       *)
LEMMA JobRaisesStep ==
    ASSUME IndInv, NEW s \in Sessions, JobRaises(s)
    PROVE  StepOK
<1>1. /\ TablesOK /\ sess[s].job \in DOMAIN jobs
      /\ sess[s].tried \in Nat /\ sess[s].tried <= tries[sess[s].job]
  BY SessionFields DEF IndInv, JobRaises, SessionOK
<1>2. /\ UNCHANGED tables /\ UNCHANGED jobs /\ IncidentsKept
      /\ tries' = [tries EXCEPT ![sess[s].job] = @ + 1]
  BY DEF JobRaises, tables, IncidentsKept
<1>3. JobsOK' /\ JobsKept
  BY <1>1, <1>2, JobRun DEF TablesOK
<1> QED BY <1>1, <1>2, <1>3, NothingWritten

(* The decision is put on record.                                           *)
LEMMA DecisionRecorded ==
    ASSUME DecisionsOK, ActionsKept, NEW a \in DOMAIN actions, a \in Nat,
           NEW decision \in {"approve", "reject"},
           approvals' = approvals \union {[action |-> a, decision |-> decision]},
           UNCHANGED attempts
    PROVE  /\ DecisionsOK' /\ AttemptsKept /\ AttemptStep
           /\ approvals \subseteq approvals'
<1>1. [action |-> a, decision |-> decision] \in Decision
  BY DEF Decision
<1>2. /\ approvals' \subseteq Decision
      /\ \A d \in approvals' : d.action \in DOMAIN actions'
  BY <1>1 DEF DecisionsOK, ActionsKept
<1> QED BY <1>2 DEF DecisionsOK, ActionsKept, AttemptsKept, AttemptStep

(* A rejection, and an approval that the policy overrules, leave the action
   closed and the incident escalated or as it was.                          *)
LEMMA ClosingStep ==
    ASSUME IndInv, NEW a \in DOMAIN actions, NEW st \in ActionStates,
           NEW decision \in {"approve", "reject"},
           NEW i \in DOMAIN incidents,
           \/ UNCHANGED <<incidents, timeline>>
           \/ \E new \in {incidents[i].status, "escalated"}, moves \in Path :
                 /\ incidents' = [incidents EXCEPT ![i].status = new]
                 /\ timeline' = [timeline EXCEPT ![i] = @ \o moves],
           actions' = [actions EXCEPT ![a].status = st],
           approvals' = approvals \union {[action |-> a, decision |-> decision]},
           UNCHANGED <<attempts, jobs, tries>>
    PROVE  StepOK
<1>1. TablesOK /\ IncidentsOK /\ ActionsOK /\ DecisionsOK /\ JobsOK
  BY DEF IndInv, TablesOK
<1>2. a \in Nat /\ incidents[i] \in Incident
  BY <1>1 DEF IncidentsOK, ActionsOK
<1>3. incidents[i].status \in States
  BY <1>2 DEF Incident
<1>4. /\ IncidentsOK' /\ IncidentsKept /\ DOMAIN incidents' = DOMAIN incidents
      /\ \A j \in DOMAIN incidents : incidents'[j].status \in
            {incidents[j].status, "escalated"}
  <2>1. CASE UNCHANGED <<incidents, timeline>>
    BY <1>1, <2>1 DEF IncidentsOK, IncidentsKept
  <2>2. CASE ~UNCHANGED <<incidents, timeline>>
    <3>1. PICK new \in {incidents[i].status, "escalated"}, moves \in Path :
             /\ incidents' = [incidents EXCEPT ![i].status = new]
             /\ timeline' = [timeline EXCEPT ![i] = @ \o moves]
      BY <2>2
    <3>2. new \in States
      BY <1>3, StatesAre
    <3>3. /\ IncidentsOK' /\ IncidentsKept /\ DOMAIN incidents' = DOMAIN incidents
          /\ incidents'[i].status = new
          /\ \A j \in DOMAIN incidents \ {i} :
                incidents'[j].status = incidents[j].status
      BY <1>1, <3>1, <3>2, IncidentWritten
    <3> QED BY <3>3
  <2> QED BY <2>1, <2>2
<1>5. ActionsOK' /\ ActionsKept
  BY <1>1, <1>4, ActionWritten
<1>6. DecisionsOK' /\ AttemptsKept /\ AttemptStep /\ approvals \subseteq approvals'
  BY <1>1, <1>2, <1>5, DecisionRecorded
<1>7. JobsOK' /\ JobsKept
  BY <1>1, <1>4, JobsUntouched
<1>8. StatusStep
  BY <1>4 DEF StatusStep
<1> QED BY <1>4, <1>5, <1>6, <1>7, <1>8 DEF StepOK, TablesOK, Kept

(* A human rejects an action.                                               *)
LEMMA RejectStep ==
    ASSUME IndInv, NEW s \in Sessions, Reject(s)
    PROVE  StepOK
<1> DEFINE l == sess[s].of
           i == l.incident
           a == sess[s].action
           path == <<l.status, "escalated">>
<1>1. /\ TablesOK /\ i \in DOMAIN incidents /\ l.status \in States
      /\ a \in DOMAIN actions /\ sess[s].op = "reject"
  BY SessionFields DEF IndInv, Reject, SessionOK, LoadedOK
<1>2. /\ incidents' = [incidents EXCEPT ![i].status =
                          Column(incidents[i].status, l.status, "escalated")]
      /\ timeline' = [timeline EXCEPT ![i] = @ \o Moves(path)]
      /\ actions' = [actions EXCEPT ![a].status =
                        Column(actions[a].status, sess[s].was, "rejected")]
      /\ approvals' = approvals \union {[action |-> a, decision |-> "reject"]}
      /\ UNCHANGED <<attempts, jobs, tries>>
  BY <1>1 DEF Reject, RecordDecision
<1>3. path \in Seq(States) /\ path # <<>>
  BY <1>1, StatesAre
<1>4. Moves(path) \in Path
  BY <1>3, PathFields
<1> HIDE DEF path
<1>5. Column(incidents[i].status, l.status, "escalated")
         \in {incidents[i].status, "escalated"}
  BY DEF Column
<1>6. actions[a] \in Action
  BY <1>1 DEF TablesOK, ActionsOK
<1>7. Column(actions[a].status, sess[s].was, "rejected") \in ActionStates
  BY <1>6 DEF Column, ActionStates, Action
<1>8. \E new \in {incidents[i].status, "escalated"}, moves \in Path :
         /\ incidents' = [incidents EXCEPT ![i].status = new]
         /\ timeline' = [timeline EXCEPT ![i] = @ \o moves]
  BY <1>2, <1>4, <1>5
<1> QED BY <1>1, <1>2, <1>7, <1>8, ClosingStep

(* The policy overrules an approval.                                        *)
LEMMA ApproveDeniedStep ==
    ASSUME IndInv, NEW s \in Sessions, ApproveDenied(s)
    PROVE  StepOK
<1> DEFINE l == sess[s].of
           i == l.incident
           a == sess[s].action
           path == <<l.status, "escalated">>
<1>1. /\ TablesOK /\ i \in DOMAIN incidents /\ l.status \in States
      /\ a \in DOMAIN actions /\ sess[s].op = "approve"
  BY SessionFields DEF IndInv, ApproveDenied, SessionOK, LoadedOK
<1>2. /\ \/ UNCHANGED <<incidents, timeline>>
         \/ WriteIncident(i, path)
      /\ actions' = [actions EXCEPT ![a].status =
                        Column(actions[a].status, sess[s].was, "denied")]
      /\ approvals' = approvals \union {[action |-> a, decision |-> "approve"]}
      /\ UNCHANGED <<attempts, jobs, tries>>
  BY <1>1 DEF ApproveDenied, RecordDecision
<1>3. path \in Seq(States) /\ path # <<>> /\ LastOf(path) = "escalated"
  BY <1>1, StatesAre DEF LastOf
<1>4. Moves(path) \in Path
  BY <1>3, PathFields
<1>5. actions[a] \in Action
  BY <1>1 DEF TablesOK, ActionsOK
<1>6. Column(actions[a].status, sess[s].was, "denied") \in ActionStates
  BY <1>5 DEF Column, ActionStates, Action
<1>7. WriteIncident(i, path) =>
         \E new \in {incidents[i].status, "escalated"}, moves \in Path :
            /\ incidents' = [incidents EXCEPT ![i].status = new]
            /\ timeline' = [timeline EXCEPT ![i] = @ \o moves]
  <2> HIDE DEF path
  <2> QED BY <1>3, <1>4 DEF WriteIncident
<1>8. \/ UNCHANGED <<incidents, timeline>>
      \/ \E new \in {incidents[i].status, "escalated"}, moves \in Path :
            /\ incidents' = [incidents EXCEPT ![i].status = new]
            /\ timeline' = [timeline EXCEPT ![i] = @ \o moves]
  BY <1>2, <1>7
<1> QED BY <1>1, <1>2, <1>6, <1>8, ClosingStep

(* An execution that starts follows a status that allows it and ends in the
   last status of its path.                                                 *)
LEMMA ExecutionPath ==
    ASSUME NEW st \in States, NEW al \in Alerts
    PROVE  LET path == <<st>> \o Execution(al).path
           IN  /\ path \in Seq(States) /\ path # <<>>
               /\ LastOf(path) = LastOf(Execution(al).path)
               /\ Allowed(path) => st \in Executable
<1> DEFINE run == Execution(al).path
           path == <<st>> \o run
<1>1. run \in Seq(States) /\ Len(run) \in {2, 3} /\ run[1] = "executing"
  BY ExecutionFields
<1> HIDE DEF run
<1>2. /\ path \in Seq(States) /\ Len(path) = Len(run) + 1 /\ path # <<>>
      /\ path[1] = st /\ path[2] = "executing" /\ path[Len(path)] = run[Len(run)]
  BY <1>1
<1>3. Allowed(path) => transition_incident(st, "executing")
  <2> HIDE DEF path
  <2>1. 1 \in 1..(Len(path) - 1) /\ 1 + 1 = 2
    BY <1>1, <1>2
  <2> QED BY <1>2, <2>1 DEF Allowed
<1>4. Allowed(path) => st \in Executable
  BY <1>3, ExecutionStarts
<1> QED BY <1>2, <1>4 DEF LastOf, run

(* An approved action is executed and verified.                             *)
LEMMA ApproveAndExecuteStep ==
    ASSUME IndInv, NEW s \in Sessions, ApproveAndExecute(s)
    PROVE  StepOK
<1> DEFINE l == sess[s].of
           i == l.incident
           a == sess[s].action
           run == Execution(l.alert)
           path == <<l.status>> \o run.path
           attempt == [action |-> a, status |-> run.attempt]
<1>1. /\ TablesOK /\ i \in DOMAIN incidents /\ l.status \in States
      /\ l.alert = incidents[i].alert /\ ExecutableIsProposed(l.status, l.alert)
      /\ a \in DOMAIN actions /\ actions[a].incident = i
      /\ sess[s].op = "approve"
  BY SessionFields DEF IndInv, ApproveAndExecute, SessionOK, LoadedOK
<1>2. IncidentsOK /\ ActionsOK /\ DecisionsOK /\ JobsOK /\ a \in Nat
  BY <1>1 DEF TablesOK, ActionsOK
<1>3. l.alert \in Alerts
  BY <1>1, <1>2, IncidentFields
<1>4. /\ Allowed(path)
      /\ incidents' = [incidents EXCEPT ![i].status = LastOf(path)]
      /\ timeline' = [timeline EXCEPT ![i] = @ \o Moves(path)]
      /\ actions' = [actions EXCEPT ![a].status = run.action]
      /\ attempts' = Append(attempts, attempt)
      /\ approvals' = approvals \union {[action |-> a, decision |-> "approve"]}
      /\ UNCHANGED <<jobs, tries>>
  BY <1>1 DEF ApproveAndExecute, RecordDecision, WriteIncident
<1>5. /\ path \in Seq(States) /\ path # <<>>
      /\ LastOf(path) = LastOf(run.path) /\ l.status \in Executable
  BY <1>1, <1>3, <1>4, ExecutionPath
<1>6. Moves(path) \in Path /\ LastOf(path) \in States
  BY <1>5, PathFields
<1>7. /\ run.action \in ActionStates /\ attempt \in Attempt
      /\ \/ LastOf(run.path) = "escalated"
         \/ /\ LastOf(run.path) = "resolved" /\ Scenario[l.alert].recovered
            /\ attempt = [action |-> a, status |-> "succeeded"]
  BY <1>2, <1>3, ExecutionFields DEF ActionStates, Attempt
<1> HIDE DEF path, attempt, run
<1>8. /\ IncidentsOK' /\ IncidentsKept /\ DOMAIN incidents' = DOMAIN incidents
      /\ incidents'[i].status = LastOf(path)
      /\ \A j \in DOMAIN incidents \ {i} :
            incidents'[j].status = incidents[j].status
  BY <1>1, <1>2, <1>4, <1>6, IncidentWritten
<1>9. ActionsOK' /\ ActionsKept /\ DOMAIN actions' = DOMAIN actions
  BY <1>1, <1>2, <1>4, <1>7, <1>8, ActionWritten
<1>10. /\ attempts' \in Seq(Attempt)
       /\ DOMAIN attempts' = DOMAIN attempts \union {Len(attempts) + 1}
       /\ attempts'[Len(attempts) + 1] = attempt
       /\ \A k \in DOMAIN attempts : attempts'[k] = attempts[k]
  BY <1>2, <1>4, <1>7 DEF DecisionsOK
<1>11. attempt.action = a /\ [action |-> a, decision |-> "approve"] \in Decision
  BY <1>2 DEF attempt, Decision
<1>12. AttemptsKept /\ approvals \subseteq approvals'
  BY <1>4, <1>10 DEF AttemptsKept
<1>13. DecisionsOK'
  <2>1. approvals' \subseteq Decision
    BY <1>2, <1>4, <1>11 DEF DecisionsOK
  <2>2. \A d \in approvals' : d.action \in DOMAIN actions'
    BY <1>1, <1>2, <1>4, <1>9 DEF DecisionsOK
  <2>3. \A k \in DOMAIN attempts' : attempts'[k].action \in DOMAIN actions'
    BY <1>1, <1>2, <1>9, <1>10, <1>11 DEF DecisionsOK
  <2> QED BY <1>10, <2>1, <2>2, <2>3 DEF DecisionsOK
<1>14. JobsOK' /\ JobsKept
  BY <1>2, <1>4, <1>8, JobsUntouched
<1>15. AttemptStep
  <2>1. Proposal(l.alert).action = "proposed"
    BY <1>1, <1>5 DEF ExecutableIsProposed
  <2>2. /\ actions'[a].incident = i /\ incidents'[i].alert = l.alert
        /\ [action |-> a, decision |-> "approve"] \in approvals'
    BY <1>1, <1>4, <1>8, <1>9 DEF ActionsKept, IncidentsKept
  <2> QED BY <1>10, <1>11, <2>1, <2>2 DEF AttemptStep
<1>16. StatusStep
  <2>1. CASE LastOf(run.path) = "escalated"
    BY <1>5, <1>8, <2>1 DEF StatusStep
  <2>2. CASE /\ LastOf(run.path) = "resolved" /\ Scenario[l.alert].recovered
             /\ attempt = [action |-> a, status |-> "succeeded"]
    <3>1. /\ incidents'[i].status = "resolved"
          /\ Scenario[incidents'[i].alert].recovered
          /\ a \in DOMAIN actions' /\ actions'[a].incident = i
          /\ Len(attempts) + 1 \in DOMAIN attempts'
          /\ attempts'[Len(attempts) + 1] = [action |-> a,
                                             status |-> "succeeded"]
      BY <1>1, <1>5, <1>8, <1>9, <1>10, <2>2 DEF ActionsKept, IncidentsKept
    <3> QED BY <1>8, <3>1 DEF StatusStep
  <2> QED BY <1>7, <2>1, <2>2
<1> QED BY <1>8, <1>9, <1>12, <1>13, <1>14, <1>15, <1>16 DEF StepOK, TablesOK, Kept

(* The night autopilot runs an incident of its own.                         *)
LEMMA NightAutopilotStep ==
    ASSUME IndInv, NightAutopilot
    PROVE  StepOK
<1>1. IncidentsOK /\ ActionsOK /\ DecisionsOK /\ JobsOK
  BY DEF IndInv, TablesOK
<1>2. PICK al \in Alerts, passed \in BOOLEAN :
         IF passed
         THEN /\ InsertIncident(al, FALSE,
                   <<"new", "queued", "investigating", "action_proposed",
                     "executing", "verifying",
                     IF Scenario[al].recovered THEN "resolved"
                                               ELSE "escalated">>)
              /\ InsertAction(NewId, "executed", TRUE)
         ELSE /\ InsertIncident(al, FALSE,
                   <<"new", "queued", "investigating", "escalated">>)
              /\ UNCHANGED actions
  BY DEF NightAutopilot
<1>3. UNCHANGED <<approvals, attempts, jobs, tries>>
  BY DEF NightAutopilot
<1>4. CASE passed
  <2> DEFINE last == IF Scenario[al].recovered THEN "resolved" ELSE "escalated"
             path == <<"new", "queued", "investigating", "action_proposed",
                       "executing", "verifying", last>>
  <2>1. last \in States
    BY StatesAre
  <2>2. path \in Seq(States) /\ path # <<>> /\ LastOf(path) = last
    <3> HIDE DEF last
    <3> QED BY <2>1, StatesAre DEF LastOf
  <2>3. Moves(path) \in Path /\ LastOf(path) \in States
    BY <2>2, PathFields
  <2>4. /\ incidents' = Append(incidents, [alert |-> al, keyed |-> FALSE,
                                           status |-> LastOf(path)])
        /\ timeline' = Append(timeline, Moves(path))
        /\ actions' = Append(actions, [incident |-> NewId,
                                       status |-> "executed", auto |-> TRUE])
    BY <1>2, <1>4 DEF InsertIncident, InsertAction
  <2> HIDE DEF path
  <2>5. FALSE \in BOOLEAN /\ TRUE \in BOOLEAN /\ "executed" \in ActionStates
    BY DEF ActionStates
  <2>6. /\ IncidentsOK' /\ IncidentsKept
        /\ NewId \in Nat /\ NewId \notin DOMAIN incidents
        /\ DOMAIN incidents' = DOMAIN incidents \union {NewId}
        /\ incidents'[NewId].status = last /\ incidents'[NewId].alert = al
        /\ \A j \in DOMAIN incidents : incidents'[j].status = incidents[j].status
    BY <1>1, <2>2, <2>3, <2>4, <2>5, IncidentInserted
  <2>7. NewId \in DOMAIN incidents'
    BY <2>6
  <2>8. /\ ActionsOK' /\ ActionsKept
        /\ Len(actions) + 1 \in DOMAIN actions'
        /\ actions'[Len(actions) + 1].incident = NewId
        /\ actions'[Len(actions) + 1].auto
    BY <1>1, <2>4, <2>5, <2>6, <2>7, ActionInserted
  <2>9. /\ DecisionsOK' /\ AttemptsKept /\ AttemptStep
        /\ approvals \subseteq approvals' /\ JobsOK' /\ JobsKept
    BY <1>1, <1>3, <2>6, <2>8, DecisionsUntouched, JobsUntouched
  <2>10. StatusStep
    <3>1. CASE Scenario[al].recovered
      <4>1. incidents'[NewId].status = "resolved"
        BY <2>6, <3>1
      <4> QED BY <2>6, <2>8, <3>1, <4>1 DEF StatusStep
    <3>2. CASE ~Scenario[al].recovered
      <4>1. incidents'[NewId].status = "escalated"
        BY <2>6, <3>2
      <4> QED BY <2>6, <4>1 DEF StatusStep
    <3> QED BY <3>1, <3>2
  <2> QED BY <2>6, <2>8, <2>9, <2>10 DEF StepOK, TablesOK, Kept
<1>5. CASE ~passed
  <2> DEFINE path == <<"new", "queued", "investigating", "escalated">>
  <2>1. path \in Seq(States) /\ path # <<>> /\ LastOf(path) = "escalated"
    BY StatesAre DEF LastOf
  <2>2. Moves(path) \in Path /\ LastOf(path) \in States
    BY <2>1, PathFields
  <2>3. /\ incidents' = Append(incidents, [alert |-> al, keyed |-> FALSE,
                                           status |-> LastOf(path)])
        /\ timeline' = Append(timeline, Moves(path))
        /\ UNCHANGED actions
    BY <1>2, <1>5 DEF InsertIncident
  <2> HIDE DEF path
  <2>4. /\ IncidentsOK' /\ IncidentsKept
        /\ DOMAIN incidents' = DOMAIN incidents \union {NewId}
        /\ incidents'[NewId].status = "escalated"
        /\ \A j \in DOMAIN incidents : incidents'[j].status = incidents[j].status
    <3>1. FALSE \in BOOLEAN
      OBVIOUS
    <3> QED BY <1>1, <2>1, <2>2, <2>3, <3>1, IncidentInserted
  <2>5. ActionsOK' /\ ActionsKept
    BY <1>1, <2>3, <2>4 DEF ActionsOK, ActionsKept, IncidentsKept
  <2>6. /\ DecisionsOK' /\ AttemptsKept /\ AttemptStep
        /\ approvals \subseteq approvals' /\ JobsOK' /\ JobsKept
    BY <1>1, <1>3, <2>4, <2>5, DecisionsUntouched, JobsUntouched
  <2>7. StatusStep
    BY <2>4 DEF StatusStep
  <2> QED BY <2>4, <2>5, <2>6, <2>7 DEF StepOK, TablesOK, Kept
<1> QED BY <1>4, <1>5

(* The steps of a session that only read, or give up.                       *)
Reads(s) ==
    LoadAlert(s) \/ LoadInvestigate(s) \/ LoadJob(s) \/ LoadDecision(s)
    \/ Rollback(s)

(* They write nothing.                                                      *)
LEMMA ReadStep ==
    ASSUME IndInv, UNCHANGED <<tables, tries>>
    PROVE  StepOK
<1>1. TablesOK /\ JobsOK /\ IncidentsKept /\ UNCHANGED <<jobs, tries>>
      /\ UNCHANGED tables
  BY DEF IndInv, TablesOK, IncidentsKept, tables
<1>2. JobsOK' /\ JobsKept
  BY <1>1, JobsUntouched
<1> QED BY <1>1, <1>2, NothingWritten

(* Every step is one that StepOK describes.                                 *)
LEMMA EveryStep ==
    ASSUME IndInv, [Next]_vars
    PROVE  StepOK
<1>1. CASE UNCHANGED vars
  <2>1. UNCHANGED <<tables, tries>>
    BY <1>1 DEF vars
  <2> QED BY <2>1, ReadStep
<1>2. CASE NightAutopilot
  BY <1>2, NightAutopilotStep
<1>3. ASSUME NEW s \in Sessions, Reads(s)
      PROVE  StepOK
  <2>1. UNCHANGED <<tables, tries>>
    BY <1>3 DEF Reads, LoadAlert, LoadInvestigate, LoadJob, LoadDecision, Rollback
  <2> QED BY <2>1, ReadStep
<1>4. ASSUME NEW s \in Sessions, Finish(s)
      PROVE  StepOK
  BY <1>4, EnqueueNewStep, EnqueueExistingStep, ProcessNewStep,
     ProcessExistingStep, FinishInvestigateStep, CompleteJobStep, RejectStep,
     ApproveDeniedStep, ApproveAndExecuteStep DEF Finish
<1>5. ASSUME NEW s \in Sessions, JobRaises(s)
      PROVE  StepOK
  BY <1>5, JobRaisesStep
<1> QED BY <1>1, <1>2, <1>3, <1>4, <1>5 DEF Next, Reads

-----------------------------------------------------------------------------
(* What a session holds stays usable: rows are kept.                        *)
LEMMA SessionKept ==
    ASSUME TablesOK, TablesOK', Kept, NEW t \in Sessions, SessionOK(t),
           sess'[t] = sess[t]
    PROVE  SessionOK(t)'
<1>1. ASSUME NEW l, LoadedOK(l)
      PROVE  /\ l.incident \in DOMAIN incidents'
             /\ l.alert = incidents'[l.incident].alert
             /\ l.status \in States
             /\ ExecutableIsProposed(l.status, l.alert)
  BY <1>1 DEF LoadedOK, Kept, IncidentsKept
<1>2. sess[t].op = "drain" =>
         /\ sess[t].job \in DOMAIN jobs'
         /\ sess[t].tried <= tries'[sess[t].job]
  <2> SUFFICES ASSUME sess[t].op = "drain"
               PROVE  /\ sess[t].job \in DOMAIN jobs'
                      /\ sess[t].tried <= tries'[sess[t].job]
    OBVIOUS
  <2> DEFINE j == sess[t].job
  <2>1. /\ j \in DOMAIN jobs /\ j \in DOMAIN jobs' /\ tries[j] <= tries'[j]
        /\ sess[t].tried \in Nat /\ sess[t].tried <= tries[j]
    BY DEF SessionOK, Kept, JobsKept
  <2>2. tries[j] \in Nat
    BY <2>1 DEF TablesOK, JobsOK
  <2>3. tries'[j] \in Nat
    BY <2>1 DEF TablesOK, JobsOK
  <2> QED BY <2>1, <2>2, <2>3
<1>3. sess[t].op \in {"approve", "reject"} =>
         /\ sess[t].action \in DOMAIN actions'
         /\ actions'[sess[t].action].incident = sess[t].of.incident
  BY DEF SessionOK, Kept, ActionsKept
<1> QED BY <1>1, <1>2, <1>3 DEF SessionOK, LoadedOK

(* A session that has just loaded an incident.                              *)
LEMMA JustLoaded ==
    ASSUME IndInv, NEW i \in DOMAIN incidents, NEW op
    PROVE  /\ LoadedOK(Loaded(op, i))
           /\ Loaded(op, i).op = op /\ Loaded(op, i).incident = i
           /\ Loaded(op, i).alert \in Alerts
           /\ ActionsOf(i) = {} => ~Loaded(op, i).acted
<1>1. incidents[i].alert \in Alerts /\ incidents[i].status \in States
  BY IncidentFields DEF IndInv, TablesOK
<1>2. ExecutableIsProposed(incidents[i].status, incidents[i].alert)
  BY DEF IndInv, StatusInv
<1> QED BY <1>1, <1>2 DEF Loaded, LoadedOK

(* A session that has just loaded anything.                                 *)
LEMMA LoadKeepsSession ==
    ASSUME IndInv, NEW s \in Sessions, Reads(s)
    PROVE  /\ SessionOK(s)' /\ DOMAIN sess' = Sessions
           /\ \A t \in Sessions \ {s} : sess'[t] = sess[t]
<1>0. DOMAIN sess = Sessions
  BY DEF IndInv, SessionsOK
<1>1. UNCHANGED <<incidents, actions, jobs, tries>>
  BY DEF Reads, LoadAlert, LoadInvestigate, LoadJob, LoadDecision, Rollback, tables
<1>2. CASE LoadAlert(s)
  <2>1. PICK al \in Alerts, op \in {"enqueue", "process_now"} :
           sess' = [sess EXCEPT ![s] =
                      IF Matching(al) = {}
                      THEN [op |-> op, incident |-> 0, alert |-> al,
                            status |-> "new", acted |-> FALSE]
                      ELSE Loaded(op, CHOOSE i \in Matching(al) : TRUE)]
    BY <1>2 DEF LoadAlert
  <2>2. CASE Matching(al) = {}
    <3>1. sess'[s] = [op |-> op, incident |-> 0, alert |-> al,
                      status |-> "new", acted |-> FALSE]
      BY <1>0, <2>1, <2>2
    <3>2. SessionOK(s)'
      BY <3>1 DEF SessionOK
    <3> QED BY <1>0, <2>1, <3>2
  <2>3. CASE Matching(al) # {}
    <3> DEFINE i == CHOOSE i \in Matching(al) : TRUE
    <3>1. i \in DOMAIN incidents
      BY <2>3 DEF Matching
    <3>2. sess'[s] = Loaded(op, i)
      BY <1>0, <2>1, <2>3
    <3> HIDE DEF i
    <3>3. LoadedOK(sess'[s]) /\ sess'[s].op = op /\ sess'[s].alert \in Alerts
      BY <3>1, <3>2, JustLoaded
    <3>4. SessionOK(s)'
      BY <1>1, <3>3 DEF SessionOK, LoadedOK
    <3> QED BY <1>0, <2>1, <3>4
  <2> QED BY <2>2, <2>3
<1>3. CASE LoadInvestigate(s)
  <2>1. PICK i \in DOMAIN incidents :
           /\ ActionsOf(i) = {}
           /\ sess' = [sess EXCEPT ![s] = Loaded("investigate", i)]
    BY <1>3 DEF LoadInvestigate
  <2>2. sess'[s] = Loaded("investigate", i)
    BY <1>0, <2>1
  <2>3. LoadedOK(sess'[s]) /\ sess'[s].op = "investigate" /\ ~sess'[s].acted
    BY <2>1, <2>2, JustLoaded
  <2>4. SessionOK(s)'
    BY <1>1, <2>3 DEF SessionOK, LoadedOK
  <2> QED BY <1>0, <2>1, <2>4
<1>4. CASE LoadJob(s)
  <2>1. PICK j \in DOMAIN jobs :
           sess' = [sess EXCEPT ![s] =
                      [op |-> "drain", job |-> j, tried |-> jobs[j].attempt_count,
                       of |-> Loaded("drain", jobs[j].incident)]]
    BY <1>4 DEF LoadJob
  <2>2. sess'[s] = [op |-> "drain", job |-> j, tried |-> jobs[j].attempt_count,
                    of |-> Loaded("drain", jobs[j].incident)]
    BY <1>0, <2>1
  <2>3. /\ jobs[j] \in Job /\ jobs[j].incident \in DOMAIN incidents
        /\ jobs[j].attempt_count <= tries[j]
    BY DEF IndInv, TablesOK, JobsOK
  <2>4. jobs[j].attempt_count \in Nat
    BY <2>3 DEF Job
  <2>5. LoadedOK(sess'[s].of)
    BY <2>2, <2>3, JustLoaded
  <2>6. SessionOK(s)'
    BY <1>1, <2>2, <2>3, <2>4, <2>5 DEF SessionOK, LoadedOK
  <2> QED BY <1>0, <2>1, <2>6
<1>5. CASE LoadDecision(s)
  <2>1. PICK a \in DOMAIN actions, decision \in {"approve", "reject"} :
           sess' = [sess EXCEPT ![s] =
                      [op |-> decision, action |-> a, was |-> actions[a].status,
                       of |-> Loaded(decision, actions[a].incident)]]
    BY <1>5 DEF LoadDecision
  <2>2. sess'[s] = [op |-> decision, action |-> a, was |-> actions[a].status,
                    of |-> Loaded(decision, actions[a].incident)]
    BY <1>0, <2>1
  <2>3. actions[a].incident \in DOMAIN incidents
    BY DEF IndInv, TablesOK, ActionsOK
  <2>4. /\ LoadedOK(sess'[s].of)
        /\ sess'[s].of.incident = actions[a].incident
    BY <2>2, <2>3, JustLoaded
  <2>5. SessionOK(s)'
    BY <1>1, <2>2, <2>4 DEF SessionOK, LoadedOK
  <2> QED BY <1>0, <2>1, <2>5
<1>6. CASE Rollback(s)
  <2>1. sess' = [sess EXCEPT ![s] = Free]
    BY <1>6 DEF Rollback, End
  <2>2. SessionOK(s)'
    BY <1>0, <2>1 DEF SessionOK, Free
  <2> QED BY <1>0, <2>1, <2>2
<1> QED BY <1>2, <1>3, <1>4, <1>5, <1>6 DEF Reads

(* What sessions hold stays usable.                                           *)
LEMMA SessionsNext ==
    ASSUME IndInv, [Next]_vars
    PROVE  SessionsOK'
<1>0. TablesOK /\ TablesOK' /\ Kept /\ SessionsOK
  BY EveryStep DEF IndInv, StepOK
<1>1. CASE UNCHANGED sess
  BY <1>0, <1>1, SessionKept DEF SessionsOK
<1>2. ASSUME NEW s \in Sessions, Reads(s)
      PROVE  SessionsOK'
  BY <1>0, <1>2, LoadKeepsSession, SessionKept DEF SessionsOK
<1>3. ASSUME NEW s \in Sessions, sess' = [sess EXCEPT ![s] = Free]
      PROVE  SessionsOK'
  <2>1. /\ sess'[s] = Free /\ DOMAIN sess' = Sessions
        /\ \A t \in Sessions \ {s} : sess'[t] = sess[t]
    BY <1>0, <1>3 DEF SessionsOK
  <2>2. SessionOK(s)'
    BY <2>1 DEF SessionOK, Free
  <2> QED BY <1>0, <2>1, <2>2, SessionKept DEF SessionsOK
<1>4. ASSUME NEW s \in Sessions, Finish(s) \/ JobRaises(s)
      PROVE  sess' = [sess EXCEPT ![s] = Free]
  BY <1>4 DEF Finish, EnqueueNew, EnqueueExisting, ProcessNew, ProcessExisting,
     FinishInvestigate, CompleteJob, Reject, ApproveDenied, ApproveAndExecute,
     JobRaises, End
<1>5. NightAutopilot \/ UNCHANGED vars => UNCHANGED sess
  BY DEF NightAutopilot, vars
<1> QED BY <1>1, <1>2, <1>3, <1>4, <1>5 DEF Next, Reads

(* The other parts follow from what a step may do.                          *)
LEMMA StepKeepsFacts ==
    ASSUME IndInv, StepOK
    PROVE  StatusInv' /\ ExecutionIsApproved' /\ ResolvedIsVerified'
<1>0. /\ TablesOK /\ TablesOK' /\ Kept /\ StatusStep /\ AttemptStep
      /\ StatusInv /\ ExecutionIsApproved /\ ResolvedIsVerified
  BY DEF IndInv, StepOK
<1>1. StatusInv'
  <2> SUFFICES ASSUME NEW i \in DOMAIN incidents'
               PROVE  ExecutableIsProposed(incidents'[i].status,
                                           incidents'[i].alert)
    BY DEF StatusInv
  <2>1. incidents'[i].alert \in Alerts
    <3>1. incidents'[i] \in Incident
      BY <1>0 DEF TablesOK, IncidentsOK
    <3> QED BY <3>1 DEF Incident
  <2>2. CASE i \in DOMAIN incidents /\ incidents'[i].status = incidents[i].status
    BY <1>0, <2>2 DEF StatusInv, Kept, IncidentsKept
  <2>3. CASE incidents'[i].status \in {"queued", "escalated", "resolved"}
    BY <2>3 DEF ExecutableIsProposed, Executable
  <2>4. CASE incidents'[i].status = Proposal(incidents'[i].alert).incident
    BY <2>1, <2>4, ProposalFields DEF ExecutableIsProposed, Executable
  <2> QED BY <1>0, <2>2, <2>3, <2>4 DEF StatusStep
<1>2. ExecutionIsApproved'
  <2> SUFFICES ASSUME NEW k \in DOMAIN attempts'
               PROVE  /\ [action |-> attempts'[k].action,
                          decision |-> "approve"] \in approvals'
                      /\ Proposal(incidents'[actions'[attempts'[k].action]
                                               .incident].alert).action
                            = "proposed"
    BY DEF ExecutionIsApproved, AlertOf
  <2>1. CASE k \in DOMAIN attempts
    <3> DEFINE a == attempts[k].action
    <3>1. /\ attempts'[k] = attempts[k] /\ a \in DOMAIN actions
          /\ actions[a].incident \in DOMAIN incidents
      BY <1>0, <2>1 DEF Kept, AttemptsKept, TablesOK, DecisionsOK, ActionsOK
    <3>2. /\ actions'[a].incident = actions[a].incident
          /\ incidents'[actions[a].incident].alert =
                incidents[actions[a].incident].alert
      BY <1>0, <3>1 DEF Kept, ActionsKept, IncidentsKept
    <3>3. /\ [action |-> a, decision |-> "approve"] \in approvals
          /\ Proposal(incidents[actions[a].incident].alert).action = "proposed"
      BY <1>0, <2>1 DEF ExecutionIsApproved, AlertOf
    <3> QED BY <1>0, <3>1, <3>2, <3>3 DEF Kept
  <2>2. CASE k \notin DOMAIN attempts
    BY <1>0, <2>2 DEF AttemptStep
  <2> QED BY <2>1, <2>2
<1>3. ResolvedIsVerified'
  <2> SUFFICES ASSUME NEW i \in DOMAIN incidents',
                      incidents'[i].status = "resolved"
               PROVE  /\ Scenario[incidents'[i].alert].recovered
                      /\ \E a \in DOMAIN actions' :
                            /\ actions'[a].incident = i
                            /\ \/ actions'[a].auto
                               \/ \E k \in DOMAIN attempts' :
                                     attempts'[k] = [action |-> a,
                                                     status |-> "succeeded"]
    BY DEF ResolvedIsVerified, ActionsOf
  <2>1. incidents'[i].alert \in Alerts
    <3>1. incidents'[i] \in Incident
      BY <1>0 DEF TablesOK, IncidentsOK
    <3> QED BY <3>1 DEF Incident
  <2>2. incidents'[i].status # Proposal(incidents'[i].alert).incident
    BY <2>1, ProposalFields
  <2>3. CASE i \in DOMAIN incidents /\ incidents[i].status = "resolved"
    <3>1. Scenario[incidents'[i].alert].recovered
      BY <1>0, <2>3 DEF ResolvedIsVerified, Kept, IncidentsKept
    <3>2. PICK a \in DOMAIN actions :
             /\ actions[a].incident = i
             /\ \/ actions[a].auto
                \/ \E k \in DOMAIN attempts :
                      attempts[k] = [action |-> a, status |-> "succeeded"]
      BY <1>0, <2>3 DEF ResolvedIsVerified, ActionsOf
    <3>3. /\ a \in DOMAIN actions' /\ actions'[a].incident = i
          /\ \/ actions'[a].auto
             \/ \E k \in DOMAIN attempts' :
                   attempts'[k] = [action |-> a, status |-> "succeeded"]
      BY <1>0, <3>2 DEF Kept, ActionsKept, AttemptsKept
    <3> QED BY <3>1, <3>3
  <2> QED BY <1>0, <2>2, <2>3 DEF StatusStep
<1> QED BY <1>1, <1>2, <1>3

(* The invariant holds at the start.                                        *)
LEMMA InitInv ==
    ASSUME Init
    PROVE  IndInv
<1>1. TablesOK
  BY DEF Init, TablesOK, IncidentsOK, ActionsOK, DecisionsOK, JobsOK
<1>2. SessionsOK
  BY DEF Init, SessionsOK, SessionOK, Free
<1>3. StatusInv /\ ExecutionIsApproved /\ ResolvedIsVerified
  BY DEF Init, StatusInv, ExecutionIsApproved, ResolvedIsVerified
<1> QED BY <1>1, <1>2, <1>3 DEF IndInv

(* Every behaviour of the workflow keeps the inductive invariant, for any
   alerts, scenarios and number of overlapping requests and workers.        *)
THEOREM Invariance == Spec => []IndInv
<1>1. Init => IndInv
  BY InitInv
<1>2. IndInv /\ [Next]_vars => IndInv'
  <2> SUFFICES ASSUME IndInv, [Next]_vars
               PROVE  IndInv'
    OBVIOUS
  <2>1. StepOK
    BY EveryStep
  <2> QED BY <2>1, SessionsNext, StepKeepsFacts DEF IndInv, StepOK
<1> QED BY <1>1, <1>2, PTL DEF Spec

(* The tables hold well-formed rows that refer to rows that exist.          *)
THEOREM TypeCorrect == Spec => []TypeOK
<1>1. IndInv => TypeOK
  <2> SUFFICES ASSUME IndInv
               PROVE  TypeOK
    OBVIOUS
  <2>0. IncidentsOK /\ ActionsOK /\ DecisionsOK /\ JobsOK
    BY DEF IndInv, TablesOK
  <2>1. \A i \in DOMAIN incidents : incidents[i] \in Incident
    BY <2>0 DEF IncidentsOK
  <2>2. /\ DOMAIN timeline = DOMAIN incidents
        /\ \A i \in DOMAIN incidents : timeline[i] \in Path
    BY <2>0 DEF IncidentsOK
  <2>3. \A i \in DOMAIN incidents :
           /\ incidents[i].alert \in Alerts /\ incidents[i].keyed \in BOOLEAN
           /\ incidents[i].status \in States
           /\ timeline[i] \in Seq(States \X States)
    BY <2>1, <2>2 DEF Incident, Path
  <2>4. \A a \in DOMAIN actions : actions[a] \in Action
    BY <2>0 DEF ActionsOK
  <2>5. \A a \in DOMAIN actions : /\ actions[a].incident \in DOMAIN incidents
                                  /\ actions[a].status \in ActionStates
    BY <2>0, <2>4 DEF ActionsOK, Action
  <2>6. \A j \in DOMAIN jobs : jobs[j] \in Job
    BY <2>0 DEF JobsOK
  <2>7. \A j \in DOMAIN jobs : /\ jobs[j].incident \in DOMAIN incidents
                               /\ jobs[j].status \in {"pending", "completed"}
                               /\ jobs[j].attempt_count <= tries[j]
    BY <2>0, <2>6 DEF JobsOK, Job
  <2> QED BY <2>0, <2>2, <2>3, <2>5, <2>7 DEF TypeOK, DecisionsOK
<1> QED BY <1>1, Invariance, PTL

(* However requests and workers overlap, an action is executed only with a
   human approval on record, and only if its investigation proposed it.     *)
THEOREM ExecutionsAreApproved == Spec => []ExecutionIsApproved
<1>1. IndInv => ExecutionIsApproved
  BY DEF IndInv
<1> QED BY <1>1, Invariance, PTL

(* However requests and workers overlap, behind a resolved incident there is
   an execution whose recovery check passed.                                *)
THEOREM ResolutionsAreVerified == Spec => []ResolvedIsVerified
<1>1. IndInv => ResolvedIsVerified
  BY DEF IndInv
<1> QED BY <1>1, Invariance, PTL

-----------------------------------------------------------------------------
(* What the timeline of an incident tells about stale writes.               *)

(* A timeline without a gap ends at the status of its incident.             *)
EndsAtStatus(i) ==
    /\ timeline[i] # <<>>
    /\ Unbroken(i) => timeline[i][Len(timeline[i])][2] = incidents[i].status

TraceInv == \A i \in DOMAIN incidents : EndsAtStatus(i)

OneAction(i) == \A a, b \in ActionsOf(i) : a = b

(* An incident without a gap, whose only action has been attempted, is past
   its execution.                                                           *)
Settled == {"resolved", "escalated"}

AttemptedInv ==
    \A k \in DOMAIN attempts :
        LET i == actions[attempts[k].action].incident
        IN  Unbroken(i) /\ OneAction(i) => incidents[i].status \in Settled

TracedInv == IndInv /\ TraceInv /\ AttemptedInv /\ RepeatsLeaveATrace

(* A handler moves incident i along a path it found allowed from the status
   it had loaded, and records it.                                           *)
Recorded(i, path) ==
    /\ path \in Seq(States) /\ Len(path) >= 2
    /\ transition_incident(path[1], path[2])
    /\ path[2] \in {"investigating", "escalated", "executing"}
    /\ timeline'[i] = timeline[i] \o Moves(path)
    /\ \/ incidents'[i].status = LastOf(path)
       \/ /\ incidents'[i].status = incidents[i].status
          /\ path[1] = LastOf(path)

(* Every step leaves an incident alone, or records a path that settles it or
   that comes with an action of its own.                                    *)
StaysOrRecorded(i) ==
    \/ timeline'[i] = timeline[i] /\ incidents'[i].status = incidents[i].status
    \/ \E path : /\ Recorded(i, path)
                 /\ \/ LastOf(path) \in Settled
                    \/ \E a \in DOMAIN actions' \ DOMAIN actions :
                          actions'[a].incident = i

InsertedOrKept ==
    \A i \in DOMAIN incidents' :
        \/ i \in DOMAIN incidents /\ StaysOrRecorded(i)
        \/ /\ i \notin DOMAIN incidents
           /\ \E path \in Seq(States) :
                 /\ Len(path) >= 2 /\ timeline'[i] = Moves(path)
                 /\ incidents'[i].status = LastOf(path)

AttemptsRecorded ==
    \/ UNCHANGED attempts
    \/ \E a \in DOMAIN actions, attempt \in Attempt, path \in Seq(States) :
          /\ attempts' = Append(attempts, attempt) /\ attempt.action = a
          /\ Recorded(actions[a].incident, path)
          /\ path[1] \in Executable /\ LastOf(path) \in Settled
          /\ incidents'[actions[a].incident].status = LastOf(path)

TracedStep == InsertedOrKept /\ AttemptsRecorded

(* A path of transitions is allowed only if its first one is.               *)
LEMMA FirstMove ==
    ASSUME NEW path \in Seq(States), Len(path) >= 2, Allowed(path)
    PROVE  transition_incident(path[1], path[2])
<1>1. 1 \in 1..(Len(path) - 1) /\ 1 + 1 = 2
  OBVIOUS
<1> QED BY <1>1 DEF Allowed

(* No handler leaves a terminal status.                                     *)
LEMMA NotTerminal ==
    ASSUME NEW st \in States, NEW to \in {"investigating", "escalated", "executing"},
           transition_incident(st, to)
    PROVE  ALLOWED_TRANSITIONS[st] # {}
<1>1. CASE to \in ALLOWED_TRANSITIONS[st]
  BY <1>1
<1>2. CASE to = st
  BY <1>2 DEF ALLOWED_TRANSITIONS
<1> QED BY <1>1, <1>2 DEF transition_incident

(* The transitions of a path: they end where the path ends.                 *)
LEMMA MovesEnd ==
    ASSUME NEW path \in Seq(States), Len(path) >= 2
    PROVE  /\ Moves(path) \in Path /\ Len(Moves(path)) = Len(path) - 1
           /\ Moves(path) # <<>>
           /\ Moves(path)[1][1] = path[1]
           /\ Moves(path)[Len(Moves(path))][2] = LastOf(path)
<1>1. Moves(path) \in Path
  BY PathFields
<1>2. /\ Len(Moves(path)) = Len(path) - 1
      /\ \A k \in 1..(Len(path) - 1) : Moves(path)[k] = <<path[k], path[k + 1]>>
  BY DEF Moves
<1>3. 1 \in 1..(Len(path) - 1) /\ Len(path) - 1 \in 1..(Len(path) - 1)
      /\ Len(path) - 1 + 1 = Len(path)
  OBVIOUS
<1> QED BY <1>1, <1>2, <1>3 DEF LastOf

(* A chain that has been extended has no gap only if it had none before, and
   the path it was extended by starts where it ended.                       *)
LEMMA ChainExtended ==
    ASSUME NEW t \in Path, t # <<>>, NEW path \in Seq(States), Len(path) >= 2,
           NEW u, u = t \o Moves(path)
    PROVE  /\ u # <<>> /\ u[Len(u)][2] = LastOf(path)
           /\ Chained(u) => Chained(t) /\ t[Len(t)][2] = path[1]
<1> DEFINE m == Moves(path)
<1>1. /\ m \in Path /\ m # <<>> /\ m[1][1] = path[1]
      /\ m[Len(m)][2] = LastOf(path)
  BY MovesEnd
<1> HIDE DEF m
<1>2. t \in Seq(States \X States) /\ m \in Seq(States \X States)
  BY <1>1 DEF Path
<1>3. /\ Len(u) = Len(t) + Len(m) /\ Len(t) \in Nat \ {0} /\ Len(m) \in Nat \ {0}
      /\ \A k \in 1..Len(t) : u[k] = t[k]
      /\ \A k \in 1..Len(m) : u[Len(t) + k] = m[k]
  <2>1. u = t \o m
    BY DEF m
  <2> QED BY <1>1, <1>2, <2>1
<1>4. u # <<>> /\ u[Len(u)] = m[Len(m)]
  BY <1>3
<1>5. ASSUME Chained(u)
      PROVE  Chained(t) /\ t[Len(t)][2] = path[1]
  <2>1. \A k \in 1..(Len(u) - 1) : u[k][2] = u[k + 1][1]
    BY <1>5 DEF Chained
  <2>2. Chained(t)
    BY <1>3, <2>1 DEF Chained
  <2>3. u[Len(t)][2] = u[Len(t) + 1][1]
    BY <1>3, <2>1
  <2>4. u[Len(t)] = t[Len(t)] /\ u[Len(t) + 1] = m[1]
    BY <1>3
  <2> QED BY <1>1, <2>2, <2>3, <2>4
<1> QED BY <1>1, <1>4, <1>5

(* One incident is written and its path recorded.                           *)
LEMMA PathRecorded ==
    ASSUME IncidentsOK, NEW i \in DOMAIN incidents,
           NEW path \in Seq(States), Len(path) >= 2, Allowed(path),
           path[2] \in {"investigating", "escalated", "executing"},
           NEW st \in States,
           \/ st = LastOf(path)
           \/ st = incidents[i].status /\ path[1] = LastOf(path),
           incidents' = [incidents EXCEPT ![i].status = st],
           timeline' = [timeline EXCEPT ![i] = @ \o Moves(path)]
    PROVE  /\ Recorded(i, path) /\ incidents'[i].status = st
           /\ DOMAIN incidents' = DOMAIN incidents
           /\ \A j \in DOMAIN incidents \ {i} : StaysOrRecorded(j)
<1>1. Moves(path) \in Path
  BY MovesEnd
<1>2. /\ DOMAIN incidents' = DOMAIN incidents /\ incidents'[i].status = st
      /\ \A j \in DOMAIN incidents \ {i} :
            incidents'[j].status = incidents[j].status
  BY <1>1, IncidentWritten
<1>3. /\ timeline'[i] = timeline[i] \o Moves(path)
      /\ \A j \in DOMAIN incidents \ {i} : timeline'[j] = timeline[j]
  BY DEF IncidentsOK
<1>4. transition_incident(path[1], path[2])
  BY FirstMove
<1> QED BY <1>2, <1>3, <1>4 DEF Recorded, StaysOrRecorded

(* The handlers that leave all incidents and attempts alone.                *)
LEMMA TracedRead ==
    ASSUME UNCHANGED <<incidents, timeline, attempts>>
    PROVE  TracedStep
BY DEF TracedStep, InsertedOrKept, StaysOrRecorded, AttemptsRecorded

(* The handlers that insert an incident.                                    *)
LEMMA TracedInsert ==
    ASSUME IncidentsOK, UNCHANGED attempts, NEW al \in Alerts,
           NEW keyed \in BOOLEAN, NEW path \in Seq(States), Len(path) >= 2,
           InsertIncident(al, keyed, path)
    PROVE  TracedStep
<1>1. /\ incidents' = Append(incidents, [alert |-> al, keyed |-> keyed,
                                         status |-> LastOf(path)])
      /\ timeline' = Append(timeline, Moves(path))
  BY DEF InsertIncident
<1>2. Moves(path) \in Path /\ LastOf(path) \in States
  BY PathFields
<1>3. /\ DOMAIN incidents' = DOMAIN incidents \union {NewId}
      /\ NewId \notin DOMAIN incidents
      /\ incidents'[NewId].status = LastOf(path)
      /\ \A j \in DOMAIN incidents : incidents'[j].status = incidents[j].status
  BY <1>1, <1>2, IncidentInserted
<1>4. /\ timeline'[NewId] = Moves(path)
      /\ \A j \in DOMAIN incidents : timeline'[j] = timeline[j]
  BY <1>1, <1>2 DEF IncidentsOK, NewId
<1>5. InsertedOrKept
  BY <1>3, <1>4 DEF InsertedOrKept, StaysOrRecorded
<1> QED BY <1>5 DEF TracedStep, AttemptsRecorded

(* An investigation of an incident that is there, with whatever status it
   was loaded.                                                              *)
LEMMA TracedInvestigation ==
    ASSUME IndInv, NEW l, LoadedOK(l), UNCHANGED attempts,
           Investigate(l.incident, l.alert, l.status)
    PROVE  TracedStep
<1> DEFINE i == l.incident
           path == <<l.status, "investigating", "action_proposed",
                     Proposal(l.alert).incident>>
<1>1. /\ IncidentsOK /\ ActionsOK /\ i \in DOMAIN incidents /\ i \in Nat
      /\ l.alert \in Alerts /\ l.status \in States
  BY IncidentFields DEF IndInv, TablesOK, LoadedOK
<1>2. Proposal(l.alert).incident \in States
  BY <1>1, ProposalFields, StatesAre
<1>3. /\ path \in Seq(States) /\ Len(path) >= 2 /\ path[2] = "investigating"
  BY <1>1, <1>2, StatesAre
<1>4. /\ Allowed(path)
      /\ incidents' = [incidents EXCEPT ![i].status = LastOf(path)]
      /\ timeline' = [timeline EXCEPT ![i] = @ \o Moves(path)]
  BY DEF Investigate, WriteIncident
<1> HIDE DEF path
<1>5. LastOf(path) \in States
  BY <1>3, PathFields
<1>6. /\ Recorded(i, path) /\ DOMAIN incidents' = DOMAIN incidents
      /\ \A j \in DOMAIN incidents \ {i} : StaysOrRecorded(j)
  BY <1>1, <1>3, <1>4, <1>5, PathRecorded
<1>7. /\ Len(actions) + 1 \in DOMAIN actions' \ DOMAIN actions
      /\ actions'[Len(actions) + 1].incident = i
  BY <1>1 DEF Investigate, InsertAction, ActionsOK
<1>8. StaysOrRecorded(i)
  BY <1>6, <1>7 DEF StaysOrRecorded
<1>9. InsertedOrKept
  BY <1>6, <1>8 DEF InsertedOrKept
<1> QED BY <1>9 DEF TracedStep, AttemptsRecorded

(* The handlers that investigate an incident that is there.                 *)
LEMMA TracedInvestigations ==
    ASSUME IndInv, NEW s \in Sessions,
           ProcessExisting(s) \/ FinishInvestigate(s) \/ CompleteJob(s)
    PROVE  TracedStep
<1>0. SessionOK(s)
  BY SessionFields DEF IndInv
<1>1. UNCHANGED attempts
  BY DEF ProcessExisting, FinishInvestigate, CompleteJob
<1>2. CASE UNCHANGED <<incidents, timeline>>
  BY <1>1, <1>2, TracedRead
<1>3. CASE ProcessExisting(s)
  <2>1. LoadedOK(sess[s])
    BY <1>0, <1>3 DEF ProcessExisting, SessionOK
  <2> QED BY <1>1, <1>2, <1>3, <2>1, TracedInvestigation DEF ProcessExisting
<1>4. CASE FinishInvestigate(s)
  <2>1. LoadedOK(sess[s])
    BY <1>0, <1>4 DEF FinishInvestigate, SessionOK
  <2> QED BY <1>1, <1>4, <2>1, TracedInvestigation DEF FinishInvestigate
<1>5. CASE CompleteJob(s)
  <2>1. LoadedOK(sess[s].of)
    BY <1>0, <1>5 DEF CompleteJob, SessionOK
  <2> QED BY <1>1, <1>2, <1>5, <2>1, TracedInvestigation DEF CompleteJob
<1> QED BY <1>3, <1>4, <1>5

(* The handlers of a decision that executes nothing.                        *)
LEMMA TracedClosing ==
    ASSUME IndInv, NEW s \in Sessions, Reject(s) \/ ApproveDenied(s)
    PROVE  TracedStep
<1> DEFINE l == sess[s].of
           i == l.incident
           path == <<l.status, "escalated">>
<1>0. sess[s].op \in {"approve", "reject"} /\ UNCHANGED attempts
  <2>1. CASE Reject(s)
    BY <2>1 DEF Reject
  <2>2. CASE ApproveDenied(s)
    BY <2>2 DEF ApproveDenied
  <2> QED BY <2>1, <2>2
<1>1. /\ IncidentsOK /\ i \in DOMAIN incidents
      /\ l.status \in States /\ incidents[i].status \in States
  <2>1. IncidentsOK /\ LoadedOK(l)
    BY <1>0, SessionFields DEF IndInv, TablesOK, SessionOK
  <2>2. i \in DOMAIN incidents /\ l.status \in States
    BY <2>1 DEF LoadedOK
  <2> QED BY <2>1, <2>2, IncidentFields
<1>2. /\ path \in Seq(States) /\ Len(path) >= 2 /\ path[2] = "escalated"
      /\ path[1] = l.status /\ LastOf(path) = "escalated"
      /\ "escalated" \in States /\ "escalated" \in Settled
  BY <1>1, StatesAre DEF LastOf, Settled
<1>3. UNCHANGED attempts
  BY <1>0
<1>4. ASSUME NEW st \in States,
             st = "escalated" \/ (st = incidents[i].status /\ l.status = "escalated"),
             Allowed(path),
             incidents' = [incidents EXCEPT ![i].status = st],
             timeline' = [timeline EXCEPT ![i] = @ \o Moves(path)]
      PROVE  TracedStep
  <2> HIDE DEF path
  <2>1. /\ Recorded(i, path) /\ DOMAIN incidents' = DOMAIN incidents
        /\ \A j \in DOMAIN incidents \ {i} : StaysOrRecorded(j)
    BY <1>1, <1>2, <1>4, PathRecorded
  <2>2. InsertedOrKept
    BY <1>2, <2>1 DEF InsertedOrKept, StaysOrRecorded
  <2> QED BY <1>3, <2>2 DEF TracedStep, AttemptsRecorded
<1>5. CASE Reject(s)
  <2> DEFINE st == Column(incidents[i].status, l.status, "escalated")
  <2>1. /\ Allowed(path)
        /\ incidents' = [incidents EXCEPT ![i].status = st]
        /\ timeline' = [timeline EXCEPT ![i] = @ \o Moves(path)]
    BY <1>5 DEF Reject
  <2>2. /\ st \in States
        /\ st = "escalated" \/ (st = incidents[i].status /\ l.status = "escalated")
    BY <1>1, <1>2 DEF Column
  <2> HIDE DEF st, path
  <2> QED BY <1>4, <2>1, <2>2
<1>6. CASE ApproveDenied(s)
  <2>1. CASE UNCHANGED <<incidents, timeline>>
    BY <1>3, <2>1, TracedRead
  <2>2. CASE WriteIncident(i, path)
    <3>1. /\ Allowed(path)
          /\ incidents' = [incidents EXCEPT ![i].status = "escalated"]
          /\ timeline' = [timeline EXCEPT ![i] = @ \o Moves(path)]
      BY <1>2, <2>2 DEF WriteIncident
    <3> HIDE DEF path
    <3> QED BY <1>2, <1>4, <3>1
  <2> QED BY <1>6, <2>1, <2>2 DEF ApproveDenied
<1> QED BY <1>5, <1>6

(* The handler that executes.                                               *)
LEMMA TracedExecution ==
    ASSUME IndInv, NEW s \in Sessions, ApproveAndExecute(s)
    PROVE  TracedStep
<1> DEFINE l == sess[s].of
           i == l.incident
           a == sess[s].action
           run == Execution(l.alert)
           path == <<l.status>> \o run.path
           attempt == [action |-> a, status |-> run.attempt]
<1>1. /\ IncidentsOK /\ ActionsOK /\ i \in DOMAIN incidents /\ l.status \in States
      /\ l.alert = incidents[i].alert
      /\ a \in DOMAIN actions /\ actions[a].incident = i
  BY SessionFields DEF IndInv, TablesOK, ApproveAndExecute, SessionOK, LoadedOK
<1>2. l.alert \in Alerts /\ a \in Nat
  BY <1>1, IncidentFields DEF ActionsOK
<1>3. /\ Allowed(path)
      /\ incidents' = [incidents EXCEPT ![i].status = LastOf(path)]
      /\ timeline' = [timeline EXCEPT ![i] = @ \o Moves(path)]
      /\ attempts' = Append(attempts, attempt)
  BY DEF ApproveAndExecute, WriteIncident
<1>4. /\ path \in Seq(States) /\ path # <<>>
      /\ LastOf(path) = LastOf(run.path) /\ l.status \in Executable
  <2>1. l.status \in States /\ l.alert \in Alerts /\ Allowed(path)
    BY <1>1, <1>2, <1>3, Zenon
  <2> QED BY <2>1, ExecutionPath
<1>5. Len(path) >= 2 /\ path[1] = l.status /\ path[2] = "executing"
  <2> DEFINE rest == run.path
  <2>1. rest \in Seq(States) /\ Len(rest) \in {2, 3} /\ rest[1] = "executing"
    BY <1>2, ExecutionFields
  <2>2. path = <<l.status>> \o rest
    OBVIOUS
  <2> HIDE DEF rest, path
  <2> QED BY <1>1, <2>1, <2>2
<1>6. LastOf(path) \in Settled /\ attempt \in Attempt /\ attempt.action = a
  BY <1>2, <1>4, ExecutionFields DEF Settled, Attempt
<1> HIDE DEF path, attempt, run
<1>7. LastOf(path) \in States
  BY <1>4, PathFields
<1>8. /\ Recorded(i, path) /\ incidents'[i].status = LastOf(path)
      /\ DOMAIN incidents' = DOMAIN incidents
      /\ \A j \in DOMAIN incidents \ {i} : StaysOrRecorded(j)
  BY <1>1, <1>3, <1>4, <1>5, <1>7, PathRecorded
<1>9. InsertedOrKept
  BY <1>6, <1>8 DEF InsertedOrKept, StaysOrRecorded
<1>10. AttemptsRecorded
  BY <1>1, <1>3, <1>4, <1>5, <1>6, <1>8 DEF AttemptsRecorded
<1> QED BY <1>9, <1>10 DEF TracedStep

(* The night autopilot inserts an incident.                                 *)
LEMMA TracedAutopilot ==
    ASSUME IndInv, NightAutopilot
    PROVE  TracedStep
<1>0. IncidentsOK /\ UNCHANGED attempts /\ FALSE \in BOOLEAN
  BY DEF IndInv, TablesOK, NightAutopilot
<1>1. PICK al \in Alerts :
         \/ InsertIncident(al, FALSE,
                <<"new", "queued", "investigating", "action_proposed",
                  "executing", "verifying",
                  IF Scenario[al].recovered THEN "resolved"
                                            ELSE "escalated">>)
         \/ InsertIncident(al, FALSE,
                <<"new", "queued", "investigating", "escalated">>)
  BY DEF NightAutopilot
<1> DEFINE last == IF Scenario[al].recovered THEN "resolved" ELSE "escalated"
           long == <<"new", "queued", "investigating", "action_proposed",
                     "executing", "verifying", last>>
           short == <<"new", "queued", "investigating", "escalated">>
<1>2. last \in States
  BY StatesAre
<1>3. long \in Seq(States) /\ Len(long) >= 2
  <2> HIDE DEF last
  <2> QED BY <1>2, StatesAre
<1>4. short \in Seq(States) /\ Len(short) >= 2
  BY StatesAre
<1>5. InsertIncident(al, FALSE, long) \/ InsertIncident(al, FALSE, short)
  BY <1>1
<1> HIDE DEF long, short
<1> QED BY <1>0, <1>3, <1>4, <1>5, TracedInsert

(* The requests that insert an incident.                                    *)
LEMMA TracedNew ==
    ASSUME IndInv, NEW s \in Sessions, EnqueueNew(s) \/ ProcessNew(s)
    PROVE  TracedStep
<1> DEFINE al == sess[s].alert
           queued == <<"new", "queued">>
           done == <<"new", "queued", "investigating", "action_proposed",
                     Proposal(al).incident>>
<1>1. IncidentsOK /\ al \in Alerts /\ TRUE \in BOOLEAN /\ UNCHANGED attempts
  BY SessionFields DEF IndInv, TablesOK, EnqueueNew, ProcessNew, SessionOK
<1>2. queued \in Seq(States) /\ Len(queued) >= 2
  BY StatesAre
<1>3. done \in Seq(States) /\ Len(done) >= 2
  <2>1. Proposal(al).incident \in States
    BY <1>1, ProposalFields, StatesAre
  <2> QED BY <2>1, StatesAre
<1>4. InsertIncident(al, TRUE, queued) \/ InsertIncident(al, TRUE, done)
  BY DEF EnqueueNew, ProcessNew
<1> HIDE DEF queued, done, al
<1> QED BY <1>1, <1>2, <1>3, <1>4, TracedInsert

(* Every step records what it does to an incident.                          *)
LEMMA EveryStepTraced ==
    ASSUME IndInv, [Next]_vars
    PROVE  TracedStep
<1>1. CASE \/ UNCHANGED vars
           \/ \E s \in Sessions : \/ Reads(s) \/ JobRaises(s)
                                  \/ EnqueueExisting(s)
  <2>1. UNCHANGED <<incidents, timeline, attempts>>
    BY <1>1 DEF vars, tables, Reads, LoadAlert, LoadInvestigate, LoadJob,
       LoadDecision, Rollback, JobRaises, EnqueueExisting
  <2> QED BY <2>1, TracedRead
<1>2. CASE NightAutopilot
  BY <1>2, TracedAutopilot
<1>3. CASE \E s \in Sessions : EnqueueNew(s) \/ ProcessNew(s)
  BY <1>3, TracedNew
<1>4. CASE \E s \in Sessions :
              ProcessExisting(s) \/ FinishInvestigate(s) \/ CompleteJob(s)
  BY <1>4, TracedInvestigations
<1>5. CASE \E s \in Sessions : Reject(s) \/ ApproveDenied(s)
  BY <1>5, TracedClosing
<1>6. CASE \E s \in Sessions : ApproveAndExecute(s)
  BY <1>6, TracedExecution
<1> QED BY <1>1, <1>2, <1>3, <1>4, <1>5, <1>6 DEF Next, Finish, Reads

(* A path that leaves no gap was recorded by a session that knew the status. *)
LEMMA NoGapNoStaleWrite ==
    ASSUME IncidentsOK, TraceInv, NEW i \in DOMAIN incidents, NEW path,
           Recorded(i, path)
    PROVE  /\ timeline'[i] # <<>>
           /\ timeline'[i][Len(timeline'[i])][2] = LastOf(path)
           /\ Chained(timeline'[i]) =>
                 Unbroken(i) /\ path[1] = incidents[i].status
<1>1. timeline[i] \in Path /\ timeline[i] # <<>>
  BY DEF IncidentsOK, TraceInv, EndsAtStatus
<1>2. /\ path \in Seq(States) /\ Len(path) >= 2
      /\ timeline'[i] = timeline[i] \o Moves(path)
  BY DEF Recorded
<1>3. /\ timeline'[i] # <<>>
      /\ timeline'[i][Len(timeline'[i])][2] = LastOf(path)
      /\ Chained(timeline'[i]) =>
            /\ Chained(timeline[i])
            /\ timeline[i][Len(timeline[i])][2] = path[1]
  <2>1. PICK t, u : t = timeline[i] /\ u = timeline'[i]
    OBVIOUS
  <2>2. t \in Path /\ t # <<>> /\ u = t \o Moves(path)
    BY <1>1, <1>2, <2>1
  <2>3. /\ u # <<>> /\ u[Len(u)][2] = LastOf(path)
        /\ Chained(u) => Chained(t) /\ t[Len(t)][2] = path[1]
    BY <1>2, <2>2, ChainExtended
  <2> QED BY <2>1, <2>3
<1> QED BY <1>3 DEF TraceInv, EndsAtStatus, Unbroken

(* Timelines without a gap keep ending at their incidents' statuses.        *)
LEMMA TraceNext ==
    ASSUME IndInv, TraceInv, TracedStep
    PROVE  TraceInv'
<1>0. IncidentsOK /\ InsertedOrKept
  BY DEF IndInv, TablesOK, TracedStep
<1> SUFFICES ASSUME NEW i \in DOMAIN incidents'
             PROVE  /\ timeline'[i] # <<>>
                    /\ Chained(timeline'[i]) =>
                          timeline'[i][Len(timeline'[i])][2] = incidents'[i].status
  BY DEF TraceInv, EndsAtStatus, Unbroken
<1>1. CASE /\ i \in DOMAIN incidents /\ timeline'[i] = timeline[i]
           /\ incidents'[i].status = incidents[i].status
  BY <1>1 DEF TraceInv, EndsAtStatus, Unbroken
<1>2. ASSUME i \in DOMAIN incidents, NEW path, Recorded(i, path)
      PROVE  /\ timeline'[i] # <<>>
             /\ Chained(timeline'[i]) =>
                   timeline'[i][Len(timeline'[i])][2] = incidents'[i].status
  BY <1>0, <1>2, NoGapNoStaleWrite DEF Recorded
<1>3. ASSUME NEW path \in Seq(States), Len(path) >= 2,
             timeline'[i] = Moves(path), incidents'[i].status = LastOf(path)
      PROVE  /\ timeline'[i] # <<>>
             /\ timeline'[i][Len(timeline'[i])][2] = incidents'[i].status
  BY <1>3, MovesEnd
<1> QED BY <1>0, <1>1, <1>2, <1>3 DEF InsertedOrKept, StaysOrRecorded

(* The incident of an attempt stays settled while it has one action and no
   gap in its timeline.                                                     *)
LEMMA StaysSettled ==
    ASSUME IndInv, TraceInv, TracedStep, Kept, NEW i \in DOMAIN incidents,
           NEW a \in ActionsOf(i), Unbroken(i)', OneAction(i)',
           Unbroken(i) /\ OneAction(i) => incidents[i].status \in Settled
    PROVE  /\ Unbroken(i) /\ OneAction(i) /\ incidents[i].status \in Settled
           /\ incidents'[i].status \in Settled
<1>0. /\ IncidentsOK /\ i \in DOMAIN incidents' /\ StaysOrRecorded(i)
  BY DEF IndInv, TablesOK, TracedStep, Kept, IncidentsKept, InsertedOrKept
<1>1. \A b \in ActionsOf(i) : b \in DOMAIN actions' /\ actions'[b].incident = i
  BY DEF ActionsOf, Kept, ActionsKept
<1>2. OneAction(i)
  BY <1>1 DEF OneAction, ActionsOf
<1>3. \A b \in DOMAIN actions' : actions'[b].incident = i => b \in DOMAIN actions
  BY <1>1 DEF OneAction, ActionsOf
<1>4. CASE /\ timeline'[i] = timeline[i]
           /\ incidents'[i].status = incidents[i].status
  BY <1>2, <1>4 DEF Unbroken
<1>5. ASSUME NEW path, Recorded(i, path), LastOf(path) \in Settled
      PROVE  Unbroken(i) /\ incidents'[i].status \in Settled
  <2>1. Unbroken(i)
    BY <1>0, <1>5, NoGapNoStaleWrite DEF Unbroken
  <2> QED BY <1>2, <1>5, <2>1 DEF Recorded
<1> QED BY <1>0, <1>2, <1>3, <1>4, <1>5 DEF StaysOrRecorded

(* The incident an attempt belongs to, before and after a step.             *)
LEMMA AttemptOwner ==
    ASSUME TracedInv, Kept, NEW k \in DOMAIN attempts
    PROVE  \E i \in DOMAIN incidents :
              /\ actions[attempts[k].action].incident = i
              /\ attempts[k].action \in ActionsOf(i)
              /\ Unbroken(i) /\ OneAction(i) => incidents[i].status \in Settled
              /\ attempts'[k] = attempts[k]
              /\ actions'[attempts[k].action].incident = i
<1>0. TablesOK /\ AttemptedInv
  BY DEF TracedInv, IndInv
<1>1. /\ attempts[k].action \in DOMAIN actions
      /\ actions[attempts[k].action].incident \in DOMAIN incidents
  BY <1>0 DEF TablesOK, DecisionsOK, ActionsOK
<1> QED BY <1>0, <1>1 DEF AttemptedInv, ActionsOf, Kept, AttemptsKept, ActionsKept

(* An attempt is added only from a status in which its incident is not
   settled, so a second one on the same action shows.                       *)
LEMMA AttemptsNext ==
    ASSUME TracedInv, Kept, TracedStep
    PROVE  AttemptedInv' /\ RepeatsLeaveATrace'
<1>0. /\ IndInv /\ TablesOK /\ IncidentsOK /\ TraceInv /\ RepeatsLeaveATrace
      /\ AttemptsRecorded
  BY DEF TracedInv, IndInv, TracedStep, TablesOK
<1>1. ASSUME NEW k \in DOMAIN attempts, NEW i \in DOMAIN incidents,
             actions[attempts[k].action].incident = i,
             Unbroken(i)', OneAction(i)'
      PROVE  /\ Unbroken(i) /\ OneAction(i) /\ incidents[i].status \in Settled
             /\ incidents'[i].status \in Settled
  <2>1. PICK b : b = attempts[k].action
    OBVIOUS
  <2>2. /\ b \in ActionsOf(i)
        /\ Unbroken(i) /\ OneAction(i) => incidents[i].status \in Settled
    BY <1>1, <2>1, AttemptOwner
  <2> QED BY <1>0, <1>1, <2>2, StaysSettled
<1>2. ASSUME NEW k \in DOMAIN attempts, NEW m \in DOMAIN attempts, k # m,
             attempts[k].action = attempts[m].action, NEW i \in DOMAIN incidents,
             actions[attempts[k].action].incident = i, Unbroken(i)'
      PROVE  ~OneAction(i)'
  <2> SUFFICES ASSUME OneAction(i)'
               PROVE  FALSE
    OBVIOUS
  <2>1. Unbroken(i) /\ OneAction(i)
    BY <1>1, <1>2
  <2> QED BY <1>0, <1>2, <2>1 DEF RepeatsLeaveATrace, OneAction
<1>3. CASE UNCHANGED attempts
  <2>1. ASSUME NEW k \in DOMAIN attempts', NEW i,
               i = actions'[attempts'[k].action].incident,
               Unbroken(i)', OneAction(i)'
        PROVE  incidents'[i].status \in Settled
    <3>1. k \in DOMAIN attempts
      BY <1>3
    <3>2. i \in DOMAIN incidents /\ actions[attempts[k].action].incident = i
      BY <2>1, <3>1, AttemptOwner
    <3> QED BY <1>1, <2>1, <3>1, <3>2
  <2>2. AttemptedInv'
    BY <2>1 DEF AttemptedInv
  <2>3. ASSUME NEW k \in DOMAIN attempts', NEW m \in DOMAIN attempts', k # m,
               attempts'[k].action = attempts'[m].action, NEW i,
               i = actions'[attempts'[k].action].incident, Unbroken(i)'
        PROVE  ~OneAction(i)'
    <3>1. k \in DOMAIN attempts /\ m \in DOMAIN attempts
      BY <1>3
    <3>2. i \in DOMAIN incidents /\ actions[attempts[k].action].incident = i
      BY <2>3, <3>1, AttemptOwner
    <3>3. attempts[k].action = attempts[m].action
      BY <1>3, <2>3
    <3> QED BY <1>2, <2>3, <3>1, <3>2, <3>3
  <2>4. RepeatsLeaveATrace'
    BY <2>3 DEF RepeatsLeaveATrace, OneAction
  <2> QED BY <2>2, <2>4
<1>4. CASE ~UNCHANGED attempts
  <2>1. PICK a \in DOMAIN actions, attempt \in Attempt, path \in Seq(States) :
           /\ attempts' = Append(attempts, attempt) /\ attempt.action = a
           /\ Recorded(actions[a].incident, path)
           /\ path[1] \in Executable /\ LastOf(path) \in Settled
           /\ incidents'[actions[a].incident].status = LastOf(path)
    BY <1>0, <1>4 DEF AttemptsRecorded
  <2>2. PICK j \in DOMAIN incidents :
           actions[a].incident = j /\ actions'[a].incident = j
    BY <1>0 DEF TablesOK, ActionsOK, Kept, ActionsKept
  <2>3. /\ DOMAIN attempts' = DOMAIN attempts \union {Len(attempts) + 1}
        /\ Len(attempts) + 1 \notin DOMAIN attempts
        /\ attempts'[Len(attempts) + 1] = attempt
    BY <1>0, <2>1 DEF TablesOK, DecisionsOK
  <2>4. ASSUME NEW k \in DOMAIN attempts', NEW i,
               i = actions'[attempts'[k].action].incident,
               Unbroken(i)', OneAction(i)'
        PROVE  incidents'[i].status \in Settled
    <3>1. CASE k = Len(attempts) + 1
      BY <2>1, <2>2, <2>3, <2>4, <3>1
    <3>2. CASE k \in DOMAIN attempts
      <4>1. i \in DOMAIN incidents /\ actions[attempts[k].action].incident = i
        BY <2>4, <3>2, AttemptOwner
      <4> QED BY <1>1, <2>4, <3>2, <4>1
    <3> QED BY <2>3, <3>1, <3>2
  <2>5. AttemptedInv'
    BY <2>4 DEF AttemptedInv
  <2>6. ASSUME NEW k \in DOMAIN attempts, attempts[k].action = a,
               Unbroken(j)', OneAction(j)'
        PROVE  FALSE
    <3>1. incidents[j].status \in Settled
      BY <1>1, <2>2, <2>6
    <3>2. incidents[j].status \in Executable
      BY <1>0, <2>1, <2>2, <2>6, NoGapNoStaleWrite DEF Unbroken
    <3> QED BY <3>1, <3>2 DEF Settled, Executable
  <2>7. ASSUME NEW k \in DOMAIN attempts', NEW m \in DOMAIN attempts', k # m,
               attempts'[k].action = attempts'[m].action, NEW i,
               i = actions'[attempts'[k].action].incident, Unbroken(i)'
        PROVE  ~OneAction(i)'
    <3> SUFFICES ASSUME OneAction(i)'
                 PROVE  FALSE
      OBVIOUS
    <3>1. CASE k \in DOMAIN attempts /\ m \in DOMAIN attempts
      <4>1. i \in DOMAIN incidents /\ actions[attempts[k].action].incident = i
        BY <2>7, <3>1, AttemptOwner
      <4>2. attempts[k].action = attempts[m].action
        BY <2>7, <3>1, AttemptOwner
      <4> QED BY <1>2, <2>7, <3>1, <4>1, <4>2
    <3>2. ASSUME NEW n \in DOMAIN attempts, attempts'[n].action = a, i = j
          PROVE  FALSE
      <4>1. attempts[n].action = a
        BY <3>2, AttemptOwner
      <4> QED BY <2>6, <2>7, <3>2, <4>1
    <3>3. CASE k = Len(attempts) + 1
      BY <2>1, <2>2, <2>3, <2>7, <3>2, <3>3
    <3>4. CASE m = Len(attempts) + 1
      BY <2>1, <2>2, <2>3, <2>7, <3>2, <3>4
    <3> QED BY <2>3, <3>1, <3>3, <3>4
  <2>8. RepeatsLeaveATrace'
    BY <2>7 DEF RepeatsLeaveATrace, OneAction
  <2> QED BY <2>5, <2>8
<1> QED BY <1>3, <1>4

(* However requests and workers overlap, the invariant that ties timelines,
   statuses and attempts together holds.                                    *)
THEOREM TracedInvariance == Spec => []TracedInv
<1>1. Init => TracedInv
  <2> SUFFICES ASSUME Init
               PROVE  TracedInv
    OBVIOUS
  <2>1. TraceInv /\ AttemptedInv /\ RepeatsLeaveATrace
    BY DEF Init, TraceInv, AttemptedInv, RepeatsLeaveATrace
  <2> QED BY <2>1, InitInv DEF TracedInv
<1>2. TracedInv /\ [Next]_vars => TracedInv'
  <2> SUFFICES ASSUME TracedInv, [Next]_vars
               PROVE  TracedInv'
    OBVIOUS
  <2>0. IndInv /\ TraceInv
    BY DEF TracedInv
  <2>1. StepOK /\ TracedStep /\ Kept
    BY <2>0, EveryStep, EveryStepTraced DEF StepOK
  <2>2. IndInv'
    BY <2>0, <2>1, SessionsNext, StepKeepsFacts DEF IndInv, StepOK
  <2>3. TraceInv'
    BY <2>0, <2>1, TraceNext
  <2> QED BY <2>1, <2>2, <2>3, AttemptsNext DEF TracedInv
<1> QED BY <1>1, <1>2, PTL DEF Spec

(* However requests and workers overlap, an action is executed twice only in
   an incident that was investigated twice or whose timeline has a gap.     *)
THEOREM RepeatsAreOnRecord == Spec => []RepeatsLeaveATrace
<1>1. TracedInv => RepeatsLeaveATrace
  BY DEF TracedInv
<1> QED BY <1>1, TracedInvariance, PTL

(* However requests and workers overlap, a terminal status is left only by a
   write that leaves a gap in the incident's timeline.                      *)
THEOREM TerminalLeavingIsOnRecord == Spec => TerminalLeftWithATrace
<1>1. TracedInv /\ [Next]_vars =>
         [\A i \in DOMAIN incidents :
             /\ ALLOWED_TRANSITIONS[incidents[i].status] = {}
             /\ incidents'[i].status # incidents[i].status
             => ~Unbroken(i)']_vars
  <2> SUFFICES ASSUME TracedInv, [Next]_vars, NEW i \in DOMAIN incidents,
                      ALLOWED_TRANSITIONS[incidents[i].status] = {},
                      incidents'[i].status # incidents[i].status,
                      Unbroken(i)'
               PROVE  FALSE
    OBVIOUS
  <2>1. /\ IndInv /\ TraceInv /\ IncidentsOK /\ Kept /\ TracedStep
        /\ i \in DOMAIN incidents'
    BY EveryStep, EveryStepTraced DEF TracedInv, StepOK, IndInv, TablesOK, Kept,
       IncidentsKept
  <2>2. PICK path : Recorded(i, path)
    BY <2>1 DEF TracedStep, InsertedOrKept, StaysOrRecorded
  <2>3. path[1] = incidents[i].status
    BY <2>1, <2>2, NoGapNoStaleWrite DEF Unbroken
  <2>4. incidents[i].status \in States
    BY <2>1, IncidentFields
  <2> QED BY <2>2, <2>3, <2>4, NotTerminal DEF Recorded
<1> QED BY <1>1, TracedInvariance, PTL DEF Spec, TerminalLeftWithATrace
=============================================================================
