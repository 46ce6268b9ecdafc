---------------------------- MODULE DeadmanOutbox ----------------------------
(***************************************************************************)
(* The P133 dead-man outbox (app/services/p133_deadman_outbox.py): a       *)
(* separate process asks the P131 watchdog about the monitor and leaves a  *)
(* journal of incident transitions on the local disk.  One event file per  *)
(* transition is written first, the cursor second; operators acknowledge   *)
(* events; retention deletes acknowledged ones when the budget is short.   *)
(*                                                                         *)
(* Every operation runs under one exclusive non-blocking file lease, so at *)
(* most one operation is under way and an attempt made meanwhile raises    *)
(* and changes nothing.  pc = "idle" says that the lease is free.  An      *)
(* operation that raises releases the lease; an attempt that raises before *)
(* it has changed anything is a stuttering step.                           *)
(*                                                                         *)
(* Each directory has a visible content (what the next process reads) and  *)
(* a durable one (what its last fsync has secured).  The digests of the    *)
(* code are injective: a snapshot stands for its own fingerprint, an event *)
(* for its own hash, and the event linked to is named by its sequence.     *)
(* All events are taken to have one size, so MaxEventFiles is the tighter  *)
(* of the file budget and the byte budget.                                 *)
(***************************************************************************)
EXTENDS Integers, Sequences, FiniteSets

CONSTANTS
    None,              \* the code's None
    StateHashes,       \* well-formed state hashes of P131 checkpoints
    WatchdogResults,   \* raw answers evaluate_watchdog may give
    MaxEventFiles,     \* config.max_event_files
    ReminderInterval,  \* config.reminder_interval_seconds
    MaxRollback,       \* MAX_CLOCK_ROLLBACK_SECONDS
    BackSteps,         \* by how much the wall clock may be stepped back
    FaultPoints,       \* values of pc at which an I/O error or a kill may hit
    MaxSequence,       \* bound: sequence number of the last event
    MaxClock,          \* bound: last instant of the wall clock
    MaxFaults          \* bound: number of faults in a behaviour

ASSUME BoundsAssumption ==
    /\ MaxEventFiles \in Nat \ {0}
    /\ ReminderInterval \in Nat \ {0}
    /\ MaxRollback \in Nat
    /\ BackSteps \subseteq Nat
    /\ MaxSequence \in Nat
    /\ MaxClock \in Nat
    /\ MaxFaults \in Nat

NORMALIZED_REASONS ==
    {"heartbeat_current", "runtime_stopped", "heartbeat_stale",
     "state_missing", "heartbeat_invalid", "state_invalid",
     "watchdog_contract_invalid"}

HEARTBEAT_INVALID_REASONS == {"heartbeat_missing", "heartbeat_in_future"}

STATE_INVALID_REASONS ==
    {"state_invalid", "state_hash_invalid", "authority_not_exact_zero",
     "runtime_execution_boundary_violated", "invalid_source_state",
     "invalid_canary_state", "invalid_lifecycle_state",
     "source_manifest_mismatch", "invalid_timestamp"}

TRANSITIONS == {"opened", "updated", "reminder", "recovered"}

ASSUME WatchdogAssumption ==
    \A r \in WatchdogResults :
        DOMAIN r = {"reason", "healthy", "hash"} /\ r.healthy \in BOOLEAN

-----------------------------------------------------------------------------
(* The watchdog answer as P133 sees it.                                     *)

normalize_reason(r) ==
    CASE r.reason = "heartbeat_current" /\ r.healthy -> "heartbeat_current"
      [] r.reason \in {"runtime_stopped", "heartbeat_stale", "state_missing"}
         /\ ~r.healthy -> r.reason
      [] r.reason \in HEARTBEAT_INVALID_REASONS /\ ~r.healthy ->
            "heartbeat_invalid"
      [] r.reason \in STATE_INVALID_REASONS /\ ~r.healthy -> "state_invalid"
      [] OTHER -> "watchdog_contract_invalid"

normalize_watchdog_result(r) ==
    [reason |-> normalize_reason(r),
     hash   |-> IF r.hash \in StateHashes THEN r.hash ELSE None]

Healthy(s) == s.reason = "heartbeat_current"

-----------------------------------------------------------------------------
(* Snapshots, each identified with its fingerprint: the heartbeat age is left
   out of it, the runtime reference is fixed by the configuration.          *)
Snapshot == {normalize_watchdog_result(r) : r \in WatchdogResults}

Time == 0..MaxClock

IncidentId == [seq : Nat, snap : Snapshot]

Event == [seq  : Nat \ {0}, inc  : IncidentId, kind : TRANSITIONS,
          snap : Snapshot,  prev : Nat \union {None}, at : Time]

ActiveIncident == [inc : IncidentId, opened : Time, snap : Snapshot,
                   last : Nat, emitted : Time]

Cursor == [next    : Nat \ {0}, checked : Time \union {None},
           active  : ActiveIncident \union {None}]

ASSUME NoneAssumption ==
    /\ None \notin Nat
    /\ None \notin Event
    /\ None \notin ActiveIncident

VARIABLES
    clock,     \* the wall clock, in seconds
    monitor,   \* what evaluate_watchdog answers at this moment
    pc,        \* where the operation that holds the lease is
    op,        \* its local variables
    events,    \* event files in outbox_dir
    acks,      \* acknowledgement files: the events whose hashes they carry
    cursor,    \* the cursor file
    eventsD,   \* the durable content of outbox_dir,
    acksD,     \* of ack_dir
    cursorD,   \* and of the directory of the cursor
    tmp,       \* directories in which a killed writer left a temporary file
    faults,    \* how many faults have happened
    log        \* history: the event files in the order they appeared

env  == <<clock, monitor>>
disk == <<events, acks, cursor>>
durable == <<eventsD, acksD, cursorD>>
vars == <<env, pc, op, disk, durable, tmp, faults, log>>

Idle == [name |-> "none", now |-> None, event |-> None, fresh |-> FALSE,
         victim |-> None]

-----------------------------------------------------------------------------
(* Reading the outbox.                                                      *)

EventId(e) == [seq |-> e.seq, inc |-> e.inc, kind |-> e.kind,
               snap |-> e.snap, prev |-> e.prev]

(* _validated_events: a directory with a foreign name, two events of one
   sequence or a broken link is refused as a whole.                         *)
ValidatedEvents ==
    /\ "outbox" \notin tmp
    /\ \A e, f \in events :
          /\ e.seq = f.seq => e = f
          /\ f.prev = e.seq => e.seq < f.seq /\ e.inc = f.inc

(* _validated_acks, orphans allowed.                                        *)
ValidatedAcks == "ack" \notin tmp

HasAck(e) == \E a \in acks : EventId(a) = EventId(e)

OrphanAcks == {a \in acks : \A e \in events : EventId(e) # EventId(a)}

ReplayCompatible(active, e) ==
    IF active = None
    THEN e.kind = "opened" /\ e.prev = None
    ELSE /\ e.kind \in {"updated", "reminder", "recovered"}
         /\ e.inc = active.inc
         /\ e.prev = active.last

SequenceConsistent(c) ==
    \A e \in events :
        /\ e.seq <= c.next
        /\ e.seq = c.next => ReplayCompatible(c.active, e)

ClockAcceptable(c, now) ==
    c.checked # None => c.checked - now <= MaxRollback

(* The event left by a check that stopped between its two writes.           *)
PendingReplay(c) == {e \in events : e.seq = c.next}

-----------------------------------------------------------------------------
(* Which transition a check owes, and the event and cursor it writes.       *)

(* Variant: reminders without the interval.                                 *)
VariantEagerReminder(c, s, now) ==
    IF Healthy(s)
    THEN IF c.active = None THEN None ELSE "recovered"
    ELSE IF c.active = None THEN "opened"
    ELSE IF c.active.snap # s THEN "updated"
    ELSE "reminder"

(* Variant: an incident whose answer changes in mid-outage is not updated.  *)
VariantNoUpdate(c, s, now) ==
    IF Healthy(s)
    THEN IF c.active = None THEN None ELSE "recovered"
    ELSE IF c.active = None THEN "opened"
    ELSE IF now - c.active.emitted >= ReminderInterval THEN "reminder"
    ELSE None

PendingTransition(c, s, now) ==
    IF Healthy(s)
    THEN IF c.active = None THEN None ELSE "recovered"
    ELSE IF c.active = None THEN "opened"
    ELSE IF c.active.snap # s THEN "updated"
    ELSE IF now - c.active.emitted >= ReminderInterval THEN "reminder"
    ELSE None

BuildEvent(c, kind, s, at) ==
    [seq  |-> c.next,
     inc  |-> IF kind = "opened" THEN [seq |-> c.next, snap |-> s]
                                 ELSE c.active.inc,
     kind |-> kind,
     snap |-> s,
     prev |-> IF kind = "opened" THEN None ELSE c.active.last,
     at   |-> at]

(* The pending event, if it is the one this check would write.              *)
Replayable(c, s, now) ==
    LET kind == PendingTransition(c, s, now)
    IN  {e \in PendingReplay(c) :
            kind # None /\ EventId(e) = EventId(BuildEvent(c, kind, s, now))}

(* Variant: the time of the retry instead of the event's own.               *)
VariantRetryTime(c, e, now) ==
    [next    |-> c.next + 1,
     checked |-> now,
     active  |-> IF e.kind = "recovered" THEN None
                 ELSE [inc     |-> e.inc,
                       opened  |-> IF c.active = None THEN now
                                                      ELSE c.active.opened,
                       snap    |-> e.snap,
                       last    |-> e.seq,
                       emitted |-> now]]

AdvancedCursor(c, e, now) ==
    [next    |-> c.next + 1,
     checked |-> now,
     active  |-> IF e.kind = "recovered" THEN None
                 ELSE [inc     |-> e.inc,
                       opened  |-> IF c.active = None THEN e.at
                                                      ELSE c.active.opened,
                       snap    |-> e.snap,
                       last    |-> e.seq,
                       emitted |-> e.at]]

-----------------------------------------------------------------------------
Init ==
    /\ clock = 0
    /\ monitor \in WatchdogResults
    /\ pc = "idle" /\ op = Idle
    /\ events = {} /\ eventsD = {}
    /\ acks = {} /\ acksD = {}
    /\ cursor = [next |-> 1, checked |-> None, active |-> None]
    /\ cursorD = cursor
    /\ tmp = {}
    /\ faults = 0
    /\ log = <<>>

(* The environment: the wall clock runs or is stepped back, the monitor's
   checkpoint changes, at any moment.                                       *)
Tick ==
    /\ clock < MaxClock
    /\ clock' = clock + 1
    /\ UNCHANGED <<monitor, pc, op, disk, durable, tmp, faults, log>>

StepClockBack ==
    /\ \E d \in BackSteps : d <= clock /\ clock' = clock - d
    /\ UNCHANGED <<monitor, pc, op, disk, durable, tmp, faults, log>>

MonitorChanges ==
    /\ monitor' \in WatchdogResults \ {monitor}
    /\ UNCHANGED <<clock, pc, op, disk, durable, tmp, faults, log>>

Release == pc' = "idle" /\ op' = Idle

-----------------------------------------------------------------------------
(* check_once, up to the decision.                                          *)

StartCheck ==
    /\ pc = "idle"
    /\ cursor.next <= MaxSequence
    /\ ClockAcceptable(cursor, clock)
    /\ ValidatedEvents
    /\ SequenceConsistent(cursor)
    /\ pc' = "watchdog"
    /\ op' = [Idle EXCEPT !.name = "check", !.now = clock]
    /\ UNCHANGED <<env, disk, durable, tmp, faults, log>>

(* Nothing is owed and nothing waits for a replay.                          *)
CheckDeduplicates ==
    /\ pc = "watchdog"
    /\ PendingTransition(cursor, normalize_watchdog_result(monitor), op.now)
          = None
    /\ PendingReplay(cursor) = {}
    /\ pc' = "writeCursor"
    /\ UNCHANGED <<env, op, disk, durable, tmp, faults, log>>

(* Variant: no search for an event that was written before.                 *)
VariantNoReplay ==
    /\ pc = "watchdog"
    /\ LET s    == normalize_watchdog_result(monitor)
           kind == PendingTransition(cursor, s, op.now)
       IN  /\ kind # None
           /\ op' = [op EXCEPT !.event = BuildEvent(cursor, kind, s, op.now),
                               !.fresh = TRUE]
    /\ pc' = "orphans"
    /\ UNCHANGED <<env, disk, durable, tmp, faults, log>>

(* A transition is owed: the event already on disk is used again when it is
   the same one, otherwise a new one is stamped with this check's time.     *)
CheckPreparesEvent ==
    /\ pc = "watchdog"
    /\ LET s    == normalize_watchdog_result(monitor)
           kind == PendingTransition(cursor, s, op.now)
       IN  /\ kind # None
           /\ PendingReplay(cursor) = Replayable(cursor, s, op.now)
           /\ op' = IF PendingReplay(cursor) = {}
                    THEN [op EXCEPT
                            !.event = BuildEvent(cursor, kind, s, op.now),
                            !.fresh = TRUE]
                    ELSE [op EXCEPT
                            !.event = CHOOSE e \in PendingReplay(cursor) : TRUE]
    /\ pc' = "orphans"
    /\ UNCHANGED <<env, disk, durable, tmp, faults, log>>

(* conflicting_existing_event, pending_event_requires_matching_replay.      *)
CheckFailsClosed ==
    /\ pc = "watchdog"
    /\ PendingReplay(cursor)
          # Replayable(cursor, normalize_watchdog_result(monitor), op.now)
    /\ Release
    /\ UNCHANGED <<env, disk, durable, tmp, faults, log>>

-----------------------------------------------------------------------------
(* _enforce_retention, as part of a check and as an operation of its own.   *)

StartRetention ==
    /\ pc = "idle"
    /\ ValidatedEvents /\ ValidatedAcks
    /\ pc' = "orphans"
    /\ op' = [Idle EXCEPT !.name = "retention"]
    /\ UNCHANGED <<env, disk, durable, tmp, faults, log>>

(* Variant: room is made for an event that is already there.                *)
VariantPressureForReplay ==
    Cardinality(events) + (IF op.name = "check" THEN 1 ELSE 0) > MaxEventFiles

(* Variant: the event about to be written is not counted.                   *)
VariantPressureNow == Cardinality(events) > MaxEventFiles

Pressure ==
    Cardinality(events) + (IF op.fresh THEN 1 ELSE 0) > MaxEventFiles

AfterRetention ==
    IF op.name = "retention"
    THEN Release
    ELSE pc' = (IF op.fresh THEN "writeEvent" ELSE "writeCursor")
         /\ UNCHANGED op

(* The acknowledgement directory is refused as a whole.                     *)
RetentionFailsClosed ==
    /\ pc = "orphans"
    /\ ~ValidatedAcks
    /\ Release
    /\ UNCHANGED <<env, disk, durable, tmp, faults, log>>

RemoveOrphanAck ==
    /\ pc = "orphans"
    /\ ValidatedAcks
    /\ \E a \in OrphanAcks : acks' = acks \ {a}
    /\ pc' = "syncOrphan"
    /\ UNCHANGED <<env, op, events, cursor, durable, tmp, faults, log>>

SyncOrphan ==
    /\ pc = "syncOrphan"
    /\ acksD' = acks
    /\ pc' = "orphans"
    /\ UNCHANGED <<env, op, disk, eventsD, cursorD, tmp, faults, log>>

OrphansDone ==
    /\ pc = "orphans"
    /\ ValidatedAcks
    /\ OrphanAcks = {}
    /\ IF Pressure THEN pc' = "prune" /\ UNCHANGED op ELSE AfterRetention
    /\ UNCHANGED <<env, disk, durable, tmp, faults, log>>

(* Variant: any event may go.                                               *)
VariantPruneAny == {e \in events : \A f \in events : e.seq <= f.seq}

(* The acknowledged event with the lowest sequence goes first, if its
   acknowledgement carries its hash.                                        *)
Prunable ==
    {e \in events : /\ HasAck(e)
                    /\ \A f \in events : HasAck(f) => e.seq <= f.seq
                    /\ e \in acks}

(* The file and then its acknowledgement are unlinked, each with an fsync.  *)
PruneEvent ==
    /\ pc = "prune"
    /\ Pressure
    /\ \E e \in Prunable :
          /\ events' = events \ {e}
          /\ op' = [op EXCEPT !.victim = e]
    /\ pc' = "syncPrune"
    /\ UNCHANGED <<env, acks, cursor, durable, tmp, faults, log>>

SyncPrune ==
    /\ pc = "syncPrune"
    /\ eventsD' = events
    /\ pc' = "pruneAck"
    /\ UNCHANGED <<env, op, disk, acksD, cursorD, tmp, faults, log>>

PruneAck ==
    /\ pc = "pruneAck"
    /\ acks' = acks \ {op.victim}
    /\ pc' = "syncPruneAck"
    /\ UNCHANGED <<env, op, events, cursor, durable, tmp, faults, log>>

SyncPruneAck ==
    /\ pc = "syncPruneAck"
    /\ acksD' = acks
    /\ op' = [op EXCEPT !.victim = None]
    /\ pc' = "prune"
    /\ UNCHANGED <<env, disk, eventsD, cursorD, tmp, faults, log>>

PruneDone ==
    /\ pc = "prune"
    /\ ~Pressure
    /\ AfterRetention
    /\ UNCHANGED <<env, disk, durable, tmp, faults, log>>

(* outbox_budget_exhausted, ack_event_mismatch.                             *)
BudgetExhausted ==
    /\ pc = "prune"
    /\ Pressure
    /\ Prunable = {}
    /\ Release
    /\ UNCHANGED <<env, disk, durable, tmp, faults, log>>

-----------------------------------------------------------------------------
(* The two writes of an emitting check.  _atomic_write_json creates a
   temporary file beside its target, replaces the target, then fsyncs the
   directory.  The temporary file of the cursor is in a directory that no
   operation scans, so its window is not a step of its own.                 *)

WriteEventTemp ==
    /\ pc = "writeEvent"
    /\ pc' = "eventTmp"
    /\ UNCHANGED <<env, op, disk, durable, tmp, faults, log>>

ReplaceEvent ==
    /\ pc = "eventTmp"
    /\ events' = events \union {op.event}
    /\ log' = Append(log, op.event)
    /\ pc' = "syncEvent"
    /\ UNCHANGED <<env, op, acks, cursor, durable, tmp, faults>>

(* Variant: the cursor is written before the event is durable.              *)
VariantNoEventSync ==
    /\ pc = "syncEvent"
    /\ pc' = "writeCursor"
    /\ UNCHANGED <<env, op, disk, durable, tmp, faults, log>>

SyncEvent ==
    /\ pc = "syncEvent"
    /\ eventsD' = events
    /\ pc' = "writeCursor"
    /\ UNCHANGED <<env, op, disk, acksD, cursorD, tmp, faults, log>>

WriteCursor ==
    /\ pc = "writeCursor"
    /\ cursor' = IF op.event = None
                 THEN [cursor EXCEPT !.checked = op.now]
                 ELSE AdvancedCursor(cursor, op.event, op.now)
    /\ pc' = "syncCursor"
    /\ UNCHANGED <<env, op, events, acks, durable, tmp, faults, log>>

(* Variant: the directory of the cursor is not synced.                      *)
VariantNoCursorSync ==
    /\ pc = "syncCursor"
    /\ Release
    /\ UNCHANGED <<env, disk, durable, tmp, faults, log>>

SyncCursor ==
    /\ pc = "syncCursor"
    /\ cursorD' = cursor
    /\ Release
    /\ UNCHANGED <<env, disk, eventsD, acksD, tmp, faults, log>>

-----------------------------------------------------------------------------
(* acknowledge_event reads the one event file it is given and does not scan
   the directories; a second acknowledgement returns the first.             *)

StartAcknowledge ==
    /\ pc = "idle"
    /\ \E e \in events :
          /\ ~HasAck(e)
          /\ op' = [Idle EXCEPT !.name = "ack", !.event = e]
    /\ pc' = "ackTmp"
    /\ UNCHANGED <<env, disk, durable, tmp, faults, log>>

ReplaceAck ==
    /\ pc = "ackTmp"
    /\ acks' = acks \union {op.event}
    /\ pc' = "syncAck"
    /\ UNCHANGED <<env, op, events, cursor, durable, tmp, faults, log>>

SyncAck ==
    /\ pc = "syncAck"
    /\ acksD' = acks
    /\ Release
    /\ UNCHANGED <<env, disk, eventsD, cursorD, tmp, faults, log>>

-----------------------------------------------------------------------------
(* Faults.  An error raised by any call (no space, a failed fsync), or the
   death of the process, ends the operation and releases the lease; what it
   has made visible stays.  An exception removes the temporary file, a kill
   in that window leaves it.                                                *)
Abort ==
    /\ pc \in FaultPoints \ {"idle"}
    /\ faults < MaxFaults
    /\ faults' = faults + 1
    /\ Release
    /\ UNCHANGED <<env, disk, durable, tmp, log>>

KillLeavesTemp ==
    /\ pc \in FaultPoints \intersect {"eventTmp", "ackTmp"}
    /\ faults < MaxFaults
    /\ faults' = faults + 1
    /\ tmp' = tmp \union {IF pc = "eventTmp" THEN "outbox" ELSE "ack"}
    /\ Release
    /\ UNCHANGED <<env, disk, durable, log>>

-----------------------------------------------------------------------------
CheckStep ==
    \/ StartCheck \/ CheckDeduplicates \/ CheckPreparesEvent
    \/ CheckFailsClosed
    \/ WriteEventTemp \/ ReplaceEvent \/ SyncEvent
    \/ WriteCursor \/ SyncCursor

RetentionStep ==
    \/ RetentionFailsClosed \/ RemoveOrphanAck \/ SyncOrphan \/ OrphansDone
    \/ PruneEvent \/ SyncPrune \/ PruneAck \/ SyncPruneAck
    \/ PruneDone \/ BudgetExhausted

AckStep == StartAcknowledge \/ ReplaceAck \/ SyncAck

Next ==
    \/ Tick \/ StepClockBack \/ MonitorChanges
    \/ CheckStep \/ StartRetention \/ RetentionStep \/ AckStep
    \/ Abort \/ KillLeavesTemp

Spec == Init /\ [][Next]_vars

-----------------------------------------------------------------------------
(* Properties.                                                              *)

Points == {"idle", "watchdog", "orphans", "syncOrphan", "prune", "syncPrune",
           "pruneAck", "syncPruneAck", "writeEvent", "eventTmp", "syncEvent",
           "writeCursor", "syncCursor", "ackTmp", "syncAck"}

Operation == [name  : {"none", "check", "retention", "ack"},
              now   : Time \union {None}, event  : Event \union {None},
              fresh : BOOLEAN,           victim : Event \union {None}]

(* Every variable keeps the shape the code gives it: the clock is an
   instant, files hold well-formed events and cursors, locals are set.      *)
TypeOK ==
    /\ clock \in Time
    /\ monitor \in WatchdogResults
    /\ pc \in Points
    /\ op \in Operation
    /\ events \subseteq Event /\ eventsD \subseteq Event
    /\ acks \subseteq Event /\ acksD \subseteq Event
    /\ cursor \in Cursor /\ cursorD \in Cursor
    /\ tmp \subseteq {"outbox", "ack"}
    /\ faults \in 0..MaxFaults
    /\ log \in Seq(Event)

(* Event first, cursor second: whatever crashes and retries happen, the
   event files that ever appeared carry the sequences 1, 2, 3, ... once
   each, and the cursor is at most one behind them.                         *)
SequencesExactlyOnce ==
    /\ \A i \in DOMAIN log : log[i].seq = i
    /\ Len(log) \in {cursor.next - 1, cursor.next}

(* The last event the cursor has passed.                                    *)
Committed == log[cursor.next - 1]

(* The cursor's active incident is what the events before it say, also when
   the event was found on disk by a retry: _advanced_cursor takes times and
   links from the event and never from the retry.                           *)
CursorFollowsLog ==
    IF cursor.next = 1 \/ Committed.kind = "recovered"
    THEN cursor.active = None
    ELSE /\ cursor.active # None
         /\ cursor.active.inc = Committed.inc
         /\ cursor.active.last = Committed.seq
         /\ cursor.active.snap = Committed.snap
         /\ cursor.active.emitted = Committed.at
         /\ cursor.active.opened = log[Committed.inc.seq].at

(* An event that a stopped check has written and the cursor has not passed
   stays on disk until a retry finds it, although operators may acknowledge
   it and retention deletes acknowledged events.                            *)
PendingReplayRetained ==
    Len(log) = cursor.next => log[cursor.next] \in events

(* The state left by any interrupted operation passes the validation of the
   next one: no cursor_sequence_regression, no broken link.                 *)
AcceptableToNextCheck ==
    "outbox" \notin tmp => ValidatedEvents /\ SequenceConsistent(cursor)

(* max_event_files bounds the outbox at every moment, also in the middle of
   a check that prunes and then writes.                                     *)
WithinBudget == Cardinality(events) <= MaxEventFiles

(* An event file disappears only while its acknowledgement is on disk, and
   an acknowledgement only when its event is gone.                          *)
OnlyAcknowledgedRemoved ==
    [][ /\ \A e \in events \ events' : e \in acks /\ e \in acks'
        /\ \A a \in acks \ acks' : a \notin events /\ a \notin events' ]_vars

(* The journal a reader makes of the event files.                           *)
JournalOf(l) ==
    [i \in DOMAIN l |-> [kind |-> l[i].kind, incident |-> l[i].inc.seq,
                         snap |-> l[i].snap, at |-> l[i].at]]

Journal == INSTANCE IncidentJournal WITH
    journal          <- JournalOf(log),
    Snapshots        <- Snapshot,
    HealthySnapshots <- {s \in Snapshot : Healthy(s)},
    Times            <- Time,
    MinimumGap       <- ReminderInterval

(* The outbox, whatever crashes, errors, retries and clock steps happen,
   implements the incident journal: its event files, in order of sequence,
   only ever grow by an admissible transition.                              *)
ImplementsJournal == Journal!Spec
=============================================================================
