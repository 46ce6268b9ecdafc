------------------------ MODULE DeadmanOutboxProofs ------------------------
(***************************************************************************)
(* Proofs about the dead-man outbox, for every set of watchdog answers and *)
(* checkpoint hashes, every budget, reminder interval, clock tolerance and *)
(* choice of fault points, and any number of faults and events.            *)
(***************************************************************************)
EXTENDS DeadmanOutbox, FiniteSetTheorems, TLAPS

-----------------------------------------------------------------------------
(* Type correctness.                                                        *)

RetentionPoints == {"orphans", "syncOrphan", "prune", "syncPrune",
                    "pruneAck", "syncPruneAck"}

(* What the locals of the operation under way are at each of its steps.     *)
LocalsSet ==
    /\ pc = "idle" => op = Idle
    /\ pc = "watchdog" => op.name = "check" /\ op.now \in Time /\ op.event = None /\ ~op.fresh
    /\ pc \in {"writeEvent", "eventTmp", "syncEvent"} =>
          op.now \in Time /\ op.event \in Event /\ op.fresh
    /\ pc \in {"ackTmp", "syncAck"} => op.event \in Event
    /\ pc \in RetentionPoints =>
          \/ op.name = "retention" /\ ~op.fresh
          \/ op.name = "check" /\ op.now \in Time /\ op.event \in Event
    /\ pc \in {"syncPrune", "pruneAck"} => op.victim \in Event
    /\ pc \in {"writeCursor"} => op.now \in Time

TypeInv == TypeOK /\ LocalsSet

(* What normalisation returns is a snapshot.                                *)
LEMMA NormalizedIsSnapshot ==
    monitor \in WatchdogResults
        => normalize_watchdog_result(monitor) \in Snapshot
BY DEF Snapshot

(* The transitions a check may owe; all but an opening need an incident.    *)
LEMMA PendingTransitionKind ==
    ASSUME NEW c \in Cursor, NEW s \in Snapshot, NEW now \in Time,
           PendingTransition(c, s, now) # None
    PROVE  /\ PendingTransition(c, s, now) \in TRANSITIONS
           /\ PendingTransition(c, s, now) = "opened" <=> c.active = None
BY NoneAssumption DEF PendingTransition, TRANSITIONS, Cursor, ActiveIncident

(* A built event is well formed.                                            *)
LEMMA BuildEventType ==
    ASSUME NEW c \in Cursor, NEW s \in Snapshot, NEW at \in Time,
           NEW kind \in TRANSITIONS,
           kind = "opened" <=> c.active = None
    PROVE  BuildEvent(c, kind, s, at) \in Event
BY DEF BuildEvent, Event, Cursor, ActiveIncident, IncidentId, TRANSITIONS

(* An advanced cursor is well formed.                                       *)
LEMMA AdvancedCursorType ==
    ASSUME NEW c \in Cursor, NEW e \in Event, NEW now \in Time
    PROVE  AdvancedCursor(c, e, now) \in Cursor
BY DEF AdvancedCursor, Event, Cursor, ActiveIncident

(* The empty outbox, before the first check, is well typed.                 *)
LEMMA TypeInit == Init => TypeInv
BY BoundsAssumption, NoneAssumption
   DEF Init, TypeInv, TypeOK, LocalsSet, Idle, Operation, Cursor, Points,
       RetentionPoints, Time

(* Every step of an operation, every fault and every step of the
   environment keeps the files and the locals well typed.                   *)
LEMMA TypeNext == TypeInv /\ [Next]_vars => TypeInv'
<1> SUFFICES ASSUME TypeInv, [Next]_vars PROVE TypeInv'
  OBVIOUS
<1> USE BoundsAssumption, NoneAssumption DEF TypeInv, TypeOK, LocalsSet,
        Points, RetentionPoints, env, disk, durable
<1>1. CASE Tick
  BY <1>1 DEF Tick, Time
<1>2. CASE StepClockBack
  BY <1>2 DEF StepClockBack, Time
<1>3. CASE MonitorChanges
  BY <1>3 DEF MonitorChanges
<1>4. CASE StartCheck
  BY <1>4 DEF StartCheck, Idle, Operation
<1>5. CASE CheckDeduplicates
  BY <1>5 DEF CheckDeduplicates
<1>6. CASE CheckPreparesEvent
  <2> DEFINE s == normalize_watchdog_result(monitor)
             kind == PendingTransition(cursor, s, op.now)
             ev == BuildEvent(cursor, kind, s, op.now)
  <2>1. s \in Snapshot /\ op.now \in Time /\ kind # None
    BY <1>6, NormalizedIsSnapshot DEF CheckPreparesEvent
  <2>2. ev \in Event
    BY <2>1, PendingTransitionKind, BuildEventType
  <2>3. PendingReplay(cursor) # {} =>
           (CHOOSE e \in PendingReplay(cursor) : TRUE) \in Event
    BY DEF PendingReplay
  <2>4. op' \in Operation /\ op'.event \in Event /\ op'.now = op.now
        /\ op'.name = op.name
    <3>1. CASE PendingReplay(cursor) = {}
      <4>1. op' = [op EXCEPT !.event = ev, !.fresh = TRUE]
        BY <1>6, <3>1 DEF CheckPreparesEvent
      <4> HIDE DEF ev
      <4> QED BY <4>1, <2>2 DEF Operation
    <3>2. CASE PendingReplay(cursor) # {}
      <4> DEFINE old == CHOOSE e \in PendingReplay(cursor) : TRUE
      <4>1. op' = [op EXCEPT !.event = old]
        BY <1>6, <3>2 DEF CheckPreparesEvent
      <4>2. old \in Event
        BY <2>3, <3>2
      <4> HIDE DEF old
      <4> QED BY <4>1, <4>2 DEF Operation
    <3> QED BY <3>1, <3>2
  <2>5. op.name = "check"
    BY <1>6 DEF CheckPreparesEvent
  <2> QED
    BY <1>6, <2>1, <2>4, <2>5 DEF CheckPreparesEvent
<1>7. CASE CheckFailsClosed
  BY <1>7 DEF CheckFailsClosed, Release, Idle, Operation
<1>8. CASE WriteEventTemp
  BY <1>8 DEF WriteEventTemp
<1>9. CASE ReplaceEvent
  BY <1>9 DEF ReplaceEvent
<1>10. CASE SyncEvent
  BY <1>10 DEF SyncEvent
<1>11. CASE WriteCursor
  <2>1. cursor' \in Cursor
    <3>1. CASE op.event = None
      BY <1>11, <3>1 DEF WriteCursor, Cursor
    <3>2. CASE op.event # None
      <4>1. op.event \in Event /\ op.now \in Time
        BY <1>11, <3>2 DEF WriteCursor, Operation
      <4> QED BY <1>11, <3>2, <4>1, AdvancedCursorType DEF WriteCursor
    <3> QED BY <3>1, <3>2
  <2> QED BY <1>11, <2>1 DEF WriteCursor
<1>12. CASE SyncCursor
  BY <1>12 DEF SyncCursor, Release, Idle, Operation
<1>13. CASE StartRetention
  BY <1>13 DEF StartRetention, Idle, Operation
<1>14. CASE RetentionFailsClosed
  BY <1>14 DEF RetentionFailsClosed, Release, Idle, Operation
<1>15. CASE RemoveOrphanAck
  BY <1>15 DEF RemoveOrphanAck
<1>16. CASE SyncOrphan
  BY <1>16 DEF SyncOrphan
<1>17. CASE OrphansDone
  <2>1. CASE pc' = "prune" /\ UNCHANGED op
    BY <1>17, <2>1 DEF OrphansDone
  <2>2. CASE op.name = "retention" /\ Release
    BY <1>17, <2>2 DEF OrphansDone, Release, Idle, Operation
  <2>3. CASE op.name # "retention" /\ op.fresh /\ pc' = "writeEvent" /\ UNCHANGED op
    BY <1>17, <2>3 DEF OrphansDone
  <2>4. CASE op.name # "retention" /\ ~op.fresh /\ pc' = "writeCursor" /\ UNCHANGED op
    BY <1>17, <2>4 DEF OrphansDone
  <2> QED
    BY <1>17, <2>1, <2>2, <2>3, <2>4 DEF OrphansDone, AfterRetention
<1>18. CASE PruneEvent
  BY <1>18 DEF PruneEvent, Prunable, Operation
<1>19. CASE SyncPrune
  BY <1>19 DEF SyncPrune
<1>20. CASE PruneAck
  BY <1>20 DEF PruneAck
<1>21. CASE SyncPruneAck
  BY <1>21 DEF SyncPruneAck, Operation
<1>22. CASE PruneDone
  <2>1. CASE pc' = "prune" /\ UNCHANGED op
    BY <1>22, <2>1 DEF PruneDone
  <2>2. CASE op.name = "retention" /\ Release
    BY <1>22, <2>2 DEF PruneDone, Release, Idle, Operation
  <2>3. CASE op.name # "retention" /\ op.fresh /\ pc' = "writeEvent" /\ UNCHANGED op
    BY <1>22, <2>3 DEF PruneDone
  <2>4. CASE op.name # "retention" /\ ~op.fresh /\ pc' = "writeCursor" /\ UNCHANGED op
    BY <1>22, <2>4 DEF PruneDone
  <2> QED
    BY <1>22, <2>1, <2>2, <2>3, <2>4 DEF PruneDone, AfterRetention
<1>23. CASE BudgetExhausted
  BY <1>23 DEF BudgetExhausted, Release, Idle, Operation
<1>24. CASE StartAcknowledge
  <2>1. PICK e \in events : op' = [Idle EXCEPT !.name = "ack", !.event = e]
    BY <1>24 DEF StartAcknowledge
  <2>2. e \in Event
    OBVIOUS
  <2>3. op' \in Operation /\ op'.event \in Event
    BY <2>1, <2>2 DEF Idle, Operation
  <2> QED BY <1>24, <2>3 DEF StartAcknowledge
<1>25. CASE ReplaceAck
  BY <1>25 DEF ReplaceAck
<1>26. CASE SyncAck
  BY <1>26 DEF SyncAck, Release, Idle, Operation
<1>27. CASE Abort
  BY <1>27 DEF Abort, Release, Idle, Operation
<1>28. CASE KillLeavesTemp
  BY <1>28 DEF KillLeavesTemp, Release, Idle, Operation
<1>29. CASE UNCHANGED vars
  BY <1>29 DEF vars
<1> QED
  BY <1>1, <1>2, <1>3, <1>4, <1>5, <1>6, <1>7, <1>8, <1>9, <1>10, <1>11,
     <1>12, <1>13, <1>14, <1>15, <1>16, <1>17, <1>18, <1>19, <1>20, <1>21,
     <1>22, <1>23, <1>24, <1>25, <1>26, <1>27, <1>28, <1>29
  DEF Next, CheckStep, RetentionStep, AckStep

(* Type correctness of the outbox: for every value of the constants, every
   file and every local keeps the shape the code gives it.                  *)
THEOREM TypeCorrect == Spec => []TypeOK
<1>1. Init => TypeInv
  BY TypeInit
<1>2. TypeInv /\ [Next]_vars => TypeInv'
  BY TypeNext
<1>3. TypeInv => TypeOK
  BY DEF TypeInv
<1> QED
  BY <1>1, <1>2, <1>3, PTL DEF Spec
-----------------------------------------------------------------------------
(* The inductive invariant behind the outbox's promises.                    *)

(* e is the event a check that reads cursor c may write: it is built from c
   and the kind is the one the watchdog answer calls for.                   *)
Fits(e, c) ==
    /\ e = BuildEvent(c, e.kind, e.snap, e.at)
    /\ e.kind = "opened" <=> c.active = None
    /\ e.kind = "recovered" <=> Healthy(e.snap)
    /\ e.kind = "updated" => e.snap # c.active.snap
    /\ e.kind = "reminder" => /\ e.snap = c.active.snap
                              /\ e.at - c.active.emitted >= ReminderInterval

(* Entry i of the log continues the incident of the entry before it, or
   opens one when there is none to continue.                                *)
Chained(i) ==
    /\ log[i].seq = i
    /\ log[i].inc.seq \in 1..i
    /\ IF log[i].kind = "opened"
       THEN log[i].prev = None
       ELSE /\ i > 1
            /\ log[i].prev = i - 1
            /\ log[i].inc = log[i - 1].inc
            /\ log[i - 1].kind # "recovered"

LogInv ==
    /\ Len(log) \in {cursor.next - 1, cursor.next}
    /\ \A i \in 1..Len(log) : Chained(i)

FilesInv ==
    /\ \A e \in events : e.seq \in 1..Len(log) /\ log[e.seq] = e
    /\ IsFiniteSet(events)
    /\ Cardinality(events) <= MaxEventFiles

PendingInv ==
    Len(log) = cursor.next =>
        log[cursor.next] \in events /\ Fits(log[cursor.next], cursor)

DiskInv == LogInv /\ FilesInv /\ CursorFollowsLog /\ PendingInv

Fresh == Len(log) = cursor.next - 1 /\ Fits(op.event, cursor)

Found == Len(log) = cursor.next /\ log[cursor.next] = op.event

StepInv ==
    /\ pc \in RetentionPoints /\ op.name = "check" =>
          IF op.fresh THEN Fresh ELSE Found
    /\ pc \in {"writeEvent", "eventTmp"} =>
          Fresh /\ Cardinality(events) + 1 <= MaxEventFiles
    /\ pc = "syncEvent" => Found
    /\ pc = "writeCursor" /\ op.event # None => Found
    /\ pc \in {"syncPrune", "pruneAck"} => op.victim \notin events

IndInv == TypeInv /\ DiskInv /\ StepInv

(* The empty outbox satisfies the inductive invariant.                      *)
LEMMA IndInit == Init => IndInv
<1> SUFFICES ASSUME Init PROVE IndInv
  OBVIOUS
<1>1. TypeInv
  BY TypeInit
<1>2. IsFiniteSet({}) /\ Cardinality({}) = 0
  BY FS_EmptySet
<1>3. DiskInv
  BY <1>2, BoundsAssumption
     DEF Init, DiskInv, LogInv, FilesInv, CursorFollowsLog, PendingInv
<1>4. StepInv
  BY DEF Init, StepInv, RetentionPoints
<1> QED BY <1>1, <1>3, <1>4 DEF IndInv

(* A step that touches neither the event files, nor the cursor, nor the log
   preserves what relates them.                                             *)
LEMMA DiskFrame ==
    ASSUME DiskInv, UNCHANGED <<events, cursor, log>> PROVE DiskInv'
BY DEF DiskInv, LogInv, Chained, FilesInv, CursorFollowsLog, Committed,
       PendingInv, Fits, BuildEvent, Healthy

(* The event file of a sequence is the log's entry, so a check finds a
   pending event exactly when the log is ahead of the cursor.               *)
LEMMA PendingIsLast ==
    ASSUME TypeOK, DiskInv
    PROVE  /\ PendingReplay(cursor) = {} => Len(log) = cursor.next - 1
           /\ \A e \in PendingReplay(cursor) :
                 Len(log) = cursor.next /\ e = log[cursor.next]
<1> USE DEF TypeOK, Cursor, Event, DiskInv, LogInv, Chained, FilesInv,
            PendingInv, PendingReplay
<1>1. Len(log) \in Nat
  OBVIOUS
<1>2. ASSUME Len(log) = cursor.next PROVE PendingReplay(cursor) # {}
  <2>1. log[cursor.next] \in events
    BY <1>2
  <2>2. log[cursor.next].seq = cursor.next
    BY <1>2
  <2> QED BY <2>1, <2>2
<1>3. ASSUME NEW e \in PendingReplay(cursor)
      PROVE  Len(log) = cursor.next /\ e = log[cursor.next]
  OBVIOUS
<1> QED BY <1>1, <1>2, <1>3

(* What a check that owes a transition is about to write fits the cursor.   *)
LEMMA PreparedFits ==
    ASSUME cursor \in Cursor, NEW s \in Snapshot, NEW now \in Time,
           PendingTransition(cursor, s, now) # None
    PROVE  Fits(BuildEvent(cursor, PendingTransition(cursor, s, now), s, now),
                cursor)
<1> DEFINE kind == PendingTransition(cursor, s, now)
<1>1. /\ kind \in TRANSITIONS
      /\ kind = "opened" <=> cursor.active = None
  BY PendingTransitionKind
<1>2. /\ kind = "recovered" <=> Healthy(s)
      /\ kind = "updated" => s # cursor.active.snap
      /\ kind = "reminder" => s = cursor.active.snap
                              /\ now - cursor.active.emitted >= ReminderInterval
  BY NoneAssumption DEF PendingTransition
<1> QED BY <1>1, <1>2 DEF Fits, BuildEvent

(* Writing the prepared event lengthens the log by an entry that is chained,
   and leaves it pending.                                                   *)
LEMMA ReplaceEventDisk ==
    ASSUME IndInv, ReplaceEvent PROVE DiskInv' /\ StepInv'
<1> USE DEF IndInv, TypeInv, DiskInv
<1> DEFINE n == cursor.next
           e == op.event
<1>1. /\ pc = "eventTmp" /\ Fresh /\ e \in Event
      /\ Cardinality(events) + 1 <= MaxEventFiles
  BY DEF ReplaceEvent, StepInv, LocalsSet
<1>2. /\ n \in Nat \ {0} /\ log \in Seq(Event) /\ Len(log) = n - 1
      /\ cursor' = cursor /\ op' = op /\ pc' = "syncEvent"
      /\ events' = events \union {e} /\ log' = Append(log, e)
      /\ Fits(e, cursor)
  BY <1>1 DEF ReplaceEvent, TypeOK, Cursor, Fresh
<1>3. Len(log') = n /\ log'[n] = e /\ \A i \in 1..(n - 1) : log'[i] = log[i]
  BY <1>1, <1>2
<1>4. e.seq = n /\ (e.kind = "opened" <=> cursor.active = None)
  BY <1>2 DEF Fits, BuildEvent
<1>5. e \notin events
  BY <1>2, <1>4 DEF FilesInv
<1>6. FilesInv'
  <2>1. /\ IsFiniteSet(events \union {e})
        /\ Cardinality(events \union {e}) = Cardinality(events) + 1
    BY <1>5, FS_AddElement DEF FilesInv
  <2>2. ASSUME NEW f \in events' PROVE f.seq \in 1..Len(log') /\ log'[f.seq] = f
    <3>1. CASE f = e
      BY <3>1, <1>2, <1>3, <1>4
    <3>2. CASE f \in events
      BY <3>2, <1>2, <1>3 DEF FilesInv
    <3> QED BY <3>1, <3>2, <1>2
  <2> QED BY <2>1, <2>2, <1>1, <1>2 DEF FilesInv
<1>7. LogInv'
  <2>1. ASSUME NEW i \in 1..(n - 1) PROVE Chained(i)'
    <3>1. Chained(i)
      BY <1>2 DEF LogInv
    <3>2. log'[i] = log[i] /\ (i > 1 => log'[i - 1] = log[i - 1])
      BY <1>3, <1>2
    <3> QED BY <3>1, <3>2 DEF Chained
  <2>2. Chained(n)'
    <3>1. CASE e.kind = "opened"
      BY <3>1, <1>2, <1>3, <1>4 DEF Chained, Fits, BuildEvent
    <3>2. CASE e.kind # "opened"
      <4>1. cursor.active # None /\ n # 1 /\ Committed.kind # "recovered"
        BY <3>2, <1>4 DEF CursorFollowsLog
      <4>2. cursor.active.inc = Committed.inc /\ cursor.active.last = Committed.seq
        BY <4>1 DEF CursorFollowsLog
      <4>3. Committed = log[n - 1] /\ n - 1 \in 1..Len(log) /\ log'[n - 1] = log[n - 1]
        BY <4>1, <1>2, <1>3 DEF Committed
      <4>4. Chained(n - 1)
        BY <4>3 DEF LogInv
      <4>5. e.inc = log[n - 1].inc /\ e.prev = n - 1
        BY <1>2, <3>2, <4>2, <4>3, <4>4 DEF Fits, BuildEvent, Chained
      <4>6. e.inc.seq \in 1..n
        BY <4>4, <4>5, <1>2 DEF Chained
      <4> QED BY <3>2, <1>2, <1>3, <1>4, <4>1, <4>3, <4>5, <4>6 DEF Chained
    <3> QED BY <3>1, <3>2
  <2> QED BY <2>1, <2>2, <1>2, <1>3 DEF LogInv
<1>8. CursorFollowsLog'
  <2>1. CASE n = 1
    BY <2>1, <1>2 DEF CursorFollowsLog
  <2>2. CASE n # 1
    <3>1. n - 1 \in 1..(n - 1) /\ Committed' = Committed
      BY <2>2, <1>2, <1>3 DEF Committed
    <3>2. Chained(n - 1)
      BY <3>1, <1>2 DEF LogInv
    <3>3. log'[Committed.inc.seq] = log[Committed.inc.seq]
      BY <3>1, <3>2, <1>2, <1>3 DEF Committed, Chained
    <3> QED BY <2>2, <3>1, <3>3, <1>2 DEF CursorFollowsLog
  <2> QED BY <2>1, <2>2
<1>9. PendingInv'
  BY <1>2, <1>3 DEF PendingInv, Fits, BuildEvent, Healthy
<1>10. StepInv'
  BY <1>2, <1>3 DEF StepInv, Found, RetentionPoints
<1> QED BY <1>6, <1>7, <1>8, <1>9, <1>10

(* Advancing the cursor over the pending event makes it the last committed
   one; a check without an event only changes last_checked_at.              *)
LEMMA WriteCursorDisk ==
    ASSUME IndInv, WriteCursor PROVE DiskInv' /\ StepInv'
<1> USE DEF IndInv, TypeInv, DiskInv
<1> DEFINE n == cursor.next
           e == op.event
<1>1. /\ n \in Nat \ {0} /\ log \in Seq(Event) /\ Len(log) \in {n - 1, n}
      /\ log' = log /\ events' = events /\ op' = op /\ pc' = "syncCursor"
      /\ op.now \in Time /\ cursor \in Cursor
  BY DEF WriteCursor, TypeOK, Cursor, LogInv, LocalsSet
<1>2. StepInv'
  BY <1>1 DEF StepInv, RetentionPoints
<1>3. FilesInv'
  BY <1>1 DEF FilesInv
<1>4. CASE e = None
  <2>1. cursor' = [cursor EXCEPT !.checked = op.now]
    BY <1>4 DEF WriteCursor
  <2>2. cursor'.next = n /\ cursor'.active = cursor.active
    BY <2>1, <1>1 DEF Cursor
  <2>3. LogInv'
    BY <1>1, <2>2 DEF LogInv, Chained
  <2>4. CursorFollowsLog'
    BY <1>1, <2>2 DEF CursorFollowsLog, Committed
  <2>5. PendingInv'
    BY <1>1, <2>2 DEF PendingInv, Fits, BuildEvent, Healthy
  <2> QED BY <1>2, <1>3, <2>3, <2>4, <2>5
<1>5. CASE e # None
  <2>1. /\ cursor' = AdvancedCursor(cursor, e, op.now)
        /\ Len(log) = n /\ log[n] = e /\ Fits(e, cursor) /\ Chained(n)
    BY <1>1, <1>5 DEF WriteCursor, StepInv, Found, PendingInv, LogInv
  <2>2. e \in Event
    BY <1>1, <2>1
  <2>3. cursor'.next = n + 1
    BY <2>1 DEF AdvancedCursor
  <2>4. LogInv'
    BY <1>1, <2>1, <2>3 DEF LogInv, Chained
  <2>5. PendingInv'
    BY <1>1, <2>1, <2>3 DEF PendingInv
  <2>6. Committed' = e
    BY <1>1, <2>1, <2>3 DEF Committed
  <2>7. CASE e.kind = "recovered"
    <3>1. cursor'.active = None
      BY <2>1, <2>7 DEF AdvancedCursor
    <3>2. CursorFollowsLog'
      BY <3>1, <2>6, <2>7 DEF CursorFollowsLog
    <3> QED BY <1>2, <1>3, <2>4, <2>5, <3>2
  <2>8. CASE e.kind # "recovered"
    <3> DEFINE o == IF cursor.active = None THEN e.at ELSE cursor.active.opened
    <3>1. cursor'.active = [inc |-> e.inc, opened |-> o, snap |-> e.snap,
                            last |-> e.seq, emitted |-> e.at]
      BY <2>1, <2>8 DEF AdvancedCursor
    <3>2. cursor'.active \in ActiveIncident
      <4>1. o \in Time
        BY <1>1, <2>2 DEF Cursor, ActiveIncident, Event
      <4> HIDE DEF o
      <4> QED BY <3>1, <4>1, <2>2 DEF ActiveIncident, Event
    <3>3. o = log[e.inc.seq].at
      <4>1. CASE cursor.active = None
        BY <4>1, <2>1 DEF Fits, BuildEvent
      <4>2. CASE cursor.active # None
        <5>1. n # 1 /\ Committed.kind # "recovered"
              /\ cursor.active.inc = Committed.inc
              /\ cursor.active.opened = log[Committed.inc.seq].at
          BY <4>2 DEF CursorFollowsLog
        <5>2. e.inc = cursor.active.inc
          BY <2>1, <4>2 DEF Fits, BuildEvent
        <5> QED BY <4>2, <5>1, <5>2
      <4> QED BY <4>1, <4>2
    <3> HIDE DEF o
    <3>4. CursorFollowsLog'
      BY <1>1, <2>3, <2>6, <2>8, <3>1, <3>2, <3>3, NoneAssumption
         DEF CursorFollowsLog
    <3> QED BY <1>2, <1>3, <2>4, <2>5, <3>4
  <2> QED BY <2>7, <2>8
<1> QED BY <1>4, <1>5

(* Retention never deletes the pending event: while one is pending nothing
   new is to be written, and the files there are fit the budget.            *)
LEMMA PruneEventDisk ==
    ASSUME IndInv, PruneEvent PROVE DiskInv' /\ StepInv'
<1> USE BoundsAssumption DEF IndInv, TypeInv, DiskInv
<1>1. PICK v \in Prunable : events' = events \ {v}
                            /\ op' = [op EXCEPT !.victim = v]
  BY DEF PruneEvent
<1>2. /\ v \in events /\ log' = log /\ cursor' = cursor /\ pc' = "syncPrune"
      /\ pc = "prune" /\ Pressure /\ op \in Operation
  BY DEF PruneEvent, Prunable, TypeOK
<1>3. /\ IsFiniteSet(events') /\ Cardinality(events) \in Nat
      /\ Cardinality(events') = Cardinality(events) - 1
  BY <1>1, <1>2, FS_RemoveElement, FS_CardinalityType DEF FilesInv
<1>4. op.fresh
  BY <1>2, <1>3 DEF Pressure, FilesInv, Operation
<1>5. op.name = "check" /\ Fresh
  BY <1>2, <1>4 DEF LocalsSet, StepInv, RetentionPoints
<1>6. FilesInv'
  BY <1>1, <1>2, <1>3 DEF FilesInv
<1>7. LogInv' /\ CursorFollowsLog'
  BY <1>2 DEF LogInv, Chained, CursorFollowsLog, Committed
<1>8. PendingInv'
  BY <1>2, <1>5 DEF PendingInv, Fresh, TypeOK, Cursor
<1>9. StepInv'
  <2>1. op'.fresh = op.fresh /\ op'.event = op.event /\ op'.name = op.name
        /\ op'.victim = v
    BY <1>1, <1>2 DEF Operation
  <2> QED BY <1>1, <1>2, <1>4, <1>5, <2>1
          DEF StepInv, Fresh, Fits, BuildEvent, Healthy, RetentionPoints
<1> QED BY <1>6, <1>7, <1>8, <1>9

(* Every step preserves the inductive invariant: the two writes of a check,
   retention and acknowledgement, each cut off anywhere.                    *)
LEMMA IndNext == IndInv /\ [Next]_vars => IndInv'
<1> SUFFICES ASSUME IndInv, [Next]_vars PROVE IndInv'
  OBVIOUS
<1> USE DEF IndInv, RetentionPoints, env, disk, durable
<1>1. TypeInv'
  BY TypeNext
<1>2. CASE ReplaceEvent
  BY <1>1, <1>2, ReplaceEventDisk
<1>3. CASE WriteCursor
  BY <1>1, <1>3, WriteCursorDisk
<1>4. CASE PruneEvent
  BY <1>1, <1>4, PruneEventDisk
<1> DEFINE Quiet == UNCHANGED <<events, cursor, log>>
<1>5. ASSUME Quiet PROVE DiskInv'
  BY <1>5, DiskFrame
<1>6. CASE CheckPreparesEvent
  <2> DEFINE s == normalize_watchdog_result(monitor)
             kind == PendingTransition(cursor, s, op.now)
             ev == BuildEvent(cursor, kind, s, op.now)
  <2>1. /\ pc' = "orphans" /\ Quiet /\ kind # None
        /\ s \in Snapshot /\ op.now \in Time /\ cursor \in Cursor
        /\ op \in Operation /\ ~op.fresh
    BY <1>6, NormalizedIsSnapshot
       DEF CheckPreparesEvent, TypeInv, TypeOK, LocalsSet
  <2>2. CASE PendingReplay(cursor) = {}
    <3>1. op' = [op EXCEPT !.event = ev, !.fresh = TRUE]
      BY <1>6, <2>2 DEF CheckPreparesEvent
    <3>2. Len(log) = cursor.next - 1 /\ Fits(ev, cursor)
      BY <2>1, <2>2, PendingIsLast, PreparedFits DEF TypeInv
    <3> HIDE DEF ev
    <3>3. op'.event = ev /\ op'.fresh
      BY <2>1, <3>1 DEF Operation
    <3>4. StepInv'
      BY <2>1, <3>2, <3>3
         DEF StepInv, Fresh, Fits, BuildEvent, Healthy
    <3> QED BY <1>1, <1>5, <2>1, <3>4
  <2>3. CASE PendingReplay(cursor) # {}
    <3> DEFINE old == CHOOSE f \in PendingReplay(cursor) : TRUE
    <3>1. op' = [op EXCEPT !.event = old]
      BY <1>6, <2>3 DEF CheckPreparesEvent
    <3>2. Len(log) = cursor.next /\ old = log[cursor.next]
      BY <2>3, PendingIsLast DEF TypeInv
    <3> HIDE DEF old
    <3>3. op'.event = old /\ ~op'.fresh
      BY <2>1, <3>1 DEF Operation
    <3>4. StepInv'
      BY <2>1, <3>2, <3>3 DEF StepInv, Found
    <3> QED BY <1>1, <1>5, <2>1, <3>4
  <2> QED BY <2>2, <2>3
<1>7. ASSUME Quiet, UNCHANGED <<pc, op>> PROVE StepInv'
  BY <1>7 DEF StepInv, Fresh, Found, Fits, BuildEvent, Healthy
<1>8. CASE OrphansDone
  <2>1. Quiet /\ op \in Operation /\ Cardinality(events) \in Nat
    BY <1>8, FS_CardinalityType
       DEF OrphansDone, TypeInv, TypeOK, DiskInv, FilesInv
  <2>2. CASE pc' = "prune" /\ UNCHANGED op
    BY <1>1, <1>5, <1>8, <2>1, <2>2
       DEF OrphansDone, StepInv, Fresh, Found, Fits, BuildEvent, Healthy
  <2>3. CASE op.name = "retention" /\ Release
    BY <1>1, <1>5, <1>8, <2>1, <2>3 DEF OrphansDone, Release, StepInv
  <2>4. CASE /\ op.name # "retention" /\ op.fresh /\ ~Pressure
             /\ pc' = "writeEvent" /\ UNCHANGED op
    <3>1. Fresh /\ Cardinality(events) + 1 <= MaxEventFiles
      BY <1>8, <2>1, <2>4, BoundsAssumption
         DEF OrphansDone, StepInv, Pressure, TypeInv, LocalsSet
    <3> QED BY <1>1, <1>5, <2>1, <2>4, <3>1
            DEF StepInv, Fresh, Fits, BuildEvent, Healthy
  <2>5. CASE /\ op.name # "retention" /\ ~op.fresh
             /\ pc' = "writeCursor" /\ UNCHANGED op
    BY <1>1, <1>5, <1>8, <2>1, <2>5
       DEF OrphansDone, StepInv, Found, TypeInv, LocalsSet
  <2> QED
    BY <1>8, <2>2, <2>3, <2>4, <2>5 DEF OrphansDone, AfterRetention
<1>9. CASE PruneDone
  <2>1. Quiet /\ op \in Operation /\ Cardinality(events) \in Nat
    BY <1>9, FS_CardinalityType
       DEF PruneDone, TypeInv, TypeOK, DiskInv, FilesInv
  <2>2. CASE pc' = "prune" /\ UNCHANGED op
    BY <1>1, <1>5, <1>9, <2>1, <2>2
       DEF PruneDone, StepInv, Fresh, Found, Fits, BuildEvent, Healthy
  <2>3. CASE op.name = "retention" /\ Release
    BY <1>1, <1>5, <1>9, <2>1, <2>3 DEF PruneDone, Release, StepInv
  <2>4. CASE /\ op.name # "retention" /\ op.fresh /\ ~Pressure
             /\ pc' = "writeEvent" /\ UNCHANGED op
    <3>1. Fresh /\ Cardinality(events) + 1 <= MaxEventFiles
      BY <1>9, <2>1, <2>4, BoundsAssumption
         DEF PruneDone, StepInv, Pressure, TypeInv, LocalsSet
    <3> QED BY <1>1, <1>5, <2>1, <2>4, <3>1
            DEF StepInv, Fresh, Fits, BuildEvent, Healthy
  <2>5. CASE /\ op.name # "retention" /\ ~op.fresh
             /\ pc' = "writeCursor" /\ UNCHANGED op
    BY <1>1, <1>5, <1>9, <2>1, <2>5
       DEF PruneDone, StepInv, Found, TypeInv, LocalsSet
  <2> QED
    BY <1>9, <2>2, <2>3, <2>4, <2>5 DEF PruneDone, AfterRetention
<1>10. CASE StartCheck
  BY <1>1, <1>5, <1>10 DEF StartCheck, StepInv, Idle
<1>11. CASE CheckDeduplicates
  <2>1. op.event = None
    BY <1>11 DEF CheckDeduplicates, TypeInv, LocalsSet
  <2> QED BY <1>1, <1>5, <1>11, <2>1 DEF CheckDeduplicates, StepInv
<1>12. CASE CheckFailsClosed
  BY <1>1, <1>5, <1>12 DEF CheckFailsClosed, StepInv, Release
<1>13. CASE WriteEventTemp
  BY <1>1, <1>5, <1>13
     DEF WriteEventTemp, StepInv, Fresh, Found, Fits, BuildEvent, Healthy
<1>14. CASE SyncEvent
  BY <1>1, <1>5, <1>14
     DEF SyncEvent, StepInv, Fresh, Found, Fits, BuildEvent, Healthy
<1>15. CASE SyncCursor
  BY <1>1, <1>5, <1>15 DEF SyncCursor, StepInv, Release
<1>16. CASE StartRetention
  BY <1>1, <1>5, <1>16 DEF StartRetention, StepInv, Idle
<1>17. CASE RetentionFailsClosed
  BY <1>1, <1>5, <1>17 DEF RetentionFailsClosed, StepInv, Release
<1>18. CASE RemoveOrphanAck
  BY <1>1, <1>5, <1>18
     DEF RemoveOrphanAck, StepInv, Fresh, Found, Fits, BuildEvent, Healthy
<1>19. CASE SyncOrphan
  BY <1>1, <1>5, <1>19
     DEF SyncOrphan, StepInv, Fresh, Found, Fits, BuildEvent, Healthy
<1>20. CASE SyncPrune
  BY <1>1, <1>5, <1>20
     DEF SyncPrune, StepInv, Fresh, Found, Fits, BuildEvent, Healthy
<1>21. CASE PruneAck
  BY <1>1, <1>5, <1>21
     DEF PruneAck, StepInv, Fresh, Found, Fits, BuildEvent, Healthy
<1>22. CASE SyncPruneAck
  <2>1. op' = [op EXCEPT !.victim = None] /\ op \in Operation
    BY <1>22 DEF SyncPruneAck, TypeInv, TypeOK
  <2>2. op'.name = op.name /\ op'.fresh = op.fresh /\ op'.event = op.event
    BY <2>1 DEF Operation
  <2> QED BY <1>1, <1>5, <1>22, <2>2
          DEF SyncPruneAck, StepInv, Fresh, Found, Fits, BuildEvent, Healthy
<1>23. CASE BudgetExhausted
  BY <1>1, <1>5, <1>23 DEF BudgetExhausted, StepInv, Release
<1>24. CASE StartAcknowledge
  BY <1>1, <1>5, <1>24 DEF StartAcknowledge, StepInv
<1>25. CASE ReplaceAck
  BY <1>1, <1>5, <1>25 DEF ReplaceAck, StepInv
<1>26. CASE SyncAck
  BY <1>1, <1>5, <1>26 DEF SyncAck, StepInv, Release
<1>27. CASE Abort
  BY <1>1, <1>5, <1>27 DEF Abort, StepInv, Release
<1>28. CASE KillLeavesTemp
  BY <1>1, <1>5, <1>28 DEF KillLeavesTemp, StepInv, Release
<1>29. CASE Tick
  BY <1>1, <1>5, <1>7, <1>29 DEF Tick
<1>30. CASE StepClockBack
  BY <1>1, <1>5, <1>7, <1>30 DEF StepClockBack
<1>31. CASE MonitorChanges
  BY <1>1, <1>5, <1>7, <1>31 DEF MonitorChanges
<1>32. CASE UNCHANGED vars
  BY <1>1, <1>5, <1>7, <1>32 DEF vars
<1> QED
  BY <1>2, <1>3, <1>4, <1>6, <1>8, <1>9, <1>10, <1>11, <1>12, <1>13,
     <1>14, <1>15, <1>16, <1>17, <1>18, <1>19, <1>20, <1>21, <1>22,
     <1>23, <1>24, <1>25, <1>26, <1>27, <1>28, <1>29, <1>30, <1>31, <1>32
  DEF Next, CheckStep, RetentionStep, AckStep

(* The inductive invariant holds in every reachable state.                  *)
LEMMA Invariance == Spec => []IndInv
BY IndInit, IndNext, PTL DEF Spec

-----------------------------------------------------------------------------
(* Consequences.                                                            *)

(* Every crash, error, retry and clock step notwithstanding, the sequences
   of the event files are 1, 2, 3, ... once each and the cursor is at most
   one behind.                                                              *)
THEOREM ExactlyOnce == Spec => []SequencesExactlyOnce
<1>1. IndInv => SequencesExactlyOnce
  BY DEF IndInv, TypeInv, TypeOK, DiskInv, LogInv, Chained,
         SequencesExactlyOnce
<1> QED BY <1>1, Invariance, PTL

(* The cursor says of the active incident what the events say of it.        *)
THEOREM CursorIsFaithful == Spec => []CursorFollowsLog
<1>1. IndInv => CursorFollowsLog
  BY DEF IndInv, DiskInv
<1> QED BY <1>1, Invariance, PTL

(* The event a stopped check has written is there for the retry, whatever
   operators acknowledge and retention deletes meanwhile.                   *)
THEOREM PendingEventSurvives == Spec => []PendingReplayRetained
<1>1. IndInv => PendingReplayRetained
  BY DEF IndInv, DiskInv, PendingInv, PendingReplayRetained
<1> QED BY <1>1, Invariance, PTL

(* The outbox never holds more than max_event_files events.                 *)
THEOREM BudgetHolds == Spec => []WithinBudget
<1>1. IndInv => WithinBudget
  BY DEF IndInv, DiskInv, FilesInv, WithinBudget
<1> QED BY <1>1, Invariance, PTL

(* No interrupted operation leaves a state that the next check refuses with
   a sequence regression, a duplicate sequence or a broken link.            *)
THEOREM NextCheckAccepts == Spec => []AcceptableToNextCheck
<1>1. IndInv => AcceptableToNextCheck
  <2> SUFFICES ASSUME IndInv, "outbox" \notin tmp
               PROVE  ValidatedEvents /\ SequenceConsistent(cursor)
    BY DEF AcceptableToNextCheck
  <2> USE DEF IndInv, TypeInv, TypeOK, DiskInv
  <2>1. ASSUME NEW e \in events
        PROVE  /\ e.seq \in Nat \ {0} /\ e.seq <= Len(log) /\ log[e.seq] = e
               /\ Chained(e.seq) /\ e.seq <= cursor.next
    BY DEF FilesInv, LogInv, Event, Cursor
  <2>2. ValidatedEvents
    <3>1. ASSUME NEW e \in events, NEW f \in events, f.prev = e.seq
          PROVE  e.seq < f.seq /\ e.inc = f.inc
      <4>1. f.kind # "opened"
        BY <2>1, <3>1, NoneAssumption DEF Chained
      <4>2. e.seq = f.seq - 1 /\ f.inc = log[f.seq - 1].inc
        BY <2>1, <3>1, <4>1 DEF Chained
      <4> QED BY <2>1, <4>2
    <3>2. ASSUME NEW e \in events, NEW f \in events, e.seq = f.seq
          PROVE  e = f
      BY <2>1, <3>2
    <3> QED BY <3>1, <3>2 DEF ValidatedEvents
  <2>3. SequenceConsistent(cursor)
    <3> SUFFICES ASSUME NEW e \in events, e.seq = cursor.next
                 PROVE  ReplayCompatible(cursor.active, e)
      BY <2>1 DEF SequenceConsistent
    <3>1. Len(log) = cursor.next /\ e = log[cursor.next] /\ e \in Event
      BY <2>1 DEF LogInv, Cursor
    <3>2. Fits(e, cursor)
      BY <3>1 DEF PendingInv
    <3> QED BY <3>1, <3>2
            DEF Fits, BuildEvent, ReplayCompatible, Event, TRANSITIONS
  <2> QED BY <2>2, <2>3
<1> QED BY <1>1, Invariance, PTL

(* Retention deletes an event only while its acknowledgement is on disk, and
   an acknowledgement only when its event is gone.                          *)
THEOREM OnlyAcknowledgedAreRemoved == Spec => OnlyAcknowledgedRemoved
<1> DEFINE Removal ==
        /\ \A e \in events \ events' : e \in acks /\ e \in acks'
        /\ \A a \in acks \ acks' : a \notin events /\ a \notin events'
<1>1. IndInv /\ [Next]_vars => [Removal]_vars
  <2> SUFFICES ASSUME IndInv, Next PROVE Removal
    OBVIOUS
  <2> USE DEF env, disk, durable
  <2>1. CASE PruneEvent
    BY <2>1 DEF PruneEvent, Prunable
  <2>2. CASE PruneAck
    BY <2>2 DEF PruneAck, IndInv, StepInv
  <2>3. CASE RemoveOrphanAck
    BY <2>3 DEF RemoveOrphanAck, OrphanAcks
  <2>4. CASE ReplaceEvent \/ ReplaceAck
    BY <2>4 DEF ReplaceEvent, ReplaceAck
  <2>5. CASE UNCHANGED <<events, acks>>
    BY <2>5
  <2> QED
    BY <2>1, <2>2, <2>3, <2>4, <2>5
    DEF Next, CheckStep, RetentionStep, AckStep, Tick, StepClockBack,
        MonitorChanges, StartCheck, CheckDeduplicates, CheckPreparesEvent,
        CheckFailsClosed, WriteEventTemp, SyncEvent, WriteCursor, SyncCursor,
        StartRetention, RetentionFailsClosed, SyncOrphan, OrphansDone,
        SyncPrune, SyncPruneAck, PruneDone, BudgetExhausted,
        StartAcknowledge, SyncAck, Abort, KillLeavesTemp
<1> QED
  BY <1>1, Invariance, PTL DEF Spec, OnlyAcknowledgedRemoved

-----------------------------------------------------------------------------
(* Refinement.                                                              *)

(* The one step that shows in the journal is an admissible transition.      *)
LEMMA ReplaceEventRecords ==
    ASSUME IndInv, ReplaceEvent PROVE Journal!Next
<1> USE DEF IndInv, TypeInv, TypeOK, DiskInv
<1> DEFINE e == op.event
           n == cursor.next
           J == JournalOf(log)
           entry == [kind |-> e.kind, incident |-> e.inc.seq,
                     snap |-> e.snap, at |-> e.at]
<1>1. /\ e \in Event /\ Fits(e, cursor) /\ log' = Append(log, e)
      /\ n \in Nat \ {0} /\ Len(log) = n - 1 /\ log \in Seq(Event)
  BY DEF ReplaceEvent, StepInv, LocalsSet, Fresh, Cursor
<1>2. e.snap \in Snapshot /\ e.at \in Time /\ e.kind \in TRANSITIONS
  BY <1>1 DEF Event
<1>3. J = [i \in 1..(n - 1) |-> [kind |-> log[i].kind,
              incident |-> log[i].inc.seq, snap |-> log[i].snap,
              at |-> log[i].at]]
  BY <1>1 DEF JournalOf
<1>4. J \in Seq([kind : TRANSITIONS, incident : Nat, snap : Snapshot,
                 at : Time]) /\ Len(J) = n - 1
  <2> DEFINE Entry == [kind : TRANSITIONS, incident : Nat, snap : Snapshot,
                       at : Time]
  <2>1. ASSUME NEW i \in 1..(n - 1) PROVE J[i] \in Entry
    <3>1. log[i] \in Event
      BY <1>1
    <3>2. J[i] = [kind |-> log[i].kind, incident |-> log[i].inc.seq,
                  snap |-> log[i].snap, at |-> log[i].at]
      BY <1>3
    <3> HIDE DEF J
    <3> QED BY <3>1, <3>2 DEF Event, IncidentId
  <2>2. J = [i \in 1..(n - 1) |-> J[i]] /\ n - 1 \in Nat
    BY <1>1, <1>3
  <2> HIDE DEF J, Entry
  <2>3. J \in Seq(Entry) /\ Len(J) = n - 1
    <3>1. J \in [1..(n - 1) -> Entry]
      BY <2>1, <2>2
    <3> QED BY <2>2, <3>1
  <2> QED BY <2>3 DEF Entry
<1>5. JournalOf(log') = Append(J, entry)
  <2>1. log' \in Seq(Event) /\ Len(log') = n /\ log'[n] = e
        /\ \A i \in 1..(n - 1) : log'[i] = log[i]
    BY <1>1
  <2>2. JournalOf(log') = [i \in 1..n |-> [kind |-> log'[i].kind,
              incident |-> log'[i].inc.seq, snap |-> log'[i].snap,
              at |-> log'[i].at]]
    BY <1>1, <2>1 DEF JournalOf
  <2>3. Append(J, entry) = [i \in 1..n |-> IF i = n THEN entry ELSE J[i]]
    BY <1>1, <1>4
  <2>4. \A i \in 1..n :
           [kind |-> log'[i].kind, incident |-> log'[i].inc.seq,
            snap |-> log'[i].snap, at |-> log'[i].at]
              = IF i = n THEN entry ELSE J[i]
    BY <1>1, <1>3, <2>1
  <2> QED BY <2>2, <2>3, <2>4
<1>6. CASE e.kind = "opened"
  <2>1. cursor.active = None
    BY <1>1, <1>6 DEF Fits
  <2>2. n = 1 \/ log[n - 1].kind = "recovered"
    BY <2>1, <1>1 DEF CursorFollowsLog, Committed
  <2>3. ~Journal!IncidentOpen
    BY <1>1, <1>3, <1>4, <2>2 DEF Journal!IncidentOpen, Journal!LastEntry
  <2>4. e.inc.seq = n /\ ~Healthy(e.snap)
    BY <1>1, <1>6 DEF Fits, BuildEvent
  <2>5. Journal!Open(e.snap, e.at)
    BY <1>1, <1>4, <1>5, <1>6, <2>3, <2>4 DEF Journal!Open, Journal!Record
  <2> QED BY <1>2, <2>5 DEF Journal!Next
<1>7. CASE e.kind # "opened"
  <2>1. /\ cursor.active # None /\ e.inc = cursor.active.inc
    BY <1>1, <1>7 DEF Fits, BuildEvent
  <2>2. /\ n # 1 /\ log[n - 1].kind # "recovered"
        /\ cursor.active.inc = log[n - 1].inc
        /\ cursor.active.snap = log[n - 1].snap
        /\ cursor.active.emitted = log[n - 1].at
    BY <2>1 DEF CursorFollowsLog, Committed
  <2>3. /\ J[n - 1].kind # "recovered" /\ J[n - 1].incident = e.inc.seq
        /\ J[n - 1].snap = cursor.active.snap
        /\ J[n - 1].at = cursor.active.emitted
    BY <1>1, <1>3, <2>1, <2>2
  <2>4. Journal!IncidentOpen /\ Journal!LastEntry = J[n - 1]
    BY <1>1, <1>4, <2>2, <2>3 DEF Journal!IncidentOpen, Journal!LastEntry
  <2>5. Journal!Record(e.kind, Journal!LastEntry.incident, e.snap, e.at)
    BY <1>5, <2>3, <2>4 DEF Journal!Record
  <2>6. CASE e.kind = "updated"
    BY <1>1, <1>2, <2>3, <2>4, <2>5, <2>6
       DEF Fits, Journal!Update, Journal!Next
  <2>7. CASE e.kind = "reminder"
    BY <1>1, <1>2, <2>3, <2>4, <2>5, <2>7
       DEF Fits, Journal!Remind, Journal!Next
  <2>8. CASE e.kind = "recovered"
    BY <1>1, <1>2, <2>3, <2>4, <2>5, <2>8
       DEF Fits, Journal!Recover, Journal!Next
  <2> QED BY <1>2, <1>7, <2>6, <2>7, <2>8 DEF TRANSITIONS
<1> QED BY <1>6, <1>7

(* The outbox implements the incident journal: initial states map to the
   empty journal, and every step to an admissible transition or to none.    *)
THEOREM OutboxImplementsJournal == Spec => ImplementsJournal
<1>1. Init => Journal!Init
  BY DEF Init, Journal!Init, JournalOf
<1>2. IndInv /\ [Next]_vars => [Journal!Next]_(JournalOf(log))
  <2> SUFFICES ASSUME IndInv, [Next]_vars
               PROVE  Journal!Next \/ log' = log
    BY DEF JournalOf
  <2>1. CASE ReplaceEvent
    BY <2>1, ReplaceEventRecords
  <2>2. CASE UNCHANGED log
    BY <2>2
  <2> QED
    BY <2>1, <2>2
    DEF vars, Next, CheckStep, RetentionStep, AckStep, Tick, StepClockBack,
        MonitorChanges, StartCheck, CheckDeduplicates, CheckPreparesEvent,
        CheckFailsClosed, WriteEventTemp, SyncEvent, WriteCursor, SyncCursor,
        StartRetention, RetentionFailsClosed, RemoveOrphanAck, SyncOrphan,
        OrphansDone, PruneEvent, SyncPrune, PruneAck, SyncPruneAck, PruneDone,
        BudgetExhausted, StartAcknowledge, ReplaceAck, SyncAck, Abort,
        KillLeavesTemp
<1> QED
  BY <1>1, <1>2, Invariance, PTL DEF Spec, ImplementsJournal, Journal!Spec
=============================================================================
