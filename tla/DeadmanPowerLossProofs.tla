----------------------- MODULE DeadmanPowerLossProofs -----------------------
(***************************************************************************)
(* Proofs about the dead-man outbox on a machine that may lose power at    *)
(* any moment, any number of times.  No process is assumed to end between  *)
(* a change of the outbox or of the cursor and the fsync that follows it:  *)
(* an unsynced deletion that a later check builds on can come back.        *)
(***************************************************************************)
EXTENDS DeadmanPowerLoss, DeadmanOutboxProofs

(* No error or kill hits the windows between unlink or rename and fsync of
   the outbox and the cursor; losses of power do.                           *)
SyncedFaults ==
    FaultPoints \intersect {"syncEvent", "syncPrune", "syncCursor"} = {}

(* After a loss of power the outbox holds at least the events that are both
   visible and durable, at most those that are either.                      *)
Certain == events \intersect eventsD
Possible == events \union eventsD

(* Which of the two contents is ahead, step by step.                        *)
SyncInv ==
    /\ pc \notin {"syncEvent", "syncPrune"} => eventsD = events
    /\ pc = "syncEvent" => events = eventsD \union {op.event}
    /\ pc = "syncPrune" => events = eventsD \ {op.victim}
    /\ pc # "syncCursor" => cursorD = cursor
    /\ cursorD.next <= cursor.next

(* Events are told apart by their sequence, and linked within an incident.  *)
LinksInv ==
    /\ \A e \in Possible : e.prev # None => e.prev < e.seq
    /\ \A e, f \in Possible : /\ e.seq = f.seq => e = f
                              /\ f.prev = e.seq => e.inc = f.inc

(* Events and active incident a check would find beside cursor c.           *)
CursorFits(c) ==
    /\ \A e \in Possible : /\ e.seq <= c.next
                           /\ e.seq = c.next => Fits(e, c)
    /\ c.active # None =>
          /\ c.active.last < c.next
          /\ \A e \in Possible : e.seq = c.active.last => e.inc = c.active.inc

(* Of the events cursor c has passed, all are in C or all that the budget
   has room for beside the next one.                                        *)
Passed(c, C) == {e \in C : e.seq <= c.next - 1}

Retained(c, C) ==
    \/ Cardinality(Passed(c, C)) >= MaxEventFiles - 1
    \/ \A n \in 1..(c.next - 1) : \E e \in C : e.seq = n

BudgetInv == IsFiniteSet(Possible) /\ Cardinality(Possible) <= MaxEventFiles

(* An acknowledgement that may survive is of an event that will, or of one
   the cursor has passed for good.                                          *)
AckInv ==
    \A a \in acks \union acksD :
        /\ a \in Certain \/ a.seq < cursorD.next
        /\ \A e \in Possible : EventId(e) = EventId(a) => a = e

(* The event of the operation under way.                                    *)
NewEvent ==
    Fits(op.event, cursor) /\ \A e \in events : e.seq # cursor.next

OldEvent == op.event \in events /\ op.event.seq = cursor.next

OperationInv ==
    /\ pc \in RetentionPoints /\ op.name = "check" =>
          IF op.fresh THEN NewEvent ELSE OldEvent
    /\ pc \in {"writeEvent", "eventTmp"} =>
          NewEvent /\ Cardinality(events) + 1 <= MaxEventFiles
    /\ pc = "syncEvent" => op.event.seq = cursor.next /\ op.event \notin eventsD
    /\ pc = "writeCursor" /\ op.event # None => OldEvent
    /\ pc \in {"ackTmp", "syncAck"} => op.event \in events

(* What must hold of the disk, whichever of the two contents survives.     *)
DurableInv ==
    /\ LinksInv /\ BudgetInv /\ AckInv
    /\ CursorFits(cursor) /\ CursorFits(cursorD)
    /\ Retained(cursor, Certain) /\ Retained(cursorD, Certain)

(* The inductive invariant.                                                 *)
PowerInv == TypeInv /\ SyncInv /\ DurableInv /\ OperationInv

-----------------------------------------------------------------------------
(* Lemmas.                                                                  *)

(* The empty outbox satisfies the invariant.                                *)
LEMMA PowerInit == Init => PowerInv
<1> SUFFICES ASSUME Init PROVE PowerInv
  OBVIOUS
<1>1. TypeInv
  BY TypeInit
<1>2. /\ events = {} /\ eventsD = {} /\ acks = {} /\ acksD = {}
      /\ pc = "idle" /\ cursorD = cursor /\ cursor.next = 1
      /\ cursor.active = None
  BY DEF Init
<1>3. IsFiniteSet({}) /\ Cardinality({}) = 0
  BY FS_EmptySet
<1>4. SyncInv /\ OperationInv
  BY <1>2 DEF SyncInv, OperationInv, RetentionPoints
<1>5. DurableInv
  BY <1>2, <1>3, BoundsAssumption
     DEF DurableInv, LinksInv, BudgetInv, AckInv, CursorFits, Retained,
         Certain, Possible
<1> QED BY <1>1, <1>4, <1>5 DEF PowerInv

(* More surviving events retain no less.                                    *)
LEMMA RetainedGrows ==
    ASSUME NEW c \in Cursor, NEW C, NEW D, C \subseteq D, IsFiniteSet(D),
           Retained(c, C)
    PROVE  Retained(c, D)
<1>1. CASE \A n \in 1..(c.next - 1) : \E e \in C : e.seq = n
  BY <1>1 DEF Retained
<1>2. CASE Cardinality(Passed(c, C)) >= MaxEventFiles - 1
  <2>1. Passed(c, C) \subseteq Passed(c, D) /\ Passed(c, D) \subseteq D
    BY DEF Passed
  <2>2. IsFiniteSet(Passed(c, D))
    BY <2>1, FS_Subset
  <2>3. Cardinality(Passed(c, C)) <= Cardinality(Passed(c, D))
        /\ IsFiniteSet(Passed(c, C))
    BY <2>1, <2>2, FS_Subset
  <2>4. Cardinality(Passed(c, C)) \in Nat /\ Cardinality(Passed(c, D)) \in Nat
    BY <2>2, <2>3, FS_CardinalityType
  <2> QED BY <1>2, <2>3, <2>4, BoundsAssumption DEF Retained
<1> QED BY <1>1, <1>2 DEF Retained

(* A step that leaves less undecided (an fsync, a loss of power) keeps what
   holds of the disk.                                                       *)
LEMMA DurableShrinks ==
    ASSUME TypeInv, TypeInv', DurableInv,
           Possible' \subseteq Possible, Certain \subseteq Certain',
           cursor' \in {cursor, cursorD}, cursorD' \in {cursor, cursorD},
           cursorD.next <= cursorD'.next,
           acks' \union acksD' \subseteq acks \union acksD
    PROVE  DurableInv'
<1>1. /\ cursor \in Cursor /\ cursorD \in Cursor
      /\ acks \subseteq Event /\ acksD \subseteq Event
      /\ cursorD.next \in Nat /\ cursorD'.next \in Nat
  BY DEF TypeInv, TypeOK, Cursor
<1>2. LinksInv'
  BY DEF DurableInv, LinksInv
<1>3. BudgetInv'
  <2>1. IsFiniteSet(Possible) /\ Cardinality(Possible) <= MaxEventFiles
    BY DEF DurableInv, BudgetInv
  <2>2. IsFiniteSet(Possible') /\ Cardinality(Possible') <= Cardinality(Possible)
    BY <2>1, FS_Subset
  <2>3. Cardinality(Possible') \in Nat /\ Cardinality(Possible) \in Nat
    BY <2>1, <2>2, FS_CardinalityType
  <2> QED BY <2>1, <2>2, <2>3, BoundsAssumption DEF BudgetInv
<1>4. AckInv'
  <2> SUFFICES ASSUME NEW a \in acks' \union acksD'
               PROVE  /\ a \in Certain' \/ a.seq < cursorD'.next
                      /\ \A e \in Possible' : EventId(e) = EventId(a) => a = e
    BY DEF AckInv, EventId
  <2>1. a \in acks \union acksD /\ a.seq \in Nat
    BY <1>1 DEF Event
  <2>2. /\ a \in Certain \/ a.seq < cursorD.next
        /\ \A e \in Possible : EventId(e) = EventId(a) => a = e
    BY <2>1 DEF DurableInv, AckInv
  <2> QED BY <1>1, <2>1, <2>2
<1>5. CursorFits(cursor)' /\ CursorFits(cursorD)'
  <2>1. ASSUME NEW c \in {cursor, cursorD} PROVE CursorFits(c)
    BY DEF DurableInv
  <2>2. ASSUME NEW c \in {cursor, cursorD}
        PROVE  /\ \A e \in Possible' : /\ e.seq <= c.next
                                       /\ e.seq = c.next => Fits(e, c)
               /\ c.active # None =>
                     /\ c.active.last < c.next
                     /\ \A e \in Possible' : e.seq = c.active.last =>
                                               e.inc = c.active.inc
    BY <2>1 DEF CursorFits
  <2> QED BY <2>2 DEF CursorFits, Fits, BuildEvent, Healthy
<1>6. Retained(cursor, Certain)' /\ Retained(cursorD, Certain)'
  <2>1. Certain' \subseteq Possible' /\ IsFiniteSet(Possible')
    BY <1>3 DEF BudgetInv, Certain, Possible
  <2>2. IsFiniteSet(Certain')
    BY <2>1, FS_Subset
  <2>3. Retained(cursor, Certain') /\ Retained(cursorD, Certain')
    BY <1>1, <2>2, RetainedGrows DEF DurableInv
  <2> QED BY <2>3 DEF Retained, Passed
<1> QED BY <1>2, <1>3, <1>4, <1>5, <1>6 DEF DurableInv

(* Writing a new event: it is linked to what may be there, no event and no
   acknowledgement has its sequence.                                        *)
LEMMA ReplaceEventDurable ==
    ASSUME PowerInv, TypeInv', ReplaceEvent PROVE DurableInv'
<1> DEFINE n == cursor.next
           e == op.event
<1>1. /\ pc = "eventTmp" /\ e \in Event /\ n \in Nat \ {0}
      /\ cursor \in Cursor /\ cursorD = cursor
      /\ events \subseteq Event /\ eventsD = events
      /\ acks \subseteq Event /\ acksD \subseteq Event
  BY DEF ReplaceEvent, PowerInv, TypeInv, TypeOK, LocalsSet, SyncInv, Cursor
<1>2. /\ Fits(e, cursor) /\ (\A f \in events : f.seq # n)
      /\ Cardinality(events) + 1 <= MaxEventFiles
  BY <1>1 DEF PowerInv, OperationInv, NewEvent
<1>3. /\ events' = events \union {e} /\ UNCHANGED <<acks, cursor, op>>
      /\ UNCHANGED durable
  BY DEF ReplaceEvent
<1>4. /\ Certain = events /\ Possible = events
      /\ Certain' = events /\ Possible' = events \union {e}
  BY <1>1, <1>3 DEF Certain, Possible, durable
<1>5. cursorD' = cursor /\ acksD' = acksD
  BY <1>1, <1>3 DEF durable
<1>6. e.seq = n /\ (e.prev # None => /\ cursor.active # None
                                     /\ e.prev = cursor.active.last
                                     /\ e.inc = cursor.active.inc)
  BY <1>2 DEF Fits, BuildEvent
<1>7. cursor.active # None =>
         /\ cursor.active.last \in Nat /\ cursor.active.last < n
         /\ \A f \in events : f.seq = cursor.active.last
                               => f.inc = cursor.active.inc
  BY <1>1, <1>4 DEF PowerInv, DurableInv, CursorFits, Cursor, ActiveIncident
<1>8. \A f \in events : /\ f.seq \in Nat /\ f.seq <= n
                        /\ f.prev \in Nat \union {None}
                        /\ f.prev # None => f.prev < f.seq
  BY <1>1, <1>4 DEF PowerInv, DurableInv, LinksInv, CursorFits, Event
<1>9. LinksInv'
  <2>1. e.prev # None => e.prev < e.seq
    BY <1>6, <1>7
  <2>2. ASSUME NEW f \in Possible', NEW g \in Possible'
        PROVE  /\ f.seq = g.seq => f = g
               /\ g.prev = f.seq => f.inc = g.inc
    <3>1. CASE f \in events /\ g \in events
      BY <3>1, <1>4 DEF PowerInv, DurableInv, LinksInv
    <3>2. CASE f = e /\ g \in events
      BY <3>2, <1>1, <1>2, <1>6, <1>8, NoneAssumption
    <3>3. CASE f \in events /\ g = e
      <4>1. f.seq # g.seq
        BY <3>3, <1>2, <1>6
      <4>2. ASSUME g.prev = f.seq PROVE f.inc = g.inc
        <5>1. g.prev # None
          BY <3>3, <4>2, <1>8, NoneAssumption
        <5> QED BY <3>3, <4>2, <5>1, <1>6, <1>7
      <4> QED BY <4>1, <4>2
    <3>4. CASE f = e /\ g = e
      BY <3>4
    <3> QED BY <3>1, <3>2, <3>3, <3>4, <1>4
  <2> QED BY <2>1, <2>2, <1>4, <1>8 DEF LinksInv
<1>10. BudgetInv'
  <2>1. IsFiniteSet(events)
    BY <1>4 DEF PowerInv, DurableInv, BudgetInv
  <2>2. e \notin events
    BY <1>2, <1>6
  <2>3. /\ IsFiniteSet(events \union {e})
        /\ Cardinality(events \union {e}) = Cardinality(events) + 1
    BY <2>1, <2>2, FS_AddElement
  <2> QED BY <2>3, <1>2, <1>4 DEF BudgetInv
<1>11. AckInv'
  <2> SUFFICES ASSUME NEW a \in acks \union acksD
               PROVE  /\ a \in events \/ a.seq < n
                      /\ \A f \in events \union {e} :
                            EventId(f) = EventId(a) => a = f
    BY <1>3, <1>4, <1>5 DEF AckInv, EventId
  <2>1. /\ a \in events \/ a.seq < n
        /\ \A f \in events : EventId(f) = EventId(a) => a = f
    BY <1>1, <1>4 DEF PowerInv, DurableInv, AckInv
  <2>2. a.seq \in Nat
    BY <1>1 DEF Event
  <2>3. a.seq # e.seq
    BY <2>1, <2>2, <1>1, <1>2, <1>6
  <2>4. EventId(e) # EventId(a)
    BY <2>3 DEF EventId
  <2> QED BY <2>1, <2>4
<1>12. CursorFits(cursor)' /\ CursorFits(cursorD)'
  <2>1. \A f \in events \union {e} : /\ f.seq <= n
                                     /\ f.seq = n => Fits(f, cursor)
    BY <1>1, <1>2, <1>6, <1>8
  <2>2. cursor.active # None =>
           \A f \in events \union {e} :
               f.seq = cursor.active.last => f.inc = cursor.active.inc
    BY <1>1, <1>6, <1>7
  <2> QED BY <1>3, <1>4, <1>5, <1>7, <2>1, <2>2
          DEF CursorFits, Fits, BuildEvent, Healthy
<1>13. Retained(cursor, Certain)' /\ Retained(cursorD, Certain)'
  BY <1>1, <1>3, <1>4, <1>5 DEF PowerInv, DurableInv, Retained, Passed
<1> QED BY <1>9, <1>10, <1>11, <1>12, <1>13 DEF DurableInv

(* Retention inside the budget deletes to make room for a new event only, so
   what it deletes the cursor has passed, and the budget less one stays.    *)
LEMMA PruneEventDurable ==
    ASSUME PowerInv, TypeInv', PruneEvent
    PROVE  DurableInv' /\ SyncInv' /\ OperationInv'
<1> DEFINE n == cursor.next
<1>1. /\ pc = "prune" /\ op \in Operation /\ n \in Nat \ {0}
      /\ cursor \in Cursor /\ cursorD = cursor
      /\ events \subseteq Event /\ eventsD = events
      /\ acks \subseteq Event /\ acksD \subseteq Event
  BY DEF PruneEvent, PowerInv, TypeInv, TypeOK, SyncInv, Cursor
<1>2. PICK v \in events : /\ events' = events \ {v}
                          /\ op' = [op EXCEPT !.victim = v]
  BY DEF PruneEvent, Prunable
<1>3. /\ pc' = "syncPrune" /\ acks' = acks /\ cursor' = cursor
      /\ eventsD' = events /\ acksD' = acksD /\ cursorD' = cursor
  BY <1>1 DEF PruneEvent, durable
<1>4. /\ Certain = events /\ Possible = events
      /\ Certain' = events \ {v} /\ Possible' = events
  BY <1>1, <1>2, <1>3 DEF Certain, Possible
<1>5. /\ op'.victim = v /\ op'.event = op.event /\ op'.name = op.name
      /\ op'.fresh = op.fresh
  BY <1>1, <1>2 DEF Operation
<1>6. IsFiniteSet(events) /\ Cardinality(events) \in Nat
      /\ Cardinality(events) <= MaxEventFiles
  BY <1>4, FS_CardinalityType DEF PowerInv, DurableInv, BudgetInv
<1>7. op.fresh
  BY <1>6, BoundsAssumption DEF PruneEvent, Pressure
<1>7a. Cardinality(events) + 1 > MaxEventFiles
  BY <1>7 DEF PruneEvent, Pressure
<1>8. op.name = "check"
  BY <1>1, <1>7 DEF PowerInv, TypeInv, LocalsSet, RetentionPoints
<1>9. Fits(op.event, cursor) /\ \A f \in events : f.seq # n
  BY <1>1, <1>7, <1>8 DEF PowerInv, OperationInv, NewEvent, RetentionPoints
<1>10. \A f \in events : f.seq \in Nat /\ f.seq < n
  BY <1>1, <1>4, <1>9 DEF PowerInv, DurableInv, CursorFits, Event
<1>11. LinksInv' /\ BudgetInv'
  BY <1>4 DEF PowerInv, DurableInv, LinksInv, BudgetInv
<1>12. AckInv'
  <2> SUFFICES ASSUME NEW a \in acks \union acksD
               PROVE  /\ a \in events \ {v} \/ a.seq < n
                      /\ \A f \in events : EventId(f) = EventId(a) => a = f
    BY <1>3, <1>4 DEF AckInv, EventId
  <2>1. /\ a \in events \/ a.seq < n
        /\ \A f \in events : EventId(f) = EventId(a) => a = f
    BY <1>1, <1>4 DEF PowerInv, DurableInv, AckInv
  <2> QED BY <2>1, <1>10
<1>13. CursorFits(cursor)' /\ CursorFits(cursorD)'
  BY <1>1, <1>3, <1>4
     DEF PowerInv, DurableInv, CursorFits, Fits, BuildEvent, Healthy
<1>14. Retained(cursor, Certain)' /\ Retained(cursorD, Certain)'
  <2>1. Passed(cursor, events \ {v}) = events \ {v}
    BY <1>1, <1>10 DEF Passed
  <2>2. Cardinality(events \ {v}) = Cardinality(events) - 1
    BY <1>6, FS_RemoveElement
  <2>3. Cardinality(events \ {v}) >= MaxEventFiles - 1
    BY <1>6, <1>7a, <2>2, BoundsAssumption
  <2>4. Retained(cursor, events \ {v})
    BY <2>1, <2>3 DEF Retained
  <2> QED BY <1>3, <1>4, <2>4 DEF Retained, Passed
<1>15. SyncInv'
  BY <1>1, <1>2, <1>3, <1>5 DEF SyncInv
<1>16. OperationInv'
  BY <1>2, <1>3, <1>5, <1>7, <1>9
     DEF OperationInv, NewEvent, Fits, BuildEvent, Healthy, RetentionPoints
<1> QED BY <1>11, <1>12, <1>13, <1>14, <1>15, <1>16 DEF DurableInv

(* The cursor passes its event only when that event is durable.             *)
LEMMA WriteCursorDurable ==
    ASSUME PowerInv, TypeInv', WriteCursor
    PROVE  DurableInv' /\ SyncInv'
<1> DEFINE n == cursor.next
<1>1. /\ pc = "writeCursor" /\ op \in Operation /\ n \in Nat \ {0}
      /\ cursor \in Cursor /\ cursorD = cursor /\ cursor' \in Cursor
      /\ events \subseteq Event /\ eventsD = events
      /\ acks \subseteq Event /\ acksD \subseteq Event
  BY DEF WriteCursor, PowerInv, TypeInv, TypeOK, SyncInv, Cursor
<1>2. /\ pc' = "syncCursor" /\ events' = events /\ acks' = acks
      /\ eventsD' = events /\ acksD' = acksD /\ cursorD' = cursor
  BY <1>1 DEF WriteCursor, durable
<1>3. /\ Certain = events /\ Possible = events
      /\ Certain' = events /\ Possible' = events
  BY <1>1, <1>2 DEF Certain, Possible
<1>4. LinksInv' /\ BudgetInv'
  BY <1>3 DEF PowerInv, DurableInv, LinksInv, BudgetInv
<1>5. AckInv'
  BY <1>1, <1>2, <1>3 DEF PowerInv, DurableInv, AckInv, EventId
<1>6. CursorFits(cursorD)' /\ Retained(cursorD, Certain)'
  BY <1>1, <1>2, <1>3
     DEF PowerInv, DurableInv, CursorFits, Retained, Passed, Fits, BuildEvent,
         Healthy
<1>7. \A f \in events : f.seq \in Nat /\ f.seq <= n
  BY <1>1, <1>3 DEF PowerInv, DurableInv, CursorFits, Event
<1>8. CASE op.event = None
  <2>1. cursor'.next = n /\ cursor'.active = cursor.active
    BY <1>1, <1>8 DEF WriteCursor, Cursor
  <2>2. CursorFits(cursor)'
    BY <1>1, <1>3, <2>1
       DEF PowerInv, DurableInv, CursorFits, Fits, BuildEvent, Healthy
  <2>3. Retained(cursor, Certain)'
    BY <1>1, <1>3, <2>1 DEF PowerInv, DurableInv, Retained, Passed
  <2>4. SyncInv'
    BY <1>1, <1>2, <2>1 DEF SyncInv
  <2> QED BY <1>4, <1>5, <1>6, <2>2, <2>3, <2>4 DEF DurableInv
<1>9. CASE op.event # None
  <2> DEFINE e == op.event
  <2>1. e \in events /\ e.seq = n
    BY <1>1, <1>9 DEF PowerInv, OperationInv, OldEvent
  <2>2. /\ cursor'.next = n + 1
        /\ cursor'.active # None => /\ cursor'.active.last = n
                                    /\ cursor'.active.inc = e.inc
    BY <1>9, <2>1 DEF WriteCursor, AdvancedCursor
  <2>3. CursorFits(cursor)'
    <3>1. \A f \in events : f.seq <= n + 1 /\ f.seq # n + 1
      BY <1>1, <1>7
    <3>2. \A f \in events : f.seq = n => f = e
      BY <1>3, <2>1 DEF PowerInv, DurableInv, LinksInv
    <3> QED BY <1>1, <1>3, <2>2, <3>1, <3>2 DEF CursorFits
  <2>4. Retained(cursor, Certain)'
    <3>1. CASE \A k \in 1..(n - 1) : \E f \in events : f.seq = k
      <4>1. \A k \in 1..n : \E f \in events : f.seq = k
        BY <3>1, <2>1, <1>1
      <4> QED BY <4>1, <1>1, <1>3, <2>2 DEF Retained
    <3>2. CASE Cardinality(Passed(cursor, events)) >= MaxEventFiles - 1
      <4>1. Passed(cursor, events) \subseteq Passed(cursor', events)
        BY <1>1, <1>7, <2>2 DEF Passed
      <4>2. IsFiniteSet(events) /\ Passed(cursor', events) \subseteq events
        BY <1>3 DEF PowerInv, DurableInv, BudgetInv, Passed
      <4>3. IsFiniteSet(Passed(cursor', events))
        BY <4>2, FS_Subset
      <4>4. IsFiniteSet(Passed(cursor, events))
            /\ Cardinality(Passed(cursor, events))
                  <= Cardinality(Passed(cursor', events))
        BY <4>1, <4>3, FS_Subset
      <4>5. /\ Cardinality(Passed(cursor, events)) \in Nat
            /\ Cardinality(Passed(cursor', events)) \in Nat
        BY <4>3, <4>4, FS_CardinalityType
      <4>6. Cardinality(Passed(cursor', events)) >= MaxEventFiles - 1
        BY <3>2, <4>4, <4>5, BoundsAssumption
      <4>7. Retained(cursor', events)
        BY <4>6 DEF Retained
      <4> QED BY <4>7, <1>3 DEF Retained, Passed
    <3>3. Retained(cursor, events)
      BY <1>3 DEF PowerInv, DurableInv
    <3> QED BY <3>1, <3>2, <3>3 DEF Retained
  <2>5. SyncInv'
    BY <1>1, <1>2, <2>2 DEF SyncInv
  <2> QED BY <1>4, <1>5, <1>6, <2>3, <2>4, <2>5 DEF DurableInv
<1> QED BY <1>8, <1>9

(* An acknowledgement is of an event that is durable.                       *)
LEMMA ReplaceAckDurable ==
    ASSUME PowerInv, TypeInv', ReplaceAck PROVE DurableInv'
<1>1. /\ pc = "ackTmp" /\ cursorD = cursor /\ eventsD = events
      /\ op.event \in events
  BY DEF ReplaceAck, PowerInv, SyncInv, OperationInv
<1>2. /\ events' = events /\ acks' = acks \union {op.event}
      /\ eventsD' = events /\ acksD' = acksD
      /\ cursor' = cursor /\ cursorD' = cursor
  BY <1>1 DEF ReplaceAck, durable
<1>3. /\ Certain = events /\ Possible = events
      /\ Certain' = events /\ Possible' = events
  BY <1>1, <1>2 DEF Certain, Possible
<1>4. \A e \in events : EventId(e) = EventId(op.event) => op.event = e
  BY <1>1, <1>3 DEF PowerInv, DurableInv, LinksInv, EventId
<1>5. AckInv'
  <2> SUFFICES ASSUME NEW a \in acks \union {op.event} \union acksD
               PROVE  /\ a \in events \/ a.seq < cursorD.next
                      /\ \A f \in events : EventId(f) = EventId(a) => a = f
    BY <1>1, <1>2, <1>3 DEF AckInv, EventId
  <2>1. CASE a = op.event
    BY <2>1, <1>1, <1>4
  <2>2. CASE a \in acks \union acksD
    BY <2>2, <1>3 DEF PowerInv, DurableInv, AckInv
  <2> QED BY <2>1, <2>2
<1>6. LinksInv' /\ BudgetInv'
  BY <1>3 DEF PowerInv, DurableInv, LinksInv, BudgetInv
<1>7. /\ CursorFits(cursor)' /\ CursorFits(cursorD)'
      /\ Retained(cursor, Certain)' /\ Retained(cursorD, Certain)'
  BY <1>1, <1>2, <1>3
     DEF PowerInv, DurableInv, CursorFits, Retained, Passed, Fits, BuildEvent,
         Healthy
<1> QED BY <1>5, <1>6, <1>7 DEF DurableInv

(* Whatever a loss of power leaves of a directory contains what was certain
   and is contained in what was possible.                                   *)
LEMMA SurvivorsBetween ==
    ASSUME NEW visible, NEW secured, NEW s \in Survivors(visible, secured)
    PROVE  /\ visible \intersect secured \subseteq s
           /\ s \subseteq visible \union secured
BY DEF Survivors

(* A loss of power keeps the invariant.                                     *)
LEMMA PowerLossKeeps == ASSUME PowerInv, PowerLoss PROVE PowerInv'
<1>1. /\ Certain \subseteq events' /\ events' \subseteq Possible
      /\ eventsD' = events'
  BY SurvivorsBetween DEF PowerLoss, Certain, Possible
<1>2. acks' \subseteq acks \union acksD /\ acksD' = acks'
  BY SurvivorsBetween DEF PowerLoss
<1>3. /\ cursor' \in {cursor, cursorD} /\ cursorD' = cursor'
      /\ pc' = "idle" /\ op' = Idle
      /\ UNCHANGED <<clock, monitor, log>>
  BY DEF PowerLoss, Release, env
<1>4. TypeInv'
  <2>1. /\ events' \subseteq Event /\ eventsD' \subseteq Event
        /\ acks' \subseteq Event /\ acksD' \subseteq Event
        /\ cursor' \in Cursor /\ cursorD' \in Cursor
    BY <1>1, <1>2, <1>3 DEF PowerInv, TypeInv, TypeOK, Possible
  <2>2. tmp' \subseteq {"outbox", "ack"}
    BY DEF PowerInv, TypeInv, TypeOK, PowerLoss
  <2>3. faults' \in 0..MaxFaults
    BY BoundsAssumption DEF PowerInv, TypeInv, TypeOK, PowerLoss
  <2>4. op' \in Operation /\ pc' \in Points
    BY <1>3 DEF Operation, Idle, Points
  <2>5. LocalsSet'
    BY <1>3 DEF LocalsSet, RetentionPoints
  <2> QED BY <1>3, <2>1, <2>2, <2>3, <2>4, <2>5
          DEF PowerInv, TypeInv, TypeOK
<1>5. Certain' = events' /\ Possible' = events'
  BY <1>1 DEF Certain, Possible
<1>6. cursor.next \in Nat /\ cursorD.next \in Nat
      /\ cursorD.next <= cursorD'.next
  BY <1>3 DEF PowerInv, TypeInv, TypeOK, Cursor, SyncInv
<1>7. DurableInv'
  BY <1>1, <1>2, <1>3, <1>4, <1>5, <1>6, DurableShrinks DEF PowerInv
<1>8. SyncInv'
  BY <1>1, <1>3, <1>6 DEF SyncInv
<1>9. OperationInv'
  BY <1>3 DEF OperationInv, RetentionPoints
<1> QED BY <1>4, <1>7, <1>8, <1>9 DEF PowerInv

(* A step that changes neither the event files nor the cursor, and adds no
   acknowledgement, keeps what holds of the disk.                           *)
LEMMA QuietDurable ==
    ASSUME PowerInv, TypeInv', UNCHANGED <<events, eventsD, cursor, cursorD>>,
           acks' \union acksD' \subseteq acks \union acksD
    PROVE  DurableInv'
<1>1. Possible' = Possible /\ Certain' = Certain
  BY DEF Possible, Certain
<1>2. cursorD.next \in Nat
  BY DEF PowerInv, TypeInv, TypeOK, Cursor
<1> QED BY <1>1, <1>2, DurableShrinks DEF PowerInv

(* The end of retention: room has been made for a new event.                *)
LEMMA AfterRetentionKeeps ==
    ASSUME PowerInv, pc \in {"orphans", "prune"}, ~Pressure, AfterRetention,
           UNCHANGED <<events, eventsD, cursor, cursorD>>
    PROVE  SyncInv' /\ OperationInv'
<1>1. SyncInv /\ OperationInv /\ LocalsSet /\ op \in Operation
  BY DEF PowerInv, TypeInv, TypeOK
<1>2. Cardinality(events) \in Nat
  <2>1. IsFiniteSet(Possible) /\ events \subseteq Possible
    BY DEF PowerInv, DurableInv, BudgetInv, Possible
  <2> QED BY <2>1, FS_Subset, FS_CardinalityType
<1>3. CASE op.name = "retention" /\ Release
  BY <1>1, <1>3 DEF SyncInv, OperationInv, Release, RetentionPoints
<1>4. CASE /\ op.name # "retention" /\ op.fresh
           /\ pc' = "writeEvent" /\ UNCHANGED op
  <2>1. NewEvent
    BY <1>1, <1>4 DEF OperationInv, LocalsSet, RetentionPoints
  <2>2. Cardinality(events) + 1 <= MaxEventFiles
    BY <1>2, <1>4, BoundsAssumption DEF Pressure
  <2> QED BY <1>1, <1>4, <2>1, <2>2
          DEF SyncInv, OperationInv, NewEvent, Fits, BuildEvent, Healthy,
              RetentionPoints
<1>5. CASE /\ op.name # "retention" /\ ~op.fresh
           /\ pc' = "writeCursor" /\ UNCHANGED op
  <2>1. OldEvent
    BY <1>1, <1>5 DEF OperationInv, LocalsSet, RetentionPoints
  <2> QED BY <1>1, <1>5, <2>1
          DEF SyncInv, OperationInv, OldEvent, RetentionPoints
<1> QED BY <1>3, <1>4, <1>5 DEF AfterRetention

(* The event a check prepares is new, or the one that is on disk.           *)
LEMMA CheckPreparesKeeps ==
    ASSUME PowerInv, CheckPreparesEvent PROVE SyncInv' /\ OperationInv'
<1> DEFINE s == normalize_watchdog_result(monitor)
           kind == PendingTransition(cursor, s, op.now)
           ev == BuildEvent(cursor, kind, s, op.now)
<1>1. /\ pc = "watchdog" /\ pc' = "orphans" /\ ~op.fresh
      /\ op \in Operation /\ op.now \in Time /\ kind # None
      /\ cursor \in Cursor /\ s \in Snapshot
      /\ UNCHANGED <<events, eventsD, cursor, cursorD>>
  BY NormalizedIsSnapshot
     DEF CheckPreparesEvent, PowerInv, TypeInv, TypeOK, LocalsSet, disk,
         durable
<1>2. SyncInv'
  BY <1>1 DEF PowerInv, SyncInv
<1>3. CASE PendingReplay(cursor) = {}
  <2>1. op' = [op EXCEPT !.event = ev, !.fresh = TRUE]
    BY <1>3 DEF CheckPreparesEvent
  <2>2. Fits(ev, cursor)
    BY <1>1, PreparedFits
  <2>3. \A e \in events : e.seq # cursor.next
    BY <1>3 DEF PendingReplay
  <2> HIDE DEF ev
  <2>4. op'.event = ev /\ op'.fresh
    BY <1>1, <2>1 DEF Operation
  <2> QED BY <1>1, <1>2, <2>2, <2>3, <2>4
          DEF OperationInv, NewEvent, Fits, BuildEvent, Healthy,
              RetentionPoints
<1>4. CASE PendingReplay(cursor) # {}
  <2> DEFINE old == CHOOSE e \in PendingReplay(cursor) : TRUE
  <2>1. op' = [op EXCEPT !.event = old]
    BY <1>4 DEF CheckPreparesEvent
  <2>2. old \in events /\ old.seq = cursor.next
    BY <1>4 DEF PendingReplay
  <2> HIDE DEF old
  <2>3. op'.event = old /\ ~op'.fresh
    BY <1>1, <2>1 DEF Operation
  <2> QED BY <1>1, <1>2, <2>2, <2>3 DEF OperationInv, OldEvent, RetentionPoints
<1> QED BY <1>3, <1>4

(* Every step of an operation, and every fault outside the three fsyncs,
   keeps the invariant.                                                     *)
LEMMA PowerNextKeeps ==
    ASSUME SyncedFaults, PowerInv, [Next]_vars PROVE PowerInv'
<1>1. TypeInv'
  BY TypeNext DEF PowerInv
<1>2. SUFFICES DurableInv' /\ SyncInv' /\ OperationInv'
  BY <1>1 DEF PowerInv
<1>3. /\ SyncInv /\ OperationInv /\ LocalsSet /\ op \in Operation
      /\ cursor \in Cursor /\ cursorD \in Cursor
      /\ cursor.next \in Nat /\ cursorD.next \in Nat
  BY DEF PowerInv, TypeInv, TypeOK, Cursor
<1>4. ASSUME UNCHANGED <<events, eventsD, cursor, cursorD>>,
             acks' \union acksD' \subseteq acks \union acksD
      PROVE  DurableInv'
  BY <1>1, <1>4, QuietDurable
<1>5. ASSUME UNCHANGED <<pc, op, events, eventsD, cursor, cursorD>>
      PROVE  SyncInv' /\ OperationInv'
  BY <1>3, <1>5
     DEF SyncInv, OperationInv, NewEvent, OldEvent, Fits, BuildEvent, Healthy
<1>6. ASSUME UNCHANGED <<events, eventsD, cursor, cursorD>>, Release,
             pc \notin {"syncEvent", "syncPrune", "syncCursor"}
      PROVE  SyncInv' /\ OperationInv'
  BY <1>3, <1>6 DEF SyncInv, OperationInv, Release, RetentionPoints
<1> USE DEF disk, durable, env
<1>10. CASE Tick \/ StepClockBack \/ MonitorChanges \/ UNCHANGED vars
  BY <1>10, <1>4, <1>5 DEF Tick, StepClockBack, MonitorChanges, vars
<1>11. CASE StartCheck
  <2>1. SyncInv' /\ OperationInv'
    BY <1>11, <1>3
       DEF StartCheck, SyncInv, OperationInv, Idle, RetentionPoints
  <2> QED BY <1>11, <2>1, <1>4 DEF StartCheck
<1>12. CASE CheckDeduplicates
  <2>1. SyncInv' /\ OperationInv'
    BY <1>12, <1>3
       DEF CheckDeduplicates, SyncInv, OperationInv, LocalsSet,
           RetentionPoints
  <2> QED BY <1>12, <2>1, <1>4 DEF CheckDeduplicates
<1>13. CASE CheckPreparesEvent
  BY <1>13, <1>4, CheckPreparesKeeps DEF CheckPreparesEvent
<1>14. CASE CheckFailsClosed \/ RetentionFailsClosed \/ BudgetExhausted
  BY <1>14, <1>4, <1>6
     DEF CheckFailsClosed, RetentionFailsClosed, BudgetExhausted
<1>15. CASE WriteEventTemp
  <2>1. SyncInv' /\ OperationInv'
    BY <1>15, <1>3
       DEF WriteEventTemp, SyncInv, OperationInv, NewEvent, Fits, BuildEvent,
           Healthy, RetentionPoints
  <2> QED BY <1>15, <2>1, <1>4 DEF WriteEventTemp
<1>16. CASE ReplaceEvent
  <2>1. op.event.seq = cursor.next /\ op.event \notin events
    BY <1>16, <1>3
       DEF ReplaceEvent, OperationInv, NewEvent, Fits, BuildEvent
  <2>2. SyncInv' /\ OperationInv'
    BY <1>16, <2>1, <1>3
       DEF ReplaceEvent, SyncInv, OperationInv, RetentionPoints
  <2> QED BY <1>1, <1>16, <2>2, ReplaceEventDurable
<1>17. CASE SyncEvent \/ SyncPrune
  <2>1. /\ Possible' \subseteq Possible /\ Certain \subseteq Certain'
        /\ UNCHANGED <<acks, acksD, cursor, cursorD>>
    BY <1>17 DEF SyncEvent, SyncPrune, Possible, Certain
  <2>2. DurableInv'
    BY <1>1, <1>3, <2>1, DurableShrinks DEF PowerInv
  <2>3. CASE SyncEvent
    <3>1. op.event \in events
      BY <2>3, <1>3 DEF SyncEvent, SyncInv
    <3> QED BY <2>3, <3>1, <1>3, <2>2
            DEF SyncEvent, SyncInv, OperationInv, OldEvent, RetentionPoints
  <2>4. CASE SyncPrune
    BY <2>4, <1>3, <2>2
       DEF SyncPrune, SyncInv, OperationInv, NewEvent, OldEvent, Fits,
           BuildEvent, Healthy, RetentionPoints
  <2> QED BY <1>17, <2>3, <2>4
<1>18. CASE WriteCursor
  <2>1. OperationInv'
    BY <1>18 DEF WriteCursor, OperationInv, RetentionPoints
  <2> QED BY <1>1, <1>18, <2>1, WriteCursorDurable
<1>19. CASE SyncCursor
  <2>1. /\ Possible' = Possible /\ Certain' = Certain
        /\ UNCHANGED <<acks, acksD, cursor, events, eventsD>>
        /\ cursorD' = cursor /\ cursorD.next <= cursorD'.next
    BY <1>19, <1>3 DEF SyncCursor, Possible, Certain, SyncInv
  <2>2. DurableInv'
    BY <1>1, <1>3, <2>1, DurableShrinks DEF PowerInv
  <2>3. SyncInv' /\ OperationInv'
    BY <1>19, <1>3
       DEF SyncCursor, SyncInv, OperationInv, Release, RetentionPoints
  <2> QED BY <2>2, <2>3
<1>20. CASE StartRetention
  <2>1. SyncInv' /\ OperationInv'
    BY <1>20, <1>3
       DEF StartRetention, SyncInv, OperationInv, Idle, RetentionPoints
  <2> QED BY <1>20, <2>1, <1>4 DEF StartRetention
<1>21. CASE RemoveOrphanAck \/ SyncOrphan \/ PruneAck
  <2>1. SyncInv' /\ OperationInv'
    BY <1>21, <1>3
       DEF RemoveOrphanAck, SyncOrphan, PruneAck, SyncInv, OperationInv,
           NewEvent, OldEvent, Fits, BuildEvent, Healthy, RetentionPoints
  <2> QED BY <1>21, <2>1, <1>4 DEF RemoveOrphanAck, SyncOrphan, PruneAck
<1>22. CASE SyncPruneAck
  <2>1. op' = [op EXCEPT !.victim = None]
    BY <1>22 DEF SyncPruneAck
  <2>2. op'.name = op.name /\ op'.fresh = op.fresh /\ op'.event = op.event
    BY <1>3, <2>1 DEF Operation
  <2>3. SyncInv' /\ OperationInv'
    BY <1>22, <1>3, <2>2
       DEF SyncPruneAck, SyncInv, OperationInv, NewEvent, OldEvent, Fits,
           BuildEvent, Healthy, RetentionPoints
  <2> QED BY <1>22, <2>3, <1>4 DEF SyncPruneAck
<1>23. CASE OrphansDone
  <2>1. CASE pc' = "prune" /\ UNCHANGED op
    <3>1. SyncInv' /\ OperationInv'
      BY <1>23, <2>1, <1>3
         DEF OrphansDone, SyncInv, OperationInv, NewEvent, OldEvent, Fits,
             BuildEvent, Healthy, RetentionPoints
    <3> QED BY <1>23, <3>1, <1>4 DEF OrphansDone
  <2>2. CASE ~Pressure /\ AfterRetention
    BY <1>23, <2>2, <1>4, AfterRetentionKeeps DEF OrphansDone
  <2> QED BY <1>23, <2>1, <2>2 DEF OrphansDone
<1>24. CASE PruneDone
  BY <1>24, <1>4, AfterRetentionKeeps DEF PruneDone
<1>25. CASE PruneEvent
  BY <1>1, <1>25, PruneEventDurable
<1>26. CASE StartAcknowledge
  <2>1. PICK e \in events : op' = [Idle EXCEPT !.name = "ack", !.event = e]
    BY <1>26 DEF StartAcknowledge
  <2>2. op'.event = e
    BY <2>1 DEF Idle
  <2>3. SyncInv' /\ OperationInv'
    BY <1>26, <1>3, <2>2
       DEF StartAcknowledge, SyncInv, OperationInv, RetentionPoints
  <2> QED BY <1>26, <2>3, <1>4 DEF StartAcknowledge
<1>27. CASE ReplaceAck
  <2>1. SyncInv' /\ OperationInv'
    BY <1>27, <1>3
       DEF ReplaceAck, SyncInv, OperationInv, RetentionPoints
  <2> QED BY <1>1, <1>27, <2>1, ReplaceAckDurable
<1>28. CASE SyncAck
  BY <1>28, <1>4, <1>6 DEF SyncAck
<1>29. CASE Abort \/ KillLeavesTemp
  <2>1. pc \notin {"syncEvent", "syncPrune", "syncCursor"}
    BY <1>29 DEF Abort, KillLeavesTemp, SyncedFaults
  <2> QED BY <1>29, <2>1, <1>4, <1>6 DEF Abort, KillLeavesTemp
<1> QED
  BY <1>10, <1>11, <1>12, <1>13, <1>14, <1>15, <1>16, <1>17, <1>18, <1>19,
     <1>20, <1>21, <1>22, <1>23, <1>24, <1>25, <1>26, <1>27, <1>28, <1>29
  DEF Next, CheckStep, RetentionStep, AckStep

-----------------------------------------------------------------------------
(* Theorems.                                                                *)

(* The invariant holds on every disk that any number of losses of power, at
   any step, may leave.                                                     *)
THEOREM PowerInvariance ==
    ASSUME SyncedFaults PROVE PowerSpec => []PowerInv
<1>1. PowerInv /\ [PowerNext]_vars => PowerInv'
  BY PowerNextKeeps, PowerLossKeeps DEF PowerNext
<1> QED BY <1>1, PowerInit, PTL DEF PowerSpec

(* Whichever directory entries a loss of power takes, the next check accepts
   the events and the cursor that are left.                                 *)
THEOREM PowerLossLeavesAcceptable ==
    ASSUME SyncedFaults PROVE PowerSpec => []AcceptableAfterPowerLoss
<1>1. PowerInv => AcceptableAfterPowerLoss
  <2> SUFFICES ASSUME PowerInv, "outbox" \notin tmp
               PROVE  ValidatedEvents /\ SequenceConsistent(cursor)
    BY DEF AcceptableAfterPowerLoss, AcceptableToNextCheck
  <2>1. LinksInv /\ CursorFits(cursor) /\ events \subseteq Possible
        /\ events \subseteq Event
    BY DEF PowerInv, DurableInv, TypeInv, TypeOK, Possible
  <2>2. ValidatedEvents
    <3>1. ASSUME NEW e \in events, NEW f \in events, f.prev = e.seq
          PROVE  e.seq < f.seq /\ e.inc = f.inc
      <4>1. f.prev # None
        BY <2>1, <3>1, NoneAssumption DEF Event
      <4> QED BY <2>1, <3>1, <4>1 DEF LinksInv
    <3> QED BY <2>1, <3>1 DEF ValidatedEvents, LinksInv
  <2>3. SequenceConsistent(cursor)
    <3> SUFFICES ASSUME NEW e \in events
                 PROVE  /\ e.seq <= cursor.next
                        /\ e.seq = cursor.next =>
                              ReplayCompatible(cursor.active, e)
      BY DEF SequenceConsistent
    <3>1. /\ e.seq <= cursor.next
          /\ e.seq = cursor.next => Fits(e, cursor)
      BY <2>1 DEF CursorFits
    <3>2. e.kind \in TRANSITIONS
      BY <2>1 DEF Event
    <3> QED BY <3>1, <3>2 DEF Fits, BuildEvent, ReplayCompatible, TRANSITIONS
  <2> QED BY <2>2, <2>3
<1> QED BY <1>1, PowerInvariance, PTL

(* No event the cursor has passed is lost but by retention.                 *)
THEOREM CommittedEventsAreKept ==
    ASSUME SyncedFaults PROVE PowerSpec => []NoCommittedEventLost
<1>1. PowerInv => NoCommittedEventLost
  <2> SUFFICES ASSUME PowerInv PROVE NoCommittedEventLost
    OBVIOUS
  <2>1. IsFiniteSet(Possible) /\ events \subseteq Possible
        /\ Certain \subseteq events
    BY DEF PowerInv, DurableInv, BudgetInv, Possible, Certain
  <2>2. IsFiniteSet(events) /\ cursor \in Cursor
    BY <2>1, FS_Subset DEF PowerInv, TypeInv, TypeOK
  <2>3. Retained(cursor, events)
    BY <2>1, <2>2, RetainedGrows DEF PowerInv, DurableInv
  <2> QED BY <2>3 DEF Retained, Passed, NoCommittedEventLost
<1> QED BY <1>1, PowerInvariance, PTL

(* No acknowledgement meets an event other than its own.                    *)
THEOREM AcksAreOfTheirEvents ==
    ASSUME SyncedFaults PROVE PowerSpec => []AcksMatchEvents
<1>1. PowerInv => AcksMatchEvents
  BY DEF PowerInv, DurableInv, AckInv, Possible, AcksMatchEvents
<1> QED BY <1>1, PowerInvariance, PTL
=============================================================================
