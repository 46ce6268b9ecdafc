--------------------------- MODULE IncidentJournal ---------------------------
(***************************************************************************)
(* What the dead-man outbox promises its readers, files and crashes left   *)
(* out: one journal that only grows, in which every incident is opened     *)
(* once, then updated when the watchdog's answer changes or repeated after *)
(* the reminder interval, and closed by at most one recovery, after which  *)
(* the next incident may open.                                             *)
(***************************************************************************)
EXTENDS Integers, Sequences

CONSTANTS
    Snapshots,          \* answers of the watchdog
    HealthySnapshots,   \* those that say the monitor is alive
    Times,              \* instants an entry may be stamped with
    MinimumGap          \* least time between an entry and its reminder

VARIABLE journal

Entries == [kind : {"opened", "updated", "reminder", "recovered"},
            incident : Nat, snap : Snapshots, at : Times]

LastEntry == journal[Len(journal)]

(* The incident that is open, if any, is the one of the last entry.         *)
IncidentOpen == journal # <<>> /\ LastEntry.kind # "recovered"

Record(kind, incident, s, t) ==
    journal' = Append(journal, [kind |-> kind, incident |-> incident,
                                snap |-> s, at |-> t])

Open(s, t) ==
    /\ ~IncidentOpen
    /\ s \notin HealthySnapshots
    /\ Record("opened", Len(journal) + 1, s, t)

Update(s, t) ==
    /\ IncidentOpen
    /\ s \notin HealthySnapshots
    /\ s # LastEntry.snap
    /\ Record("updated", LastEntry.incident, s, t)

Remind(s, t) ==
    /\ IncidentOpen
    /\ s = LastEntry.snap
    /\ t - LastEntry.at >= MinimumGap
    /\ Record("reminder", LastEntry.incident, s, t)

Recover(s, t) ==
    /\ IncidentOpen
    /\ s \in HealthySnapshots
    /\ Record("recovered", LastEntry.incident, s, t)

Init == journal = <<>>

Next == \E s \in Snapshots, t \in Times :
            Open(s, t) \/ Update(s, t) \/ Remind(s, t) \/ Recover(s, t)

Spec == Init /\ [][Next]_journal
=============================================================================
