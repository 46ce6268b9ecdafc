--------------------------- MODULE AlwaysOnMonitor ---------------------------
(***************************************************************************)
(* The P131 monitor (app/services/p131_always_on_monitor.py): one process, *)
(* kept alone by a file lease, that tails local JSONL files in cycles,     *)
(* checkpoints its state after each of them, writes a health report per    *)
(* report interval, and on a signal leaves a stopped checkpoint and a      *)
(* termination receipt.  A service manager starts it again whenever it     *)
(* ends.  The P131 watchdog looks at the checkpoint from outside.          *)
(*                                                                         *)
(* `mem' is the state dictionary of the running process, `disk' the        *)
(* checkpoint.  Every artifact is replaced by a rename, so a reader sees   *)
(* the old or the new one; temporary files that a kill leaves have names   *)
(* that nothing reads.  An exception ends the process (a bounded run too), *)
(* so errors of the writes are ends before or after the rename: Crash.     *)
(*                                                                         *)
(* Times are ages counted in ticks; an age is negative when the clock has  *)
(* been set back since.  They are capped at the first age that is past the *)
(* limit it is compared with however often the clock is still set back.    *)
(* A cycle takes less than a tick, and the clock is set between cycles;    *)
(* the pace of the cycles is on the monotonic clock.  A line that has no   *)
(* newline yet is not in `lines': the program leaves it where it is.  No   *)
(* two lines have the same bytes at the same place of the same file.  All  *)
(* lines and all reports have one size, so that each pair of budgets in    *)
(* records and in bytes is one number.  Counters that nothing reads back   *)
(* (duplicates, failures, rotations, missed ticks) are left out.           *)
(***************************************************************************)
EXTENDS Integers, Sequences, SequencesExt, FiniteSets

CONSTANTS
    None,           \* the code's None
    Sources,        \* the enabled sources
    Events,         \* event IDs that lines carry
    Kinds,          \* kinds of lines the sources hold
    MaxRecords,     \* config.max_records_per_cycle
    Window,         \* MAX_RECENT_OBSERVATION_HASHES
    PrefixLines,    \* how many lines the 4096-byte prefix holds
    FailureLimit,   \* config.max_consecutive_failures
    CanaryEvery,    \* config.canary_every_cycles
    Timeout,        \* heartbeat_timeout_seconds
    StaleAfter,     \* config.data_stale_after_seconds
    Skew,           \* MAX_FUTURE_CLOCK_SKEW_SECONDS
    MaxReports,     \* config.max_report_files
    StartLimit,     \* failed runs after which the service manager gives up
    AppendPoints,   \* bound: values of pc at which lines are appended, and
    TruncatePoints, \* at which a file is replaced or truncated in place
    MaxLines,       \* bound: lines ever written to the sources
    MaxRotations,   \* bound: replacements and truncations of source files
    MaxBucket,      \* bound: last report interval
    MaxBackSteps,   \* bound: ticks by which the wall clock is set back
    MaxStops,       \* bound: graceful stops
    MaxCrashes,     \* bound: kills and failed writes
    MaxReadErrors   \* bound: I/O errors inside a poll

ASSUME MonitorAssumption ==
    /\ \A n \in {MaxRecords, Window, PrefixLines, FailureLimit, CanaryEvery,
                 Timeout, StaleAfter, MaxReports, StartLimit} : n \in Nat \ {0}
    /\ \A n \in {Skew, MaxLines, MaxRotations, MaxBucket, MaxBackSteps,
                 MaxStops, MaxCrashes, MaxReadErrors} : n \in Nat
    /\ None \notin Int /\ None \notin Events
    /\ Kinds \subseteq {"valid", "invalid", "oversized"}
    /\ IsFiniteSet(Sources)

Line == [number : 1..MaxLines, kind : Kinds, event : Events \union {None}]
Observation == [source : Sources, event : Events \union {None},
                line : 1..MaxLines \union {None}]
Age == Int \union {None}
SourceHealth ==
    [cursor : 0..MaxLines, inode : Nat \union {None},
     prefix : Seq(1..MaxLines), failures : 0..FailureLimit,
     data : Age]
MonitorState ==
    [phase : {"starting", "running", "stopped"},
     status : {"starting", "ready", "degraded", "stopped"},
     stops : Nat, resumes : Nat, cycles : 0..(CanaryEvery - 1),
     canary : {"not_run", "passed", "failed"}, beat : Age,
     source : [Sources -> SourceHealth],
     accepted : Nat,             \* totals.accepted_observation_count
     seen : Seq(Observation),    \* all recent_observation_hashes there were
     bucket : 0..MaxBucket \union {None}]   \* last_report_bucket
PollState ==
    [source : Sources, inode : Nat, cursor : 0..MaxLines,
     seen : Seq(Observation), read : Nat, accepted : Nat, failed : BOOLEAN]
TerminationReceipt == [stops : Nat, resumes : Nat]

ASSUME NoneAssumption ==
    None \notin MonitorState \union PollState \union TerminationReceipt

VARIABLES
    files,     \* the file at each source's path
    written,   \* how many lines have been written
    rotations, \* how many files have been replaced or truncated
    bucket,    \* the current report interval
    backSteps, \* how often the clock has been set back by a tick
    pc,        \* where the process is
    mem,       \* its state dictionary
    todo,      \* sources it has still to poll in this cycle
    poll,      \* locals of the poll under way
    disk,      \* the checkpoint
    receipt,   \* the termination receipt
    reports,   \* the intervals whose reports are in report_dir
    crashes,   \* how many kills and failed writes there have been
    readErrors \* how many polls an I/O error has ended

environment == <<files, written, rotations, bucket, backSteps>>
process == <<pc, mem, todo, poll>>
artifacts == <<disk, receipt, reports>>
vars == <<environment, process, artifacts, crashes, readErrors>>

-----------------------------------------------------------------------------
(* What the state says.                                                     *)

InitialState ==
    [phase |-> "starting", status |-> "starting", stops |-> 0,
     resumes |-> 0, cycles |-> 0, canary |-> "not_run", beat |-> None,
     source |-> [s \in Sources |->
                    [cursor |-> 0, inode |-> None, prefix |-> <<>>,
                     failures |-> 0, data |-> None]],
     accepted |-> 0, seen |-> <<>>, bucket |-> None]

(* What load_monitor_state requires beyond the shape of the state.          *)
Valid(s) ==
    /\ (s.status = "stopped") <=> (s.phase = "stopped")
    /\ s.stops = 0 => s.phase # "stopped"

(* The state of a resumed run.                                              *)
Resumed(s) == [s EXCEPT !.resumes = @ + 1]

(* _status_from_state at the end of a cycle.                                *)
Ready(s) ==
    /\ s.canary = "passed"
    /\ \A src \in Sources :
          /\ s.source[src].failures < FailureLimit
          /\ s.source[src].data # None
          /\ s.source[src].data \in -Skew..StaleAfter

(* Variant: any heartbeat is a current one.                                 *)
VariantAgelessWatchdog(s) ==
    IF s = None THEN "state_missing"
    ELSE IF ~Valid(s) THEN "state_invalid"
    ELSE IF s.phase = "stopped" THEN "runtime_stopped"
    ELSE IF s.beat = None THEN "heartbeat_missing" ELSE "heartbeat_current"

evaluate_watchdog(s) ==
    IF s = None THEN "state_missing"
    ELSE IF ~Valid(s) THEN "state_invalid"
    ELSE IF s.phase = "stopped" THEN "runtime_stopped"
    ELSE IF s.beat = None THEN "heartbeat_missing"
    ELSE IF s.beat < -Skew THEN "heartbeat_in_future"
    ELSE IF s.beat <= Timeout THEN "heartbeat_current" ELSE "heartbeat_stale"

Healthy == evaluate_watchdog(disk) = "heartbeat_current"

(* The identity of the observation on a line of a source.                   *)
Identity(src, l) ==
    [source |-> src, event |-> l.event,
     line |-> IF l.event = None THEN l.number ELSE None]

(* Variant: the window is one short.                                        *)
VariantShortWindow(seen) ==
    {seen[i] : i \in {j \in DOMAIN seen : j > Len(seen) - Window + 1}}

(* Of the observations the model lists the program keeps the last `Window'. *)
Recent(seen) ==
    {seen[i] : i \in {j \in DOMAIN seen : j > Len(seen) - Window}}

Numbers(lines) == [i \in DOMAIN lines |-> lines[i].number]

Prefix(f) ==
    Numbers(SubSeq(f.lines, 1,
            IF Len(f.lines) < PrefixLines THEN Len(f.lines) ELSE PrefixLines))

(* A file other than the one the cursor belongs to.                         *)
Replaced(health, f) ==
    \/ health.inode \notin {None, f.inode}
    \/ Len(f.lines) < health.cursor
    \/ /\ health.inode = f.inode
       /\ ~IsPrefix(health.prefix, Numbers(f.lines))

(* The highest age that the clock can still bring back below the limit.     *)
Reversible(limit) == limit + (MaxBackSteps - backSteps)

(* An age after the wall clock has been moved by d ticks.                   *)
Older(age, limit, d) ==
    IF age = None THEN None
    ELSE IF age + d > Reversible(limit) THEN Reversible(limit) + 1
    ELSE age + d

AgedHealth(health, d) == [health EXCEPT !.data = Older(@, StaleAfter, d)]

Aged(s, d) ==
    IF s = None THEN None
    ELSE [s EXCEPT
            !.beat = Older(@, Timeout, d),
            !.source = [src \in Sources |-> AgedHealth(s.source[src], d)]]

-----------------------------------------------------------------------------
Init ==
    /\ files = [s \in Sources |-> [inode |-> 0, lines |-> <<>>]]
    /\ written = 0 /\ rotations = 0 /\ bucket = 0 /\ backSteps = 0
    /\ pc = "down" /\ mem = None /\ todo = {} /\ poll = None
    /\ disk = None /\ receipt = None /\ reports = {}
    /\ crashes = 0 /\ readErrors = 0

(* The service manager starts the process; it loads the checkpoint or makes
   a new state.  A checkpoint that is refused ends it at once.              *)
Start ==
    /\ pc = "down"
    /\ disk # None => Valid(disk)
    /\ mem' = IF disk = None THEN InitialState ELSE Resumed(disk)
    /\ pc' = "loop"
    /\ UNCHANGED <<environment, todo, poll, artifacts, crashes, readErrors>>

StartCycle ==
    /\ pc = "loop"
    /\ pc' = "cycle" /\ todo' = Sources
    /\ UNCHANGED <<environment, mem, poll, artifacts, crashes, readErrors>>

-----------------------------------------------------------------------------
(* _poll_local_jsonl: open, read line by line, store.                       *)

OpenSource(src) ==
    /\ pc = "cycle" /\ src \in todo
    /\ poll' = [source |-> src, inode |-> files[src].inode,
                cursor |-> IF Replaced(mem.source[src], files[src])
                           THEN 0 ELSE mem.source[src].cursor,
                seen |-> mem.seen, read |-> 0, accepted |-> 0,
                failed |-> FALSE]
    /\ pc' = "poll" /\ todo' = todo \ {src}
    /\ UNCHANGED <<environment, mem, artifacts, crashes, readErrors>>

(* The line is judged against the window the poll began with and what the
   poll has added since.                                                    *)
Suppressed(obs) ==
    \/ obs \in Recent(mem.seen)
    \/ \E i \in DOMAIN poll.seen : i > Len(mem.seen) /\ poll.seen[i] = obs

(* Variant: the budget is tested after the line has been taken.             *)
VariantLateBudget == poll.read <= MaxRecords

WithinCycleBudget == poll.read < MaxRecords

NextLine == files[poll.source].lines[poll.cursor + 1]

HasNextLine == poll.cursor < Len(files[poll.source].lines)

ReadLine ==
    /\ pc = "poll" /\ HasNextLine
    /\ NextLine.kind # "oversized" /\ WithinCycleBudget
    /\ LET obs == Identity(poll.source, NextLine)
           new == NextLine.kind = "valid" /\ ~Suppressed(obs)
       IN  poll' = [poll EXCEPT
                !.cursor = @ + 1, !.read = @ + 1,
                !.failed = @ \/ NextLine.kind = "invalid",
                !.seen = IF new THEN Append(@, obs) ELSE @,
                !.accepted = IF new THEN @ + 1 ELSE @]
    /\ UNCHANGED <<environment, pc, mem, todo, artifacts, crashes, readErrors>>

OversizedNext == HasNextLine /\ NextLine.kind = "oversized"

(* consecutive_failures, as far as failure_limit tells it apart.            *)
MoreFailures(n) == IF n < FailureLimit THEN n + 1 ELSE n

EndPoll ==
    /\ pc = "poll"
    /\ ~HasNextLine \/ OversizedNext \/ ~WithinCycleBudget
    /\ LET failed == poll.failed \/ OversizedNext
           src == poll.source
       IN  mem' = [mem EXCEPT
             !.seen = poll.seen,
             !.accepted = @ + poll.accepted,
             !.source[src] =
               [cursor |-> poll.cursor, inode |-> poll.inode,
                prefix |-> Prefix(files[src]),
                failures |-> IF failed THEN MoreFailures(@.failures) ELSE 0,
                data |-> IF poll.accepted > 0 THEN 0 ELSE @.data]]
    /\ pc' = "cycle" /\ poll' = None
    /\ UNCHANGED <<environment, todo, artifacts, crashes, readErrors>>

(* Variant: the cursor is kept although the hashes are not.                 *)
VariantKeepCursor ==
    /\ pc = "poll" /\ readErrors < MaxReadErrors
    /\ mem' = [mem EXCEPT
            !.accepted = @ + poll.accepted,
            !.source[poll.source].cursor = poll.cursor,
            !.source[poll.source].inode = poll.inode,
            !.source[poll.source].prefix = Prefix(files[poll.source]),
            !.source[poll.source].failures = MoreFailures(@)]
    /\ readErrors' = readErrors + 1
    /\ pc' = "cycle" /\ poll' = None
    /\ UNCHANGED <<environment, todo, artifacts, crashes>>

(* An OSError of any call in the poll: what was accepted so far is counted
   and nothing else of it is kept.                                          *)
PollFails ==
    /\ pc = "poll" /\ readErrors < MaxReadErrors
    /\ mem' = [mem EXCEPT
            !.accepted = @ + poll.accepted,
            !.source[poll.source].failures = MoreFailures(@)]
    /\ readErrors' = readErrors + 1
    /\ pc' = "cycle" /\ poll' = None
    /\ UNCHANGED <<environment, todo, artifacts, crashes>>

-----------------------------------------------------------------------------
(* The rest of a cycle, its checkpoint and its report.                      *)

Cycled(s, probe) ==
    LET cycles == (s.cycles + 1) % CanaryEvery
    IN  [s EXCEPT !.cycles = cycles, !.beat = 0, !.phase = "running",
                  !.canary = IF @ = "not_run" \/ cycles = 0
                             THEN probe ELSE @]

(* Variant: the phase of the run before is kept.                            *)
VariantKeepPhase(probe) ==
    /\ pc = "cycle" /\ todo = {}
    /\ LET s == [Cycled(mem, probe) EXCEPT !.phase = mem.phase]
       IN  mem' = [s EXCEPT !.status =
                    IF Ready(s) THEN "ready" ELSE "degraded"]
    /\ pc' = "persist"
    /\ UNCHANGED <<environment, todo, poll, artifacts, crashes, readErrors>>

(* Variant: readiness is what it was when the canary ran last.              *)
VariantStickyStatus(probe) ==
    /\ pc = "cycle" /\ todo = {}
    /\ LET s == Cycled(mem, probe)
       IN  mem' = [s EXCEPT !.status =
                    IF Ready(s) \/ @ = "ready" THEN "ready" ELSE "degraded"]
    /\ pc' = "persist"
    /\ UNCHANGED <<environment, todo, poll, artifacts, crashes, readErrors>>

FinishCycle(probe) ==
    /\ pc = "cycle" /\ todo = {}
    /\ LET s == Cycled(mem, probe)
       IN  mem' = [s EXCEPT !.status =
                    IF Ready(s) THEN "ready" ELSE "degraded"]
    /\ pc' = "persist"
    /\ UNCHANGED <<environment, todo, poll, artifacts, crashes, readErrors>>

Persist ==
    /\ pc = "persist"
    /\ disk' = mem
    /\ pc' = "report"
    /\ UNCHANGED <<environment, mem, todo, poll, receipt, reports, crashes,
                   readErrors>>

ReportDue == mem.bucket # bucket

(* _prepare_report_capacity, for the report of this interval or for none.   *)
Retained == IF ReportDue THEN reports \ {bucket} ELSE reports

OverBudget == Cardinality(Retained) + (IF ReportDue THEN 1 ELSE 0) > MaxReports

ReportNotDue ==
    /\ pc = "report" /\ ~ReportDue /\ ~OverBudget
    /\ pc' = "loop"
    /\ UNCHANGED <<environment, mem, todo, poll, artifacts, crashes,
                   readErrors>>

(* Variant: the newest report goes first.                                   *)
VariantPruneNewest ==
    /\ pc = "report" /\ OverBudget
    /\ \E b \in Retained :
          /\ \A c \in Retained : c <= b
          /\ reports' = reports \ {b}
    /\ UNCHANGED <<environment, process, disk, receipt, crashes, readErrors>>

PruneReport ==
    /\ pc = "report" /\ OverBudget
    /\ \E b \in Retained :
          /\ \A c \in Retained : b <= c
          /\ reports' = reports \ {b}
    /\ UNCHANGED <<environment, process, disk, receipt, crashes, readErrors>>

WriteReport ==
    /\ pc = "report" /\ ReportDue /\ ~OverBudget
    /\ reports' = reports \union {bucket}
    /\ mem' = [mem EXCEPT !.bucket = bucket]
    /\ pc' = "persistReport"
    /\ UNCHANGED <<environment, todo, poll, disk, receipt, crashes,
                   readErrors>>

PersistReport ==
    /\ pc = "persistReport"
    /\ disk' = mem
    /\ pc' = "loop"
    /\ UNCHANGED <<environment, mem, todo, poll, receipt, reports, crashes,
                   readErrors>>

-----------------------------------------------------------------------------
(* _graceful_stop: state first, receipt second.                             *)

(* Variant: a stop is recorded as one more heartbeat.                       *)
VariantStopBeats(s) == [s EXCEPT !.stops = @ + 1, !.beat = 0]

Stopped(s) ==
    [s EXCEPT !.phase = "stopped", !.status = "stopped", !.stops = @ + 1]

GracefulStop ==
    /\ pc = "loop" /\ mem.stops < MaxStops
    /\ mem' = Stopped(mem)
    /\ pc' = "persistStop"
    /\ UNCHANGED <<environment, todo, poll, artifacts, crashes, readErrors>>

(* Variant: the receipt is written first.                                   *)
VariantReceiptFirst ==
    /\ pc = "persistStop"
    /\ receipt' = [stops |-> mem.stops, resumes |-> mem.resumes]
    /\ pc' = "receipt"
    /\ UNCHANGED <<environment, mem, todo, poll, disk, reports, crashes,
                   readErrors>>

PersistStop ==
    /\ pc = "persistStop"
    /\ disk' = mem
    /\ pc' = "receipt"
    /\ UNCHANGED <<environment, mem, todo, poll, receipt, reports, crashes,
                   readErrors>>

WriteReceipt ==
    /\ pc = "receipt"
    /\ receipt' = [stops |-> mem.stops, resumes |-> mem.resumes]
    /\ pc' = "down" /\ mem' = None
    /\ UNCHANGED <<environment, todo, poll, disk, reports, crashes,
                   readErrors>>

Ended == {"down", "failed"}

(* A kill, a failed write or the end of a bounded run.                      *)
Crash ==
    /\ pc \notin Ended /\ crashes < MaxCrashes
    /\ crashes' = crashes + 1
    /\ pc' = "down" /\ mem' = None /\ todo' = {} /\ poll' = None
    /\ UNCHANGED <<environment, artifacts, readErrors>>

(* Runs that fail in quick succession exhaust the start limit of the unit;
   the unit then stays failed.                                              *)
GiveUp ==
    /\ pc = "down" /\ crashes >= StartLimit
    /\ pc' = "failed"
    /\ UNCHANGED <<environment, mem, todo, poll, artifacts, crashes,
                   readErrors>>

-----------------------------------------------------------------------------
(* The world around: collectors append, rotate and truncate; time passes.   *)

WriteLine(src, kind, event) ==
    /\ written < MaxLines /\ pc \in AppendPoints
    /\ written' = written + 1
    /\ files' = [files EXCEPT ![src].lines =
            Append(@, [number |-> written + 1, kind |-> kind,
                       event |-> event])]
    /\ UNCHANGED <<rotations, bucket, backSteps, process, artifacts, crashes,
                   readErrors>>

Replace(src, inode) ==
    /\ rotations < MaxRotations /\ pc \in TruncatePoints
    /\ rotations' = rotations + 1
    /\ files' = [files EXCEPT ![src] = [inode |-> inode, lines |-> <<>>]]
    /\ UNCHANGED <<written, bucket, backSteps, process, artifacts, crashes,
                   readErrors>>

(* The open handle of a poll stays with the old file, so a new file that
   comes during a poll takes its place when the poll is over.               *)
Rotate(src) == pc # "poll" /\ Replace(src, files[src].inode + 1)

Truncate(src) ==
    /\ files[src].lines # <<>>
    /\ Replace(src, files[src].inode)

Tick ==
    /\ pc \in Ended \union {"loop"}
    /\ mem' = Aged(mem, 1) /\ disk' = Aged(disk, 1)
    /\ UNCHANGED <<environment, pc, todo, poll, receipt, reports, crashes,
                   readErrors>>

(* The wall clock is set back, perhaps into the interval before.            *)
StepBack ==
    /\ pc \in Ended \union {"loop"} /\ backSteps < MaxBackSteps
    /\ backSteps' = backSteps + 1
    /\ bucket' \in {bucket, bucket - 1} \intersect Nat
    /\ mem' = Aged(mem, -1) /\ disk' = Aged(disk, -1)
    /\ UNCHANGED <<files, written, rotations, pc, todo, poll, receipt, reports,
                   crashes, readErrors>>

NextInterval ==
    /\ pc \in Ended \union {"loop"} /\ bucket < MaxBucket
    /\ bucket' = bucket + 1
    /\ UNCHANGED <<files, written, rotations, backSteps, process, artifacts,
                   crashes, readErrors>>

-----------------------------------------------------------------------------
CycleStep ==
    \/ StartCycle
    \/ \E s \in Sources : OpenSource(s)
    \/ ReadLine
    \/ EndPoll
    \/ \E probe \in {"passed", "failed"} : FinishCycle(probe)
    \/ Persist
    \/ ReportNotDue \/ PruneReport \/ WriteReport \/ PersistReport

StopStep == PersistStop \/ WriteReceipt

Environment ==
    \/ \E s \in Sources, k \in Kinds, e \in Events \union {None} :
            WriteLine(s, k, e)
    \/ \E s \in Sources : Rotate(s) \/ Truncate(s)
    \/ NextInterval

Next ==
    \/ Start \/ CycleStep \/ GracefulStop \/ StopStep
    \/ PollFails \/ Crash \/ GiveUp
    \/ Environment \/ Tick \/ StepBack

Spec == Init /\ [][Next]_vars

(* The service manager restarts the process (Restart=always), a running
   process makes progress, time passes.  Faults, signals and what the
   collectors do are not assumed to happen.                                 *)
FairSpec ==
    Spec /\ WF_vars(Start) /\ WF_vars(CycleStep) /\ WF_vars(StopStep)
         /\ WF_vars(Tick)

-----------------------------------------------------------------------------
Points == {"down", "failed", "loop", "cycle", "poll", "persist", "report",
           "persistReport", "persistStop", "receipt"}

TypeOK ==
    /\ files \in [Sources -> [inode : Nat, lines : Seq(Line)]]
    /\ written \in 0..MaxLines /\ rotations \in 0..MaxRotations
    /\ bucket \in 0..MaxBucket /\ backSteps \in 0..MaxBackSteps
    /\ pc \in Points
    /\ mem \in MonitorState \union {None} /\ (mem = None <=> pc \in Ended)
    /\ todo \subseteq Sources
    /\ poll \in PollState \union {None} /\ (poll # None <=> pc = "poll")
    /\ disk \in MonitorState \union {None}
    /\ receipt \in TerminationReceipt \union {None}
    /\ reports \subseteq 0..MaxBucket
    /\ crashes \in 0..MaxCrashes /\ readErrors \in 0..MaxReadErrors

(* Restart and rotation lose nothing that is still there: every valid line
   before the checkpointed cursor of the file it belongs to is among the
   observations the same checkpoint has accepted.  An I/O error inside a
   poll, a crash, a replaced or truncated file may fall anywhere.           *)
NothingSkipped ==
    disk # None =>
      \A src \in Sources :
        LET health == disk.source[src]
            f == files[src]
        IN  ~Replaced(health, f) =>
              \A i \in 1..health.cursor :
                f.lines[i].kind = "valid" =>
                  Identity(src, f.lines[i]) \in Range(disk.seen)

(* The replay of a rotated file: an observation is accepted a second time
   only after `Window' others.                                              *)
SuppressedWithinWindow ==
    disk # None =>
      \A i, j \in DOMAIN disk.seen :
        i < j /\ disk.seen[i] = disk.seen[j] => j - i > Window

(* The price of an I/O error in a poll: the lines of that poll are counted
   again by the next one, so each such error inflates the total by at most
   one cycle's budget; restarts and rotations add nothing.                  *)
RecountBounded ==
    disk # None =>
      /\ disk.accepted >= Len(disk.seen)
      /\ disk.accepted - Len(disk.seen) <= readErrors * MaxRecords

(* Whatever order stops, crashes and restarts come in, the checkpoint they
   leave is one load_monitor_state accepts, so a restart is never refused.  *)
CheckpointAccepted == disk # None => Valid(disk)

(* The receipt is never ahead of the checkpoint it binds, and the receipt of
   the last stop is of the run that the stopped checkpoint describes.       *)
ReceiptBindsCheckpoint ==
    receipt # None =>
      /\ disk # None /\ receipt.stops <= disk.stops
      /\ disk.phase = "stopped" /\ receipt.stops = disk.stops =>
            receipt.resumes = disk.resumes

(* An interval that the checkpoint calls reported has a report no older than
   it, although reports are pruned and either write may be the last; and the
   directory never exceeds its budget.                                      *)
ReportedHasReport ==
    /\ Cardinality(reports) <= MaxReports
    /\ MaxReports > 1 /\ disk # None /\ disk.bucket # None =>
          \E b \in reports : b >= disk.bucket

ByACycle == pc = "persist" /\ mem.beat = 0

ByTime ==
    /\ evaluate_watchdog(disk) = "heartbeat_in_future"
    /\ disk' = Aged(disk, 1)

ByTheClockSetBack ==
    /\ evaluate_watchdog(disk) = "heartbeat_stale"
    /\ backSteps' > backSteps /\ disk' = Aged(disk, -1)

(* The watchdog's answer turns healthy only when a running process has
   completed a cycle and writes its checkpoint, or by the wall clock: when it
   catches up with a heartbeat that it had been set back behind, or when it
   is set back to where an old heartbeat was still a current one.  A restart,
   a stop or a new report never revives it.                                 *)
OnlyACycleRevives ==
    [][~Healthy /\ Healthy' => ByACycle \/ ByTime \/ ByTheClockSetBack]_vars

(* A monitor that stays up is seen as healthy again and again, also when the
   checkpoint it found on its start said "stopped".                         *)
RunningIsSeen == <>[](pc \notin Ended) => []<>Healthy

(* A monitor that is not started any more is noticed for good.              *)
DeathIsSeen == pc = "failed" ~> []~Healthy

AtEnd(src) ==
    /\ disk.source[src].cursor = Len(files[src].lines)
    /\ ~Replaced(disk.source[src], files[src])

(* A monitor that stays up reads its sources to the end, within the budget
   of each cycle; a source that an oversized line has stopped for good keeps
   it from calling itself ready.                                            *)
StuckIsReported ==
    <>[](pc \notin Ended) =>
        <>[](/\ disk # None
             /\ \A src \in Sources : AtEnd(src) \/ disk.status = "degraded")
=============================================================================
